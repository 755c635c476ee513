------------------------------- MODULE Startup -------------------------------
(***************************************************************************)
(* From the name of a configuration file to a server that listens: main,   *)
(* BuildServerConfig, CompileSourceFile, FileValidator, the constructor of *)
(* Server and ServerSocket.  EventLoop goes on from "running".             *)
(***************************************************************************)
EXTENDS ConfigBuilder

CONSTANTS
  Files,           \* what the argument may name: a kind and a text
  LocalAddresses,  \* the addresses of this machine
  OthersSockets    \* the sets of sockets that other programs may hold

FileKinds == {"missing", "special", "binary", "unreadable", "regular"}

ASSUME FilesAssumption ==
  Files \subseteq [kind : FileKinds, text : Seq(Symbols)]

VARIABLES
  file,       \* the file that argv[1] names
  phase,      \* what the program is doing, or how it ended
  servers,    \* HttpBlock::servers
  listeners   \* _serverSockets

startupVars == <<file, servers, listeners>>
vars == <<lexerVars, parserVars, phase, startupVars>>

Ended == {"running", "rejected", "crashed"}
Phases == {"load", "lex", "parse", "validate", "build", "listen"} \cup Ended

NoAddress  == <<"none">>
AnyAddress == <<0, 0, 0, 0>>

TypeOK ==
  /\ file \in [kind : FileKinds, text : Seq(Symbols)] /\ phase \in Phases
  /\ LexerTypeOK /\ ParserTypeOK
  /\ Len(listeners) <= Len(servers)

-----------------------------------------------------------------------------
(* Sockets.                                                                *)

\* inet_addr for four numbers with dots between them.
InetAddr(host) ==
  IF Len(host) = 7 /\ IsValidIpv4(host) THEN <<host[1][2], host[3][2], host[5][2], host[7][2]>>
                                        ELSE NoAddress

\* The address of a server: an empty host is 0.0.0.0.
Address(host) == IF host = <<>> THEN AnyAddress ELSE InetAddr(host)

SocketOf(server) == [address |-> Address(server.host), port |-> server.port]

\* Two sockets that cannot listen at the same time.
Clash(s, t) ==
  s.port = t.port /\ (s.address = t.address \/ AnyAddress \in {s.address, t.address})

\* Fault: a socket that is in use is given out again.
FaultCanBind(socket, others) == socket.address \in LocalAddresses \cup {AnyAddress}

CanBind(socket, others) ==
  /\ socket.address \in LocalAddresses \cup {AnyAddress}
  /\ \A other \in others \cup ToSet(listeners) : ~Clash(socket, other)

-----------------------------------------------------------------------------
Init ==
  /\ file \in Files
  /\ LexerStart(<<>>)
  /\ ParserStart
  /\ phase = "load"
  /\ servers = <<>> /\ listeners = <<>>

\* readFile: every line gets its line end, the last one, too.
WithLineEnd(s) == IF s = <<>> \/ Last(s) = NewLine THEN s ELSE Append(s, NewLine)

\* loadSourceFile
Load ==
  /\ phase = "load"
  /\ IF file.kind = "regular"
     THEN phase' = "lex" /\ text' = WithLineEnd(file.text)
     ELSE phase' = "rejected" /\ UNCHANGED text
  /\ UNCHANGED <<pos, tokens, failed, parserVars, startupVars>>

Tokenize ==
  /\ phase = "lex"
  /\ \/ ScanToken /\ UNCHANGED phase
     \/ EndOfText /\ phase' = IF failed THEN "rejected" ELSE "parse"
  /\ UNCHANGED <<parserVars, startupVars>>

Parse ==
  /\ phase = "parse"
  /\ \/ ParseStep /\ UNCHANGED phase
     \/ /\ Parsed
        /\ phase' = IF failed THEN "rejected" ELSE "validate"
        /\ UNCHANGED <<parserVars, failed>>
  /\ UNCHANGED <<text, pos, tokens, startupVars>>

Validate ==
  /\ phase = "validate"
  /\ phase' = IF IsValidTree THEN "build" ELSE "rejected"
  /\ UNCHANGED <<lexerVars, parserVars, startupVars>>

\* main reads the result of build without a look at NULL.
BuildConfig ==
  /\ phase = "build"
  /\ servers' = Build
  /\ phase' = IF Build = <<>> THEN "crashed" ELSE "listen"
  /\ UNCHANGED <<lexerVars, parserVars, file, listeners>>

\* One turn of the loop of Server::Server: a port out of range throws, an address
\* that inet_addr does not know makes the socket invalid.
OpenListener ==
  /\ phase = "listen"
  /\ Len(listeners) < Len(servers)
  /\ \E others \in OthersSockets :
       LET server == servers[Len(listeners) + 1]
       IN IF server.port \in Ports /\ CanBind(SocketOf(server), others)
          THEN /\ listeners' = Append(listeners, SocketOf(server))
               /\ UNCHANGED phase
          ELSE listeners' = <<>> /\ phase' = "rejected"
  /\ UNCHANGED <<lexerVars, parserVars, file, servers>>

\* The system has no socket to give, or refuses fcntl, setsockopt or listen.
SocketFails ==
  /\ phase = "listen"
  /\ Len(listeners) < Len(servers)
  /\ listeners' = <<>>
  /\ phase' = "rejected"
  /\ UNCHANGED <<lexerVars, parserVars, file, servers>>

Run ==
  /\ phase = "listen"
  /\ Len(listeners) = Len(servers)
  /\ phase' = "running"
  /\ UNCHANGED <<lexerVars, parserVars, startupVars>>

Program ==
  \/ Load \/ Tokenize \/ Parse \/ Validate \/ BuildConfig
  \/ OpenListener \/ Run

Next == Program \/ SocketFails

Spec == Init /\ [][Next]_vars

\* The program runs on as long as it can.
LiveSpec == Spec /\ WF_vars(Program)

-----------------------------------------------------------------------------
(* The text and its tokens.                                                *)

\* The symbols that token k stands for; the quotes belong to their string.
Extent(k) ==
  IF tokens[k].type = "STRING"
  THEN (tokens[k].at - 1)..(tokens[k].at + Len(tokens[k].value))
  ELSE tokens[k].at..(tokens[k].at + Len(tokens[k].value) - 1)

InTokens == UNION {Extent(k) : k \in DOMAIN tokens}

\* What belongs to no token is white space or a comment up to the end of its line,
\* and no symbol is in two tokens.
TokensAreText ==
  /\ \A i \in DOMAIN text \ InTokens :
       \/ text[i] \in Whitespace
       \/ \E h \in 1..i : /\ text[h] = Hash
                          /\ \A k \in h..i : k \notin InTokens /\ text[k] # NewLine
  /\ \A k \in 1..(Len(tokens) - 1) : Extent(k) \cap Extent(k + 1) = {}

-----------------------------------------------------------------------------
(* The tokens and their tree.                                              *)

Braces(type, i) == Cardinality({k \in 1..i : tokens[k].type = type})
Depth(i) == Braces("LBRACE", i) - Braces("RBRACE", i)

Ending == {"SEMICOLON", "LBRACE", "RBRACE"}
BeginsStatement(i) == i = 1 \/ tokens[i - 1].type \in Ending

\* The grammar, told by what stands beside what and by how deep it is.
IsSentence ==
  /\ tokens # <<>>
  /\ \A i \in DOMAIN tokens :
       /\ Depth(i) >= 0
       /\ IF BeginsStatement(i)
          THEN tokens[i].type \in {"WORD", "EOF_TOKEN"}
                 \/ (tokens[i].type = "RBRACE" /\ i > 1)
          ELSE tokens[i].type \in ValueTypes \cup {"SEMICOLON", "LBRACE"}
  /\ Depth(Len(tokens)) = 0

\* The parser takes the sentences of the grammar and nothing else, in whichever
\* way it recovers from the errors it meets.
OnlyTheGrammar ==
  /\ phase = "validate" => IsSentence
  /\ phase = "parse" /\ failed => ~IsSentence

\* The tree of a text is the text: nothing of it is skipped or read twice, and there
\* is a statement for each ";" and "{", with its name, its values, and the innermost
\* block that is open where it begins.
TreeIsText ==
  /\ phase \in {"parse", "validate"} => TokensAreText
  /\ phase = "validate" =>
       /\ Len(nodes) = Cardinality({i \in DOMAIN tokens : tokens[i].type \in {"SEMICOLON", "LBRACE"}})
       /\ \A n \in DOMAIN nodes :
            LET i == nodes[n].at
                j == i + Len(nodes[n].values) + 1
                p == nodes[n].parent
            IN /\ BeginsStatement(i)
               /\ nodes[n].name = tokens[i].value
               /\ \A k \in DOMAIN nodes[n].values : nodes[n].values[k] = tokens[i + k].value
               /\ tokens[j].type = IF IsBlock(n) THEN "LBRACE" ELSE "SEMICOLON"
               /\ n > 1 => nodes[n - 1].at < i
               /\ IF p = Root THEN Depth(i - 1) = 0
                  ELSE LET b == nodes[p].at + Len(nodes[p].values) + 1
                       IN b < i /\ \A k \in b..(i - 1) : Depth(k) >= Depth(b) /\ Depth(i - 1) = Depth(b)

-----------------------------------------------------------------------------
(* The tree and the configuration.                                         *)

\* The k-th server block of the file.
ServerBlocks == InOrder({n \in Children(Root) : IsBlock(n)})

\* What ConfigBuilder asks neither kind of block for, though the rules accept it.
UnreadOfServer   == Names({"host", "autoindex", "location"})
UnreadOfLocation == Names({"index", "cgi_path", "cgi_ext", "upload_path"})

\* What client_max_body_size means: digits with optional k/m/g suffix.
WrittenUnit(v) ==
  CASE Len(v) = 1 -> 1
    [] Len(v) = 2 /\ v[2] \in SizeUnits.k -> Kilo
    [] Len(v) = 2 /\ v[2] \in SizeUnits.m -> Kilo * Kilo
    [] OTHER -> Kilo * Kilo * Kilo

\* An error_page directive with one code whose code no later one names first.
PageIsWritten(record, d) ==
  LET v == nodes[d].values
      overridden == \E e \in Named(nodes[d].parent, Name("error_page")) :
                      e > d /\ IsDirective(e) /\ nodes[e].values[1] = v[1]
  IN Len(v) = 2 /\ ~overridden => record.errorPages[NumberOf(v[1])] = v[2]

LocationIsWritten(location, d) ==
  LET v == nodes[d].values
      name == nodes[d].name
  IN CASE name = Name("root")          -> v = <<location.root>>
       [] name = Name("autoindex")     -> location.autoindex <=> v = <<Name("on")>>
       [] name = Name("allow_methods") -> location.allowedMethods = ToSet(v)
       [] name = Name("return") ->
            /\ Last(v) = location.redirectUri
            /\ Len(v) = 2 /\ NumberOf(v[1]) < 400 => NumberOf(v[1]) = location.redirectCode
       [] name = Name("error_page") -> PageIsWritten(location, d)
       [] OTHER -> name \in UnreadOfLocation

ServerIsWritten(server, d) ==
  LET v == nodes[d].values
      name == nodes[d].name
      fits == /\ Last(v[1]) \notin SizeUnits.g
              /\ NumberOf(v[1]) * WrittenUnit(v[1]) < SizeRange
  IN CASE name = Name("listen")      -> v = <<<<Number(server.port)>>>>
       [] name = Name("server_name") -> v = <<server.serverName>>
       [] name = Name("root")        -> v = <<server.root>>
       [] name = Name("index")       -> v = server.index
       [] name = Name("client_max_body_size") ->
            fits => server.clientMaxBodySize = NumberOf(v[1]) * WrittenUnit(v[1])
       [] name = Name("error_page") -> PageIsWritten(server, d)
       [] OTHER -> name \in UnreadOfServer

\* What the builder makes of an accepted file is what the directives say that it
\* reads: it looks at the first directive of a name, which is right because the rules
\* let no second one through.  Eleven settings are compared; the directives that the
\* rules accept and the builder passes over are the ones of UnreadOfServer and of
\* UnreadOfLocation.  Of what is compared these values are left out: sizes that
\* size_t cannot hold or that end in g (see SizesAreMeant), pages with several codes
\* (see PagesAreMeant), and codes of return that are no redirect.
SettingsAreWritten ==
  servers # <<>> =>
    /\ Len(servers) = Len(ServerBlocks)
    /\ \A k \in DOMAIN servers :
         LET b == ServerBlocks[k]
             locations == InOrder({n \in Named(b, Name("location")) : IsBlock(n)})
         IN /\ \A d \in Children(b) : IsDirective(d) => ServerIsWritten(servers[k], d)
            /\ Len(servers[k].locations) = Len(locations)
            /\ \A l \in DOMAIN locations :
                 LET location == servers[k].locations[l]
                 IN /\ nodes[locations[l]].values = <<location.path>>
                    /\ \A d \in Children(locations[l]) :
                         IsDirective(d) => LocationIsWritten(location, d)

\* What the rest of the program takes for granted of a configuration: a port that
\* Port does not throw for, paths of locations that begin with "/", redirect codes
\* that are redirects, and pages for error codes only.
BuiltIsUsable ==
  \A k \in DOMAIN servers :
    /\ servers[k].port \in Ports
    /\ DOMAIN servers[k].errorPages \subseteq 300..599
    /\ \A l \in DOMAIN servers[k].locations :
         LET location == servers[k].locations[l]
         IN /\ location.path # <<>> /\ location.path[1] = Slash
            /\ location.redirectCode \in 300..399
            /\ location.allowedMethods \subseteq Names(Methods)
            /\ DOMAIN location.errorPages \subseteq 300..599

\* A server that runs listens for every server block at the top of its file, at the
\* address of the block's server_name, and no two of its sockets clash.
RunningIsConfigured ==
  phase = "running" =>
    /\ Len(listeners) = Len(ServerBlocks)
    /\ \A k \in DOMAIN listeners :
         /\ \A d \in Named(ServerBlocks[k], Name("listen")) :
              IsDirective(d) => nodes[d].values = <<<<Number(listeners[k].port)>>>>
         /\ \A d \in Named(ServerBlocks[k], Name("server_name")) :
              IsDirective(d) => InetAddr(nodes[d].values[1]) = listeners[k].address
         /\ \A j \in 1..(k - 1) : ~Clash(listeners[j], listeners[k])

-----------------------------------------------------------------------------
(* What the messages of ValueRuleService and the docs promise.  TLC        *)
(* refutes each of the three; the README says more.                        *)

\* A size with one of the units that the rules accept, and that size_t can hold, is
\* that many of those units.
SizesAreMeant ==
  servers # <<>> =>
    \A k \in DOMAIN servers :
      \A d \in DirectivesOf(ServerBlocks[k], Name("client_max_body_size")) :
        LET v == nodes[d].values[1]
        IN NumberOf(v) * WrittenUnit(v) < SizeRange =>
             servers[k].clientMaxBodySize = NumberOf(v) * WrittenUnit(v)

\* Every code of an error_page directive gets the page that the directive ends with,
\* or the page of another directive that names the code, too.
PagesAreMeant ==
  servers # <<>> =>
    \A k \in DOMAIN servers :
      LET pages == DirectivesOf(ServerBlocks[k], Name("error_page"))
      IN \A d \in pages : \A i \in 1..(Len(nodes[d].values) - 1) :
           LET code == nodes[d].values[i]
           IN /\ NumberOf(code) \in DOMAIN servers[k].errorPages
              /\ \E e \in pages : /\ code \in ToSet(Front(nodes[e].values))
                                 /\ servers[k].errorPages[NumberOf(code)] = Last(nodes[e].values)

\* A server that runs listens at the interface that the host directive names.
HostIsListened ==
  phase = "running" =>
    \A k \in DOMAIN listeners : \A d \in DirectivesOf(ServerBlocks[k], Name("host")) :
      LET host == nodes[d].values[1]
      IN host # Name("localhost") => InetAddr(host) = listeners[k].address

-----------------------------------------------------------------------------
\* A file with a token in it is judged: the server runs, or says no.  The program
\* dies only of a file that has no server block.
FilesAreJudged ==
  <>(\/ phase \in {"running", "rejected"}
     \/ phase = "parse" /\ tokens = <<>>
     \/ phase = "crashed" /\ ServerBlocks = <<>>)
=============================================================================
