------------------------------ MODULE MCStartup ------------------------------
(* Startup with three families of files: all short texts over the symbols    *)
(* that the lexer tells apart, all short sequences of the tokens that the    *)
(* parser tells apart, and variations of a configuration that is well formed.*)
EXTENDS Startup

MCWords ==
  {"a", "b", "k", "m", "g", "on", "www", "localhost", "alias", "GET", "POST",
   "server", "server_name", "listen", "host", "client_max_body_size", "location",
   "root", "index", "error_page", "autoindex", "allow_methods", "return",
   "cgi_path", "cgi_ext", "upload_path"}
MCNumbers == {0, 1, 3, 2, 20, 80, 81, 127, 200, 256, 301, 404, 500, 65536}

\* The sizes are small, so that products overflow.
MCKilo == 2
MCSizeRange == 32

A == Word("a")

\* Neither a word nor a number ends where another one begins.
Canonical(s) ==
  \A i \in 1..(Len(s) - 1) :
    /\ s[i] \in WordSymbols => s[i + 1] \notin WordChars
    /\ s[i] \in NumberSymbols => s[i + 1] \notin NumberSymbols

Texts(alphabet, n) == UNION {[1..m -> alphabet] : m \in 0..n}

LexerTexts ==
  {s \in Texts({A, Number(1), Blank, NewLine, Hash, Quote, Semicolon, Dot, Dash, OtherChar}, 4) :
     Canonical(s)}

Spaced(s) == [i \in 1..(2 * Len(s)) |-> IF i % 2 = 0 THEN Blank ELSE s[(i + 1) \div 2]]
ParserTexts ==
  {Spaced(s) : s \in Texts({A, Opening, Closing, Semicolon}, 6)
                      \cup Texts({A, Number(1), Opening, Closing, Semicolon}, 4)}

-----------------------------------------------------------------------------
(* Configurations.                                                         *)

Values(values) == FlattenSeq([k \in DOMAIN values |-> <<Blank>> \o values[k]])
Set(w, values) == <<Word(w)>> \o Values(values) \o <<Semicolon, NewLine>>
Block(w, values, body) == <<Word(w)>> \o Values(values) \o <<Opening, NewLine>> \o body \o <<Closing, NewLine>>

W(w) == <<Word(w)>>
N(n) == <<Number(n)>>
Path(w) == <<Slash, Word(w)>>
Top == <<Slash>>
Ip(n) == <<Number(127), Dot, Number(0), Dot, Number(0), Dot, Number(n)>>
Anywhere == <<Number(0), Dot, Number(0), Dot, Number(0), Dot, Number(0)>>
Empty == <<Quote, Quote>>

Server(listen, name, size, body) ==
  Block("server", <<>>, listen \o name \o size \o body)

Listens ==
  {Set("listen", <<N(80)>>), Set("listen", <<N(0)>>), Set("listen", <<N(65536)>>), <<>>,
   Set("listen", <<N(80)>>) \o Set("listen", <<N(81)>>), Set("listen", <<N(80), N(81)>>),
   Block("listen", <<N(81)>>, <<>>)}
ServerNames ==
  {Set("server_name", <<v>>) : v \in {Ip(1), Ip(0), Ip(256), Ip(1) \o <<Dot>>, W("localhost"),
                                      <<A, Dash, Word("b")>>}} \cup {<<>>}
Sizes ==
  {Set("client_max_body_size", <<v>>) : v \in {N(0), N(3), N(20), <<Number(2), Word("k")>>,
     <<Number(20), Word("k")>>, <<Number(1), Word("m")>>, <<Number(3), Word("g")>>, W("k")}}
  \cup {<<>>, Set("client_max_body_size", <<N(3)>>) \o Set("client_max_body_size", <<N(2)>>)}

Listen80 == Set("listen", <<N(80)>>)
Local    == Set("server_name", <<Ip(1)>>)
Size     == Set("client_max_body_size", <<<<Number(2), Word("k")>>>>)

SharedExtras ==
  {Set("root", <<<<Dot, Slash, Word("www"), Slash>>>>), Set("root", <<Top>>), Set("index", <<W("a")>>),
   Set("autoindex", <<W("on")>>), Set("autoindex", <<>>),
   Set("error_page", <<N(404), Path("a")>>), Set("error_page", <<N(404), Path("b")>>),
   Set("error_page", <<N(404), N(500), Path("a")>>), Set("error_page", <<N(200), Path("a")>>)}

LocationExtras ==
  SharedExtras \cup
  {Set("allow_methods", <<W("GET"), W("POST")>>), Set("allow_methods", <<W("a")>>),
   Set("return", <<Path("a")>>), Set("return", <<N(301), Path("a")>>), Set("return", <<N(404), Path("a")>>),
   Set("cgi_path", <<Path("a")>>), Set("cgi_ext", <<<<Dot, A>>>>), Set("upload_path", <<Empty>>),
   Block("location", <<Path("b")>>, <<>>)}

ServerExtras ==
  SharedExtras \cup
  {Set("host", <<W("localhost")>>), Set("host", <<Ip(1) \o <<Dot>>>>), Set("host", <<Anywhere>>), Set("alias", <<W("a")>>),
   Set("return", <<Path("a")>>), Set("location", <<Path("a")>>),
   Block("location", <<Top>>, <<>>), Block("location", <<W("a")>>, <<>>), Block("location", <<>>, <<>>),
   Block("location", <<Path("a")>>, Set("return", <<N(301), Path("b")>>)),
   Block("root", <<>>, Server(Listen80, Local, Size, <<>>))}

Pairs(S) == {<<>>} \cup {s \o t : s, t \in S}

Configurations ==
  {Server(l, n, Size, <<>>) : l \in Listens, n \in ServerNames}
  \cup {Server(Listen80, Local, s, <<>>) : s \in Sizes}
  \cup {Server(Listen80, Local, Size, e) : e \in Pairs(ServerExtras)}
  \cup {Server(Listen80, Local, Size, Block("location", <<Top>>, e)) : e \in Pairs(LocationExtras)}
  \cup {Server(Listen80, Local, Size, <<>>) \o Server(l, n, Size, <<>>) : l \in Listens, n \in ServerNames}
  \cup {Set("server", <<>>), Block("a", <<>>, <<>>), Set("listen", <<N(80)>>)}

MCFiles ==
  {[kind |-> "regular", text |-> s] : s \in LexerTexts \cup ParserTexts \cup Configurations}
  \cup {[kind |-> k, text |-> <<>>] : k \in FileKinds}

Localhost == <<127, 0, 0, 1>>
MCLocalAddresses == {Localhost}
MCOthersSockets == {{}, {[address |-> AnyAddress, port |-> 80]}}
=============================================================================
