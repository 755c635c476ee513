---------------------------- MODULE ConfigBuilder ----------------------------
(***************************************************************************)
(* What the server runs with: the ServerBlocks and LocationBlocks that     *)
(* ConfigBuilder makes of a valid tree.                                    *)
(***************************************************************************)
EXTENDS ConfigRules

CONSTANTS
  Kilo,      \* 1024
  SizeRange  \* size_t counts modulo this

ASSUME SizeAssumption ==
  /\ Kilo \in Nat \ {0}
  /\ SizeRange \in Nat \ {0}
  /\ SizeRange % (Kilo * Kilo) = 0

DefaultPort == 80
DefaultCode == 302

\* The children of block b with a name.
DirectivesOf(b, name) == {n \in Named(b, name) : IsDirective(n)}
BlocksOf(b, name)     == {n \in Named(b, name) : IsBlock(n)}

\* _directive: the first value of the first directive that has one.
Directive(b, name) ==
  LET found == {n \in DirectivesOf(b, name) : nodes[n].values # <<>>}
  IN IF found = {} THEN <<>> ELSE nodes[Min(found)].values[1]

\* _directiveArgs: the values of the first directive.
DirectiveArgs(b, name) ==
  LET found == DirectivesOf(b, name)
  IN IF found = {} THEN <<>> ELSE nodes[Min(found)].values

\* strtoul stops at what is no digit, and saturates.
Digits(v) ==
  IF v = <<>> \/ v[1] \notin NumberSymbols THEN 0
  ELSE IF v[1][2] < SizeRange THEN v[1][2] ELSE SizeRange - 1

\* _parseSize: the product wraps around, and "g" is no unit.
ParseSize(v) ==
  LET unit == CASE Len(v) > 1 /\ v[2] \in SizeUnits.m -> Kilo * Kilo
                [] Len(v) > 1 /\ v[2] \in SizeUnits.k -> Kilo
                [] OTHER -> 1
  IN (Digits(v) * unit) % SizeRange

\* The error_page directives: of the values only the first two count, and of the
\* directives with the same code the last one.
ErrorPages(b) ==
  LET pages == {n \in DirectivesOf(b, Name("error_page")) : Len(nodes[n].values) >= 2}
      CodeOf(n) == NumberOf(nodes[n].values[1])
  IN [code \in {CodeOf(n) : n \in pages} |->
        nodes[CHOOSE n \in pages : CodeOf(n) = code /\ \A m \in pages : CodeOf(m) = code => m <= n].values[2]]

\* Fault: any status code is taken for a redirect.
FaultRedirectCode(args) ==
  IF Len(args) > 1 /\ IsNumber(args[1]) THEN NumberOf(args[1]) ELSE DefaultCode

\* A code that is no redirect is left at the default.
RedirectCode(args) ==
  IF Len(args) > 1 /\ IsNumber(args[1]) /\ NumberOf(args[1]) \in 300..399
  THEN NumberOf(args[1]) ELSE DefaultCode

\* _buildLocation
BuildLocation(b) ==
  LET return == DirectiveArgs(b, Name("return"))
  IN [path           |-> IF nodes[b].values = <<>> THEN <<>> ELSE nodes[b].values[1],
      root           |-> Directive(b, Name("root")),
      autoindex      |-> Directive(b, Name("autoindex")) = Name("on"),
      allowedMethods |-> ToSet(DirectiveArgs(b, Name("allow_methods"))),
      redirectUri    |-> CASE Len(return) = 0 -> <<>>
                           [] Len(return) = 1 -> return[1]
                           [] OTHER -> return[2],
      redirectCode   |-> RedirectCode(return),
      errorPages     |-> ErrorPages(b)]

\* _buildServer: the host is the server_name, whatever the host directive says.
BuildServer(b) ==
  LET port == Directive(b, Name("listen"))
      locations == InOrder(BlocksOf(b, Name("location")))
  IN [port       |-> IF port = <<>> THEN DefaultPort ELSE NumberOf(port),
      host       |-> Directive(b, Name("server_name")),
      serverName |-> Directive(b, Name("server_name")),
      root       |-> Directive(b, Name("root")),
      index      |-> DirectiveArgs(b, Name("index")),
      clientMaxBodySize |-> ParseSize(Directive(b, Name("client_max_body_size"))),
      errorPages |-> ErrorPages(b),
      locations  |-> [k \in DOMAIN locations |-> BuildLocation(locations[k])]]

\* build: the server blocks of the root.  A block http, which the rules do not let
\* through, is left out.  Without a server block build returns NULL.
Build == LET found == InOrder(BlocksOf(Root, Name("server"))) IN [k \in DOMAIN found |-> BuildServer(found[k])]
=============================================================================
