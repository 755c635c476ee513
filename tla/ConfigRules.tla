----------------------------- MODULE ConfigRules -----------------------------
(***************************************************************************)
(* Which trees are a configuration: the tables of RuleRegistry, the rules  *)
(* that SemanticAnalyzer applies to every node, and Validator.             *)
(***************************************************************************)
EXTENDS ConfigParser, Selections

\* The context at the top of the file, and the names that nodes may have.
RootName == <<Word("root")>>
Name(w)  == <<Word(w)>>
Names(S) == {Name(w) : w \in S}

ServerSettings   == Names({"server_name", "listen", "host", "client_max_body_size", "location"})
SharedSettings   == Names({"root", "index", "error_page", "autoindex"})
LocationSettings == Names({"allow_methods", "return", "cgi_path", "cgi_ext", "upload_path"})

\* _registerContextRuleServices
AllowedContexts(name) ==
  CASE name = Name("server")      -> {RootName}
    [] name \in ServerSettings    -> {Name("server")}
    [] name \in SharedSettings    -> Names({"server", "location"})
    [] name \in LocationSettings  -> {Name("location")}
    [] OTHER                      -> {}

\* _registerCardinalityRules: -1 is no bound.
Required == Names({"server_name", "listen", "client_max_body_size"})
Repeated == Names({"location", "error_page"})
Counted  == ServerSettings \cup SharedSettings \cup LocationSettings

\* Fault: a setting may come more than once.
FaultNoMaximum(name) == [min |-> IF name \in Required THEN 1 ELSE 0, max |-> -1]

Bounds(name) ==
  [min |-> IF name \in Required THEN 1 ELSE 0,
   max |-> IF name \in Repeated THEN -1 ELSE 1]

\* _registerConflictRules; _registerDependencyRules registers nothing.
Conflicts(name)    == IF name = Name("root") THEN {Name("alias")} ELSE {}
Requirements(name) == {}

-----------------------------------------------------------------------------
(* The tree.                                                               *)

Children(p) == {n \in DOMAIN nodes : nodes[n].parent = p}
Named(p, name) == {n \in Children(p) : nodes[n].name = name}
ChildNames(p) == {nodes[n].name : n \in Children(p)}

IsDirective(n) == nodes[n].kind = "directive"
IsBlock(n)     == nodes[n].kind = "block"

\* The context that a node's children are in: a block's own name, and "root".
ContextName(p) == IF p = Root THEN RootName ELSE nodes[p].name

-----------------------------------------------------------------------------
(* The values.                                                             *)

IsNumber(v) == Len(v) = 1 /\ v[1] \in NumberSymbols
NumberOf(v) == v[1][2]

Ports == 1..65535

IsValidPort(v) == IsNumber(v) /\ NumberOf(v) \in Ports

\* Four numbers with dots between them, and the dot that getline does not see.
IsValidIpv4(v) ==
  /\ Len(v) \in {7, 8}
  /\ \A i \in DOMAIN v :
       IF i % 2 = 0 THEN v[i] = Dot ELSE v[i] \in NumberSymbols /\ v[i][2] <= 255

IsPathLike(v)     == v # <<>>
IsLocationPath(v) == v # <<>> /\ v[1] = Slash

IsValidServerName(v) == v # <<>> /\ ToSet(v) \subseteq WordChars \cup {Dot, Dash}

SizeUnits == [k |-> {Word("k"), Word("K")}, m |-> {Word("m"), Word("M")},
             g |-> {Word("g"), Word("G")}]

IsValidBodySize(v) ==
  \/ IsNumber(v)
  \/ /\ Len(v) = 2
     /\ v[1] \in NumberSymbols
     /\ v[2] \in SizeUnits.k \cup SizeUnits.m \cup SizeUnits.g

IsValidStatusCode(v) == IsNumber(v) /\ NumberOf(v) \in 300..599

Methods == {"GET", "POST", "DELETE", "PUT", "HEAD"}

IsValidCgiExtension(v) ==
  Len(v) >= 2 /\ v[1] = Dot /\ \A i \in 2..Len(v) : v[i] \in WordChars

One(values, IsValid(_)) == Len(values) = 1 /\ IsValid(values[1])
AtLeastOne(values, IsValid(_)) == values # <<>> /\ \A i \in DOMAIN values : IsValid(values[i])

\* ValueRuleService: what a directive's values have to be.
ValuesAreValid(name, values) ==
  CASE name = Name("listen")      -> One(values, IsValidPort)
    [] name = Name("host")        -> One(values, LAMBDA v : v = Name("localhost") \/ IsValidIpv4(v))
    [] name = Name("server_name") -> One(values, IsValidServerName)
    [] name = Name("client_max_body_size") -> One(values, IsValidBodySize)
    [] name \in Names({"root", "index", "upload_path"}) -> One(values, IsPathLike)
    [] name = Name("error_page") ->
         /\ Len(values) >= 2
         /\ \A i \in 1..(Len(values) - 1) : IsValidStatusCode(values[i])
         /\ IsPathLike(Last(values))
    [] name = Name("allow_methods") -> AtLeastOne(values, LAMBDA v : v \in Names(Methods))
    [] name = Name("autoindex")     -> One(values, LAMBDA v : v \in Names({"on", "off"}))
    [] name = Name("return") ->
         /\ Len(values) \in {1, 2}
         /\ Len(values) = 2 => IsValidStatusCode(values[1])
         /\ IsPathLike(Last(values))
    [] name = Name("cgi_path") -> AtLeastOne(values, IsPathLike)
    [] name = Name("cgi_ext")  -> AtLeastOne(values, IsValidCgiExtension)
    [] OTHER -> TRUE

-----------------------------------------------------------------------------
(* The rules: what they allow at a node, or at the root.                   *)

ContextRule(n) == ContextName(nodes[n].parent) \in AllowedContexts(nodes[n].name)

\* Blocks count like directives.
CardinalityRule(p) ==
  \A name \in Counted :
    ContextName(p) \in AllowedContexts(name) =>
      LET count == Cardinality(Named(p, name))
      IN /\ count >= Bounds(name).min
         /\ Bounds(name).max >= 0 => count <= Bounds(name).max

ConflictRule(p)   == \A name \in ChildNames(p) : Conflicts(name) \cap ChildNames(p) = {}
DependencyRule(p) == \A name \in ChildNames(p) : Requirements(name) \subseteq ChildNames(p)

\* Of the blocks only a location has its parameters looked at.
ValueRule(n) ==
  IF IsDirective(n) THEN ValuesAreValid(nodes[n].name, nodes[n].values)
  ELSE nodes[n].name = Name("location") => One(nodes[n].values, IsLocationPath)

\* Validator.validate: no rule has an objection to any node.
IsValidTree ==
  /\ \A n \in DOMAIN nodes : ContextRule(n) /\ ValueRule(n)
  /\ \A p \in {Root} \cup {n \in DOMAIN nodes : IsBlock(n)} :
       CardinalityRule(p) /\ ConflictRule(p) /\ DependencyRule(p)
=============================================================================
