---------------------------- MODULE StartupProofs ----------------------------
(* What TLAPS proves of Startup about configurations and sockets.            *)
EXTENDS TextProofs

-----------------------------------------------------------------------------
(* Names.                                                                  *)

LEMMA NamesDiffer == \A v, w : Name(v) = Name(w) <=> v = w
BY DEF Name, Word

LEMMA NamesAre == \A S, w : Name(w) \in Names(S) <=> w \in S
BY NamesDiffer, Zenon DEF Names

\* Only server blocks are at the top of a file.
LEMMA RootContext == \A name : RootName \in AllowedContexts(name) => name = Name("server")
<1>1. RootName = Name("root")
  BY DEF RootName, Name
<1>2. /\ Name("root") # Name("server") /\ Name("root") \notin Names({"server", "location"})
      /\ Name("root") # Name("location")
  BY NamesDiffer, NamesAre
<1>3. QED
  BY <1>1, <1>2 DEF AllowedContexts

ServerOnce == {"server_name", "listen", "client_max_body_size", "root", "index"}
LocationOnce == {"root", "autoindex", "allow_methods", "return"}

\* The settings that the builder reads once in a block may come only once there.
LEMMA OnceAre ==
  /\ \A w \in ServerOnce \cup LocationOnce : Name(w) \in Counted /\ Name(w) \notin Repeated
  /\ \A w \in ServerOnce : Name("server") \in AllowedContexts(Name(w))
  /\ \A w \in LocationOnce : Name("location") \in AllowedContexts(Name(w))
<1>1. \A w \in ServerOnce \cup LocationOnce : Name(w) \in Counted /\ Name(w) \notin Repeated
  BY NamesAre DEF ServerOnce, LocationOnce, Counted, Repeated, ServerSettings, SharedSettings, LocationSettings
<1>2. \A w \in {"server_name", "listen", "client_max_body_size"} : AllowedContexts(Name(w)) = {Name("server")}
  BY NamesDiffer, NamesAre DEF AllowedContexts, ServerSettings, SharedSettings, LocationSettings
<1>3. \A w \in {"root", "index", "autoindex"} : AllowedContexts(Name(w)) = Names({"server", "location"})
  BY NamesDiffer, NamesAre DEF AllowedContexts, ServerSettings, SharedSettings, LocationSettings
<1>4. \A w \in {"allow_methods", "return"} : AllowedContexts(Name(w)) = {Name("location")}
  BY NamesDiffer, NamesAre DEF AllowedContexts, ServerSettings, SharedSettings, LocationSettings
<1>5. Name("server") \in Names({"server", "location"}) /\ Name("location") \in Names({"server", "location"})
  BY NamesAre
<1>6. QED
  BY <1>1, <1>2, <1>3, <1>4, <1>5 DEF ServerOnce, LocationOnce

-----------------------------------------------------------------------------
(* The rules and the blocks.                                               *)

LEMMA ChildrenAre ==
  ASSUME nodes \in Seq(Nodes), NEW b, NEW name
  PROVE  /\ Named(b, name) \subseteq DOMAIN nodes /\ Named(b, name) \subseteq 0..Len(nodes)
         /\ IsFiniteSet(Named(b, name)) /\ Cardinality(Named(b, name)) \in Nat
<1>1. Len(nodes) \in Nat /\ DOMAIN nodes = 1..Len(nodes)
  OBVIOUS
<1>2. Named(b, name) \subseteq 1..Len(nodes)
  BY <1>1 DEF Named, Children
<1>3. Named(b, name) \subseteq 0..Len(nodes)
  BY <1>1, <1>2
<1>4. QED
  BY <1>1, <1>2, <1>3, BelowIsFinite

LEMMA OneAtMost ==
  ASSUME NEW T, IsFiniteSet(T), Cardinality(T) <= 1, NEW d \in T, NEW e \in T
  PROVE  d = e
<1> SUFFICES ASSUME d # e PROVE FALSE
  OBVIOUS
<1>1. Cardinality(T) \in Nat
  BY FS_CardinalityType
<1>2. {d} \in SUBSET T /\ {d} # T
  OBVIOUS
<1>3. Cardinality({d}) = 1
  BY FS_Singleton
<1>4. Cardinality({d}) <= Cardinality(T) /\ Cardinality(T) # Cardinality({d})
  BY <1>2, FS_Subset
<1>5. QED
  BY <1>1, <1>3, <1>4

\* What a block has of a setting that comes once.
LEMMA SettingComesOnce ==
  ASSUME nodes \in Seq(Nodes), IsValidTree, NEW b \in DOMAIN nodes, IsBlock(b), NEW w,
         \/ nodes[b].name = Name("server") /\ w \in ServerOnce
         \/ nodes[b].name = Name("location") /\ w \in LocationOnce
  PROVE  \A d, e \in Named(b, Name(w)) : d = e
<1>1. b # Root
  <2>1. DOMAIN nodes = 1..Len(nodes) /\ Len(nodes) \in Nat
    OBVIOUS
  <2>2. QED
    BY <2>1 DEF Root
<1>2. ContextName(b) = nodes[b].name
  BY <1>1 DEF ContextName
<1>3. CardinalityRule(b)
  BY DEF IsValidTree
<1>4. Name(w) \in Counted /\ ContextName(b) \in AllowedContexts(Name(w)) /\ Name(w) \notin Repeated
  BY <1>2, OnceAre
<1>5. Bounds(Name(w)).max = 1
  BY <1>4 DEF Bounds
<1>6. Cardinality(Named(b, Name(w))) <= 1
  BY <1>3, <1>4, <1>5 DEF CardinalityRule
<1>7. QED
  BY <1>6, ChildrenAre, OneAtMost

\* Then the first one is the only one.
LEMMA SettingIs ==
  ASSUME nodes \in Seq(Nodes), NEW b, NEW name, \A d, e \in Named(b, name) : d = e,
         NEW d \in Named(b, name), IsDirective(d)
  PROVE  /\ DirectiveArgs(b, name) = nodes[d].values
         /\ nodes[d].values # <<>> => Directive(b, name) = nodes[d].values[1]
<1>1. DirectivesOf(b, name) = {d}
  BY DEF DirectivesOf
<1>2. d \in Int
  <2>1. DOMAIN nodes = 1..Len(nodes) /\ Named(b, name) \subseteq DOMAIN nodes
    BY ChildrenAre
  <2>2. QED
    BY <2>1
<1>3. Min({d}) = d
  BY <1>2 DEF Min
<1>4. DirectiveArgs(b, name) = nodes[d].values
  BY <1>1, <1>3 DEF DirectiveArgs
<1>5. ASSUME nodes[d].values # <<>> PROVE Directive(b, name) = nodes[d].values[1]
  <2>1. {n \in DirectivesOf(b, name) : nodes[n].values # <<>>} = {d}
    BY <1>1, <1>5
  <2>2. QED
    BY <1>3, <2>1 DEF Directive
<1>6. QED
  BY <1>4, <1>5

\* Without an "only one": what is read is what some directive says, or nothing.
LEMMA SettingIsRead ==
  ASSUME nodes \in Seq(Nodes), NEW b, NEW name
  PROVE  /\ \/ DirectiveArgs(b, name) = <<>>
            \/ \E d \in Named(b, name) : IsDirective(d) /\ DirectiveArgs(b, name) = nodes[d].values
         /\ \/ Directive(b, name) = <<>>
            \/ \E d \in Named(b, name) :
                 IsDirective(d) /\ nodes[d].values # <<>> /\ Directive(b, name) = nodes[d].values[1]
<1>1. \A T : T \subseteq Named(b, name) /\ T # {} => Min(T) \in T
  <2>1. SUFFICES ASSUME NEW T, T \subseteq Named(b, name), T # {} PROVE Min(T) \in T
    OBVIOUS
  <2>2. T \subseteq Nat
    <3>1. DOMAIN nodes = 1..Len(nodes) /\ Len(nodes) \in Nat /\ Named(b, name) \subseteq DOMAIN nodes
      BY ChildrenAre
    <3>2. QED
      BY <2>1, <3>1
  <2>3. \E m \in T : \A j \in T : m <= j
    BY <2>1, <2>2, LeastExists
  <2>4. QED
    BY <2>3 DEF Min
<1> DEFINE all == DirectivesOf(b, name)
           found == {n \in all : nodes[n].values # <<>>}
<1>2. all \subseteq Named(b, name) /\ found \subseteq Named(b, name) /\ \A n \in all : IsDirective(n)
  BY DEF DirectivesOf
<1>3. /\ DirectiveArgs(b, name) = IF all = {} THEN <<>> ELSE nodes[Min(all)].values
      /\ Directive(b, name) = IF found = {} THEN <<>> ELSE nodes[Min(found)].values[1]
  BY DEF DirectiveArgs, Directive
<1> HIDE DEF all
<1>4. CASE all = {}
  BY <1>3, <1>4
<1>5. CASE all # {}
  <2>1. Min(all) \in all
    BY <1>1, <1>2, <1>5
  <2>2. found # {} => Min(found) \in found
    BY <1>1, <1>2
  <2>3. QED
    BY <1>2, <1>3, <1>5, <2>1, <2>2
<1>6. QED
  BY <1>4, <1>5

-----------------------------------------------------------------------------
(* The values of a valid tree.                                             *)

LEMMA NodesAre ==
  ASSUME nodes \in Seq(Nodes)
  PROVE  \A n \in DOMAIN nodes : /\ nodes[n].values \in Seq(Seq(Symbols)) /\ nodes[n].parent \in Nat
                                 /\ nodes[n].kind \in {"block", "directive"}
<1>1. \A n \in DOMAIN nodes : nodes[n] \in Nodes
  OBVIOUS
<1>2. \A node \in Nodes : /\ node.values \in Seq(Seq(Symbols)) /\ node.parent \in Nat
                          /\ node.kind \in {"block", "directive"}
  BY DEF Nodes
<1>3. QED
  BY <1>1, <1>2

\* What the rules say, name by name.
LEMMA RulesAre ==
  ASSUME NEW v
  PROVE  /\ ValuesAreValid(Name("listen"), v) => Len(v) = 1 /\ IsValidPort(v[1])
         /\ ValuesAreValid(Name("server_name"), v) => Len(v) = 1 /\ IsValidServerName(v[1])
         /\ ValuesAreValid(Name("client_max_body_size"), v) => Len(v) = 1 /\ IsValidBodySize(v[1])
         /\ ValuesAreValid(Name("root"), v) => Len(v) = 1 /\ v[1] # <<>>
         /\ ValuesAreValid(Name("error_page"), v) =>
              Len(v) >= 2 /\ \A i \in 1..(Len(v) - 1) : IsValidStatusCode(v[i])
         /\ ValuesAreValid(Name("allow_methods"), v) => \A i \in DOMAIN v : v[i] \in Names(Methods)
         /\ ValuesAreValid(Name("autoindex"), v) => Len(v) = 1
         /\ ValuesAreValid(Name("return"), v) => Len(v) \in {1, 2} /\ (Len(v) = 2 => IsValidStatusCode(v[1]))
<1>1. ValuesAreValid(Name("listen"), v) => Len(v) = 1 /\ IsValidPort(v[1])
  BY DEF ValuesAreValid, Name, Word, Names, One
<1>2. ValuesAreValid(Name("server_name"), v) => Len(v) = 1 /\ IsValidServerName(v[1])
  BY DEF ValuesAreValid, Name, Word, Names, One
<1>3. ValuesAreValid(Name("client_max_body_size"), v) => Len(v) = 1 /\ IsValidBodySize(v[1])
  BY DEF ValuesAreValid, Name, Word, Names, One
<1>4. ValuesAreValid(Name("root"), v) => Len(v) = 1 /\ v[1] # <<>>
  BY DEF ValuesAreValid, Name, Word, Names, One, IsPathLike
<1>5. ValuesAreValid(Name("error_page"), v) =>
        Len(v) >= 2 /\ \A i \in 1..(Len(v) - 1) : IsValidStatusCode(v[i])
  BY DEF ValuesAreValid, Name, Word, Names
<1>6. ValuesAreValid(Name("allow_methods"), v) => \A i \in DOMAIN v : v[i] \in Names(Methods)
  BY DEF ValuesAreValid, Name, Word, Names, AtLeastOne
<1>7. ValuesAreValid(Name("autoindex"), v) => Len(v) = 1
  BY DEF ValuesAreValid, Name, Word, Names, One
<1>8. ValuesAreValid(Name("return"), v) => Len(v) \in {1, 2} /\ (Len(v) = 2 => IsValidStatusCode(v[1]))
  BY DEF ValuesAreValid, Name, Word, Names
<1>9. QED
  BY <1>1, <1>2, <1>3, <1>4, <1>5, <1>6, <1>7, <1>8

\* The rules hold for the directives of a valid tree.
LEMMA DirectiveIsValid ==
  ASSUME IsValidTree, NEW d \in DOMAIN nodes, IsDirective(d)
  PROVE  ValuesAreValid(nodes[d].name, nodes[d].values)
BY DEF IsValidTree, ValueRule

LEMMA SingleIs ==
  ASSUME NEW S, NEW v \in Seq(S), Len(v) = 1
  PROVE  v = <<v[1]>> /\ v # <<>> /\ v[1] \in S
OBVIOUS

LEMMA NumberIs ==
  ASSUME NEW v \in Seq(Symbols), IsNumber(v)
  PROVE  NumberOf(v) \in Numbers /\ v = <<Number(NumberOf(v))>> /\ v # <<>>
<1>1. v = <<v[1]>> /\ v # <<>>
  BY SingleIs DEF IsNumber
<1>2. PICK n \in Numbers : v[1] = Number(n)
  BY DEF IsNumber, NumberSymbols
<1>3. NumberOf(v) = n
  BY <1>2 DEF NumberOf, Number
<1>4. QED
  BY <1>1, <1>2, <1>3

LEMMA ListenIs ==
  ASSUME nodes \in Seq(Nodes), IsValidTree, NEW d \in DOMAIN nodes, IsDirective(d),
         nodes[d].name = Name("listen")
  PROVE  LET v == nodes[d].values
         IN v # <<>> /\ v[1] # <<>> /\ NumberOf(v[1]) \in Ports /\ v = <<<<Number(NumberOf(v[1]))>>>>
<1> DEFINE v == nodes[d].values
<1>1. v \in Seq(Seq(Symbols))
  BY NodesAre
<1>2. Len(v) = 1 /\ IsValidPort(v[1])
  BY DirectiveIsValid, RulesAre
<1> HIDE DEF v
<1>3. v = <<v[1]>> /\ v # <<>> /\ v[1] \in Seq(Symbols)
  BY <1>1, <1>2, SingleIs
<1>4. IsNumber(v[1]) /\ NumberOf(v[1]) \in Ports
  BY <1>2 DEF IsValidPort
<1>5. v[1] = <<Number(NumberOf(v[1]))>> /\ v[1] # <<>>
  BY <1>3, <1>4, NumberIs
<1>6. v # <<>> /\ v[1] # <<>> /\ NumberOf(v[1]) \in Ports /\ v = <<<<Number(NumberOf(v[1]))>>>>
  BY <1>3, <1>4, <1>5
<1>7. QED
  BY <1>6 DEF v

-----------------------------------------------------------------------------
(* What the builder makes of a server block.                               *)

IsServer(b)   == b \in DOMAIN nodes /\ IsBlock(b) /\ nodes[b].name = Name("server")
IsLocation(b) == b \in DOMAIN nodes /\ IsBlock(b) /\ nodes[b].name = Name("location")

\* The directives of a name in a block.
LEMMA NamedAre ==
  ASSUME NEW b, NEW name, NEW d \in Named(b, name)
  PROVE  d \in DOMAIN nodes /\ nodes[d].name = name /\ nodes[d].parent = b
BY DEF Named, Children

LEMMA PortIs ==
  ASSUME nodes \in Seq(Nodes), IsValidTree, NEW b, IsServer(b)
  PROVE  /\ BuildServer(b).port \in Ports
         /\ \A d \in Named(b, Name("listen")) :
              IsDirective(d) => nodes[d].values = <<<<Number(BuildServer(b).port)>>>>
<1> DEFINE port == Directive(b, Name("listen"))
<1>1. BuildServer(b).port = IF port = <<>> THEN DefaultPort ELSE NumberOf(port)
  BY DEF BuildServer
<1>2. BuildServer(b).port \in Ports
  <2>1. DefaultPort \in Ports
    BY DEF DefaultPort, Ports
  <2>2. ASSUME port # <<>> PROVE NumberOf(port) \in Ports
    <3>1. PICK d \in Named(b, Name("listen")) : IsDirective(d) /\ port = nodes[d].values[1]
      BY <2>2, SettingIsRead
    <3>2. QED
      BY <3>1, NamedAre, ListenIs
  <2>3. QED
    BY <1>1, <2>1, <2>2
<1>3. ASSUME NEW d \in Named(b, Name("listen")), IsDirective(d)
      PROVE  nodes[d].values = <<<<Number(BuildServer(b).port)>>>>
  <2>1. \A e, f \in Named(b, Name("listen")) : e = f
    BY SettingComesOnce DEF IsServer, ServerOnce
  <2>2. /\ nodes[d].values # <<>> /\ nodes[d].values[1] # <<>>
        /\ nodes[d].values = <<<<Number(NumberOf(nodes[d].values[1]))>>>>
    BY <1>3, NamedAre, ListenIs
  <2>3. port = nodes[d].values[1]
    BY <1>3, <2>1, <2>2, SettingIs
  <2>4. QED
    BY <1>1, <2>2, <2>3
<1>4. QED
  BY <1>2, <1>3

LEMMA HostIs ==
  ASSUME nodes \in Seq(Nodes), IsValidTree, NEW b, IsServer(b),
         NEW d \in Named(b, Name("server_name")), IsDirective(d)
  PROVE  /\ nodes[d].values = <<nodes[d].values[1]>> /\ nodes[d].values[1] # <<>>
         /\ BuildServer(b).host = nodes[d].values[1] /\ BuildServer(b).serverName = nodes[d].values[1]
<1> DEFINE v == nodes[d].values
<1>1. d \in DOMAIN nodes /\ nodes[d].name = Name("server_name")
  BY NamedAre
<1>2. v \in Seq(Seq(Symbols)) /\ Len(v) = 1 /\ IsValidServerName(v[1])
  BY <1>1, NodesAre, DirectiveIsValid, RulesAre
<1>3. v = <<v[1]>> /\ v # <<>> /\ v[1] # <<>>
  BY <1>2, SingleIs DEF IsValidServerName
<1>4. Directive(b, Name("server_name")) = v[1]
  <2>1. \A e, f \in Named(b, Name("server_name")) : e = f
    BY SettingComesOnce DEF IsServer, ServerOnce
  <2>2. QED
    BY <1>3, <2>1, SettingIs
<1>5. QED
  BY <1>3, <1>4 DEF BuildServer

-----------------------------------------------------------------------------
(* Sizes and error pages.                                                  *)

LEMMA ProductIsLarge ==
  ASSUME NEW n \in Nat, NEW u \in Nat \ {0}
  PROVE  n * u \in Nat /\ n <= n * u
<1>1. n * u = n * (u - 1) + n
  OBVIOUS
<1>2. n * (u - 1) \in Nat
  <2>1. u - 1 \in Nat
    OBVIOUS
  <2> DEFINE w == u - 1
  <2> HIDE DEF w
  <2>2. \A x, y \in Nat : x * y \in Nat
    OBVIOUS
  <2>3. QED
    BY <2>1, <2>2
<1>3. n * u \in Nat
  OBVIOUS
<1>4. QED
  BY <1>1, <1>2, <1>3

LEMMA SmallIsItsRest ==
  ASSUME NEW n \in Nat, NEW m \in Nat \ {0}, n < m
  PROVE  n % m = n
OBVIOUS

\* The sizes that the configuration is asked to keep are kept.
LEMMA SizeIs ==
  ASSUME NEW v \in Seq(Symbols), IsValidBodySize(v), Last(v) \notin SizeUnits.g,
         NumberOf(v) * WrittenUnit(v) < SizeRange
  PROVE  ParseSize(v) = NumberOf(v) * WrittenUnit(v)
<1>1. /\ v[1] \in NumberSymbols /\ v # <<>> /\ Len(v) \in {1, 2}
      /\ Len(v) = 2 => v[2] \in SizeUnits.k \cup SizeUnits.m
  BY DEF IsValidBodySize, IsNumber, Last
<1>2. PICK n \in Numbers : v[1] = Number(n)
  BY <1>1 DEF NumberSymbols
<1>3. n \in Nat /\ NumberOf(v) = n /\ v[1][2] = n
  BY <1>2, NumbersAssumption DEF NumberOf, Number
<1>4. /\ Kilo \in Nat \ {0} /\ SizeRange \in Nat \ {0}
  BY SizeAssumption
<1>5. Kilo * Kilo \in Nat \ {0}
  BY <1>4, ProductIsLarge
<1> DEFINE u == WrittenUnit(v)
<1>6. /\ u \in {1, Kilo, Kilo * Kilo}
      /\ ParseSize(v) = (Digits(v) * u) % SizeRange
  <2>1. CASE Len(v) = 1
    BY <2>1 DEF WrittenUnit, ParseSize
  <2>2. CASE Len(v) = 2 /\ v[2] \in SizeUnits.k
    <3>1. v[2] \notin SizeUnits.m
      BY <2>2 DEF SizeUnits, Word
    <3>2. u = Kilo
      BY <2>2, <3>1 DEF WrittenUnit
    <3>3. QED
      BY <2>2, <3>1, <3>2 DEF ParseSize
  <2>3. CASE Len(v) = 2 /\ v[2] \in SizeUnits.m
    <3>1. v[2] \notin SizeUnits.k
      BY <2>3 DEF SizeUnits, Word
    <3>2. u = Kilo * Kilo
      BY <2>3, <3>1 DEF WrittenUnit
    <3>3. QED
      BY <2>3, <3>1, <3>2 DEF ParseSize
  <2>4. QED
    BY <1>1, <2>1, <2>2, <2>3
<1>7. u \in Nat \ {0} /\ n * u < SizeRange
  BY <1>3, <1>4, <1>5, <1>6
<1> HIDE DEF u
<1>8. n * u \in Nat /\ n < SizeRange
  <2>1. n * u \in Nat /\ n <= n * u
    BY <1>3, <1>7, ProductIsLarge
  <2>2. QED
    BY <1>3, <1>4, <1>7, <2>1
<1>9. Digits(v) = n
  BY <1>1, <1>3, <1>8 DEF Digits
<1>10. (n * u) % SizeRange = n * u
  BY <1>4, <1>7, <1>8, SmallIsItsRest
<1>11. QED
  BY <1>3, <1>6, <1>9, <1>10 DEF u

\* What error_page directives have to say, and what becomes of the last one for a code.
LEMMA PagesAre ==
  ASSUME nodes \in Seq(Nodes), IsValidTree, NEW b
  PROVE  /\ DOMAIN ErrorPages(b) \subseteq 300..599
         /\ \A record : \A d \in Named(b, Name("error_page")) :
              IsDirective(d) /\ record.errorPages = ErrorPages(b) => PageIsWritten(record, d)
<1> DEFINE all == DirectivesOf(b, Name("error_page"))
           pages == {n \in all : Len(nodes[n].values) >= 2}
           Code(n) == NumberOf(nodes[n].values[1])
           Newest(code) == CHOOSE n \in pages : Code(n) = code /\ \A m \in pages : Code(m) = code => m <= n
<1>1. ErrorPages(b) = [code \in {Code(n) : n \in pages} |-> nodes[Newest(code)].values[2]]
  BY DEF ErrorPages
<1>2. ASSUME NEW n \in pages
      PROVE  /\ n \in Named(b, Name("error_page")) /\ IsDirective(n) /\ n \in Nat
             /\ Code(n) \in 300..599 /\ nodes[n].values[1] = <<Number(Code(n))>>
  <2>1. n \in Named(b, Name("error_page")) /\ IsDirective(n) /\ Len(nodes[n].values) >= 2
    BY DEF DirectivesOf
  <2>2. n \in DOMAIN nodes /\ nodes[n].name = Name("error_page")
    BY <2>1, NamedAre
  <2>3. n \in Nat
    BY <2>2
  <2> DEFINE v == nodes[n].values
  <2>4. v \in Seq(Seq(Symbols)) /\ Len(v) >= 2 /\ \A i \in 1..(Len(v) - 1) : IsValidStatusCode(v[i])
    BY <2>1, <2>2, NodesAre, DirectiveIsValid, RulesAre
  <2> HIDE DEF v
  <2>5. v[1] \in Seq(Symbols) /\ IsValidStatusCode(v[1])
    <3>1. Len(v) \in Nat
      BY <2>4
    <3>2. 1 \in 1..Len(v) /\ 1 \in 1..(Len(v) - 1)
      BY <2>4, <3>1
    <3>3. QED
      BY <2>4, <3>2
  <2>6. NumberOf(v[1]) \in 300..599 /\ v[1] = <<Number(NumberOf(v[1]))>>
    BY <2>5, NumberIs DEF IsValidStatusCode
  <2>7. QED
    BY <2>1, <2>3, <2>6 DEF v
<1> HIDE DEF Code
<1>3. DOMAIN ErrorPages(b) \subseteq 300..599
  <2> HIDE DEF pages, Newest
  <2>1. DOMAIN ErrorPages(b) = {Code(n) : n \in pages}
    BY <1>1
  <2>2. \A n \in pages : Code(n) \in 300..599
    BY <1>2
  <2>3. QED
    BY <2>1, <2>2, ZenonT(60)
<1>4. ASSUME NEW record, NEW d \in Named(b, Name("error_page")), IsDirective(d),
             record.errorPages = ErrorPages(b)
      PROVE  PageIsWritten(record, d)
  <2> DEFINE v == nodes[d].values
  <2>1. SUFFICES ASSUME Len(v) = 2,
                        \A e \in Named(b, Name("error_page")) :
                          ~(e > d /\ IsDirective(e) /\ nodes[e].values[1] = v[1])
                 PROVE  record.errorPages[NumberOf(v[1])] = v[2]
    BY <1>4, NamedAre DEF PageIsWritten
  <2>2. d \in pages
    <3>1. Len(nodes[d].values) >= 2
      BY <2>1
    <3>2. QED
      BY <1>4, <3>1 DEF DirectivesOf
  <2> HIDE DEF pages
  <2>3. \A m \in pages : Code(m) = Code(d) => m <= d
    <3>1. SUFFICES ASSUME NEW m \in pages, Code(m) = Code(d) PROVE m <= d
      OBVIOUS
    <3>2. nodes[m].values[1] = v[1]
      BY <1>2, <2>2, <3>1
    <3>3. ~(m > d)
      BY <1>2, <2>1, <3>1, <3>2, SMTT(40)
    <3>4. m \in Nat /\ d \in Nat
      BY <1>2, <2>2, <3>1
    <3>5. QED
      BY <3>3, <3>4
  <2>4. Newest(Code(d)) = d
    <3>1. \A n \in pages : n \in Nat
      BY <1>2
    <3>2. \A n \in pages : (Code(n) = Code(d) /\ \A m \in pages : Code(m) = Code(d) => m <= n) => n = d
      <4>1. SUFFICES ASSUME NEW n \in pages, Code(n) = Code(d), \A m \in pages : Code(m) = Code(d) => m <= n
                     PROVE  n = d
        OBVIOUS
      <4>2. d <= n /\ n <= d
        BY <2>2, <2>3, <4>1
      <4>3. QED
        BY <2>2, <3>1, <4>1, <4>2
    <3>3. QED
      BY <2>2, <2>3, <3>2
  <2>5. ErrorPages(b)[Code(d)] = v[2]
    <3> HIDE DEF Newest
    <3>1. Code(d) \in {Code(n) : n \in pages}
      BY <2>2
    <3>2. QED
      BY <1>1, <2>4, <3>1
  <2>6. QED
    BY <1>4, <2>5 DEF Code
<1>5. QED
  BY <1>3, <1>4

-----------------------------------------------------------------------------
(* Locations.                                                              *)

\* Directives with one value, of which a block has one.
LEMMA OneValueIs ==
  ASSUME nodes \in Seq(Nodes), IsValidTree, NEW b, NEW w,
         \/ IsServer(b) /\ w \in {"root"}
         \/ IsLocation(b) /\ w \in {"root", "autoindex"},
         NEW d \in Named(b, Name(w)), IsDirective(d)
  PROVE  nodes[d].values = <<Directive(b, Name(w))>>
<1> DEFINE v == nodes[d].values
<1>1. d \in DOMAIN nodes /\ nodes[d].name = Name(w)
  BY NamedAre
<1>2. v \in Seq(Seq(Symbols)) /\ Len(v) = 1
  BY <1>1, NodesAre, DirectiveIsValid, RulesAre
<1>3. v = <<v[1]>> /\ v # <<>>
  BY <1>2, SingleIs
<1>4. \A e, f \in Named(b, Name(w)) : e = f
  BY SettingComesOnce DEF IsServer, ServerOnce, IsLocation, LocationOnce
<1>5. Directive(b, Name(w)) = v[1]
  BY <1>3, <1>4, SettingIs
<1>6. QED
  BY <1>3, <1>5

LEMMA PathIs ==
  ASSUME nodes \in Seq(Nodes), IsValidTree, NEW c, IsLocation(c)
  PROVE  LET location == BuildLocation(c)
         IN nodes[c].values = <<location.path>> /\ location.path # <<>> /\ location.path[1] = Slash
<1> DEFINE v == nodes[c].values
<1>1. v \in Seq(Seq(Symbols))
  BY NodesAre DEF IsLocation
<1>2. ValueRule(c)
  BY DEF IsValidTree, IsLocation
<1>3. ~IsDirective(c)
  BY DEF IsLocation, IsBlock, IsDirective
<1>4. Len(v) = 1 /\ v[1] # <<>> /\ v[1][1] = Slash
  BY <1>2, <1>3 DEF ValueRule, IsLocation, One, IsLocationPath
<1>5. v = <<v[1]>> /\ v # <<>>
  BY <1>1, <1>4, SingleIs
<1>6. BuildLocation(c).path = v[1]
  BY <1>5 DEF BuildLocation
<1>7. QED
  BY <1>4, <1>5, <1>6

LEMMA MethodsAre ==
  ASSUME nodes \in Seq(Nodes), IsValidTree, NEW c, IsLocation(c)
  PROVE  /\ BuildLocation(c).allowedMethods \subseteq Names(Methods)
         /\ \A d \in Named(c, Name("allow_methods")) :
              IsDirective(d) => BuildLocation(c).allowedMethods = ToSet(nodes[d].values)
<1> DEFINE args == DirectiveArgs(c, Name("allow_methods"))
<1>1. BuildLocation(c).allowedMethods = ToSet(args)
  BY DEF BuildLocation
<1>2. \A i \in DOMAIN args : args[i] \in Names(Methods)
  <2>1. CASE args = <<>>
    BY <2>1
  <2>2. CASE args # <<>>
    <3>1. PICK d \in Named(c, Name("allow_methods")) : IsDirective(d) /\ args = nodes[d].values
      BY <2>2, SettingIsRead
    <3>2. d \in DOMAIN nodes /\ nodes[d].name = Name("allow_methods")
      BY NamedAre
    <3>3. QED
      BY <3>1, <3>2, DirectiveIsValid, RulesAre
  <2>3. QED
    BY <2>1, <2>2
<1> HIDE DEF args
<1>3. ToSet(args) \subseteq Names(Methods)
  BY <1>2 DEF ToSet
<1>4. ASSUME NEW d \in Named(c, Name("allow_methods")), IsDirective(d) PROVE args = nodes[d].values
  <2>1. \A e, f \in Named(c, Name("allow_methods")) : e = f
    BY SettingComesOnce DEF IsLocation, LocationOnce
  <2>2. QED
    BY <1>4, <2>1, SettingIs DEF args
<1>5. QED
  BY <1>1, <1>3, <1>4

LEMMA RedirectIs ==
  ASSUME nodes \in Seq(Nodes), IsValidTree, NEW c, IsLocation(c)
  PROVE  /\ BuildLocation(c).redirectCode \in 300..399
         /\ \A d \in Named(c, Name("return")) :
              IsDirective(d) =>
                /\ Last(nodes[d].values) = BuildLocation(c).redirectUri
                /\ Len(nodes[d].values) = 2 /\ NumberOf(nodes[d].values[1]) < 400 =>
                     NumberOf(nodes[d].values[1]) = BuildLocation(c).redirectCode
<1> DEFINE args == DirectiveArgs(c, Name("return"))
<1>1. /\ BuildLocation(c).redirectCode = RedirectCode(args)
      /\ BuildLocation(c).redirectUri = CASE Len(args) = 0 -> <<>>
                                          [] Len(args) = 1 -> args[1]
                                          [] OTHER -> args[2]
  BY DEF BuildLocation
<1> HIDE DEF args
<1>2. RedirectCode(args) \in 300..399
  BY DEF RedirectCode, DefaultCode
<1>3. ASSUME NEW d \in Named(c, Name("return")), IsDirective(d)
      PROVE  /\ Last(nodes[d].values) = BuildLocation(c).redirectUri
             /\ Len(nodes[d].values) = 2 /\ NumberOf(nodes[d].values[1]) < 400 =>
                  NumberOf(nodes[d].values[1]) = BuildLocation(c).redirectCode
  <2>1. d \in DOMAIN nodes /\ nodes[d].name = Name("return")
    BY NamedAre
  <2>2. \A e, f \in Named(c, Name("return")) : e = f
    BY SettingComesOnce DEF IsLocation, LocationOnce
  <2>3. args = nodes[d].values
    BY <1>3, <2>2, SettingIs DEF args
  <2>4. Len(args) \in {1, 2} /\ (Len(args) = 2 => IsValidStatusCode(args[1]))
    BY <1>3, <2>1, <2>3, DirectiveIsValid, RulesAre
  <2>5. Last(args) = BuildLocation(c).redirectUri
    BY <1>1, <2>4 DEF Last
  <2>6. ASSUME Len(args) = 2, NumberOf(args[1]) < 400 PROVE NumberOf(args[1]) = RedirectCode(args)
    <3>1. IsNumber(args[1]) /\ NumberOf(args[1]) \in 300..599
      BY <2>4, <2>6 DEF IsValidStatusCode
    <3> DEFINE code == NumberOf(args[1])
    <3>2. code \in 300..399
      <4>1. code \in 300..599 /\ code < 400
        BY <2>6, <3>1
      <4> HIDE DEF code
      <4>2. QED
        BY <4>1
    <3>3. QED
      BY <2>6, <3>1, <3>2 DEF RedirectCode
  <2>7. QED
    BY <1>1, <2>3, <2>5, <2>6
<1>4. QED
  BY <1>1, <1>2, <1>3

\* What a server and a location may have among their children.
LEMMA AcceptedIn ==
  ASSUME nodes \in Seq(Nodes), IsValidTree, NEW b \in DOMAIN nodes, NEW d \in Children(b)
  PROVE  /\ nodes[b].name = Name("server") => nodes[d].name \in ServerSettings \cup SharedSettings
         /\ nodes[b].name = Name("location") => nodes[d].name \in SharedSettings \cup LocationSettings
<1>1. b # Root
  <2>1. DOMAIN nodes = 1..Len(nodes) /\ Len(nodes) \in Nat
    OBVIOUS
  <2>2. QED
    BY <2>1 DEF Root
<1>2. nodes[b].name \in AllowedContexts(nodes[d].name)
  <2>1. d \in DOMAIN nodes /\ nodes[d].parent = b
    BY DEF Children
  <2>2. QED
    BY <1>1, <2>1 DEF IsValidTree, ContextRule, ContextName
<1>3. Name("server") # Name("location") /\ Name("server") # RootName /\ Name("location") # RootName
  BY NamesDiffer DEF RootName, Name
<1>4. QED
  BY <1>2, <1>3 DEF AllowedContexts

LEMMA LocationIs ==
  ASSUME nodes \in Seq(Nodes), IsValidTree, NEW c, IsLocation(c), NEW d \in Children(c), IsDirective(d)
  PROVE  LocationIsWritten(BuildLocation(c), d)
<1> DEFINE location == BuildLocation(c)
           v == nodes[d].values
           name == nodes[d].name
<1>1. d \in Named(c, name)
  BY DEF Named
<1>2. name = Name("root") => v = <<location.root>>
  <2>1. location.root = Directive(c, Name("root"))
    BY DEF BuildLocation
  <2>2. QED
    BY <1>1, <2>1, OneValueIs
<1>3. name = Name("autoindex") => (location.autoindex <=> v = <<Name("on")>>)
  <2>1. location.autoindex <=> Directive(c, Name("autoindex")) = Name("on")
    BY DEF BuildLocation
  <2>2. name = Name("autoindex") => v = <<Directive(c, Name("autoindex"))>>
    BY <1>1, OneValueIs
  <2>3. \A x, y : <<x>> = <<y>> <=> x = y
    OBVIOUS
  <2>4. QED
    BY <2>1, <2>2, <2>3, Zenon
<1>4. name = Name("allow_methods") => location.allowedMethods = ToSet(v)
  BY <1>1, MethodsAre
<1>5. name = Name("return") =>
        /\ Last(v) = location.redirectUri
        /\ Len(v) = 2 /\ NumberOf(v[1]) < 400 => NumberOf(v[1]) = location.redirectCode
  BY <1>1, RedirectIs
<1>6. name = Name("error_page") => PageIsWritten(location, d)
  <2>1. location.errorPages = ErrorPages(c)
    BY DEF BuildLocation
  <2>2. QED
    BY <1>1, <2>1, PagesAre
<1>7. /\ Name("root") # Name("autoindex") /\ Name("root") # Name("allow_methods")
      /\ Name("root") # Name("return") /\ Name("root") # Name("error_page")
      /\ Name("autoindex") # Name("allow_methods") /\ Name("autoindex") # Name("return")
      /\ Name("autoindex") # Name("error_page") /\ Name("allow_methods") # Name("return")
      /\ Name("allow_methods") # Name("error_page") /\ Name("return") # Name("error_page")
  BY NamesDiffer
<1>8. name \in SharedSettings \cup LocationSettings
  BY AcceptedIn DEF IsLocation
<1>9. \/ name \in {Name("root"), Name("autoindex"), Name("allow_methods"), Name("return"), Name("error_page")}
      \/ name \in UnreadOfLocation
  BY <1>8 DEF Names, SharedSettings, LocationSettings, UnreadOfLocation
<1> HIDE DEF location, name, v
<1>10. LocationIsWritten(location, d)
  BY <1>2, <1>3, <1>4, <1>5, <1>6, <1>7, <1>9 DEF LocationIsWritten, name, v
<1>11. QED
  BY <1>10 DEF location

-----------------------------------------------------------------------------
(* Servers.                                                                *)

LEMMA ServerIs ==
  ASSUME nodes \in Seq(Nodes), IsValidTree, NEW b, IsServer(b), NEW d \in Children(b), IsDirective(d)
  PROVE  ServerIsWritten(BuildServer(b), d)
<1> DEFINE server == BuildServer(b)
           v == nodes[d].values
           name == nodes[d].name
           fits == Last(v[1]) \notin SizeUnits.g /\ NumberOf(v[1]) * WrittenUnit(v[1]) < SizeRange
<1>1. d \in Named(b, name) /\ d \in DOMAIN nodes
  BY DEF Named, Children
<1>2. name = Name("listen") => v = <<<<Number(server.port)>>>>
  BY <1>1, PortIs
<1>3. name = Name("server_name") => v = <<server.serverName>>
  <2>1. ASSUME name = Name("server_name")
        PROVE  v = <<v[1]>> /\ server.serverName = v[1]
    BY <1>1, <2>1, HostIs
  <2>2. QED
    BY <2>1
<1>4. name = Name("root") => v = <<server.root>>
  <2>1. server.root = Directive(b, Name("root"))
    BY DEF BuildServer
  <2>2. QED
    BY <1>1, <2>1, OneValueIs
<1>5. name = Name("index") => v = server.index
  <2>1. server.index = DirectiveArgs(b, Name("index"))
    BY DEF BuildServer
  <2>2. \A e, f \in Named(b, Name("index")) : e = f
    BY SettingComesOnce DEF IsServer, ServerOnce
  <2>3. QED
    BY <1>1, <2>1, <2>2, SettingIs
<1>6. name = Name("client_max_body_size") =>
        (fits => server.clientMaxBodySize = NumberOf(v[1]) * WrittenUnit(v[1]))
  <2>1. SUFFICES ASSUME name = Name("client_max_body_size"), fits
                 PROVE  server.clientMaxBodySize = NumberOf(v[1]) * WrittenUnit(v[1])
    OBVIOUS
  <2>2. v \in Seq(Seq(Symbols)) /\ Len(v) = 1 /\ IsValidBodySize(v[1])
    BY <1>1, <2>1, NodesAre, DirectiveIsValid, RulesAre
  <2>3. v # <<>> /\ v[1] \in Seq(Symbols)
    BY <2>2, SingleIs
  <2>4. \A e, f \in Named(b, Name("client_max_body_size")) : e = f
    BY SettingComesOnce DEF IsServer, ServerOnce
  <2>5. Directive(b, Name("client_max_body_size")) = v[1]
    BY <1>1, <2>1, <2>3, <2>4, SettingIs
  <2>6. server.clientMaxBodySize = ParseSize(v[1])
    BY <2>5 DEF BuildServer
  <2>7. QED
    BY <2>1, <2>2, <2>3, <2>6, SizeIs
<1>7. name = Name("error_page") => PageIsWritten(server, d)
  <2>1. server.errorPages = ErrorPages(b)
    BY DEF BuildServer
  <2>2. QED
    BY <1>1, <2>1, PagesAre
<1>8. /\ Name("listen") # Name("server_name") /\ Name("listen") # Name("root")
      /\ Name("listen") # Name("index") /\ Name("listen") # Name("client_max_body_size")
      /\ Name("listen") # Name("error_page") /\ Name("server_name") # Name("root")
      /\ Name("server_name") # Name("index") /\ Name("server_name") # Name("client_max_body_size")
      /\ Name("server_name") # Name("error_page") /\ Name("root") # Name("index")
      /\ Name("root") # Name("client_max_body_size") /\ Name("root") # Name("error_page")
      /\ Name("index") # Name("client_max_body_size") /\ Name("index") # Name("error_page")
      /\ Name("client_max_body_size") # Name("error_page")
  BY NamesDiffer
<1>9. name \in ServerSettings \cup SharedSettings
  BY AcceptedIn DEF IsServer
<1>10. \/ name \in {Name("listen"), Name("server_name"), Name("root"), Name("index"),
                     Name("client_max_body_size"), Name("error_page")}
       \/ name \in UnreadOfServer
  BY <1>9 DEF Names, ServerSettings, SharedSettings, UnreadOfServer
<1> HIDE DEF server, name, v, fits
<1>11. ServerIsWritten(server, d)
  BY <1>2, <1>3, <1>4, <1>5, <1>6, <1>7, <1>8, <1>10 DEF ServerIsWritten, name, v, fits
<1>12. QED
  BY <1>11 DEF server

\* The locations of a server, in the order of the file.
LEMMA LocationsAre ==
  ASSUME nodes \in Seq(Nodes), NEW b
  PROVE  LET locations == InOrder({n \in Named(b, Name("location")) : IsBlock(n)})
         IN /\ Len(BuildServer(b).locations) = Len(locations)
            /\ DOMAIN BuildServer(b).locations = DOMAIN locations
            /\ \A l \in DOMAIN locations : /\ IsLocation(locations[l])
                                           /\ BuildServer(b).locations[l] = BuildLocation(locations[l])
<1> DEFINE found == {n \in Named(b, Name("location")) : IsBlock(n)}
           locations == InOrder(found)
<1>1. found \subseteq 0..Len(nodes) /\ Len(nodes) \in Nat
  BY ChildrenAre
<1>2. \A n \in found : IsLocation(n)
  BY NamedAre DEF IsLocation
<1>3. BlocksOf(b, Name("location")) = found
  BY DEF BlocksOf
<1>4. BuildServer(b).locations = [k \in DOMAIN locations |-> BuildLocation(locations[k])]
  BY <1>3 DEF BuildServer
<1> HIDE DEF found
<1>5. /\ Cardinality(found) \in Nat
      /\ Len(locations) = Cardinality(found) /\ DOMAIN locations = 1..Cardinality(found)
      /\ \A l \in DOMAIN locations : locations[l] \in found
  <2>1. Cardinality(found) \in Nat
    BY <1>1, BelowIsFinite, 0 \in Nat
  <2>2. QED
    BY <1>1, <2>1, InOrderIs
<1> HIDE DEF locations
<1>6. Len(BuildServer(b).locations) = Len(locations)
  BY <1>4, <1>5
<1>7. QED
  BY <1>2, <1>4, <1>5, <1>6 DEF locations, found

\* The servers of a configuration are the blocks at the top of its file.
LEMMA ServersAre ==
  ASSUME nodes \in Seq(Nodes), IsValidTree
  PROVE  /\ Len(ServerBlocks) \in Nat /\ DOMAIN ServerBlocks = 1..Len(ServerBlocks)
         /\ \A k \in DOMAIN ServerBlocks : IsServer(ServerBlocks[k])
         /\ Len(Build) = Len(ServerBlocks) /\ DOMAIN Build = DOMAIN ServerBlocks
         /\ \A k \in DOMAIN Build : Build[k] = BuildServer(ServerBlocks[k])
<1> DEFINE found == {n \in Children(Root) : IsBlock(n)}
<1>1. \A n \in Children(Root) : n \in DOMAIN nodes /\ nodes[n].name = Name("server")
  <2>1. SUFFICES ASSUME NEW n \in Children(Root) PROVE n \in DOMAIN nodes /\ nodes[n].name = Name("server")
    OBVIOUS
  <2>2. n \in DOMAIN nodes /\ nodes[n].parent = Root
    BY DEF Children
  <2>3. RootName \in AllowedContexts(nodes[n].name)
    BY <2>2 DEF IsValidTree, ContextRule, ContextName
  <2>4. QED
    BY <2>2, <2>3, RootContext
<1>2. BlocksOf(Root, Name("server")) = found
  BY <1>1 DEF BlocksOf, Named
<1>3. \A n \in found : IsServer(n)
  BY <1>1 DEF IsServer
<1>4. found \subseteq 0..Len(nodes) /\ Len(nodes) \in Nat
  BY <1>1
<1>5. ServerBlocks = InOrder(found)
  BY DEF ServerBlocks
<1>6. Build = [k \in DOMAIN ServerBlocks |-> BuildServer(ServerBlocks[k])]
  BY <1>2, <1>5 DEF Build
<1> HIDE DEF found
<1>7. /\ Cardinality(found) \in Nat
      /\ Len(ServerBlocks) = Cardinality(found) /\ DOMAIN ServerBlocks = 1..Cardinality(found)
      /\ \A k \in DOMAIN ServerBlocks : ServerBlocks[k] \in found
  <2>1. Cardinality(found) \in Nat
    BY <1>4, BelowIsFinite, 0 \in Nat
  <2>2. QED
    BY <1>4, <1>5, <2>1, InOrderIs
<1>8. Len(Build) = Len(ServerBlocks) /\ DOMAIN Build = DOMAIN ServerBlocks
  <2> DEFINE m == Cardinality(found)
             f == [k \in 1..m |-> BuildServer(ServerBlocks[k])]
  <2> HIDE DEF m
  <2>1. m \in Nat => Len(f) = m /\ DOMAIN f = 1..m
    OBVIOUS
  <2>2. QED
    BY <1>6, <1>7, <2>1 DEF m
<1>9. QED
  BY <1>3, <1>6, <1>7, <1>8

-----------------------------------------------------------------------------
(* The program from the tree on.                                           *)

\* A tree that the builder sees is valid, and what the program has of servers is what
\* the builder makes of it, and stays so.
ConfigInv ==
  /\ phase \in {"build", "listen", "running"} \/ servers # <<>> => IsValidTree
  /\ phase \in {"listen", "running"} \/ servers # <<>> => servers = Build

\* The sockets are those of the first servers, and do not clash.
SocketsInv ==
  /\ Len(listeners) \in Nat /\ Len(listeners) <= Len(servers)
  /\ listeners = [k \in 1..Len(listeners) |-> SocketOf(servers[k])]
  /\ \A k \in 1..Len(listeners) : \A j \in 1..(k - 1) : ~Clash(listeners[j], listeners[k])
  /\ phase = "running" => Len(listeners) = Len(servers)

\* The pages that the directives found of a tree give.
PagesOf(tree, found) ==
  LET pages == {n \in found : Len(tree[n].values) >= 2}
      CodeOf(n) == NumberOf(tree[n].values[1])
  IN [code \in {CodeOf(n) : n \in pages} |->
        tree[CHOOSE n \in pages : CodeOf(n) = code /\ \A m \in pages : CodeOf(m) = code => m <= n].values[2]]

\* A step that leaves the tree leaves the error pages of every block of it.
LEMMA PagesStay ==
  ASSUME nodes' = nodes, NEW b
  PROVE  (ErrorPages(b))' = ErrorPages(b)
<1>1. (DirectivesOf(b, Name("error_page")))' = DirectivesOf(b, Name("error_page"))
  BY DEF DirectivesOf, IsDirective, Named, Children
<1>2. ErrorPages(b) = PagesOf(nodes, DirectivesOf(b, Name("error_page")))
  BY Zenon DEF ErrorPages, PagesOf
<1>3. (ErrorPages(b))' = PagesOf(nodes', (DirectivesOf(b, Name("error_page")))')
  BY Zenon DEF ErrorPages, PagesOf
<1>4. QED
  BY <1>1, <1>2, <1>3, Zenon

\* ... and with them the verdict of the validator and what the builder builds.
LEMMA TreeStays ==
  ASSUME nodes' = nodes
  PROVE  IsValidTree' = IsValidTree /\ Build' = Build
<1>1. IsValidTree' = IsValidTree
  BY DEF IsValidTree, ContextRule, ValueRule, CardinalityRule, ConflictRule, DependencyRule,
         ContextName, IsDirective, IsBlock, Named, Children, ChildNames
<1>2. Build' = Build
  <2>1. \A b, name : (Named(b, name))' = Named(b, name)
    BY DEF Named, Children
  <2>2. \A n : (IsDirective(n))' = IsDirective(n) /\ (IsBlock(n))' = IsBlock(n)
    BY DEF IsDirective, IsBlock
  <2>3. \A b, name : /\ (DirectivesOf(b, name))' = DirectivesOf(b, name)
                     /\ (BlocksOf(b, name))' = BlocksOf(b, name)
    BY <2>1, <2>2 DEF DirectivesOf, BlocksOf
  <2>4. \A b, name : /\ (Directive(b, name))' = Directive(b, name)
                     /\ (DirectiveArgs(b, name))' = DirectiveArgs(b, name)
    BY <2>3 DEF Directive, DirectiveArgs
  <2>5. \A b : (ErrorPages(b))' = ErrorPages(b)
    BY PagesStay
  <2>6. \A b : (BuildLocation(b))' = BuildLocation(b)
    <3> TAKE b
    <3>1. (ErrorPages(b))' = ErrorPages(b)
      BY <2>5
    <3>2. QED
      BY <2>4, <3>1, Zenon DEF BuildLocation
  <2>7. \A b : (BuildServer(b))' = BuildServer(b)
    BY <2>3, <2>4, <2>5, <2>6 DEF BuildServer
  <2>8. QED
    BY <2>3, <2>7 DEF Build
<1>3. QED
  BY <1>1, <1>2

LEMMA NoSockets ==
  ASSUME servers = <<>>, listeners = <<>>, phase \notin {"build", "listen", "running"}
  PROVE  ConfigInv /\ SocketsInv
<1>1. ConfigInv
  BY DEF ConfigInv
<1>2. Len(listeners) = 0 /\ Len(servers) = 0 /\ 1..0 = {}
  OBVIOUS
<1>3. listeners = [k \in 1..Len(listeners) |-> SocketOf(servers[k])]
  <2>1. \A S : S = {} => [k \in S |-> SocketOf(servers[k])] = <<>>
    OBVIOUS
  <2>2. QED
    BY <1>2, <2>1
<1>4. SocketsInv
  BY <1>2, <1>3 DEF SocketsInv
<1>5. QED
  BY <1>1, <1>4

\* Up to the validator there are no servers.
LEMMA EarlyConfig ==
  ASSUME phase' \in {"lex", "parse", "validate", "rejected"}, servers' = <<>>, listeners' = <<>>
  PROVE  ConfigInv' /\ SocketsInv'
<1>1. phase' \notin {"build", "listen", "running"}
  OBVIOUS
<1>2. ConfigInv'
  BY <1>1 DEF ConfigInv
<1>3. Len(listeners') = 0 /\ Len(servers') = 0 /\ 1..0 = {}
  OBVIOUS
<1> DEFINE sockets == [k \in 1..Len(listeners') |-> SocketOf(servers[k])']
<1>4. listeners' = sockets
  <2>1. \A S : S = {} => [k \in S |-> SocketOf(servers[k])'] = <<>>
    OBVIOUS
  <2>2. QED
    BY <1>3, <2>1
<1>5. SocketsInv'
  BY <1>1, <1>3, <1>4 DEF SocketsInv
<1>6. QED
  BY <1>2, <1>5

LEMMA InitConfig == Init => ConfigInv /\ SocketsInv
<1> SUFFICES ASSUME Init PROVE ConfigInv /\ SocketsInv
  OBVIOUS
<1>1. servers = <<>> /\ listeners = <<>> /\ phase \notin {"build", "listen", "running"}
  BY DEF Init
<1>2. QED
  BY <1>1, NoSockets

LEMMA OpenListenerIs ==
  ASSUME OpenListener
  PROVE  /\ phase = "listen" /\ Len(listeners) < Len(servers) /\ servers' = servers /\ nodes' = nodes
         /\ \/ /\ phase' = phase
               /\ listeners' = Append(listeners, SocketOf(servers[Len(listeners) + 1]))
               /\ \A j \in DOMAIN listeners : ~Clash(SocketOf(servers[Len(listeners) + 1]), listeners[j])
            \/ phase' = "rejected" /\ listeners' = <<>>
<1> DEFINE socket == SocketOf(servers[Len(listeners) + 1])
           good == servers[Len(listeners) + 1].port \in Ports
           more == Append(listeners, socket)
<1>1. /\ phase = "listen" /\ Len(listeners) < Len(servers)
      /\ UNCHANGED <<lexerVars, parserVars, file, servers>>
      /\ \E others \in OthersSockets :
           IF good /\ CanBind(socket, others) THEN listeners' = more /\ UNCHANGED phase
                                              ELSE listeners' = <<>> /\ phase' = "rejected"
  BY DEF OpenListener
<1>2. \A others : CanBind(socket, others) => \A j \in DOMAIN listeners : ~Clash(socket, listeners[j])
  <2>1. \A j \in DOMAIN listeners : listeners[j] \in ToSet(listeners)
    BY DEF ToSet
  <2>2. QED
    BY <2>1 DEF CanBind
<1> HIDE DEF socket, good, more
<1>3. servers' = servers /\ nodes' = nodes
  BY <1>1 DEF parserVars
<1>4. QED
  BY <1>1, <1>2, <1>3 DEF socket, more

LEMMA ClashBothWays == \A s, t : Clash(s, t) <=> Clash(t, s)
BY DEF Clash

\* A socket more.
LEMMA SocketsGrow ==
  ASSUME SocketsInv, phase' = "listen", servers' = servers, Len(listeners) < Len(servers), Len(servers) \in Nat,
         listeners' = Append(listeners, SocketOf(servers[Len(listeners) + 1])),
         \A j \in DOMAIN listeners : ~Clash(SocketOf(servers[Len(listeners) + 1]), listeners[j])
  PROVE  SocketsInv'
<1> DEFINE n == Len(listeners)
           Socket(k) == SocketOf(servers[k])
           Sockets == {Socket(k) : k \in 1..(n + 1)}
<1>1. n \in Nat /\ n < Len(servers) /\ listeners = [k \in 1..n |-> Socket(k)]
  BY DEF SocketsInv
<1> HIDE DEF Socket
<1>2. listeners \in Seq(Sockets) /\ DOMAIN listeners = 1..n /\ Socket(n + 1) \in Sockets
  <2> HIDE DEF n
  <2>1. \A k \in 1..n : k \in 1..(n + 1) /\ n + 1 \in 1..(n + 1)
    BY <1>1
  <2>2. n + 1 \in 1..(n + 1)
    BY <1>1
  <2>3. QED
    BY <1>1, <2>1, <2>2, SMTT(40)
<1>3. listeners' = Append(listeners, Socket(n + 1))
  BY DEF Socket
<1>4. /\ listeners' \in Seq(Sockets) /\ Len(listeners') = n + 1
      /\ \A k \in 1..n : listeners'[k] = listeners[k]
      /\ listeners'[n + 1] = Socket(n + 1)
  BY <1>2, <1>3, AppendProperties
<1> HIDE DEF n, Sockets
<1>5. n + 1 \in Nat /\ DOMAIN listeners' = 1..(n + 1) /\ \A k \in 1..(n + 1) : k \in 1..n \/ k = n + 1
  BY <1>1, <1>4
<1>6. listeners' = [k \in 1..(n + 1) |-> Socket(k)]
  <2>1. \A k \in 1..(n + 1) : listeners'[k] = Socket(k)
    BY <1>1, <1>4, <1>5
  <2>2. listeners' = [k \in 1..(n + 1) |-> listeners'[k]]
    BY <1>4, <1>5
  <2>3. QED
    BY <2>1, <2>2
<1>7. ASSUME NEW k \in 1..(n + 1), NEW j \in 1..(k - 1) PROVE ~Clash(listeners'[j], listeners'[k])
  <2>1. j \in 1..n
    BY <1>1, <1>5
  <2>2. CASE k \in 1..n
    BY <1>4, <2>1, <2>2 DEF SocketsInv, n
  <2>3. CASE k = n + 1
    <3>1. ~Clash(Socket(n + 1), listeners[j])
      BY <1>2, <2>1 DEF Socket, n
    <3>2. QED
      BY <1>4, <2>1, <2>3, <3>1, ClashBothWays
  <2>4. QED
    BY <1>5, <2>2, <2>3
<1>8. Len(listeners') \in Nat /\ Len(listeners') <= Len(servers')
  BY <1>1, <1>4, <1>5
<1>9. listeners' = [k \in 1..Len(listeners') |-> SocketOf(servers'[k])]
  BY <1>4, <1>6 DEF Socket
<1>10. QED
  BY <1>4, <1>7, <1>8, <1>9 DEF SocketsInv

\* No socket yet, or none any more.
LEMMA SocketsGone ==
  ASSUME listeners' = <<>>, Len(servers') \in Nat, phase' # "running"
  PROVE  SocketsInv'
<1>1. Len(listeners') = 0 /\ 1..0 = {} /\ 0 <= Len(servers')
  OBVIOUS
<1>2. listeners' = [k \in 1..Len(listeners') |-> SocketOf(servers[k])']
  <2>1. \A S : S = {} => [k \in S |-> SocketOf(servers[k])'] = <<>>
    OBVIOUS
  <2>2. QED
    BY <1>1, <2>1
<1>3. QED
  BY <1>1, <1>2 DEF SocketsInv

LEMMA NextConfig == FormInv /\ ConfigInv /\ SocketsInv /\ [Next]_vars => ConfigInv' /\ SocketsInv'
<1> SUFFICES ASSUME FormInv, ConfigInv, SocketsInv, [Next]_vars PROVE ConfigInv' /\ SocketsInv'
  OBVIOUS
<1>1. /\ nodes \in Seq(Nodes)
      /\ phase \in {"load", "lex", "parse", "validate", "build"} => servers = <<>> /\ listeners = <<>>
  BY DEF FormInv, ParserTypeOK, StageInv
<1>2. phase = "listen" => Len(servers) \in Nat
  BY <1>1, ServersAre DEF ConfigInv
<1>3. CASE Load \/ Tokenize \/ Parse
  <2>1. /\ phase \in {"load", "lex", "parse"} /\ servers' = servers /\ listeners' = listeners
        /\ phase' \in {"lex", "parse", "validate", "rejected"}
    <3>1. CASE Load
      BY <3>1 DEF Load, startupVars
    <3>2. CASE Tokenize
      BY <3>2 DEF Tokenize, startupVars
    <3>3. CASE Parse
      BY <3>3 DEF Parse, startupVars
    <3>4. QED
      BY <1>3, <3>1, <3>2, <3>3
  <2>2. servers' = <<>> /\ listeners' = <<>>
    BY <1>1, <2>1
  <2>3. QED
    BY <2>1, <2>2, EarlyConfig
<1>4. CASE Validate
  <2>1. /\ phase = "validate" /\ phase' = IF IsValidTree THEN "build" ELSE "rejected"
        /\ nodes' = nodes /\ servers' = servers /\ listeners' = listeners
    BY <1>4 DEF Validate, parserVars, startupVars
  <2>2. servers' = <<>> /\ listeners' = <<>> /\ Len(servers') \in Nat /\ phase' # "running"
    BY <1>1, <2>1
  <2>3. ConfigInv'
    BY <2>1, <2>2, TreeStays DEF ConfigInv
  <2>4. QED
    BY <2>2, <2>3, SocketsGone
<1>5. CASE BuildConfig
  <2>1. /\ phase = "build" /\ servers' = Build /\ phase' = IF Build = <<>> THEN "crashed" ELSE "listen"
        /\ nodes' = nodes /\ listeners' = listeners
    BY <1>5 DEF BuildConfig, parserVars
  <2>2. IsValidTree
    BY <2>1 DEF ConfigInv
  <2>3. Len(Build) \in Nat
    BY <1>1, <2>2, ServersAre
  <2>4. listeners' = <<>> /\ Len(servers') \in Nat /\ phase' # "running"
    BY <1>1, <2>1, <2>3
  <2>5. ConfigInv'
    BY <2>1, <2>2, TreeStays DEF ConfigInv
  <2>6. QED
    BY <2>4, <2>5, SocketsGone
<1>6. CASE OpenListener
  <2>1. /\ phase = "listen" /\ Len(listeners) < Len(servers) /\ servers' = servers /\ nodes' = nodes
        /\ \/ /\ phase' = phase
              /\ listeners' = Append(listeners, SocketOf(servers[Len(listeners) + 1]))
              /\ \A j \in DOMAIN listeners : ~Clash(SocketOf(servers[Len(listeners) + 1]), listeners[j])
           \/ phase' = "rejected" /\ listeners' = <<>>
    BY <1>6, OpenListenerIs
  <2>2. ConfigInv'
    BY <2>1, TreeStays DEF ConfigInv
  <2>3. SocketsInv'
    BY <1>2, <2>1, SocketsGrow, SocketsGone
  <2>4. QED
    BY <2>2, <2>3
<1>7. CASE SocketFails
  <2>1. phase = "listen" /\ phase' = "rejected" /\ listeners' = <<>> /\ servers' = servers /\ nodes' = nodes
    BY <1>7 DEF SocketFails, parserVars
  <2>2. ConfigInv'
    BY <2>1, TreeStays DEF ConfigInv
  <2>3. QED
    BY <1>2, <2>1, <2>2, SocketsGone
<1>8. CASE Run
  <2>1. /\ phase = "listen" /\ phase' = "running" /\ Len(listeners) = Len(servers)
        /\ servers' = servers /\ listeners' = listeners /\ nodes' = nodes
    BY <1>8 DEF Run, parserVars, startupVars
  <2>2. ConfigInv'
    BY <2>1, TreeStays DEF ConfigInv
  <2>3. SocketsInv'
    BY <2>1 DEF SocketsInv, SocketOf, Address, InetAddr, Clash
  <2>4. QED
    BY <2>2, <2>3
<1>9. CASE UNCHANGED vars
  <2>1. phase' = phase /\ servers' = servers /\ listeners' = listeners /\ nodes' = nodes
    BY <1>9 DEF vars, startupVars, parserVars
  <2>2. ConfigInv'
    BY <2>1, TreeStays DEF ConfigInv
  <2>3. SocketsInv'
    BY <2>1 DEF SocketsInv, SocketOf, Address, InetAddr, Clash
  <2>4. QED
    BY <2>2, <2>3
<1>10. QED
  BY <1>3, <1>4, <1>5, <1>6, <1>7, <1>8, <1>9 DEF Next, Program

StartInv == FormInv /\ ConfigInv /\ SocketsInv

LEMMA SpecStart == Spec => []StartInv
<1>1. Init => StartInv
  BY InitFormInv, InitConfig DEF StartInv
<1>2. StartInv /\ [Next]_vars => StartInv'
  BY NextForm, NextConfig DEF StartInv
<1>3. QED
  BY <1>1, <1>2, PTL DEF Spec

-----------------------------------------------------------------------------
(* The theorems.                                                           *)

\* Texts, positions, tokens, nodes and the stack of the parser are what they are said to
\* be whatever the file holds: in particular the lexer never reads behind the text,
\* recovery never leaves the tokens, and a node's parent comes before it.
THEOREM SpecTypeOK == Spec => []TypeOK
<1>1. StartInv => TypeOK
  BY DEF StartInv, FormInv, SocketsInv, TypeOK
<1>2. QED
  BY <1>1, SpecStart, PTL

\* The valid tree behind the servers, block by block.
LEMMA BlocksOfServers ==
  ASSUME StartInv, servers # <<>> \/ phase \in {"listen", "running"}
  PROVE  /\ nodes \in Seq(Nodes) /\ IsValidTree
         /\ Len(servers) = Len(ServerBlocks) /\ DOMAIN servers = 1..Len(ServerBlocks)
         /\ Len(ServerBlocks) \in Nat
         /\ \A k \in DOMAIN servers : /\ IsServer(ServerBlocks[k])
                                      /\ servers[k] = BuildServer(ServerBlocks[k])
<1>1. nodes \in Seq(Nodes) /\ IsValidTree /\ servers = Build
  BY DEF StartInv, FormInv, ParserTypeOK, ConfigInv
<1>2. QED
  BY <1>1, ServersAre

\* Whatever the file says, what is made of it is what the rest of the program needs: ports
\* that Port does not throw for, paths that begin with "/", redirect codes that are
\* redirects, methods that the server knows, and pages for error codes only.
THEOREM SpecBuiltIsUsable == Spec => []BuiltIsUsable
<1>1. StartInv => BuiltIsUsable
  <2>1. SUFFICES ASSUME StartInv, NEW k \in DOMAIN servers
                 PROVE  /\ servers[k].port \in Ports
                        /\ DOMAIN servers[k].errorPages \subseteq 300..599
                        /\ \A l \in DOMAIN servers[k].locations :
                             LET location == servers[k].locations[l]
                             IN /\ location.path # <<>> /\ location.path[1] = Slash
                                /\ location.redirectCode \in 300..399
                                /\ location.allowedMethods \subseteq Names(Methods)
                                /\ DOMAIN location.errorPages \subseteq 300..599
    BY DEF BuiltIsUsable
  <2>2. servers # <<>>
    BY <2>1
  <2> DEFINE b == ServerBlocks[k]
  <2>3. nodes \in Seq(Nodes) /\ IsValidTree /\ IsServer(b) /\ servers[k] = BuildServer(b)
    BY <2>1, <2>2, BlocksOfServers
  <2> HIDE DEF b
  <2>4. servers[k].port \in Ports
    BY <2>3, PortIs
  <2>5. DOMAIN servers[k].errorPages \subseteq 300..599
    <3>1. BuildServer(b).errorPages = ErrorPages(b)
      BY DEF BuildServer
    <3>2. QED
      BY <2>3, <3>1, PagesAre, ZenonT(60)
  <2>6. ASSUME NEW l \in DOMAIN servers[k].locations
        PROVE  LET location == servers[k].locations[l]
               IN /\ location.path # <<>> /\ location.path[1] = Slash
                  /\ location.redirectCode \in 300..399
                  /\ location.allowedMethods \subseteq Names(Methods)
                  /\ DOMAIN location.errorPages \subseteq 300..599
    <3>1. PICK c : IsLocation(c) /\ servers[k].locations[l] = BuildLocation(c)
      BY <2>3, <2>6, LocationsAre
    <3>2. DOMAIN BuildLocation(c).errorPages \subseteq 300..599
      <4>1. BuildLocation(c).errorPages = ErrorPages(c)
        BY DEF BuildLocation
      <4>2. QED
        BY <2>3, <4>1, PagesAre, ZenonT(60)
    <3>3. BuildLocation(c).path # <<>> /\ BuildLocation(c).path[1] = Slash
      BY <2>3, <3>1, PathIs
    <3>4. BuildLocation(c).redirectCode \in 300..399 /\ BuildLocation(c).allowedMethods \subseteq Names(Methods)
      BY <2>3, <3>1, RedirectIs, MethodsAre
    <3> DEFINE built == BuildLocation(c)
    <3>5. servers[k].locations[l] = built
      BY <3>1
    <3> HIDE DEF built
    <3>6. /\ built.path # <<>> /\ built.path[1] = Slash
          /\ built.redirectCode \in 300..399 /\ built.allowedMethods \subseteq Names(Methods)
          /\ DOMAIN built.errorPages \subseteq 300..599
      BY <3>2, <3>3, <3>4 DEF built
    <3>7. QED
      BY <3>5, <3>6, ZenonT(60)
  <2>7. QED
    BY <2>4, <2>5, <2>6
<1>2. QED
  BY <1>1, SpecStart, PTL

\* Of the settings that the builder reads none is lost or taken from another block: for
\* every file and every size of size_t the configuration holds what each directive of
\* the eleven says, and the rules accept no other directive than these and the seven of
\* UnreadOfServer and UnreadOfLocation.
THEOREM SpecSettingsAreWritten == Spec => []SettingsAreWritten
<1>1. StartInv => SettingsAreWritten
  <2>1. SUFFICES ASSUME StartInv, servers # <<>>
                 PROVE  /\ Len(servers) = Len(ServerBlocks)
                        /\ \A k \in DOMAIN servers :
                             LET b == ServerBlocks[k]
                                 locations == InOrder({n \in Named(b, Name("location")) : IsBlock(n)})
                             IN /\ \A d \in Children(b) : IsDirective(d) => ServerIsWritten(servers[k], d)
                                /\ Len(servers[k].locations) = Len(locations)
                                /\ \A l \in DOMAIN locations :
                                     LET location == servers[k].locations[l]
                                     IN /\ nodes[locations[l]].values = <<location.path>>
                                        /\ \A d \in Children(locations[l]) :
                                             IsDirective(d) => LocationIsWritten(location, d)
    BY DEF SettingsAreWritten
  <2>2. Len(servers) = Len(ServerBlocks)
    BY <2>1, BlocksOfServers
  <2>3. ASSUME NEW k \in DOMAIN servers
        PROVE  LET b == ServerBlocks[k]
                   locations == InOrder({n \in Named(b, Name("location")) : IsBlock(n)})
               IN /\ \A d \in Children(b) : IsDirective(d) => ServerIsWritten(servers[k], d)
                  /\ Len(servers[k].locations) = Len(locations)
                  /\ \A l \in DOMAIN locations :
                       LET location == servers[k].locations[l]
                       IN /\ nodes[locations[l]].values = <<location.path>>
                          /\ \A d \in Children(locations[l]) :
                               IsDirective(d) => LocationIsWritten(location, d)
    <3> DEFINE b == ServerBlocks[k]
               locations == InOrder({n \in Named(b, Name("location")) : IsBlock(n)})
    <3>1. nodes \in Seq(Nodes) /\ IsValidTree /\ IsServer(b) /\ servers[k] = BuildServer(b)
      BY <2>1, BlocksOfServers
    <3> HIDE DEF b
    <3>2. \A d \in Children(b) : IsDirective(d) => ServerIsWritten(servers[k], d)
      BY <3>1, ServerIs
    <3>3. /\ Len(servers[k].locations) = Len(locations)
          /\ \A l \in DOMAIN locations : /\ IsLocation(locations[l])
                                         /\ servers[k].locations[l] = BuildLocation(locations[l])
      BY <3>1, LocationsAre
    <3> HIDE DEF locations
    <3>4. ASSUME NEW l \in DOMAIN locations
          PROVE  LET location == servers[k].locations[l]
                 IN /\ nodes[locations[l]].values = <<location.path>>
                    /\ \A d \in Children(locations[l]) : IsDirective(d) => LocationIsWritten(location, d)
      BY <3>1, <3>3, PathIs, LocationIs
    <3>5. QED
      BY <3>2, <3>3, <3>4 DEF b, locations
  <2>4. QED
    BY <2>2, <2>3
<1>2. QED
  BY <1>1, SpecStart, PTL

\* A server that runs has a socket for each of its server blocks, at the port and the
\* address that the block names, and no two of its sockets clash, whatever the sockets
\* of other programs and whichever system calls fail.
THEOREM SpecRunningIsConfigured == Spec => []RunningIsConfigured
<1>1. StartInv => RunningIsConfigured
  <2>1. SUFFICES ASSUME StartInv, phase = "running"
                 PROVE  /\ Len(listeners) = Len(ServerBlocks)
                        /\ \A k \in DOMAIN listeners :
                             /\ \A d \in Named(ServerBlocks[k], Name("listen")) :
                                  IsDirective(d) => nodes[d].values = <<<<Number(listeners[k].port)>>>>
                             /\ \A d \in Named(ServerBlocks[k], Name("server_name")) :
                                  IsDirective(d) => InetAddr(nodes[d].values[1]) = listeners[k].address
                             /\ \A j \in 1..(k - 1) : ~Clash(listeners[j], listeners[k])
    BY DEF RunningIsConfigured
  <2>2. /\ nodes \in Seq(Nodes) /\ IsValidTree /\ Len(servers) = Len(ServerBlocks)
        /\ Len(ServerBlocks) \in Nat /\ DOMAIN servers = 1..Len(ServerBlocks)
        /\ \A k \in DOMAIN servers : IsServer(ServerBlocks[k]) /\ servers[k] = BuildServer(ServerBlocks[k])
    BY <2>1, BlocksOfServers
  <2>3. /\ Len(listeners) = Len(servers)
        /\ listeners = [k \in 1..Len(listeners) |-> SocketOf(servers[k])]
        /\ \A k \in 1..Len(listeners) : \A j \in 1..(k - 1) : ~Clash(listeners[j], listeners[k])
    BY <2>1 DEF StartInv, SocketsInv
  <2>4. DOMAIN listeners = 1..Len(listeners) /\ DOMAIN listeners = DOMAIN servers
    BY <2>2, <2>3
  <2>5. ASSUME NEW k \in DOMAIN listeners
        PROVE  /\ \A d \in Named(ServerBlocks[k], Name("listen")) :
                    IsDirective(d) => nodes[d].values = <<<<Number(listeners[k].port)>>>>
               /\ \A d \in Named(ServerBlocks[k], Name("server_name")) :
                    IsDirective(d) => InetAddr(nodes[d].values[1]) = listeners[k].address
    <3> DEFINE b == ServerBlocks[k]
    <3>1. IsServer(b) /\ servers[k] = BuildServer(b)
      BY <2>2, <2>4
    <3>2. listeners[k] = SocketOf(servers[k])
      BY <2>3, <2>4
    <3> HIDE DEF b
    <3>3. listeners[k].port = BuildServer(b).port /\ listeners[k].address = Address(BuildServer(b).host)
      BY <3>1, <3>2 DEF SocketOf
    <3>4. \A d \in Named(b, Name("listen")) :
            IsDirective(d) => nodes[d].values = <<<<Number(listeners[k].port)>>>>
      BY <2>2, <3>1, <3>3, PortIs
    <3>5. ASSUME NEW d \in Named(b, Name("server_name")), IsDirective(d)
          PROVE  InetAddr(nodes[d].values[1]) = listeners[k].address
      <4>1. nodes[d].values[1] # <<>> /\ BuildServer(b).host = nodes[d].values[1]
        BY <2>2, <3>1, <3>5, HostIs
      <4>2. QED
        BY <3>3, <4>1 DEF Address
    <3>6. QED
      BY <3>4, <3>5 DEF b
  <2>6. QED
    BY <2>2, <2>3, <2>4, <2>5
<1>2. QED
  BY <1>1, SpecStart, PTL
=============================================================================
