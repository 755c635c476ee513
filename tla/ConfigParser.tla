----------------------------- MODULE ConfigParser ----------------------------
(***************************************************************************)
(* How the tokens of a configuration file become a tree: Parser.           *)
(*                                                                         *)
(* The tree is a table: the blocks and directives in the order they begin, *)
(* each with the number of the block it is in (0 is the root).  The        *)
(* recursion of parseStatement is a stack of the blocks that are open.     *)
(***************************************************************************)
EXTENDS ConfigLexer

VARIABLES
  nodes,   \* the ASTNodes: kind, name, values (parameters of a block), parent, at
  stack,   \* the blocks whose loop is running, the innermost last
  current  \* _current, counted from 1

parserVars == <<nodes, stack, current>>

Root == 0

Nodes == [kind : {"block", "directive"}, name : Seq(Symbols), values : Seq(Seq(Symbols)),
          parent : Nat, at : Nat]

ParserTypeOK ==
  /\ nodes \in Seq(Nodes)
  /\ \A n \in DOMAIN nodes : nodes[n].parent < n /\ nodes[n].at \in DOMAIN tokens
  /\ stack \in Seq(DOMAIN nodes)
  /\ current \in 1..(Len(tokens) + 1)

-----------------------------------------------------------------------------
\* _peek().type; a vector without tokens gives Token(), which is UNKNOWN.
TypeAt(i) == IF i <= Len(tokens) THEN tokens[i].type ELSE "UNKNOWN"

ValueTypes == {"WORD", "NUMBER", "STRING", "PATH"}

FirstFrom(i, Types) ==
  CHOOSE j \in i..Len(tokens) :
    /\ tokens[j].type \in Types
    /\ \A k \in i..(j - 1) : tokens[k].type \notin Types

\* Fault: recovery stops in front of the token it looks for.
FaultStaysThere(i) == FirstFrom(i, {"SEMICOLON", "RBRACE", "WORD", "EOF_TOKEN"})

\* _synchronize: one token behind the next ";", "}" or word, or at the end.
Synchronize(i) ==
  LET j == FirstFrom(i, {"SEMICOLON", "RBRACE", "WORD", "EOF_TOKEN"})
  IN IF TypeAt(j) = "EOF_TOKEN" THEN j ELSE j + 1

\* The block that a new node goes into.
Parent == IF stack = <<>> THEN Root ELSE Last(stack)

\* The first token behind the values of the statement at i.
Delimiter(i) == FirstFrom(i + 1, TokenTypes \ ValueTypes)

Node(kind, i) ==
  [kind   |-> kind,
   name   |-> tokens[i].value,
   values |-> [k \in 1..(Delimiter(i) - i - 1) |-> tokens[i + k].value],
   parent |-> Parent,
   at     |-> i]

-----------------------------------------------------------------------------
\* A new Parser.
ParserStart == nodes = <<>> /\ stack = <<>> /\ current = 1

\* Whether a turn of the loop of parseConfig or of an open block goes on.
AtEnd == TypeAt(current) = "EOF_TOKEN"
InBody == tokens # <<>> /\ ~AtEnd /\ (stack = <<>> \/ TypeAt(current) # "RBRACE")

\* Fault: a "}" may end a directive, too.
FaultParseDirective ==
  /\ InBody
  /\ TypeAt(current) = "WORD"
  /\ TypeAt(Delimiter(current)) \in {"SEMICOLON", "RBRACE"}
  /\ nodes' = Append(nodes, Node("directive", current))
  /\ current' = IF TypeAt(Delimiter(current)) = "RBRACE" THEN Delimiter(current)
                                                         ELSE Delimiter(current) + 1
  /\ UNCHANGED <<stack, failed>>

ParseDirective ==
  /\ InBody
  /\ TypeAt(current) = "WORD"
  /\ TypeAt(Delimiter(current)) = "SEMICOLON"
  /\ nodes' = Append(nodes, Node("directive", current))
  /\ current' = Delimiter(current) + 1
  /\ UNCHANGED <<stack, failed>>

\* Fault: the block goes into the root wherever it is.
FaultOpenBlock ==
  /\ InBody
  /\ TypeAt(current) = "WORD"
  /\ TypeAt(Delimiter(current)) = "LBRACE"
  /\ nodes' = Append(nodes, [Node("block", current) EXCEPT !.parent = Root])
  /\ stack' = Append(stack, Len(nodes) + 1)
  /\ current' = Delimiter(current) + 1
  /\ UNCHANGED failed

OpenBlock ==
  /\ InBody
  /\ TypeAt(current) = "WORD"
  /\ TypeAt(Delimiter(current)) = "LBRACE"
  /\ nodes' = Append(nodes, Node("block", current))
  /\ stack' = Append(stack, Len(nodes) + 1)
  /\ current' = Delimiter(current) + 1
  /\ UNCHANGED failed

\* parseStatement synchronizes where it finds the error, and the loop that called
\* it synchronizes again for the NULL it gets.
WrongStatement ==
  /\ InBody
  /\ LET found == IF TypeAt(current) = "WORD" THEN Delimiter(current) ELSE current
     IN /\ TypeAt(current) = "WORD" => TypeAt(found) \notin {"SEMICOLON", "LBRACE"}
        /\ current' = Synchronize(Synchronize(found))
  /\ failed' = TRUE
  /\ UNCHANGED <<nodes, stack>>

CloseBlock ==
  /\ stack # <<>>
  /\ TypeAt(current) = "RBRACE"
  /\ stack' = Front(stack)
  /\ current' = current + 1
  /\ UNCHANGED <<nodes, failed>>

\* The text ends inside of a block.
EndInBlock ==
  /\ stack # <<>>
  /\ AtEnd
  /\ stack' = Front(stack)
  /\ failed' = TRUE
  /\ UNCHANGED <<nodes, current>>

\* Without tokens nothing is an EOF_TOKEN either: parseStatement adds its error, and
\* _synchronize turns round and round where it is.
SynchronizeForever ==
  /\ tokens = <<>>
  /\ failed' = TRUE
  /\ UNCHANGED <<nodes, stack, current>>

ParseStep ==
  \/ ParseDirective
  \/ OpenBlock
  \/ WrongStatement
  \/ CloseBlock
  \/ EndInBlock
  \/ SynchronizeForever

\* parseConfig is done.
Parsed == stack = <<>> /\ AtEnd
=============================================================================
