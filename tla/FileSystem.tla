------------------------------ MODULE FileSystem ------------------------------
(***************************************************************************)
(* The files the server works on, as the system calls of the handlers see  *)
(* them. A text (URI, path, name) is a sequence of tokens: "/" and the     *)
(* other separators are tokens of their own, everything else is cut into   *)
(* pieces that are never split.                                            *)
(***************************************************************************)
EXTENDS Integers, FiniteSets, SequencesExt

CONSTANTS
  Tokens,      \* the pieces that texts are cut into
  Bytes,       \* what files and bodies consist of
  Places,      \* where a file or directory may be: sequences of names
  Unreadable,  \* places that open refuses to read
  Unwritable   \* places that access and open refuse to write

ASSUME PlaceAssumption ==
  /\ Places \subseteq Seq(Seq(Tokens))
  /\ <<>> \in Places /\ << <<>> >> \notin Places
  /\ \A p \in Places \ {<<>>} : Front(p) \in Places
  /\ Unreadable \subseteq Places /\ Unwritable \subseteq Places

Nodes      == [kind : {"none", "dir", "file"}, data : Seq(Bytes)]
Nothing    == [kind |-> "none", data |-> <<>>]
Directory  == [kind |-> "dir",  data |-> <<>>]
File(data) == [kind |-> "file", data |-> data]

NameFrom(path, i) ==
  SubSeq(path, i, i - 1 + Cardinality({j \in i..Len(path) : "/" \notin ToSet(SubSeq(path, i, j))}))

\* The names between the slashes of a path, without empty ones and ".".
Place(path) ==
  LET begins(i) == path[i] # "/" /\ (i = 1 \/ path[i - 1] = "/")
      starts == SelectSeq([i \in DOMAIN path |-> i], begins)
  IN SelectSeq([k \in DOMAIN starts |-> NameFrom(path, starts[k])], LAMBDA name : name # <<".">>)

EndsInSlash(path) == path # <<>> /\ Last(path) = "/"

\* What stat finds: "file/" names nothing.
At(files, path) ==
  IF /\ Place(path) \in Places
     /\ EndsInSlash(path) => files[Place(path)].kind = "dir"
  THEN files[Place(path)] ELSE Nothing

Exists(files, path)      == At(files, path).kind # "none"
IsDirectory(files, path) == At(files, path).kind = "dir"
IsFile(files, path)      == At(files, path).kind = "file"

Readable(path) == Place(path) \notin Unreadable
Writable(path) == Place(path) \notin Unwritable

\* The places whose directory is p.
Children(p) == {q \in Places \ {<<>>} : Front(q) = p}

IsEmpty(files, p) == \A q \in Children(p) : files[q].kind = "none"

\* Every file is in a directory.
IsTree(files) ==
  /\ files \in [Places -> Nodes]
  /\ files[<<>>] = Directory
  /\ \A p \in Places \ {<<>>} : files[p].kind # "none" => files[Front(p)].kind = "dir"
=============================================================================
