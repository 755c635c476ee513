------------------------------ MODULE Locations ------------------------------
(***************************************************************************)
(* Which location of a server block governs a URI, and which path it names. *)
(* The three method handlers have the same code for it.                    *)
(*                                                                         *)
(* A configuration is a record of root, index, limit, pages and locations, *)
(* a location one of path, root, methods, autoindex, redirect and pages.   *)
(* Empty text, 0 and {} are the values of what is not configured.          *)
(***************************************************************************)
EXTENDS FileSystem

\* What a NULL location means to the handlers.
NoLocation ==
  [path |-> <<>>, root |-> <<>>, methods |-> {}, autoindex |-> FALSE, redirect |-> 0,
   pages |-> <<>>]

\* A URI is a record of the text before "?" (path), whether there is a "?", and
\* the pairs of key and value behind it.
Until(text, mark) == SubSeq(text, 1, SelectInSeq(text, LAMBDA t : t = mark) - 1)

\* A "#" only ends the path when there is no "?".
StripUriQuery(uri) ==
  LET path == IF ~uri.asks /\ Contains(uri.path, "#") THEN Until(uri.path, "#") ELSE uri.path
  IN IF path = <<>> THEN <<"/">> ELSE path

\* Locations match as a prefix of the text, whole names or not.
Matching(config, path) ==
  {i \in DOMAIN config.locations :
     config.locations[i].path # <<>> /\ IsPrefix(config.locations[i].path, path)}

\* Fault: the first location that matches.
FaultFirstLocation(config, path) ==
  LET matching == Matching(config, path)
  IN IF matching = {} THEN NoLocation
     ELSE config.locations[CHOOSE i \in matching : \A j \in matching : i <= j]

\* The longest one; among equals the first.
FindBestLocation(config, path) ==
  LET matching == Matching(config, path)
      length(i) == Len(config.locations[i].path)
      better(i, j) == length(i) > length(j) \/ (length(i) = length(j) /\ i <= j)
  IN IF matching = {} THEN NoLocation
     ELSE config.locations[CHOOSE i \in matching : \A j \in matching : better(i, j)]

DefaultRoot == <<".", "/", "www">>

ServerRoot(config) == IF config.root = <<>> THEN DefaultRoot ELSE config.root

ResolveRoot(config, location) ==
  IF location.root = <<>> THEN ServerRoot(config) ELSE location.root

ResolveFilePath(root, path) ==
  IF EndsInSlash(root) /\ path # <<>> /\ Head(path) = "/" THEN root \o Tail(path) ELSE root \o path

\* resolveIndexFiles, with what it does when no index is configured.
IndexFiles(config) ==
  IF config.index = <<>> THEN << <<"index.html">>, <<"index.htm">> >> ELSE config.index

WithSlash(path) == IF path = <<>> \/ EndsInSlash(path) THEN path ELSE Append(path, "/")

ParentDirectory(path) ==
  LET slash == SelectLastInSeq(path, LAMBDA t : t = "/")
  IN CASE slash = 0 -> <<".">>
       [] slash = 1 -> <<"/">>
       [] OTHER -> SubSeq(path, 1, slash - 1)

\* One slash between two texts that are not empty.
JoinPath(base, suffix) ==
  CASE base = <<>> \/ suffix = <<>> -> base \o suffix
    [] base # <<>> /\ suffix # <<>> /\ Head(suffix) = "/" -> WithSlash(base) \o Tail(suffix)
    [] OTHER -> WithSlash(base) \o suffix

PageOf(pages, code) == IF code \in DOMAIN pages THEN pages[code] ELSE <<>>

\* The file with the page for a status, or <<>>: the location's, then the
\* server's, below the root unless it begins with "./" or "../".
ErrorPagePath(config, location, code) ==
  LET page == IF PageOf(location.pages, code) # <<>> THEN PageOf(location.pages, code)
              ELSE PageOf(config.pages, code)
  IN IF page = <<>> \/ \E dots \in {".", ".."} : IsPrefix(<<dots, "/">>, page) THEN page
     ELSE JoinPath(ResolveRoot(config, location), page)
=============================================================================
