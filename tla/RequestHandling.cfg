\* Two requests after each other, and one change of a file by somebody else.
SPECIFICATION Spec
CONSTANTS
  Tokens <- MCTokens
  Bytes <- MCBytes
  Places <- MCPlaces
  Unreadable <- MCUnreadable
  Unwritable <- MCUnwritable
  Configs <- MCConfigs
  Requests <- MCRequests
  Trees <- MCTrees
  TextNames = {"index.html", "a.txt", "404.html", "post_upload.txt"}
  ScriptNames = {"x.py"}
  SafeNames = {"a.txt", "b.png"}
  MaxRequests = 2
  MaxChanges = 1
INVARIANTS
  TypeOK
  RefusalsChangeNothing
  CreatedIsStored
  MethodsAreAllowed
  BodiesAreDeclared
  PostedIsServed
  IndexGoesFirst
  ThrowsOnlyDisturbed
PROPERTIES
  DirectoriesStay
CHECK_DEADLOCK FALSE
