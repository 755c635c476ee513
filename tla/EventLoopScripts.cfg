\* Two scripts that inherit each other's pipes, and clients that do not wait for answers.
SPECIFICATION Spec
CONSTANTS
  None = None
  Conns = {c1, c2}
  Scripts = {k1, k2}
  MaxFd = 7
  Listeners = {l1}
  MaxRequests = 2
  BodyAllowed = TRUE
  LargeResponses = FALSE
  HangUps = {"reset"}
  Signals = FALSE
SYMMETRY Symmetry
INVARIANTS
  TypeOK
  ClientsAreOpen
  PipesAreOwned
  PatientAnswersAreOwn
  NeverThrows
  NothingIsInherited
CHECK_DEADLOCK FALSE
