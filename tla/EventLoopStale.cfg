\* Three clients of two listeners, and two scripts: a pipe that is closed stays registered for its heir.
SPECIFICATION Spec
CONSTANTS
  None = None
  Conns = {c1, c2, c3}
  Scripts = {k1, k2}
  MaxFd = 7
  Listeners = {l1, l2}
  MaxRequests = 1
  BodyAllowed = TRUE
  LargeResponses = TRUE
  HangUps = {}
  Signals = FALSE
SYMMETRY Symmetry
INVARIANTS
  NothingIsInherited
PROPERTIES
  ClosedForAReason
CHECK_DEADLOCK FALSE
