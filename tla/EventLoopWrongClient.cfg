\* A pipelined client with two scripts leaves, and its number is reused.
SPECIFICATION Spec
CONSTANTS
  None = None
  Conns = {c1, c2}
  Scripts = {k1, k2}
  MaxFd = 7
  Listeners = {l1}
  MaxRequests = 2
  BodyAllowed = FALSE
  LargeResponses = FALSE
  HangUps = {"finished"}
  Signals = FALSE
SYMMETRY Symmetry
INVARIANTS
  OwnAnswersOnly
CHECK_DEADLOCK FALSE
