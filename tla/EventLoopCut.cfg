\* A response larger than the room in the socket.
SPECIFICATION Spec
CONSTANTS
  None = None
  Conns = {c1}
  Scripts = {}
  MaxFd = 1
  Listeners = {l1}
  MaxRequests = 1
  BodyAllowed = FALSE
  LargeResponses = TRUE
  HangUps = {"finished"}
  Signals = FALSE
INVARIANTS
  ResponsesAreWhole
CHECK_DEADLOCK FALSE
