\* Fair scripts, peers that stay, and a signal to stop at any moment.
SPECIFICATION FairSpec
CONSTANTS
  None = None
  Conns = {c1, c2}
  Scripts = {k1, k2}
  MaxFd = 7
  Listeners = {l1}
  MaxRequests = 1
  BodyAllowed = TRUE
  LargeResponses = FALSE
  HangUps = {}
  Signals = TRUE
PROPERTIES
  ResponsesAreSent
  SessionsEnd
CHECK_DEADLOCK FALSE
