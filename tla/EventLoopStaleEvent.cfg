\* A client leaves while its script has a body to read, and others take its numbers in the same batch.
SPECIFICATION Spec
CONSTANTS
  None = None
  Conns = {c1, c2, c3, c4}
  Scripts = {k1}
  MaxFd = 4
  Listeners = {l1}
  MaxRequests = 1
  BodyAllowed = TRUE
  LargeResponses = FALSE
  HangUps = {"finished"}
  Signals = FALSE
SYMMETRY Symmetry
INVARIANTS
  HangUpsHaveAReason
CHECK_DEADLOCK FALSE
