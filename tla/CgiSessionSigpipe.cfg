\* A script that does not read its body.
SPECIFICATION Spec
CONSTANTS
  MaxBody = 2
  MaxOutput = 1
  MaxClock = 3
  FirstReading = 1
  PipeCapacity = 1
  ReadBufferSize = 1
  TimeoutSeconds = 2
  WordModulus = 16
  ClockMayStep = FALSE
INVARIANTS
  ServerSurvives
CHECK_DEADLOCK FALSE
