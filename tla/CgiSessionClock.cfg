\* The time limit, by a clock of whole seconds that may be set.
SPECIFICATION Spec
CONSTANTS
  MaxBody = 0
  MaxOutput = 1
  MaxClock = 5
  FirstReading = 2
  PipeCapacity = 1
  ReadBufferSize = 1
  TimeoutSeconds = 2
  WordModulus = 16
  ClockMayStep = TRUE
PROPERTIES
  TimeoutIsDue
CHECK_DEADLOCK FALSE
