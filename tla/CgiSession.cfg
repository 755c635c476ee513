\* Every interleaving of the loop, the script, the client and the time, by a clock that is not set.
SPECIFICATION FairSpec
CONSTANTS
  MaxBody = 2
  MaxOutput = 2
  MaxClock = 3
  FirstReading = 1
  PipeCapacity = 2
  ReadBufferSize = 1
  TimeoutSeconds = 2
  WordModulus = 16
  ClockMayStep = FALSE
INVARIANTS
  TypeOK
  OutputIsWhole
  BodyBeforeEof
  PidIsOurs
  NothingLeftBehind
PROPERTIES
  AnswerIsFinal
  ImplementsJob
  SessionEndsUnderLoad
  EofIsAnswered
CHECK_DEADLOCK FALSE
