\* Requests with CR LF and with LF line ends, in every fragmentation, and replies to them.
SPECIFICATION ExchangeSpec
CONSTANTS
  Lengths <- MCLengths
  Wires <- MCWires
  Values <- MCValues
  Outputs <- MCOutputs
  ChunkSize = 16
INVARIANTS
  TypeOK
  ParsedIsSent
  FirstIsPrompt
  ReplyIsReadable
CHECK_DEADLOCK FALSE
