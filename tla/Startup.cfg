\* Three families of files, from the name of the file to the open sockets.
SPECIFICATION LiveSpec
CONSTANTS
  Words <- MCWords
  Numbers <- MCNumbers
  Kilo <- MCKilo
  SizeRange <- MCSizeRange
  Files <- MCFiles
  LocalAddresses <- MCLocalAddresses
  OthersSockets <- MCOthersSockets
INVARIANTS
  TypeOK
  OnlyTheGrammar
  TreeIsText
  SettingsAreWritten
  BuiltIsUsable
  RunningIsConfigured
PROPERTIES
  FilesAreJudged
CHECK_DEADLOCK FALSE
