SPECIFICATION SetUpSpec
CONSTANTS
  Cell = {a1, a2, a3}
  server = server
  other = other
  Module = {server, other}
  Code = {connected, dateNotSent}
  Null = null
  Modules <- ServerFirst
  NoSockets = 4
  QueueLength = 2
  Socks = 2
  BufferMemory = 4
  Patterns <- MCPatterns
  Contents <- MCContents
  SizeChoices <- MCSizeChoices
  MaxCalls = 3
SYMMETRY HeapSymmetry
INVARIANTS
  SearchEnds
  FirstModuleStays
  FaultCauses
  ListenerServes
  SettingsHold
  RingsFit
  FlagsKept
CHECK_DEADLOCK FALSE
