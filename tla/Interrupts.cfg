SPECIFICATION Spec
CONSTANTS
  Frequency = 18
  TssBases = {1048576, 1114112, 2097047}
  TickModulus = 4
  KeyQueue = 3
INVARIANTS
  TypeOK
  NeverReset
  NothingBeforeReady
  OneInService
PROPERTIES
  TicksForever
  EveryKeyRead
CHECK_DEADLOCK FALSE
