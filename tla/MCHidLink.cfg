CONSTANTS
  PayloadLen = 62
  MaxLen = 520
  CommandLens <- MCCommandLens
  MaxAttempts = 2
  MaxCommands = 3
  Ambiguous = TRUE
SPECIFICATION Spec
INVARIANTS
  TypeOK
  WholeCommandsInv
  LongCommandsAtMostOnce
  WrittenIsReceived
PROPERTY InOrderWholeCommands
CHECK_DEADLOCK FALSE
