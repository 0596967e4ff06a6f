CONSTANTS
  PayloadLen = 6
  MaxLen = 20
  SectorLen = 15
  QueueCap = 6
  Kinds <- MCKinds
  MaxRequests = 4
  MaxOpens = 2
  Leftovers <- MCLeftovers
  MaxAttempts = 2
SPECIFICATION Spec
INVARIANTS
  TypeOK
  NothingLeftOver
PROPERTY CallsAnswered
CHECK_DEADLOCK FALSE
