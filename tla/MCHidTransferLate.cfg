CONSTANTS
  PayloadLen = 6
  MaxLen = 20
  SectorLen = 15
  QueueCap = 2
  Kinds <- LateKinds
  MaxRequests = 3
  MaxOpens = 2
  Leftovers <- Clean
  MaxAttempts = 2
SPECIFICATION HostSpec
INVARIANTS
  ShortResultsWhole
PROPERTY
  CallReturns
CHECK_DEADLOCK FALSE
