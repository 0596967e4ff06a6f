CONSTANTS
  PopAbove = 1
  MaxTries = 3
  MaxReports = 5
SPECIFICATION FairSpec
INVARIANTS
  TypeOK
  InOrderNoneLost
  NoMissedWakeup
  RunLoopIsThere
  ThreadOutlivesWakeUp
PROPERTY BarriersPass
CHECK_DEADLOCK FALSE
