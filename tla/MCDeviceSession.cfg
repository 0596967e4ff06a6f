SPECIFICATION FairSpec
CONSTANTS
  w1 = w1
  w2 = w2
  w3 = w3
  Main = main
  Free = free
  Workers <- TwoWorkers
  Kinds = {"load", "save", "upgrade"}
  Patient = TRUE
INVARIANTS TypeOK  OneTimerAtRest
PROPERTIES  JobsEnd
CHECK_DEADLOCK FALSE
