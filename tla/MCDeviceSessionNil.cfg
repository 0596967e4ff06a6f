SPECIFICATION Spec
CONSTANTS
  w1 = w1
  w2 = w2
  w3 = w3
  Main = main
  Free = free
  Workers <- TwoWorkers
  Kinds = {"load", "save"}
  Patient = TRUE
PROPERTIES SavedIsWritten
CHECK_DEADLOCK FALSE
