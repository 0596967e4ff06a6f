CONSTANTS
  Descriptor <- descriptor
  Files <- files
  XferSize = 2
  MaxAttempts = 2
SPECIFICATION FairSpec
INVARIANTS TypeOK ErasedBeforeWritten
PROPERTIES UpgradeIsImage AttemptEnds
CHECK_DEADLOCK FALSE
