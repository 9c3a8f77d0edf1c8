SPECIFICATION FairSpec
CONSTANTS
  Chunks = 3
  Threshold = 1
  FileMayChange = TRUE
  BulkMayLose = TRUE
INVARIANTS
  SuccessIsMutual
  AbortMeansRejected
PROPERTIES
  SendingEnds
  ReceivingEnds
  PartRemoved
  WaitSettles
CHECK_DEADLOCK FALSE
