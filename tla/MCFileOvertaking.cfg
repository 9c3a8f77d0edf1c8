SPECIFICATION Spec
CONSTANTS
  Chunks = 2
  Threshold = 1
  FileMayChange = FALSE
  BulkMayLose = FALSE
INVARIANTS
  NoSpuriousMismatch
CHECK_DEADLOCK FALSE
