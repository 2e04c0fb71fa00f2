SPECIFICATION Spec
CONSTANTS
  MaxTime = 1
  MaxRecords = 3
  RotateAfter = 1
  RetrySameStore = FALSE
  Tears = {"bare"}
  PowerFails = TRUE
INVARIANTS AckedReadable
CHECK_DEADLOCK FALSE
