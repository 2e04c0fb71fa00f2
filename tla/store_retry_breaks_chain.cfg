SPECIFICATION Spec
CONSTANTS
  MaxTime = 1
  MaxRecords = 2
  RotateAfter = 1
  RetrySameStore = TRUE
  Tears = {}
  PowerFails = FALSE
INVARIANTS ChainIntact
CHECK_DEADLOCK FALSE
