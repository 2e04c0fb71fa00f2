SPECIFICATION Spec
CONSTANTS
  Collectors <- MCCollectors
  MaxCycles = 2
  MaxFaults = 0
  MaxBatch = 1
  MayRotate = TRUE
INVARIANT UploadRetried
CHECK_DEADLOCK FALSE
