SPECIFICATION Spec
CONSTANTS
  Procs = {p1, p2}
  MaxTime = 2
  MaxRecords = 3
  RotateAfter = 1
  LongRecords = TRUE
INVARIANTS AckedOnDisk OneChain MemoryAgrees RefusedForCause
CHECK_DEADLOCK FALSE
