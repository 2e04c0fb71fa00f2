SPECIFICATION Spec
CONSTANTS
  MaxTime = 2
  MaxRecords = 4
  RotateAfter = 1
  RetrySameStore = FALSE
  Tears = {"torn"}
  PowerFails = TRUE
INVARIANTS TypeOK ChainIntact AckedKept ArchivesReadable RotationLinks CountExact
PROPERTIES ArchivesKept ImplementsLog
CHECK_DEADLOCK FALSE
