SPECIFICATION Spec
CONSTANTS
  Exporters = {"daemon", "cli"}
  MaxTime = 2
  MaxExports = 2
INVARIANTS ExportedVerifies UploadedWhole
CHECK_DEADLOCK FALSE
