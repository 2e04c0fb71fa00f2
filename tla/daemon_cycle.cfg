SPECIFICATION Spec
CONSTANTS
  Collectors <- MCCollectors
  MaxCycles = 2
  MaxFaults = 1
  MaxBatch = 2
  MayRotate = TRUE
INVARIANTS BundleReportsCycle PortalHasPrefixes
PROPERTIES HistoryGrows ImplementsLoop SignalStops KeepsCycling
CHECK_DEADLOCK FALSE
