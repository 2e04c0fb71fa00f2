SPECIFICATION Spec
CONSTANTS
  Contents <- MCContents
  Configs <- MCConfigs
  MaxChanges = 2
  MaxFails = 1
  MaxCycles = 3
  Cap = 2
INVARIANTS EverythingSeen NothingInvented TargetsIdentify SectionCurrent GapsReported
CHECK_DEADLOCK FALSE
