SPECIFICATION Spec
CONSTANTS
  Policies <- OnePolicy
  PathsOf <- OwnPaths
  MaxChanges = 3
  MaxRecords = 4
  MaxFaults = 1
  MaxRestarts = 1
INVARIANT ChainsIntact
CHECK_DEADLOCK FALSE
