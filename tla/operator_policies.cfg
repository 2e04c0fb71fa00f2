SPECIFICATION Spec
CONSTANTS
  Policies <- MCPolicies
  PathsOf <- OwnPaths
  MaxChanges = 3
  MaxRecords = 1
  MaxFaults = 1
  MaxRestarts = 1
INVARIANTS StatusTruthful NeverForgotten
PROPERTY SpecObserved
CHECK_DEADLOCK FALSE
