SPECIFICATION Spec
CONSTANTS
  Setups <- MCSetups
  MaxFaults = 2
INVARIANTS OneKeySigns Startable NoStoreLeft FrontendsAgree
PROPERTIES ComesUp
CHECK_DEADLOCK FALSE
