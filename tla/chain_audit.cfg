SPECIFICATION Spec
CONSTANTS MaxRecords = 3  MaxEdits = 2
INVARIANTS SealedVerifies DamageDetected HeadCommits
CHECK_DEADLOCK FALSE
