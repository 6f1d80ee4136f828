SPECIFICATION RetentionSpec
CONSTANTS
  Records = {r1, r2}
  Runs = {n1, n2}
  BatchSize = 2
  MaxRuns = 2
  MaxHolds = 3
  MaxRunFaults = 1
PROPERTIES HeldIsNeverArchived
CHECK_DEADLOCK FALSE
