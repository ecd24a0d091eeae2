SPECIFICATION Spec
CONSTANTS
  BackupCounts = {0, 1, 2, 3}
  MaxSize = 2
  CheckEvery = 2
  MaxLines = 14
  MaxRestarts = 3
  MaxFailures = 1
INVARIANTS Kept Bounded
CHECK_DEADLOCK FALSE
