\* One task, no spurious wake-up.
CONSTANTS
  MaxTasks = 1
  MaxSpurious = 0
  RunsAfterEnd = TRUE
SPECIFICATION Spec
INVARIANT PreparedMeansStarted
CHECK_DEADLOCK FALSE
