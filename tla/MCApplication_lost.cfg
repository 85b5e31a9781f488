\* One task, no spurious wake-up.
CONSTANTS
  MaxTasks = 1
  MaxSpurious = 0
  RunsAfterEnd = TRUE
SPECIFICATION FairSpec
PROPERTY PreparedLeavesWait
CHECK_DEADLOCK FALSE
