\* Every list of up to two prepare and two cleanup tasks of all kinds, one
\* spurious wake-up.  A loop that may still run what is posted after its end has
\* every behaviour of one that does not.
CONSTANTS
  MaxTasks = 2
  MaxSpurious = 1
  RunsAfterEnd = TRUE
SPECIFICATION FairSpec
INVARIANTS
  TypeOK OnStartAfterAllPrepared FrameOutlivesTasks WokenAfterAllReturned
PROPERTY BootCompletes
\* Run returns, or waits for nothing once the loop is gone.
CHECK_DEADLOCK FALSE
