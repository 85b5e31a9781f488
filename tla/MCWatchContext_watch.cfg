\* Three changes, in up to three responses, before and after StopWatch.
CONSTANTS WatchIds <- Ids  MaxChanges = 3
SPECIFICATION FairSpec
INVARIANTS EveryChangeHandledOnce NoOperationOutlivesContext
PROPERTIES FirstResponseCreates StoppedLoopEnds
\* The stream ends.
CHECK_DEADLOCK FALSE
