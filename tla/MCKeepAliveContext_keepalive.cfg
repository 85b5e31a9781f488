SPECIFICATION FairSpec
INVARIANTS OneDriver QuietAfterWritesDone WaitReturnsForCause
PROPERTIES WaitIsResumed CanceledStreamEnds
\* The stream ends.
CHECK_DEADLOCK FALSE
