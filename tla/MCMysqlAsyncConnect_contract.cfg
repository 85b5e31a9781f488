\* The refinement and liveness: every wait is bounded by a timer, as InitConnection
\* arranges, err_no_ holds anything, and the pool may be dropped without Close.
CONSTANTS
  Query = {q1, q2}
  NoQuery = NoQuery
  DB = {d1}
  NoDB = NoDB
  OptDB = d1
  MaxRows = 0
  WaitStatus <- TimedWait
  PumpEvents <- ReadEvent
  ErrNo = {0, 1}
  BareRelease = TRUE
SPECIFICATION FairSpec
PROPERTIES ImplementsContract EveryQueryAnswered BusyCloseCompletes
CHECK_DEADLOCK FALSE
