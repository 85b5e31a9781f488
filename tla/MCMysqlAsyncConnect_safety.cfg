\* Two sessions, two databases, results of up to one row, waits with and
\* without a timer.  err_no_ happens to be 0.
CONSTANTS
  Query = {q1, q2}
  NoQuery = NoQuery
  DB = {d1, d2}
  NoDB = NoDB
  OptDB = d1
  MaxRows = 1
  WaitStatus <- AnyWait
  PumpEvents <- AllEvents
  ErrNo = {0}
  BareRelease = FALSE
SYMMETRY Symmetry
SPECIFICATION Spec
INVARIANTS
  TypeOK AnsweredInOrder ChecksHold OperationMatchesState ArmedIffWaiting
  RunsInItsDB ReadyMeansOpen NoIdleBacklog NothingRefersToDestroyed
PROPERTIES CodeZeroMeansEOF AnswersAreFinal
CHECK_DEADLOCK FALSE
