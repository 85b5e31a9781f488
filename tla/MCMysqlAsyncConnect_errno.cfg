\* err_no_ holds whatever the memory held.
CONSTANTS
  Query = {q1}
  NoQuery = NoQuery
  DB = {d1}
  NoDB = NoDB
  OptDB = d1
  MaxRows = 0
  WaitStatus <- TimedWait
  PumpEvents <- ReadEvent
  ErrNo = {1}
  BareRelease = FALSE
SPECIFICATION Spec
PROPERTY CodeZeroMeansEOF
CHECK_DEADLOCK FALSE
