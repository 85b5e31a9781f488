CONSTANTS Count = 2  Thread = {t1}  Query = {q1}  NoQuery = NoQuery
          IntHalf = 4  SizeWraps = 8  MayBreak = TRUE
SPECIFICATION Spec
PROPERTY RefusedMeansNoneReady
CHECK_DEADLOCK FALSE
