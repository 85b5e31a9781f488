\* More queries than connections, so that each of them takes two.
CONSTANTS Connections = 3  MaxQueries = 4  MaxRows = 1
SPECIFICATION Spec
INVARIANTS TakenInOrder ExitMeansAllDone
\* The program ends.
CHECK_DEADLOCK FALSE
