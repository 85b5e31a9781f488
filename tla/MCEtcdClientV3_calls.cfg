\* Three calls in a row: a late step of the first may meet the other two.  Four
\* byte values, two of them negative as a char, and keys that extend others.
CONSTANTS MaxCalls = 3  Byte = 4  MaxLen = 2
SPECIFICATION FairSpec
INVARIANTS TypeOK ResumedByOwnCall ReturnsOutcome LateTouchIsUnlock PrefixIsExact
PROPERTY CompletedCallReturns
\* The coroutine ends, or stays in TimeToAlive.
CHECK_DEADLOCK FALSE
