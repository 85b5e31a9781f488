\* int has three bits, so the index wraps, and size_t five: the remainder of 2^5 by 3 is not 0.
CONSTANTS Count = 3  Thread = {t1, t2}  Query = {q1, q2}  NoQuery = NoQuery
          IntHalf = 4  SizeWraps = 4  MayBreak = TRUE
SPECIFICATION FairSpec
INVARIANTS TypeOK SessionInOnePlace RetriesReachEveryConnection
PROPERTY SubmittedIsAnswered
\* Sessions run out.
CHECK_DEADLOCK FALSE
