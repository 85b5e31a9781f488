-------------------------- MODULE MysqlClientPool --------------------------
(***************************************************************************)
(* integration/async_mysql/mysql_client_impl: the pool that spreads the    *)
(* sessions of several threads over its connections, and the QuerySession  *)
(* whose callback tells the outcome.                                       *)
(*                                                                         *)
(* All connections run on one loop.  A connection is what QueryContract    *)
(* says of it: it answers its sessions oldest first, or all at once when   *)
(* it closes.  The callers run on loops of their own.                      *)
(***************************************************************************)
EXTENDS Integers, Sequences, FiniteSets, SequencesExt

CONSTANTS
  Count,      \* count_, the number of connections
  Thread,     \* the threads that call PendingQuery
  Query,      \* the sessions
  NoQuery,    \* a null RefQuerySession
  IntHalf,    \* half the values of int, 2^31 in the code
  SizeWraps,  \* how many times int fits size_t, 2^32 in the code
  MayBreak    \* may connections break and pings fail?

\* count_ is an int.
ASSUME CountAssumption == IntHalf \in Nat /\ Count \in 1 .. IntHalf - 1
ASSUME WidthAssumption == SizeWraps \in Nat \ {0}
ASSUME QueryAssumption == NoQuery \notin Query
ASSUME BreakAssumption == MayBreak \in BOOLEAN

Con == 0 .. Count - 1
IntRange == -IntHalf .. IntHalf - 1
SizeValues == 2 * IntHalf * SizeWraps

VARIABLES
  use_index,   \* the shared atomic counter
  at, sess,    \* per thread: where it is in PendingQuery, and with which session
  pick,        \* per thread: the connection it looks at
  tasks,       \* closures posted to loop_, oldest first
  posted,      \* per thread: OnQueryDone closures posted to its own loop
  ready, closed,  \* per connection
  pending,     \* per connection: the sessions it has yet to answer
  calls,       \* per session: how often its callback was called
  open         \* Close was not called yet

threadVars == <<at, sess, pick>>
conVars == <<ready, closed, pending>>
vars == <<use_index, threadVars, tasks, posted, conVars, calls, open>>

Task(f, c, q) == [fn |-> f, con |-> c, q |-> q]

\* After InitWithOption.  Nothing initialises use_index_.
Init ==
  /\ use_index \in IntRange
  /\ at = [t \in Thread |-> "idle"]
  /\ sess = [t \in Thread |-> NoQuery]
  /\ pick = [t \in Thread |-> 0]
  /\ tasks = <<>>
  /\ posted = [t \in Thread |-> <<>>]
  /\ ready = [c \in Con |-> TRUE]
  /\ closed = [c \in Con |-> FALSE]
  /\ pending = [c \in Con |-> <<>>]
  /\ calls = [q \in Query |-> 0]
  /\ open = TRUE

\* ++ of an atomic<int> wraps.
Plus(u, k) == ((u + k + IntHalf) % (2 * IntHalf)) - IntHalf

\* Mutant: the remainder is taken of the signed value.
SignedIndexOf(u) == IF u < 0 THEN -((-u) % Count) ELSE u % Count

\* Mutant: an off-by-one in the modulus.
ShortIndexOf(u) == IF Count = 1 THEN 0 ELSE (u % SizeValues) % (Count - 1)

\* The remainder is taken in size_t, where a negative index is huge.
IndexOf(u) == (u % SizeValues) % Count

----------------------------------------------------------------------------
(* A thread: PendingQuery and get_client.                                  *)

Unused == {q \in Query : calls[q] = 0 /\ \A t \in Thread : sess[t] # q}
            \ ({tasks[i].q : i \in DOMAIN tasks}
               \cup (UNION {ToSet(pending[c]) : c \in Con})
               \cup (UNION {ToSet(posted[t]) : t \in Thread}))

\* A new session with a callback is handed to the pool.
PendingQuery(t, q) ==
  /\ at[t] = "idle" /\ q \in Unused
  /\ sess' = [sess EXCEPT ![t] = q]
  /\ use_index' = Plus(use_index, 1)
  /\ at' = [at EXCEPT ![t] = "added"]
  /\ UNCHANGED <<pick, tasks, posted, conVars, calls, open>>

\* The index is read again, after other threads may have moved it.
Choose(t) ==
  /\ at[t] = "added"
  /\ pick' = [pick EXCEPT ![t] = IndexOf(use_index)]
  /\ at' = [at EXCEPT ![t] = "picked"]
  /\ UNCHANGED <<use_index, sess, tasks, posted, conVars, calls, open>>

PendingReturns(t) ==
  /\ sess' = [sess EXCEPT ![t] = NoQuery]
  /\ at' = [at EXCEPT ![t] = "idle"]

\* Mutant: the return of the refused path is missing.
HandOverAnyway(t) ==
  /\ at[t] = "picked"
  /\ tasks' = Append(tasks, Task("StartQuery", pick[t], sess[t]))
  /\ posted' = IF ready[pick[t]] THEN posted ELSE [posted EXCEPT ![t] = Append(@, sess[t])]
  /\ PendingReturns(t)
  /\ UNCHANGED <<use_index, pick, conVars, calls, open>>

\* Mutant: a session for which there is no connection is dropped.
DropRefused(t) ==
  /\ at[t] = "picked"
  /\ tasks' = IF ready[pick[t]] THEN Append(tasks, Task("StartQuery", pick[t], sess[t])) ELSE tasks
  /\ PendingReturns(t)
  /\ UNCHANGED <<use_index, pick, posted, conVars, calls, open>>

\* The loop of get_client goes on only while con is null, which it is not: the
\* first connection decides.  A refused session is told so on the caller's loop.
HandOver(t) ==
  /\ at[t] = "picked"
  /\ \/ /\ ready[pick[t]]
        /\ tasks' = Append(tasks, Task("StartQuery", pick[t], sess[t]))
        /\ UNCHANGED posted
     \/ /\ ~ready[pick[t]]
        /\ posted' = [posted EXCEPT ![t] = Append(@, sess[t])]
        /\ UNCHANGED tasks
  /\ PendingReturns(t)
  /\ UNCHANGED <<use_index, pick, conVars, calls, open>>

\* OnQueryDone: the callback is called, and forgotten.
OnQueryDone(S) == calls' = [q \in Query |-> IF q \in S THEN calls[q] + 1 ELSE calls[q]]

RunRefused(t) ==
  /\ posted[t] # <<>>
  /\ posted' = [posted EXCEPT ![t] = Tail(@)]
  /\ OnQueryDone({Head(posted[t])})
  /\ UNCHANGED <<use_index, threadVars, tasks, conVars, open>>

Close ==
  /\ open /\ open' = FALSE
  /\ tasks' = tasks \o [i \in 1 .. Count |-> Task("SyncClose", i - 1, NoQuery)]
  /\ UNCHANGED <<use_index, threadVars, posted, conVars, calls>>

----------------------------------------------------------------------------
(* The loop and the connections.                                           *)

Aborted(c) ==
  /\ OnQueryDone(ToSet(pending[c]))
  /\ pending' = [pending EXCEPT ![c] = <<>>]
  /\ ready' = [ready EXCEPT ![c] = FALSE]
  /\ closed' = [closed EXCEPT ![c] = TRUE]

\* StartQuery does not look at what became of the connection meanwhile.
RunTask ==
  /\ tasks # <<>> /\ tasks' = Tail(tasks)
  /\ LET task == Head(tasks) IN
     \/ /\ task.fn = "StartQuery"
        /\ pending' = [pending EXCEPT ![task.con] = Append(@, task.q)]
        /\ UNCHANGED <<ready, closed, calls>>
     \/ task.fn = "SyncClose" /\ Aborted(task.con)
  /\ UNCHANGED <<use_index, threadVars, posted, open>>

Answer(c) ==
  /\ ~closed[c] /\ pending[c] # <<>>
  /\ pending' = [pending EXCEPT ![c] = Tail(@)]
  /\ OnQueryDone({Head(pending[c])})
  /\ UNCHANGED <<use_index, threadVars, tasks, posted, ready, closed, open>>

\* The check every 60 s; its ping also fails on a handle that is closed.
Ping(c) ==
  /\ MayBreak
  /\ \E ok \in BOOLEAN : ready' = [ready EXCEPT ![c] = ok /\ ~closed[c]]
  /\ UNCHANGED <<use_index, threadVars, tasks, posted, closed, pending, calls, open>>

\* The state machine of the connection meets a fatal error, and closes.
Break(c) ==
  /\ MayBreak /\ ~closed[c]
  /\ Aborted(c)
  /\ UNCHANGED <<use_index, threadVars, tasks, posted, open>>

----------------------------------------------------------------------------
Loop == RunTask \/ \E c \in Con : Answer(c)

ThreadStep(t) == Choose(t) \/ HandOver(t) \/ RunRefused(t)

Next ==
  \/ \E t \in Thread : ThreadStep(t) \/ \E q \in Query : PendingQuery(t, q)
  \/ Close \/ Loop
  \/ \E c \in Con : Ping(c) \/ Break(c)

Spec == Init /\ [][Next]_vars

\* Threads and the loop go on, and an open connection answers
\* (EveryQueryAnswered of MysqlAsyncConnect).
Fairness ==
  /\ \A t \in Thread : WF_vars(Choose(t) \/ HandOver(t)) /\ WF_vars(RunRefused(t))
  /\ WF_vars(RunTask) /\ \A c \in Con : WF_vars(Answer(c))

FairSpec == Spec /\ Fairness

----------------------------------------------------------------------------
(* Properties                                                              *)

\* Type invariant of the pool, its callers and its connections.
TypeOK ==
  /\ use_index \in IntRange
  /\ at \in [Thread -> {"idle", "added", "picked"}]
  /\ sess \in [Thread -> Query \cup {NoQuery}]
  /\ pick \in [Thread -> Con]
  /\ tasks \in Seq([fn : {"StartQuery", "SyncClose"}, con : Con, q : Query \cup {NoQuery}])
  /\ posted \in [Thread -> Seq(Query)]
  /\ ready \in [Con -> BOOLEAN] /\ closed \in [Con -> BOOLEAN]
  /\ pending \in [Con -> Seq(Query)]
  /\ calls \in [Query -> Nat] /\ open \in BOOLEAN

Times(q, s) == Cardinality({i \in DOMAIN s : s[i] = q})

Places(q) ==
  Cardinality({t \in Thread : sess[t] = q})
  + Times(q, [i \in DOMAIN tasks |-> tasks[i].q])
  + Cardinality({c \in Con : q \in ToSet(pending[c])})
  + Cardinality({t \in Thread : q \in ToSet(posted[t])})
  + calls[q]

\* A session is in one place at a time, with a thread, on its way to one loop,
\* with one connection, or answered: its callback is called once at most, and
\* never for a refused session that a connection holds as well
\* (mysql_client_impl.cc:33-42, query_session.cc:45-50).
SessionInOnePlace == \A q \in Query : Places(q) <= 1

\* Whatever use_index_ starts from and when it wraps, a caller that tries again
\* reaches every connection within 2 * Count - 1 calls (mysql_client_impl.cc:48-50).
RetriesReachEveryConnection ==
  {IndexOf(Plus(use_index, k)) : k \in 1 .. 2 * Count - 1} = Con

\* A session handed to the pool gets its callback, also when it is refused,
\* unless its connection closes after it was found ready: StartQuery then
\* leaves it in a list nobody looks at.
SubmittedIsAnswered ==
  \A q \in Query :
    (\E t \in Thread : sess[t] = q) 
      ~> calls[q] = 1 \/ \E c \in Con : closed[c] /\ q \in ToSet(pending[c])

\* A session is refused with "connection not ready" (mysql_client_impl.cc:36)
\* after a loop over all connections (mysql_client_impl.cc:54): none is ready.
RefusedMeansNoneReady ==
  [][\A t \in Thread : posted'[t] # posted[t] /\ Len(posted'[t]) > Len(posted[t])
       => \A c \in Con : ~ready[c]]_vars
=============================================================================
