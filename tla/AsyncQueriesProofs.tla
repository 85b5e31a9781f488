------------------------- MODULE AsyncQueriesProofs -------------------------
(***************************************************************************)
(* Proofs about AsyncQueries, for any number of connections, queries and   *)
(* rows: the queries are taken in their order, and event_dispatch returns  *)
(* only when all is done.                                                  *)
(***************************************************************************)
EXTENDS AsyncQueries, FiniteSetTheorems, SequenceTheorems, TLAPS

State == {0, 1, 9, 10, 11, 20, 30, 31, 39, 40, 41, 50}

\* A connection main has started and that is not done yet.
Active == {c \in 1 .. started : sd[c].ST # 50 \/ c = running}

\* The types of the variables.
Types ==
  /\ phase \in {"adding", "starting", "dispatch", "exit", "fatal"}
  /\ started \in 0 .. Connections /\ running \in 0 .. started
  /\ query_counter \in Nat /\ query_list \in Seq(Nat) /\ taken \in Seq(Nat)
  /\ num_active_connections \in Nat /\ stop \in BOOLEAN
  /\ sd \in [Con -> [ST : State, armed : BOOLEAN, ok : BOOLEAN, rows : Nat]]

\* Where a connection is whose handler does not run: before its start, waiting for
\* an event that is armed, or done.
Waits(c) ==
  /\ started < c => sd[c].ST = 0 /\ ~sd[c].armed
  /\ c <= started /\ c # running =>
       \/ sd[c].ST \in {1, 11, 31, 41} /\ sd[c].armed
       \/ sd[c].ST = 50 /\ ~sd[c].armed
  /\ c = running => ~sd[c].armed

\* A connection closes when the list is empty, which then remains so.
Emptied(c) == sd[c].ST \in {40, 41, 50} => query_list = <<>> /\ phase # "adding"

\* How far main is.  An event_loopbreak before event_dispatch is forgotten.
Progress ==
  /\ phase = "adding" => started = 0
  /\ phase \in {"dispatch", "exit"} => started = Connections
  /\ phase \in {"dispatch", "exit"} /\ stop => Active = {}
  /\ phase = "exit" => Active = {}

LoopInv ==
  /\ Types
  /\ \A c \in Con : Waits(c) /\ Emptied(c)
  /\ num_active_connections = Cardinality(Active)
  /\ Progress

----------------------------------------------------------------------------
(* The list of queries.                                                    *)

\* A query that moves from the head of the list to the end of the taken ones
\* leaves the two together as they were (mysql_async_offcial.cc:191-199).
LEMMA MoveHead ==
  ASSUME NEW S, NEW s \in Seq(S), NEW t \in Seq(S), t # <<>>
  PROVE  Append(s, Head(t)) \o Tail(t) = s \o t
  <1>1. /\ Head(t) \in S /\ Tail(t) \in Seq(S) /\ Len(t) \in Nat \ {0}
        /\ t = <<Head(t)>> \o Tail(t)
    BY EmptySeq
  <1>2. Append(s, Head(t)) = s \o <<Head(t)>> /\ <<Head(t)>> \in Seq(S)
    BY <1>1, AppendIsConcat
  <1>3. (s \o <<Head(t)>>) \o Tail(t) = s \o (<<Head(t)>> \o Tail(t))
    BY <1>1, <1>2, ConcatAssociative
  <1> QED
    BY <1>1, <1>2, <1>3

\* A query added to the list is added to the end of the two together.
LEMMA AddLast ==
  ASSUME NEW S, NEW s \in Seq(S), NEW t \in Seq(S), NEW e \in S
  PROVE  s \o Append(t, e) = Append(s \o t, e)
  <1>1. Append(t, e) = t \o <<e>> /\ <<e>> \in Seq(S) /\ s \o t \in Seq(S)
    BY AppendIsConcat, ConcatProperties
  <1>2. Append(s \o t, e) = (s \o t) \o <<e>>
    BY <1>1, AppendIsConcat
  <1>3. (s \o t) \o <<e>> = s \o (t \o <<e>>)
    BY <1>1, ConcatAssociative
  <1> QED
    BY <1>1, <1>2, <1>3

\* The indices 0, 1, ... of the first n queries.
Indices(n) == [i \in 1 .. n |-> i - 1]

\* add_query gives a query the next index (mysql_async_offcial.cc:308-332).
LEMMA AddIndex ==
  ASSUME NEW n \in Nat
  PROVE  Append(Indices(n), n) = Indices(n + 1)
  <1>1. Indices(n) \in Seq(Nat) /\ Len(Indices(n)) = n
    BY DEF Indices
  <1> QED
    BY <1>1 DEF Indices

----------------------------------------------------------------------------
(* The connections.                                                        *)

StateData == [ST : State, armed : BOOLEAN, ok : BOOLEAN, rows : Nat]

\* The handler of connection c goes on to a state of its machine, or waits for an
\* event and returns; it closes only when the list is empty.
Moves(c) ==
  \E s \in StateData :
    /\ sd' = [sd EXCEPT ![c] = s]
    /\ \/ running' = 0 /\ s.ST \in {1, 11, 31, 41} /\ s.armed
       \/ running' = running /\ ~s.armed
    /\ s.ST \in {40, 41, 50} => query_list = <<>>

\* A mysql_..._start or _cont call and what follows it (NEXT_IMMEDIATE or next_event).
LEMMA CallMoves ==
  ASSUME NEW c, NEW s \in StateData, ~s.armed, NEW wait \in {1, 11, 31, 41}, NEW next \in State,
         NEW oks \in SUBSET BOOLEAN, CallIn(c, s, wait, next, oks),
         wait = 41 => query_list = <<>>, next \in {40, 41, 50} => query_list = <<>>
  PROVE  Moves(c)
  <1>1. CASE Go(c, [s EXCEPT !.ST = wait, !.armed = TRUE]) /\ running' = 0
    <2> DEFINE x == [s EXCEPT !.ST = wait, !.armed = TRUE]
    <2>1. x \in StateData /\ x.ST = wait /\ x.armed
      BY DEF StateData, State
    <2>2. sd' = [sd EXCEPT ![c] = x] /\ running' = 0
      BY <1>1 DEF Go
    <2> HIDE DEF x
    <2>3. x.ST \in {1, 11, 31, 41} /\ (x.ST \in {40, 41, 50} => query_list = <<>>)
      BY <2>1
    <2> QED
      BY <2>1, <2>2, <2>3 DEF Moves
  <1>2. ASSUME NEW ok \in oks, Go(c, [s EXCEPT !.ST = next, !.ok = ok]), UNCHANGED running
        PROVE  Moves(c)
    <2> DEFINE x == [s EXCEPT !.ST = next, !.ok = ok]
    <2>1. x \in StateData /\ x.ST = next /\ ~x.armed
      BY DEF StateData, State
    <2>2. sd' = [sd EXCEPT ![c] = x] /\ running' = running
      BY <1>2 DEF Go
    <2> HIDE DEF x
    <2> QED
      BY <2>1, <2>2 DEF Moves
  <1> QED
    BY <1>1, <1>2 DEF CallIn

\* NEXT_IMMEDIATE without a call.
LEMMA GoMoves ==
  ASSUME NEW c, NEW s \in StateData, ~s.armed, Go(c, s), UNCHANGED running,
         s.ST \in {40, 41, 50} => query_list = <<>>
  PROVE  Moves(c)
  BY DEF Moves, Go

\* The active connections are finitely many.
LEMMA ActiveFinite ==
  ASSUME Types
  PROVE  IsFiniteSet(Active) /\ Cardinality(Active) \in Nat
  <1>1. started \in Int /\ Active \in SUBSET (1 .. started)
    BY ConnectionsAssumption DEF Types, Active
  <1>2. IsFiniteSet(1 .. started)
    BY <1>1, FS_Interval
  <1> QED
    BY <1>1, <1>2, FS_Subset, FS_CardinalityType

\* What all steps of a handler but the last one keep.
LEMMA HandlerMoves ==
  ASSUME LoopInv, NEW c \in Con, running = c, phase \in {"starting", "dispatch"}, Moves(c),
         query_list' \in Seq(Nat), taken' \in Seq(Nat), query_list = <<>> => query_list' = <<>>,
         UNCHANGED <<mainVars, num_active_connections, stop>>
  PROVE  LoopInv'
  <1>1. PICK s \in StateData :
          /\ sd' = [sd EXCEPT ![c] = s]
          /\ \/ running' = 0 /\ s.ST \in {1, 11, 31, 41} /\ s.armed
             \/ running' = running /\ ~s.armed
          /\ s.ST \in {40, 41, 50} => query_list = <<>>
    BY DEF Moves
  <1>2. UNCHANGED <<phase, query_counter, started, num_active_connections, stop>>
    BY DEF mainVars
  <1>3. /\ sd \in [Con -> StateData] /\ sd' \in [Con -> StateData] /\ sd'[c] = s
        /\ \A d \in Con : d # c => sd'[d] = sd[d]
    BY <1>1 DEF LoopInv, Types, StateData
  <1>4. /\ started \in 0 .. Connections /\ c \in 1 .. started /\ Connections \in Nat
        /\ \A d \in 1 .. started : d \in Con
    BY ConnectionsAssumption DEF LoopInv, Types, Con
  <1>5. Active' = Active
    <2>1. \A d \in 1 .. started : sd'[d].ST # 50 \/ d = running' <=> sd[d].ST # 50 \/ d = running
      <3> SUFFICES ASSUME NEW d \in 1 .. started
                   PROVE  sd'[d].ST # 50 \/ d = running' <=> sd[d].ST # 50 \/ d = running
        OBVIOUS
      <3>1. d \in Nat \ {0} /\ d \in Con
        BY <1>4
      <3>2. CASE d = c
        BY <1>1, <1>3, <3>1, <3>2
      <3>3. CASE d # c
        BY <1>1, <1>3, <3>1, <3>3
      <3> QED
        BY <3>2, <3>3
    <2> QED
      BY <1>2, <2>1 DEF Active
  <1>6. Types'
    <2>1. running' \in 0 .. started'
      <3>1. running' = 0 \/ running' = c
        BY <1>1
      <3> QED
        BY <1>2, <1>4, <3>1
    <2>2. sd' \in [Con -> [ST : State, armed : BOOLEAN, ok : BOOLEAN, rows : Nat]]
      BY <1>3 DEF StateData
    <2> QED
      BY <1>2, <2>1, <2>2 DEF LoopInv, Types
  <1>7. ASSUME NEW d \in Con PROVE (Waits(d) /\ Emptied(d))'
    <2>1. CASE d = c
      <3>1. ~(started < d) /\ d <= started /\ d # 0
        BY <1>4, <2>1
      <3> QED
        BY <1>1, <1>2, <1>3, <2>1, <3>1 DEF Waits, Emptied
    <2>2. CASE d # c
      <3>1. d # 0 /\ sd'[d] = sd[d] /\ d # running /\ d # running'
        BY <1>1, <1>3, <2>2 DEF Con
      <3> QED
        BY <1>2, <3>1 DEF LoopInv, Waits, Emptied
    <2> QED
      BY <2>1, <2>2
  <1>8. Progress'
    BY <1>2, <1>5 DEF LoopInv, Progress
  <1>9. (num_active_connections = Cardinality(Active))'
    BY <1>2, <1>5 DEF LoopInv
  <1> QED
    BY <1>6, <1>7, <1>8, <1>9 DEF LoopInv

\* Every step of state_machine_handler but fatal and the last one is such a step.
LEMMA HandlerStep ==
  ASSUME LoopInv, NEW c \in Con, Handler(c), ~Done(c), phase' # "fatal"
  PROVE  LoopInv'
  <1>1. sd[c] \in StateData /\ c # 0
    BY DEF LoopInv, Types, StateData, Con
  <1> DEFINE Stays == UNCHANGED <<mainVars, query_list, num_active_connections, stop, taken>>
  <1>2. running = c /\ ~sd[c].armed /\ phase \in {"starting", "dispatch"}
    <2>1. In(c, State)
      BY DEF Handler, Connect, Connected, TakeQuery, NoMoreQueries, QueryContinues, QueryDone,
         FetchRow, RowDone, Close, In, State
    <2> QED
      BY <2>1 DEF In, LoopInv, Waits
  <1>3. query_list \in Seq(Nat) /\ taken \in Seq(Nat)
    BY DEF LoopInv, Types
  <1>4. ASSUME Moves(c), Stays PROVE LoopInv'
    BY <1>2, <1>3, <1>4, HandlerMoves
  <1>5. CASE Connect(c)
    <2>1. CallIn(c, sd[c], 1, 9, BOOLEAN) /\ Stays /\ 9 \in State /\ BOOLEAN \in SUBSET BOOLEAN
      BY <1>5 DEF Connect, State
    <2>2. Moves(c)
      BY <1>1, <1>2, <2>1, CallMoves
    <2> QED
      BY <1>4, <2>1, <2>2
  <1>6. CASE Connected(c)
    <2> DEFINE x == [sd[c] EXCEPT !.ST = 10]
    <2>1. Go(c, x) /\ Stays /\ UNCHANGED running
      BY <1>6 DEF Connected, Fatal
    <2>2. x \in StateData /\ ~x.armed /\ x.ST = 10
      BY <1>1, <1>2 DEF StateData, State
    <2> HIDE DEF x
    <2>3. Moves(c)
      BY <2>1, <2>2, GoMoves
    <2> QED
      BY <1>4, <2>1, <2>3
  <1>7. CASE TakeQuery(c)
    <2> DEFINE x == [sd[c] EXCEPT !.rows = 0]
    <2>1. /\ query_list # <<>> /\ query_list' = Tail(query_list)
          /\ taken' = Append(taken, Head(query_list))
          /\ CallIn(c, x, 11, 20, BOOLEAN)
          /\ UNCHANGED <<mainVars, num_active_connections, stop>>
      BY <1>7 DEF TakeQuery
    <2>2. x \in StateData /\ ~x.armed
      BY <1>1, <1>2 DEF StateData
    <2> HIDE DEF x
    <2>3. 20 \in State /\ BOOLEAN \in SUBSET BOOLEAN
      BY DEF State
    <2>4. Moves(c)
      BY <2>1, <2>2, <2>3, CallMoves
    <2>5. query_list' \in Seq(Nat) /\ taken' \in Seq(Nat)
      BY <1>3, <2>1
    <2> QED
      BY <1>2, <2>1, <2>4, <2>5, HandlerMoves
  <1>8. CASE NoMoreQueries(c)
    <2>1. /\ query_list = <<>> /\ Go(c, [sd[c] EXCEPT !.ST = 40]) /\ Stays /\ UNCHANGED running
      BY <1>8 DEF NoMoreQueries
    <2>2. [sd[c] EXCEPT !.ST = 40] \in StateData /\ ~[sd[c] EXCEPT !.ST = 40].armed
      BY <1>1, <1>2 DEF StateData, State
    <2>3. Moves(c)
      BY <2>1, <2>2, GoMoves
    <2> QED
      BY <1>4, <2>1, <2>3
  <1>9. CASE QueryContinues(c)
    <2>1. CallIn(c, sd[c], 11, 20, BOOLEAN) /\ Stays /\ 20 \in State /\ BOOLEAN \in SUBSET BOOLEAN
      BY <1>9 DEF QueryContinues, State
    <2>2. Moves(c)
      BY <1>1, <1>2, <2>1, CallMoves
    <2> QED
      BY <1>4, <2>1, <2>2
  <1>10. CASE QueryDone(c)
    <2> DEFINE x == [sd[c] EXCEPT !.ST = IF sd[c].ok THEN 30 ELSE 10]
    <2>1. Go(c, x) /\ Stays /\ UNCHANGED running
      BY <1>10 DEF QueryDone, Fatal
    <2>2. x \in StateData /\ ~x.armed /\ x.ST \in {30, 10}
      BY <1>1, <1>2 DEF StateData, State
    <2> HIDE DEF x
    <2>3. Moves(c)
      BY <2>1, <2>2, GoMoves
    <2> QED
      BY <1>4, <2>1, <2>3
  <1>11. CASE FetchRow(c)
    <2> DEFINE oks == {FALSE} \cup {r \in {TRUE} : sd[c].rows < MaxRows}
    <2>1. CallIn(c, sd[c], 31, 39, oks) /\ Stays
      BY <1>11 DEF FetchRow
    <2>2. oks \in SUBSET BOOLEAN /\ 39 \in State
      BY DEF State
    <2> HIDE DEF oks
    <2>3. Moves(c)
      BY <1>1, <1>2, <2>1, <2>2, CallMoves
    <2> QED
      BY <1>4, <2>1, <2>3
  <1>12. CASE RowDone(c)
    <2> DEFINE x == IF sd[c].ok THEN [sd[c] EXCEPT !.ST = 30, !.rows = @ + 1]
                                ELSE [sd[c] EXCEPT !.ST = 10]
    <2>1. Go(c, x) /\ Stays /\ UNCHANGED running
      BY <1>12 DEF RowDone
    <2>2. x \in StateData /\ ~x.armed /\ x.ST \in {30, 10}
      <3> DEFINE r == sd[c].rows + 1
      <3>1. /\ [sd[c] EXCEPT !.ST = 30, !.rows = r] \in StateData
            /\ ~[sd[c] EXCEPT !.ST = 30, !.rows = r].armed
            /\ [sd[c] EXCEPT !.ST = 30, !.rows = r].ST = 30
        <4>1. r \in Nat
          BY <1>1 DEF StateData
        <4> HIDE DEF r
        <4> QED
          BY <1>1, <1>2, <4>1 DEF StateData, State
      <3>2. /\ [sd[c] EXCEPT !.ST = 10] \in StateData /\ ~[sd[c] EXCEPT !.ST = 10].armed
            /\ [sd[c] EXCEPT !.ST = 10].ST = 10
        BY <1>1, <1>2 DEF StateData, State
      <3> QED
        BY <3>1, <3>2
    <2> HIDE DEF x
    <2>3. Moves(c)
      BY <2>1, <2>2, GoMoves
    <2> QED
      BY <1>4, <2>1, <2>3
  <1>13. CASE Close(c)
    <2>1. /\ CallIn(c, sd[c], 41, 50, {TRUE}) /\ Stays /\ 50 \in State
          /\ {TRUE} \in SUBSET BOOLEAN /\ sd[c].ST \in {40, 41}
      BY <1>13 DEF Close, State, In
    <2>2. query_list = <<>>
      BY <2>1 DEF LoopInv, Emptied
    <2>3. Moves(c)
      BY <1>1, <1>2, <2>1, <2>2, CallMoves
    <2> QED
      BY <1>4, <2>1, <2>3
  <1> QED
    BY <1>5, <1>6, <1>7, <1>8, <1>9, <1>10, <1>11, <1>12, <1>13 DEF Handler

\* The last step of a handler: the connection is no longer active, and the last
\* one to finish breaks the loop (mysql_async_offcial.cc:294-299).
LEMMA HandlerDone ==
  ASSUME LoopInv, NEW c \in Con, Done(c)
  PROVE  LoopInv'
  <1>1. /\ phase \in {"starting", "dispatch"} /\ running = c /\ sd[c].ST = 50 /\ running' = 0
        /\ num_active_connections' = num_active_connections - 1
        /\ stop' = (stop \/ num_active_connections' = 0)
        /\ UNCHANGED <<phase, query_counter, started, query_list, sd, taken>>
    BY DEF Done, In, mainVars
  <1>2. c \in 1 .. started /\ started \in 0 .. Connections /\ Connections \in Nat /\ 0 \notin Con
    BY <1>1, ConnectionsAssumption DEF LoopInv, Types, Con
  <1>3. Active' = Active \ {c} /\ c \in Active
    BY <1>1, <1>2 DEF Active
  <1>4. /\ IsFiniteSet(Active) /\ Cardinality(Active) \in Nat
        /\ num_active_connections = Cardinality(Active)
    BY ActiveFinite DEF LoopInv
  <1>5. IsFiniteSet(Active') /\ Cardinality(Active') = Cardinality(Active) - 1
    BY <1>3, <1>4, FS_RemoveElement
  <1>6. num_active_connections' = Cardinality(Active') /\ num_active_connections' \in Nat
    BY <1>1, <1>4, <1>5, FS_CardinalityType
  <1>7. Types'
    BY <1>1, <1>2, <1>6 DEF LoopInv, Types
  <1>8. ASSUME NEW d \in Con PROVE (Waits(d) /\ Emptied(d))'
    BY <1>1, <1>2 DEF LoopInv, Waits, Emptied
  <1>9. Progress'
    <2>1. num_active_connections' = 0 => Active' = {}
      BY <1>5, <1>6, FS_EmptySet
    <2>2. phase = "dispatch" => ~stop
      BY <1>3 DEF LoopInv, Progress
    <2> QED
      BY <1>1, <2>1, <2>2 DEF LoopInv, Progress
  <1> QED
    BY <1>6, <1>7, <1>8, <1>9 DEF LoopInv

\* main starts the next connection (mysql_async_offcial.cc:409-421).
LEMMA MainStarts ==
  ASSUME LoopInv, StartConnection
  PROVE  LoopInv'
  <1> DEFINE n == started + 1
  <1>1. /\ phase = "starting" /\ running = 0 /\ started < Connections
        /\ started' = n /\ running' = n
        /\ num_active_connections' = num_active_connections + 1
        /\ UNCHANGED <<phase, query_counter, query_list, sd, stop, taken>>
    BY DEF StartConnection
  <1>2. /\ started \in 0 .. Connections /\ Connections \in Nat /\ n \in Con /\ n \in Nat
        /\ n \in 0 .. Connections /\ n # 0 /\ \A d \in Con : d # n => (n < d <=> started < d)
        /\ \A d \in Con : d # n => (d <= n <=> d <= started)
        /\ started < n /\ n <= n /\ ~(n < n) /\ n \notin 1 .. started
        /\ 1 .. n = (1 .. started) \cup {n} /\ 0 \notin Con
    <2>1. started \in 0 .. Connections /\ Connections \in Nat /\ started < Connections
      BY <1>1, ConnectionsAssumption DEF LoopInv, Types
    <2>2. /\ started \in Nat /\ n \in Con /\ n \in Nat /\ n \in 0 .. Connections /\ n # 0
          /\ started < n /\ n <= n /\ ~(n < n) /\ n \notin 1 .. started /\ 0 \notin Con
      BY <2>1 DEF Con
    <2>3. \A d \in Con : d # n => (n < d <=> started < d) /\ (d <= n <=> d <= started)
      BY <2>2 DEF Con
    <2>4. 1 .. n = (1 .. started) \cup {n}
      BY <2>2
    <2> QED
      BY <2>1, <2>2, <2>3, <2>4
  <1> HIDE DEF n
  <1>3. Active' = Active \cup {n} /\ n \notin Active
    BY <1>1, <1>2 DEF Active, LoopInv, Waits
  <1>4. /\ IsFiniteSet(Active) /\ Cardinality(Active) \in Nat
        /\ num_active_connections = Cardinality(Active)
    BY ActiveFinite DEF LoopInv
  <1>5. num_active_connections' = Cardinality(Active') /\ num_active_connections' \in Nat
    BY <1>1, <1>3, <1>4, FS_AddElement
  <1>6. Types'
    <2>1. n \in 0 .. n
      BY <1>2
    <2> QED
      BY <1>1, <1>2, <1>5, <2>1 DEF LoopInv, Types
  <1>7. ASSUME NEW d \in Con PROVE (Waits(d) /\ Emptied(d))'
    BY <1>1, <1>2 DEF LoopInv, Waits, Emptied
  <1>8. Progress'
    BY <1>1 DEF LoopInv, Progress
  <1> QED
    BY <1>5, <1>6, <1>7, <1>8 DEF LoopInv

\* event_dispatch and its return (mysql_async_offcial.cc:423).
LEMMA MainDispatches ==
  ASSUME LoopInv, Dispatch \/ Exit
  PROVE  LoopInv'
  <1>1. /\ running = 0 /\ phase' \in {"dispatch", "exit"}
        /\ UNCHANGED <<query_counter, started, query_list, num_active_connections, running, sd, taken>>
    BY DEF Dispatch, Exit
  <1>2. Active' = Active
    BY <1>1 DEF Active
  <1>3. started = Connections /\ stop' \in BOOLEAN
    BY DEF LoopInv, Dispatch, Exit, Progress, Types
  <1>4. (stop' => Active = {}) /\ (phase' = "exit" => Active = {})
    <2>1. CASE Dispatch
      BY <2>1 DEF Dispatch
    <2>2. CASE Exit /\ stop
      BY <2>2 DEF Exit, LoopInv, Progress
    <2>3. CASE Exit /\ ~stop
      <3>1. \A c \in Con : ~sd[c].armed
        BY <2>3 DEF Exit
      <3>2. \A c \in 1 .. started : c \in Con /\ c <= started /\ c # running
        BY <1>1, <1>3, ConnectionsAssumption DEF Con
      <3>3. \A c \in 1 .. started : sd[c].ST = 50
        BY <3>1, <3>2 DEF LoopInv, Waits
      <3>4. Active = {}
        BY <3>2, <3>3 DEF Active
      <3> QED
        BY <3>4
    <2> QED
      BY <2>1, <2>2, <2>3
  <1>5. Types'
    BY <1>1, <1>3 DEF LoopInv, Types
  <1>6. ASSUME NEW d \in Con PROVE (Waits(d) /\ Emptied(d))'
    BY <1>1 DEF LoopInv, Waits, Emptied
  <1>7. Progress'
    BY <1>1, <1>2, <1>3, <1>4 DEF Progress
  <1> QED
    BY <1>1, <1>2, <1>5, <1>6, <1>7 DEF LoopInv

\* An event calls the handler of the connection that waits for it.
LEMMA EventCalls ==
  ASSUME LoopInv, NEW c \in Con, Event(c)
  PROVE  LoopInv'
  <1>1. /\ phase = "dispatch" /\ running = 0 /\ ~stop /\ sd[c].armed /\ running' = c
        /\ sd' = [sd EXCEPT ![c].armed = FALSE]
        /\ UNCHANGED <<phase, query_counter, started, query_list, num_active_connections, stop, taken>>
    BY DEF Event, mainVars
  <1>2. /\ sd' \in [Con -> StateData] /\ sd'[c].ST = sd[c].ST /\ ~sd'[c].armed
        /\ \A d \in Con : d # c => sd'[d] = sd[d]
    BY <1>1 DEF LoopInv, Types, StateData
  <1>3. /\ started = Connections /\ Connections \in Nat /\ c \in 1 .. started /\ c # 0
        /\ \A d \in 1 .. started : d \in Con /\ d # 0
        /\ ~(started < c) /\ c <= started /\ c \in 0 .. started
    BY <1>1, ConnectionsAssumption DEF LoopInv, Progress, Con
  <1>4. sd[c].ST # 50
    BY <1>1, <1>3 DEF LoopInv, Waits
  <1>5. Active' = Active
    <2>1. \A d \in 1 .. started : sd'[d].ST # 50 \/ d = running' <=> sd[d].ST # 50 \/ d = running
      BY <1>1, <1>2, <1>3, <1>4
    <2> QED
      BY <1>1, <2>1 DEF Active
  <1>6. Types'
    BY <1>1, <1>2, <1>3 DEF LoopInv, Types, StateData
  <1>7. ASSUME NEW d \in Con PROVE (Waits(d) /\ Emptied(d))'
    <2>1. CASE d = c
      BY <1>1, <1>2, <1>3, <2>1 DEF LoopInv, Waits, Emptied
    <2>2. CASE d # c
      <3>1. d # 0
        BY DEF Con
      <3> QED
        BY <1>1, <1>2, <2>2, <3>1 DEF LoopInv, Waits, Emptied
    <2> QED
      BY <2>1, <2>2
  <1>8. Progress'
    BY <1>1, <1>5 DEF LoopInv, Progress
  <1> QED
    BY <1>1, <1>5, <1>6, <1>7, <1>8 DEF LoopInv

\* The steps that leave the connections alone: adding queries, and fatal.
LEMMA MainAdds ==
  ASSUME LoopInv, add_query \/ AllAdded \/ Fatal \/ UNCHANGED vars
  PROVE  LoopInv'
  <1>1. UNCHANGED <<started, num_active_connections, running, sd, stop, taken>>
    BY DEF add_query, AllAdded, Fatal, vars, mainVars
  <1>2. Active' = Active
    BY <1>1 DEF Active
  <1>3. CASE add_query
    <2>1. /\ phase = "adding" /\ phase' = phase /\ started = 0
          /\ query_list' = Append(query_list, query_counter)
          /\ query_counter' = query_counter + 1
      BY <1>3 DEF add_query, LoopInv, Progress
    <2>2. query_list' \in Seq(Nat) /\ query_counter' \in Nat
      BY <2>1 DEF LoopInv, Types
    <2>3. Types'
      BY <1>1, <2>1, <2>2 DEF LoopInv, Types
    <2>4. ASSUME NEW d \in Con PROVE (Waits(d) /\ Emptied(d))'
      <3>1. sd[d].ST = 0
        BY <2>1 DEF LoopInv, Waits, Con
      <3> QED
        BY <1>1, <2>1, <3>1 DEF LoopInv, Waits, Emptied
    <2> QED
      BY <1>1, <1>2, <2>1, <2>3, <2>4 DEF LoopInv, Progress
  <1>4. CASE AllAdded \/ Fatal \/ UNCHANGED vars
    <2>1. /\ phase' \in {phase, "starting", "fatal"} /\ UNCHANGED <<query_list, query_counter>>
      BY <1>4 DEF AllAdded, Fatal, vars, mainVars
    <2>2. Types'
      BY <1>1, <2>1 DEF LoopInv, Types
    <2>3. ASSUME NEW d \in Con PROVE (Waits(d) /\ Emptied(d))'
      BY <1>1, <2>1 DEF LoopInv, Waits, Emptied
    <2> QED
      BY <1>1, <1>2, <2>1, <2>2, <2>3 DEF LoopInv, Progress
  <1> QED
    BY <1>3, <1>4

\* Nothing is started, and nothing counted.
LEMMA LoopInit == Init => LoopInv
  <1> SUFFICES ASSUME Init PROVE LoopInv
    OBVIOUS
  <1>1. Types
    <2>1. sd \in [Con -> [ST : State, armed : BOOLEAN, ok : BOOLEAN, rows : Nat]]
      BY DEF Init, State
    <2>2. query_list \in Seq(Nat) /\ taken \in Seq(Nat)
      BY DEF Init
    <2>3. started \in 0 .. Connections /\ running \in 0 .. started /\ query_counter \in Nat
      BY ConnectionsAssumption DEF Init
    <2>4. num_active_connections \in Nat /\ stop \in BOOLEAN
      BY DEF Init
    <2> QED
      BY <2>1, <2>2, <2>3, <2>4, Zenon DEF Init, Types
  <1>2. Active = {} /\ Cardinality(Active) = 0
    BY FS_EmptySet DEF Init, Active
  <1>3. \A c \in Con : Waits(c) /\ Emptied(c)
    BY ConnectionsAssumption DEF Init, Waits, Emptied, Con
  <1> QED
    BY <1>1, <1>2, <1>3 DEF Init, LoopInv, Progress

\* The invariant of main and its connections.
LEMMA LoopInvariant == Spec => []LoopInv
  <1>1. LoopInv /\ [Next]_vars => LoopInv'
    <2> SUFFICES ASSUME LoopInv, [Next]_vars
                 PROVE  LoopInv'
      OBVIOUS
    <2>1. CASE add_query \/ AllAdded \/ UNCHANGED vars
      BY <2>1, MainAdds
    <2>2. CASE StartConnection \/ Dispatch \/ Exit
      BY <2>2, MainStarts, MainDispatches
    <2>3. ASSUME NEW c \in Con, Event(c) PROVE LoopInv'
      BY <2>3, EventCalls
    <2>4. ASSUME NEW c \in Con, Handler(c) PROVE LoopInv'
      <3>1. CASE Done(c)
        BY <3>1, HandlerDone
      <3>2. CASE ~Done(c) /\ phase' # "fatal"
        BY <2>4, <3>2, HandlerStep
      <3>3. CASE ~Done(c) /\ phase' = "fatal"
        <4>1. Fatal
          BY <2>4, <3>3 DEF Handler, Connect, Connected, TakeQuery, NoMoreQueries, QueryContinues,
             QueryDone, FetchRow, RowDone, Close, In, mainVars
        <4> QED
          BY <4>1, MainAdds
      <3> QED
        BY <3>1, <3>2, <3>3
    <2> QED
      BY <2>1, <2>2, <2>3, <2>4 DEF Next
  <1> QED
    BY <1>1, LoopInit, PTL DEF Spec

----------------------------------------------------------------------------
\* The connections take the queries off the list they share once each and in the
\* order in which they were added (mysql_async_offcial.cc:191-199, 308-332).
THEOREM QueriesInOrder == Spec => []TakenInOrder
  <1>1. Init => TakenInOrder
    <2> SUFFICES ASSUME Init PROVE taken \o query_list = [i \in 1 .. query_counter |-> i - 1]
      BY DEF TakenInOrder
    <2>1. taken = <<>> /\ query_list = <<>> /\ query_counter = 0
      BY DEF Init
    <2>2. taken \o query_list = <<>>
      BY <2>1
    <2>3. [i \in 1 .. 0 |-> i - 1] = <<>>
      OBVIOUS
    <2> QED
      BY <2>1, <2>2, <2>3
  <1>2. TakenInOrder /\ LoopInv /\ [Next]_vars => TakenInOrder'
    <2> SUFFICES ASSUME TakenInOrder, LoopInv, [Next]_vars
                 PROVE  TakenInOrder'
      OBVIOUS
    <2>1. query_list \in Seq(Nat) /\ taken \in Seq(Nat) /\ query_counter \in Nat
      BY DEF LoopInv, Types
    <2>2. taken \o query_list = Indices(query_counter)
      BY DEF TakenInOrder, Indices
    <2>3. CASE add_query
      <3>1. /\ query_list' = Append(query_list, query_counter)
            /\ query_counter' = query_counter + 1 /\ taken' = taken
        BY <2>3 DEF add_query
      <3>2. taken \o Append(query_list, query_counter) = Append(taken \o query_list, query_counter)
        BY <2>1, AddLast
      <3>3. Append(Indices(query_counter), query_counter) = Indices(query_counter + 1)
        BY <2>1, AddIndex
      <3> QED
        BY <2>2, <3>1, <3>2, <3>3 DEF TakenInOrder, Indices
    <2>4. ASSUME NEW c \in Con, TakeQuery(c) PROVE TakenInOrder'
      <3>1. /\ query_list # <<>> /\ query_list' = Tail(query_list)
            /\ taken' = Append(taken, Head(query_list)) /\ query_counter' = query_counter
        BY <2>4 DEF TakeQuery, mainVars
      <3>2. Append(taken, Head(query_list)) \o Tail(query_list) = taken \o query_list
        BY <2>1, <3>1, MoveHead
      <3> QED
        BY <3>1, <3>2 DEF TakenInOrder
    <2>5. CASE UNCHANGED <<query_list, query_counter, taken>>
      BY <2>5 DEF TakenInOrder
    <2>6. CASE AllAdded \/ StartConnection \/ Dispatch \/ Exit \/ UNCHANGED vars
      <3>1. UNCHANGED <<query_list, query_counter, taken>>
        BY <2>6 DEF AllAdded, StartConnection, Dispatch, Exit, vars, mainVars
      <3> QED
        BY <3>1, <2>5
    <2>7. ASSUME NEW c \in Con, Event(c) \/ Handler(c), ~TakeQuery(c) PROVE TakenInOrder'
      <3>1. UNCHANGED <<query_list, query_counter, taken>>
        BY <2>7 DEF Event, Handler, Connect, Connected, Fatal, NoMoreQueries, QueryContinues,
           QueryDone, FetchRow, RowDone, Close, Done, mainVars
      <3> QED
        BY <3>1, <2>5
    <2> QED
      BY <2>3, <2>4, <2>6, <2>7 DEF Next
  <1> QED
    BY <1>1, <1>2, LoopInvariant, PTL DEF Spec

\* When event_dispatch returns every query was taken, every connection is closed
\* and none is counted as active, also if connections finish before the others
\* have started and the loop is broken before it runs (mysql_async_offcial.cc:294-299,
\* 407-423).
THEOREM ExitAfterAllDone == Spec => []ExitMeansAllDone
  <1>1. LoopInv => ExitMeansAllDone
    <2> SUFFICES ASSUME LoopInv, phase = "exit"
                 PROVE  /\ query_list = <<>> /\ num_active_connections = 0
                        /\ \A c \in Con : sd[c].ST = 50
      BY DEF ExitMeansAllDone
    <2>1. Active = {} /\ started = Connections
      BY DEF LoopInv, Progress
    <2>2. \A c \in Con : sd[c].ST = 50
      BY <2>1 DEF Active, Con
    <2>3. 1 \in Con
      BY ConnectionsAssumption DEF Con
    <2>4. query_list = <<>>
      BY <2>2, <2>3 DEF LoopInv, Emptied
    <2>5. num_active_connections = 0
      BY <2>1, FS_EmptySet DEF LoopInv
    <2> QED
      BY <2>2, <2>4, <2>5
  <1> QED
    BY <1>1, LoopInvariant, PTL
=============================================================================
