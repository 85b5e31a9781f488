---------------------------- MODULE AsyncQueries ----------------------------
(***************************************************************************)
(* examples/async_mysql/mysql_async_offcial.cc: a set of connections, each *)
(* a state machine driven by libevent, that share one list of queries.     *)
(*                                                                         *)
(* A handler runs until it waits for an event or is done; sd[c].ST keeps   *)
(* the numbers of the source.  A mysql_..._start or _cont call either      *)
(* suspends, asking for an event, or completes.                            *)
(*                                                                         *)
(* -n 0 is accepted by the source and excluded here: no connection takes a *)
(* query, and event_dispatch, which has no event to wait for, returns.     *)
(***************************************************************************)
EXTENDS Naturals, Sequences

CONSTANTS
  Connections,   \* opt_connections
  MaxQueries,    \* bound on the queries in the file and on the command line
  MaxRows        \* bound on the rows of a result

ASSUME ConnectionsAssumption == Connections \in Nat \ {0}
ASSUME BoundsAssumption == MaxQueries \in Nat /\ MaxRows \in Nat

Con == 1 .. Connections

VARIABLES
  phase,         \* of main
  query_list, query_counter,
  started,       \* connections main has started
  num_active_connections,
  running,       \* the connection whose handler runs, 0 if none does
  sd,            \* state_data; ok is what the last call reported through ret, err or row
  stop,          \* event_loopbreak was called
  taken          \* indices of the queries taken off the list, in this order

mainVars == <<phase, query_counter, started>>
vars == <<mainVars, query_list, num_active_connections, running, sd, stop, taken>>

Init ==
  /\ phase = "adding" /\ query_list = <<>> /\ query_counter = 0
  /\ started = 0 /\ num_active_connections = 0 /\ running = 0
  /\ sd = [c \in Con |-> [ST |-> 0, armed |-> FALSE, ok |-> FALSE, rows |-> 0]]
  /\ stop = FALSE /\ taken = <<>>

----------------------------------------------------------------------------
(* main                                                                    *)

\* A line of the query file or an argument; a query is its index.
add_query ==
  /\ phase = "adding" /\ query_counter < MaxQueries
  /\ query_list' = Append(query_list, query_counter)
  /\ query_counter' = query_counter + 1
  /\ UNCHANGED <<phase, started, num_active_connections, running, sd, stop, taken>>

AllAdded ==
  /\ phase = "adding" /\ phase' = "starting"
  /\ UNCHANGED <<query_counter, started, query_list, num_active_connections, running, sd,
                 stop, taken>>

\* main runs state 0 of the next connection itself.
StartConnection ==
  /\ phase = "starting" /\ running = 0 /\ started < Connections
  /\ started' = started + 1 /\ running' = started + 1
  /\ num_active_connections' = num_active_connections + 1
  /\ UNCHANGED <<phase, query_counter, query_list, sd, stop, taken>>

\* event_dispatch forgets an earlier event_loopbreak, as libevent 2 does when it
\* enters its loop.  (A version that keeps it would return at once.)
Dispatch ==
  /\ phase = "starting" /\ running = 0 /\ started = Connections
  /\ phase' = "dispatch" /\ stop' = FALSE
  /\ UNCHANGED <<query_counter, started, query_list, num_active_connections, running, sd, taken>>

\* libevent calls the handler of an event that has come or timed out.
Event(c) ==
  /\ phase = "dispatch" /\ running = 0 /\ ~stop /\ sd[c].armed
  /\ running' = c
  /\ sd' = [sd EXCEPT ![c].armed = FALSE]
  /\ UNCHANGED <<mainVars, query_list, num_active_connections, stop, taken>>

\* event_dispatch returns: the loop was broken, or has no event left.
Exit ==
  /\ phase = "dispatch" /\ running = 0
  /\ stop \/ \A c \in Con : ~sd[c].armed
  /\ phase' = "exit"
  /\ UNCHANGED <<query_counter, started, query_list, num_active_connections, running, sd,
                 stop, taken>>

----------------------------------------------------------------------------
(* state_machine_handler of connection c.                                  *)

In(c, states) == phase \in {"starting", "dispatch"} /\ running = c /\ sd[c].ST \in states

Go(c, s) == sd' = [sd EXCEPT ![c] = s]

\* A call suspends, and next_event waits for it in state wait; or it completes
\* with outcome ok, and NEXT_IMMEDIATE goes to state next.
CallIn(c, s, wait, next, oks) ==
  \/ Go(c, [s EXCEPT !.ST = wait, !.armed = TRUE]) /\ running' = 0
  \/ \E ok \in oks : Go(c, [s EXCEPT !.ST = next, !.ok = ok]) /\ UNCHANGED running

Connect(c) ==
  /\ In(c, {0, 1})
  /\ CallIn(c, sd[c], 1, 9, BOOLEAN)
  /\ UNCHANGED <<mainVars, query_list, num_active_connections, stop, taken>>

\* fatal ends the program.
Fatal ==
  /\ phase' = "fatal"
  /\ UNCHANGED <<query_counter, started, query_list, num_active_connections, running, sd,
                 stop, taken>>

Connected(c) ==
  /\ In(c, {9})
  /\ \/ ~sd[c].ok /\ Fatal
     \/ /\ sd[c].ok /\ Go(c, [sd[c] EXCEPT !.ST = 10])
        /\ UNCHANGED <<mainVars, query_list, num_active_connections, running, stop, taken>>

\* Mutant: the list moves on only once the query is done.
TakeWithoutPop(c) ==
  /\ In(c, {10}) /\ query_list # <<>>
  /\ taken' = Append(taken, Head(query_list))
  /\ CallIn(c, [sd[c] EXCEPT !.rows = 0], 11, 20, BOOLEAN)
  /\ query_list' = IF sd'[c].ST = 20 THEN Tail(query_list) ELSE query_list
  /\ UNCHANGED <<mainVars, num_active_connections, stop>>

\* The next query of the list, which all connections share, is started.
TakeQuery(c) ==
  /\ In(c, {10}) /\ query_list # <<>>
  /\ query_list' = Tail(query_list)
  /\ taken' = Append(taken, Head(query_list))
  /\ CallIn(c, [sd[c] EXCEPT !.rows = 0], 11, 20, BOOLEAN)
  /\ UNCHANGED <<mainVars, num_active_connections, stop>>

NoMoreQueries(c) ==
  /\ In(c, {10}) /\ query_list = <<>>
  /\ Go(c, [sd[c] EXCEPT !.ST = 40])
  /\ UNCHANGED <<mainVars, query_list, num_active_connections, running, stop, taken>>

QueryContinues(c) ==
  /\ In(c, {11})
  /\ CallIn(c, sd[c], 11, 20, BOOLEAN)
  /\ UNCHANGED <<mainVars, query_list, num_active_connections, stop, taken>>

\* A failed query is reported and the next one is taken; a statement without a
\* result set ends the program.
QueryDone(c) ==
  /\ In(c, {20})
  /\ \/ sd[c].ok /\ Fatal
     \/ /\ Go(c, [sd[c] EXCEPT !.ST = IF sd[c].ok THEN 30 ELSE 10])
        /\ UNCHANGED <<mainVars, query_list, num_active_connections, running, stop, taken>>

FetchRow(c) ==
  /\ In(c, {30, 31})
  /\ CallIn(c, sd[c], 31, 39, {FALSE} \cup {r \in {TRUE} : sd[c].rows < MaxRows})
  /\ UNCHANGED <<mainVars, query_list, num_active_connections, stop, taken>>

\* A row, or the end of the result or an error: on to the next query.
RowDone(c) ==
  /\ In(c, {39})
  /\ Go(c, IF sd[c].ok THEN [sd[c] EXCEPT !.ST = 30, !.rows = @ + 1]
                       ELSE [sd[c] EXCEPT !.ST = 10])
  /\ UNCHANGED <<mainVars, query_list, num_active_connections, running, stop, taken>>

Close(c) ==
  /\ In(c, {40, 41})
  /\ CallIn(c, sd[c], 41, 50, {TRUE})
  /\ UNCHANGED <<mainVars, query_list, num_active_connections, stop, taken>>

\* Mutant: the last but one connection breaks the loop.
DoneTooEarly(c) ==
  /\ In(c, {50})
  /\ num_active_connections' = num_active_connections - 1
  /\ stop' = (stop \/ num_active_connections <= 2)
  /\ running' = 0
  /\ UNCHANGED <<mainVars, query_list, sd, taken>>

\* The last connection breaks the loop.
Done(c) ==
  /\ In(c, {50})
  /\ num_active_connections' = num_active_connections - 1
  /\ stop' = (stop \/ num_active_connections' = 0)
  /\ running' = 0
  /\ UNCHANGED <<mainVars, query_list, sd, taken>>

----------------------------------------------------------------------------
Handler(c) ==
  \/ Connect(c) \/ Connected(c) \/ TakeQuery(c) \/ NoMoreQueries(c) \/ QueryContinues(c)
  \/ QueryDone(c) \/ FetchRow(c) \/ RowDone(c) \/ Close(c) \/ Done(c)

Next ==
  \/ add_query \/ AllAdded \/ StartConnection \/ Dispatch \/ Exit
  \/ \E c \in Con : Event(c) \/ Handler(c)

Spec == Init /\ [][Next]_vars

----------------------------------------------------------------------------
(* Properties                                                              *)

\* The connections take every query once, in the order they were added, although
\* each goes on at its own pace (mysql_async_offcial.cc:191-199).
TakenInOrder ==
  taken \o query_list = [i \in 1 .. query_counter |-> i - 1]

\* The program runs "a set of queries in parallel" (mysql_async_offcial.cc:17):
\* when event_dispatch returns every query was run and every connection closed,
\* also when connections finish before the others have started.
ExitMeansAllDone ==
  phase = "exit" =>
    query_list = <<>> /\ num_active_connections = 0 /\ \A c \in Con : sd[c].ST = 50

=============================================================================
