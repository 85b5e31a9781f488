---------------------- MODULE MysqlAsyncConnectProofs ----------------------
(***************************************************************************)
(* Theorems about MysqlAsyncConnect, for every set of sessions, databases, *)
(* wait statuses and pump events, and every content of err_no_.            *)
(***************************************************************************)
EXTENDS MysqlAsyncConnect, SequenceTheorems, TLAPS

USE QueryAssumption, DBAssumption, RowsAssumption, WaitAssumption,
    PumpAssumption, ErrNoAssumption, BareReleaseAssumption

\* What the library's calls give back is well typed.
LEMMA ReturnsType ==
  ASSUME NEW ev, NEW r \in Returns(ev)
  PROVE  /\ r.status \subseteq MysqlStatus
         /\ r.errno \in Errno
         /\ r.status # {} => r.errno = "ok"
BY DEF Returns, Suspends, Fails, Errno

\* The handle after a call is a handle.
LEMMA AfterType ==
  ASSUME mysql \in Handle, NEW ev, NEW r \in Returns(ev),
         NEW op \in {"connect", "select_db", "query", "fetch", "close"}
  PROVE  After(op, r) \in Handle
BY ReturnsType DEF After, Handle

\* Leaving or staying in HandleState keeps what it writes well typed.
LEMMA GoNextType ==
  ASSUME TypeOK, NEW status \in SUBSET MysqlStatus, NEW wait_st \in State, NEW next_st \in State,
         go_next_state(status, wait_st, next_st)
  PROVE  /\ current_state' \in State /\ on_stack' \in BOOLEAN
         /\ in_event' \in SUBSET MysqlStatus
         /\ fd_event' \in BOOLEAN /\ fd_armed' \in SUBSET {"READ", "WRITE"}
         /\ timeout' \in BOOLEAN
BY DEF TypeOK, go_next_state, Return, WaitMysqlStatus, waitVars

\* Answering the current session keeps the tables well typed.
LEMMA DoneType ==
  ASSUME TypeOK, NEW code \in Code, NEW s \in [Query -> Session], DoneCurrentQuery(code, s)
  PROVE  /\ session' \in [Query -> Session] /\ finished' \in Seq(Query)
         /\ in_process' \in Query \cup {NoQuery}
<1>1. CASE in_process = NoQuery
  BY <1>1 DEF TypeOK, DoneCurrentQuery
<1>2. CASE in_process # NoQuery
  <2>1. in_process \in Query
    BY <1>2 DEF TypeOK
  <2>2. [s[in_process] EXCEPT !.code = code] \in Session
    <3>1. s[in_process] \in Session
      BY <2>1
    <3> QED
      BY <3>1, Zenon DEF Session
  <2>3. session' \in [Query -> Session]
    BY <1>2, <2>1, <2>2 DEF DoneCurrentQuery
  <2>4. finished' \in Seq(Query)
    <3>1. finished \in Seq(Query) /\ finished' = Append(finished, in_process)
      BY <1>2 DEF TypeOK, DoneCurrentQuery
    <3> QED
      BY <2>1, <3>1
  <2> QED
    BY <1>2, <2>3, <2>4 DEF DoneCurrentQuery
<1> QED
  BY <1>1, <1>2

\* The sessions not answered yet are a sequence of sessions.
LEMMA PendingType == ASSUME TypeOK PROVE Pending \in Seq(Query) /\ InProcess \in Seq(Query)
BY DEF TypeOK, Pending, InProcess

\* Answering everyone keeps the tables well typed.
LEMMA AnswerClosedType ==
  ASSUME TypeOK, AnswerClosed
  PROVE  /\ session' \in [Query -> Session] /\ finished' \in Seq(Query)
         /\ in_process' \in Query \cup {NoQuery} /\ query_list' \in Seq(Query)
         /\ started' \in Seq(Query)
<1>1. ASSUME NEW q \in Query PROVE [session[q] EXCEPT !.code = "closed"] \in Session
  <2>1. session[q] \in Session /\ "closed" \in Code
    BY DEF TypeOK, Code
  <2> QED
    BY <2>1, Zenon DEF Session
<1>2. session' \in [Query -> Session]
  BY <1>1 DEF TypeOK, AnswerClosed
<1> QED
  BY <1>2, PendingType DEF TypeOK, AnswerClosed

\* The constructor leaves every member well typed.
LEMMA InitType == Init => TypeOK
<1> SUFFICES ASSUME Init PROVE TypeOK
  OBVIOUS
<1>1. mysql \in Handle
  BY DEF Init, Handle, Errno
<1>2. session \in [Query -> Session]
  <2>1. [db |-> NoDB, sql |-> FALSE, code |-> "ok", rows |-> 0, result_count |-> 0] \in Session
    BY DEF Session, Code, Errno
  <2> QED
    BY <2>1 DEF Init
<1>3. tasks \in Seq(Task) /\ query_list \in Seq(Query) /\ started \in Seq(Query) /\ finished \in Seq(Query)
  BY DEF Init
<1>4. err_no \in Nat
  BY DEF Init
<1>5. /\ on_stack \in BOOLEAN /\ fd_event \in BOOLEAN /\ timeout \in BOOLEAN /\ ready \in BOOLEAN
      /\ schedule_close \in BOOLEAN /\ mysql_ret \in BOOLEAN /\ result_row \in BOOLEAN
      /\ destroyed \in BOOLEAN
  BY DEF Init
<1> QED
  BY <1>1, <1>2, <1>3, <1>4, <1>5 DEF Init, TypeOK, State

\* The library's calls, as HandleState makes them, keep every variable well typed.
LEMMA ConnectCallType ==
  ASSUME TypeOK, NEW ev, NEW st, Case(st), ConnectCall(ev)
  PROVE  TypeOK'
<1>1. PICK r \in Returns(ev) :
        LET up == r.status = {} /\ r.errno = "ok" IN
        /\ mysql' = [After("connect", r) EXCEPT !.link = IF up THEN "open" ELSE @,
                                                !.db = IF up THEN OptDB ELSE @]
        /\ mysql_ret' = IF r.status = {} THEN up ELSE mysql_ret
        /\ go_next_state(r.status, "CONNECT_WAIT", "CONNECT_DONE")
  BY DEF ConnectCall
<1>2. After("connect", r) \in Handle
  BY AfterType DEF TypeOK
<1>3. mysql' \in Handle
  BY <1>1, <1>2 DEF Handle
<1>4. mysql_ret' \in BOOLEAN
  BY <1>1 DEF TypeOK
<1>5. UNCHANGED <<tasks, err_no, ownerVars, started, flagVars, resVars, last_selected_db,
                  in_process, query_list, session, finished>>
  BY DEF Case, ConnectCall
<1>6. /\ current_state' \in State /\ on_stack' \in BOOLEAN /\ in_event' \in SUBSET MysqlStatus
      /\ fd_event' \in BOOLEAN /\ fd_armed' \in SUBSET {"READ", "WRITE"} /\ timeout' \in BOOLEAN
  <2>1. r.status \in SUBSET MysqlStatus /\ "CONNECT_WAIT" \in State /\ "CONNECT_DONE" \in State
    BY ReturnsType DEF State
  <2>2. go_next_state(r.status, "CONNECT_WAIT", "CONNECT_DONE")
    BY <1>1
  <2> QED
    BY <2>1, <2>2, GoNextType
<1> QED
  BY <1>3, <1>4, <1>5, <1>6 DEF TypeOK, ownerVars, flagVars, resVars

\* mysql_close_start and _cont keep the types.
LEMMA CloseCallType ==
  ASSUME TypeOK, NEW ev, NEW st, Case(st), CloseCall(ev)
  PROVE  TypeOK'
<1>1. PICK status \in {{}} \cup WaitStatus :
        /\ mysql' = IF status = {}
                    THEN [mysql EXCEPT !.op = "none", !.link = "closed", !.unread = 0]
                    ELSE [mysql EXCEPT !.op = "close"]
        /\ go_next_state(status, "CLOSE_WAIT", "CLOSE_DONE")
  BY DEF CloseCall
<1>2. status \in SUBSET MysqlStatus
  OBVIOUS
<1>3. mysql' \in Handle
  BY <1>1 DEF TypeOK, Handle
<1>4. UNCHANGED <<tasks, err_no, ownerVars, started, flagVars, resVars, last_selected_db,
                  mysql_ret, in_process, query_list, session, finished>>
  BY DEF Case, CloseCall
<1>5. /\ current_state' \in State /\ on_stack' \in BOOLEAN /\ in_event' \in SUBSET MysqlStatus
      /\ fd_event' \in BOOLEAN /\ fd_armed' \in SUBSET {"READ", "WRITE"} /\ timeout' \in BOOLEAN
  <2>1. status \in SUBSET MysqlStatus /\ "CLOSE_WAIT" \in State /\ "CLOSE_DONE" \in State
    BY <1>2 DEF State
  <2>2. go_next_state(status, "CLOSE_WAIT", "CLOSE_DONE")
    BY <1>1
  <2> QED
    BY <2>1, <2>2, GoNextType
<1> QED
  BY <1>3, <1>4, <1>5 DEF TypeOK, ownerVars, flagVars, resVars

\* What an error does to the control and to the tables.
LEMMA FailQueryType ==
  ASSUME TypeOK, NEW code \in Code, FailQuery(code)
  PROVE  /\ session' \in [Query -> Session] /\ finished' \in Seq(Query)
         /\ in_process' \in Query \cup {NoQuery}
         /\ current_state' \in State
         /\ UNCHANGED <<on_stack, in_event, waitVars>>
<1>1. session \in [Query -> Session]
  BY DEF TypeOK
<1>2. DoneCurrentQuery(code, session)
  BY DEF FailQuery
<1>3. current_state' \in State /\ UNCHANGED <<on_stack, in_event, waitVars>>
  BY DEF FailQuery, AfterError, Goto, go_next_state, State
<1> QED
  BY <1>1, <1>2, <1>3, DoneType

\* The two ways a call made for a session ends: the session fails, or the
\* state machine goes on.
LEMMA ServeType ==
  ASSUME TypeOK, NEW ev, NEW r \in Returns(ev), NEW st, Case(st),
         NEW wait_st \in State, NEW next_st \in State, mysql' \in Handle,
         \/ FailQuery(r.errno)
         \/ /\ go_next_state(r.status, wait_st, next_st)
            /\ UNCHANGED <<in_process, session, finished>>,
         UNCHANGED <<flagVars, resVars, last_selected_db, mysql_ret, query_list>>
  PROVE  TypeOK'
<1>1. r.errno \in Code /\ r.status \in SUBSET MysqlStatus
  BY ReturnsType DEF Code
<1>2. CASE FailQuery(r.errno)
  <2>1. /\ session' \in [Query -> Session] /\ finished' \in Seq(Query)
        /\ in_process' \in Query \cup {NoQuery} /\ current_state' \in State
        /\ UNCHANGED <<on_stack, in_event, waitVars>>
    BY <1>1, <1>2, FailQueryType
  <2> QED
    BY <2>1 DEF TypeOK, Case, waitVars, flagVars, resVars, ownerVars
<1>3. CASE go_next_state(r.status, wait_st, next_st) /\ UNCHANGED <<in_process, session, finished>>
  <2>1. /\ current_state' \in State /\ on_stack' \in BOOLEAN /\ in_event' \in SUBSET MysqlStatus
        /\ fd_event' \in BOOLEAN /\ fd_armed' \in SUBSET {"READ", "WRITE"} /\ timeout' \in BOOLEAN
    BY <1>1, <1>3, GoNextType
  <2> QED
    BY <1>3, <2>1 DEF TypeOK, Case, flagVars, resVars, ownerVars
<1> QED
  BY <1>2, <1>3

\* mysql_select_db_start and _cont keep the types.
LEMMA SelectDbCallType ==
  ASSUME TypeOK, NEW ev, NEW st, Case(st), SelectDbCall(ev), in_process \in Query
  PROVE  TypeOK'
<1>1. PICK r \in Returns(ev) :
        /\ mysql' = [After("select_db", r) EXCEPT
              !.db = IF r.status = {} /\ r.errno = "ok" THEN session[in_process].db ELSE @]
        /\ \/ FailQuery(r.errno)
           \/ /\ go_next_state(r.status, "SELECT_DB_WAIT", "SELECT_DB_DONE")
              /\ UNCHANGED <<in_process, session, finished>>
  BY DEF SelectDbCall
<1>2. After("select_db", r) \in Handle
  BY AfterType DEF TypeOK
<1>3. session[in_process].db \in DB \cup {NoDB}
  BY DEF TypeOK, Session
<1>4. mysql' \in Handle
  BY <1>1, <1>2, <1>3 DEF Handle
<1>5. UNCHANGED <<flagVars, resVars, last_selected_db, mysql_ret, query_list>>
  BY DEF SelectDbCall
<1> QED
  BY <1>1, <1>4, <1>5, ServeType DEF State

\* A handle after a query call is a handle.
LEMMA AfterQueryType ==
  ASSUME mysql \in Handle, NEW ev, NEW r \in Returns(ev)
  PROVE  AfterQuery(r) \in Handle
<1>1. After("query", r) \in Handle
  BY AfterType
<1> QED
  BY <1>1 DEF AfterQuery, Handle

\* mysql_fetch_row_start and _cont keep the types.
LEMMA FetchRowCallType ==
  ASSUME TypeOK, NEW ev, NEW st, Case(st), FetchRowCall(ev)
  PROVE  TypeOK'
<1>1. PICK r \in Returns(ev) :
        LET row == r.status = {} /\ r.errno = "ok" /\ mysql.unread > 0 IN
        /\ mysql' = IF row
                    THEN [After("fetch", r) EXCEPT !.unread = @ - 1, !.fetched = @ + 1]
                    ELSE After("fetch", r)
        /\ result_row' = IF r.status = {} THEN row ELSE result_row
        /\ go_next_state(r.status, "FETCH_ROW_WAIT", "FETCH_ROW_RESULT_READY")
  BY DEF FetchRowCall
<1>2. After("fetch", r) \in Handle /\ After("fetch", r).unread = mysql.unread
  <2>1. After("fetch", r) \in Handle
    BY AfterType DEF TypeOK
  <2>2. After("fetch", r).unread = mysql.unread
    BY DEF TypeOK, Handle, After
  <2> QED
    BY <2>1, <2>2
<1>3. mysql' \in Handle
  <2>1. mysql.unread > 0 =>
          [After("fetch", r) EXCEPT !.unread = @ - 1, !.fetched = @ + 1] \in Handle
    <3> SUFFICES ASSUME mysql.unread > 0
                 PROVE  [After("fetch", r) EXCEPT !.unread = @ - 1, !.fetched = @ + 1] \in Handle
      OBVIOUS
    <3>1. After("fetch", r).unread - 1 \in Nat /\ After("fetch", r).fetched + 1 \in Nat
      BY <1>2 DEF Handle
    <3> QED
      BY <1>2, <3>1, Zenon DEF Handle
  <2> QED
    BY <1>1, <1>2, <2>1
<1>4. result_row' \in BOOLEAN
  BY <1>1 DEF TypeOK
<1>5. UNCHANGED <<tasks, err_no, ownerVars, started, flagVars, result, last_selected_db,
                  mysql_ret, in_process, query_list, session, finished>>
  BY DEF Case, FetchRowCall
<1>6. /\ current_state' \in State /\ on_stack' \in BOOLEAN /\ in_event' \in SUBSET MysqlStatus
      /\ fd_event' \in BOOLEAN /\ fd_armed' \in SUBSET {"READ", "WRITE"} /\ timeout' \in BOOLEAN
  <2>1. r.status \in SUBSET MysqlStatus /\ "FETCH_ROW_WAIT" \in State /\ "FETCH_ROW_RESULT_READY" \in State
    BY ReturnsType DEF State
  <2>2. go_next_state(r.status, "FETCH_ROW_WAIT", "FETCH_ROW_RESULT_READY")
    BY <1>1
  <2> QED
    BY <2>1, <2>2, GoNextType
<1> QED
  BY <1>3, <1>4, <1>5, <1>6 DEF TypeOK, ownerVars, flagVars

----------------------------------------------------------------------------
(* The inductive invariant.                                                *)

\* The control state, the session in process and the result agree, and before
\* the first connect nothing can call HandleState.
Control ==
  /\ in_process # NoQuery => current_state \in Serving
  /\ current_state \in Serving /\ ~destroyed => in_process # NoQuery
  /\ current_state \in Fetching /\ ~destroyed => result = "live"
  /\ timeout => fd_event
  /\ current_state = "CONNECT_INIT" =>
       /\ ~on_stack /\ ~fd_event /\ ~ready
       /\ \A i \in 1 .. Len(tasks) : tasks[i].fn = "Clean"

\* SyncClose is the last task of the owner; once it ran nothing can call
\* HandleState, and once the destructor ran only its own task is left.
Work == {"HandleState", "StartQuery"}
Using == owner = "using" /\ ~destroyed /\ \A i \in 1 .. Len(tasks) : tasks[i].fn \in Work
Closing ==
  /\ owner \in {"closing", "released"} /\ ~destroyed
  /\ Len(tasks) > 0 /\ tasks[Len(tasks)] = NewTask("SyncClose")
  /\ \A i \in 1 .. Len(tasks) - 1 : tasks[i].fn \in Work
Gone ==
  /\ owner = "closing" /\ ~destroyed /\ tasks = <<>>
  /\ current_state = "CLOSE_DONE" /\ ~on_stack /\ ~fd_event /\ ~timeout
Destroyed ==
  /\ owner = "released" /\ destroyed /\ ~on_stack
  /\ \A i \in 1 .. Len(tasks) : tasks[i].fn = "Clean"
  /\ ~BareRelease => ~fd_event /\ ~timeout
Lifetime == Using \/ Closing \/ Gone \/ Destroyed

IInv == TypeOK /\ Control /\ Lifetime /\ AnsweredInOrder

\* The sequence algebra of the queue.
LEMMA SeqFacts ==
  ASSUME NEW S, NEW f \in Seq(S), NEW l \in Seq(S), NEW x \in S
  PROVE  /\ Append(f, x) \o (<<>> \o l) = f \o (<<x>> \o l)
         /\ <<>> \o l = l /\ l \o <<>> = l
         /\ l # <<>> => <<Head(l)>> \o Tail(l) = <<>> \o l
OBVIOUS

\* Sequences of length at most one.
LEMMA OneFacts ==
  ASSUME NEW S, NEW x \in S
  PROVE  /\ <<>> \in Seq(S) /\ <<x>> \in Seq(S) /\ Append(<<>>, x) = <<x>>
         /\ Len(<<x>>) = 1 /\ <<x>>[1] = x
OBVIOUS

\* The tail of a sequence of length one is empty.
LEMMA TailOne ==
  ASSUME NEW S, NEW t \in Seq(S), Len(t) = 1
  PROVE  Tail(t) = <<>>
<1>1. Tail(t) \in Seq(S) /\ Len(Tail(t)) = 0
  OBVIOUS
<1> QED
  BY <1>1, EmptySeq

\* Appending to the right part of a concatenation.
LEMMA AppendFact ==
  ASSUME NEW S, NEW f \in Seq(S), NEW l \in Seq(S), NEW x \in S
  PROVE  f \o Append(l, x) = Append(f \o l, x)
OBVIOUS

\* While HandleState runs the object exists, and its steps leave the owner alone.
LEMMA LifetimeOnStack ==
  ASSUME Lifetime, on_stack, UNCHANGED <<tasks, ownerVars>>
  PROVE  Lifetime' /\ ~destroyed /\ ~destroyed'
BY DEF Lifetime, Using, Closing, Gone, Destroyed, ownerVars

\* In a state that serves a session there is one.
LEMMA ServingOnStack ==
  ASSUME IInv, on_stack, current_state \in Serving
  PROVE  in_process \in Query
BY DEF IInv, TypeOK, Control, Lifetime, Using, Closing, Gone, Destroyed

\* Answering the session in process keeps the order.
LEMMA DoneOrder ==
  ASSUME TypeOK, AnsweredInOrder, NEW code, NEW s, DoneCurrentQuery(code, s),
         UNCHANGED <<query_list, started>>
  PROVE  AnsweredInOrder' /\ in_process' = NoQuery
<1>1. CASE in_process = NoQuery
  BY <1>1 DEF AnsweredInOrder, Pending, InProcess, DoneCurrentQuery
<1>2. CASE in_process # NoQuery
  <2>1. in_process \in Query /\ finished \in Seq(Query) /\ query_list \in Seq(Query)
    BY <1>2 DEF TypeOK
  <2>2. in_process' = NoQuery /\ finished' = Append(finished, in_process)
    BY <1>2 DEF DoneCurrentQuery
  <2>3. started = finished \o (<<in_process>> \o query_list)
    BY <1>2 DEF AnsweredInOrder, Pending, InProcess
  <2>4. started' = finished' \o (<<>> \o query_list')
    <3>1. started' = started /\ query_list' = query_list
      OBVIOUS
    <3>2. Append(finished, in_process) \o (<<>> \o query_list)
            = finished \o (<<in_process>> \o query_list)
      BY <2>1, SeqFacts
    <3> QED
      BY <2>2, <2>3, <3>1, <3>2
  <2> QED
    BY <2>2, <2>4 DEF AnsweredInOrder, Pending, InProcess
<1> QED
  BY <1>1, <1>2

\* Answering everyone keeps the order and leaves nobody.
LEMMA CloseOrder ==
  ASSUME TypeOK, AnsweredInOrder, AnswerClosed
  PROVE  AnsweredInOrder' /\ in_process' = NoQuery /\ query_list' = <<>>
<1>1. Pending' = <<>>
  BY DEF Pending, InProcess, AnswerClosed
<1>2. finished \o Pending \in Seq(Query)
  BY PendingType DEF TypeOK
<1>3. finished' \o <<>> = finished'
  BY <1>2 DEF AnswerClosed
<1> QED
  BY <1>1, <1>3 DEF AnsweredInOrder, AnswerClosed

\* Leaving the four of them alone keeps the order.
LEMMA SameOrder ==
  ASSUME AnsweredInOrder, UNCHANGED <<in_process, query_list, started, finished>>
  PROVE  AnsweredInOrder'
BY DEF AnsweredInOrder, Pending, InProcess

\* What a step of HandleState has to show for the rest of the invariant.
LEMMA StepControl ==
  ASSUME TypeOK, Control, Lifetime, on_stack, UNCHANGED <<tasks, ownerVars>>,
         current_state' # "CONNECT_INIT",
         (current_state' \in Serving) <=> (in_process' # NoQuery),
         current_state' \in Fetching => result' = "live",
         timeout' => fd_event'
  PROVE  Control' /\ Lifetime'
BY LifetimeOnStack DEF Control

\* go_next_state goes to one of its two states, and a timer has its event.
LEMMA GoNextControl ==
  ASSUME Control, NEW status, NEW wait_st, NEW next_st, go_next_state(status, wait_st, next_st)
  PROVE  /\ timeout' => fd_event'
         /\ current_state' \in {wait_st, next_st}
BY DEF Control, go_next_state, WaitMysqlStatus, waitVars

\* A failed call answers its session and goes on to idle or to close.
LEMMA FailControl ==
  ASSUME Control, TypeOK, NEW code, FailQuery(code)
  PROVE  /\ timeout' => fd_event'
         /\ current_state' \in {"CLOSE_START", "CONNECTION_IDLE"}
         /\ in_process' = NoQuery
BY DEF Control, FailQuery, AfterError, Goto, go_next_state, waitVars, DoneCurrentQuery

\* The same for a call made for the session in process.
LEMMA ServeStep ==
  ASSUME IInv, NEW ev, NEW r \in Returns(ev), NEW st \in Serving, Case(st),
         NEW wait_st \in Serving, NEW next_st \in Serving \ Fetching, mysql' \in Handle,
         wait_st \notin Fetching,
         \/ FailQuery(r.errno)
         \/ /\ go_next_state(r.status, wait_st, next_st)
            /\ UNCHANGED <<in_process, session, finished>>,
         UNCHANGED <<flagVars, resVars, last_selected_db, mysql_ret, query_list>>
  PROVE  IInv'
<1>1. in_process \in Query
  BY ServingOnStack DEF Case
<1>2. wait_st \in State /\ next_st \in State /\ "CLOSE_START" \notin Serving
      /\ "CONNECTION_IDLE" \notin Serving /\ "CONNECT_INIT" \notin Serving
      /\ Fetching \subseteq Serving
  BY DEF Serving, State, Fetching
<1>3. TypeOK'
  BY <1>2, ServeType DEF IInv
<1>4. CASE FailQuery(r.errno)
  <2>1. DoneCurrentQuery(r.errno, session) /\ UNCHANGED <<query_list, started>>
    BY <1>4 DEF FailQuery, Case
  <2>2. AnsweredInOrder'
    BY <2>1, DoneOrder DEF IInv
  <2>3. /\ timeout' => fd_event'
        /\ current_state' \in {"CLOSE_START", "CONNECTION_IDLE"}
        /\ in_process' = NoQuery
    BY <1>4, FailControl DEF IInv
  <2>4. Control' /\ Lifetime'
    BY <1>2, <2>3, StepControl DEF IInv, Case
  <2> QED
    BY <1>3, <2>2, <2>4 DEF IInv
<1>5. CASE go_next_state(r.status, wait_st, next_st) /\ UNCHANGED <<in_process, session, finished>>
  <2>1. AnsweredInOrder'
    BY <1>5, SameOrder DEF IInv, Case
  <2>2. (timeout' => fd_event') /\ current_state' \in {wait_st, next_st}
    BY <1>5, GoNextControl DEF IInv
  <2>3. Control' /\ Lifetime'
    BY <1>1, <1>2, <1>5, <2>2, StepControl DEF IInv, Case
  <2> QED
    BY <1>3, <2>1, <2>3 DEF IInv
<1> QED
  BY <1>4, <1>5

\* A call whose return only moves the control.
LEMMA MoveStep ==
  ASSUME IInv, TypeOK', NEW st, Case(st), NEW status, NEW wait_st, NEW next_st,
         go_next_state(status, wait_st, next_st),
         UNCHANGED <<in_process, query_list, finished, result>>,
         wait_st # "CONNECT_INIT", next_st # "CONNECT_INIT",
         (wait_st \in Serving) <=> (st \in Serving), (next_st \in Serving) <=> (st \in Serving),
         wait_st \in Fetching => st \in Fetching, next_st \in Fetching => st \in Fetching
  PROVE  IInv'
<1>1. AnsweredInOrder'
  BY SameOrder DEF IInv, Case
<1>2. (timeout' => fd_event') /\ current_state' \in {wait_st, next_st}
  BY GoNextControl DEF IInv
<1>3. ~destroyed
  BY LifetimeOnStack DEF IInv, Case
<1>4. Control' /\ Lifetime'
  <2>1. (st \in Serving) <=> (in_process # NoQuery)
    BY <1>3 DEF IInv, Control, Case
  <2>2. st \in Fetching => result = "live"
    BY <1>3 DEF IInv, Control, Case
  <2> QED
    BY <1>2, <2>1, <2>2, StepControl DEF IInv, Case
<1> QED
  BY <1>1, <1>4 DEF IInv

\* Every step of HandleState keeps the invariant.
LEMMA ConnectStep ==
  ASSUME IInv, NEW ev, NEW st \in {"CONNECT_START", "CONNECT_WAIT"}, Case(st), ConnectCall(ev)
  PROVE  IInv'
<1>1. PICK r \in Returns(ev) : go_next_state(r.status, "CONNECT_WAIT", "CONNECT_DONE")
  BY DEF ConnectCall
<1>2. TypeOK'
  BY ConnectCallType DEF IInv
<1>3. UNCHANGED <<in_process, query_list, finished, result>>
  BY DEF ConnectCall, resVars
<1> QED
  BY <1>1, <1>2, <1>3, MoveStep DEF Serving, Fetching

\* CLOSE_START and CLOSE_WAIT keep the invariant.
LEMMA CloseStep ==
  ASSUME IInv, NEW ev, NEW st \in {"CLOSE_START", "CLOSE_WAIT"}, Case(st), CloseCall(ev)
  PROVE  IInv'
<1>1. PICK status : go_next_state(status, "CLOSE_WAIT", "CLOSE_DONE")
  BY DEF CloseCall
<1>2. TypeOK'
  BY CloseCallType DEF IInv
<1>3. UNCHANGED <<in_process, query_list, finished, result>>
  BY DEF CloseCall, resVars
<1> QED
  BY <1>1, <1>2, <1>3, MoveStep DEF Serving, Fetching

\* FETCH_ROW_START and FETCH_ROW_WAIT keep the invariant.
LEMMA FetchStep ==
  ASSUME IInv, NEW ev, NEW st \in {"FETCH_ROW_START", "FETCH_ROW_WAIT"}, Case(st), FetchRowCall(ev)
  PROVE  IInv'
<1>1. PICK r \in Returns(ev) :
        go_next_state(r.status, "FETCH_ROW_WAIT", "FETCH_ROW_RESULT_READY")
  BY DEF FetchRowCall
<1>2. TypeOK'
  BY FetchRowCallType DEF IInv
<1>3. UNCHANGED <<in_process, query_list, finished, result>>
  BY DEF FetchRowCall
<1> QED
  BY <1>1, <1>2, <1>3, MoveStep DEF Serving, Fetching

\* SELECT_DB_START and SELECT_DB_WAIT keep the invariant.
LEMMA SelectDbStep ==
  ASSUME IInv, NEW ev, NEW st \in {"SELECT_DB_START", "SELECT_DB_WAIT"}, Case(st), SelectDbCall(ev)
  PROVE  IInv'
<1>1. st \in Serving /\ in_process \in Query
  BY ServingOnStack DEF Serving, Case
<1>2. PICK r \in Returns(ev) :
        \/ FailQuery(r.errno)
        \/ /\ go_next_state(r.status, "SELECT_DB_WAIT", "SELECT_DB_DONE")
           /\ UNCHANGED <<in_process, session, finished>>
  BY DEF SelectDbCall
<1>3. mysql' \in Handle
  BY <1>1, SelectDbCallType DEF IInv, TypeOK
<1>4. UNCHANGED <<flagVars, resVars, last_selected_db, mysql_ret, query_list>>
  BY DEF SelectDbCall
<1>5. /\ "SELECT_DB_WAIT" \in Serving /\ "SELECT_DB_DONE" \in Serving \ Fetching
      /\ "SELECT_DB_WAIT" \notin Fetching
  BY DEF Serving, Fetching
<1> QED
  BY <1>1, <1>2, <1>3, <1>4, <1>5, ServeStep

\* QUERY_START and QUERY_WAIT keep the invariant, whatever err_no_ holds.
LEMMA QueryStep ==
  ASSUME IInv, QueryStart \/ QueryWait
  PROVE  IInv'
<1>1. PICK st \in {"QUERY_START", "QUERY_WAIT"} : Case(st)
  BY DEF QueryStart, QueryWait
<1>2. PICK ev : \E r \in Returns(ev) :
        /\ mysql' = AfterQuery(r)
        /\ \/ FailQuery(r.errno)
           \/ /\ go_next_state(r.status, "QUERY_WAIT", "QUERY_RESULT_READY")
              /\ UNCHANGED <<in_process, session, finished>>
  BY DEF QueryStart, QueryWait
<1>3. PICK r \in Returns(ev) :
        /\ mysql' = AfterQuery(r)
        /\ \/ FailQuery(r.errno)
           \/ /\ go_next_state(r.status, "QUERY_WAIT", "QUERY_RESULT_READY")
              /\ UNCHANGED <<in_process, session, finished>>
  BY <1>2
<1>4. mysql' \in Handle
  BY <1>3, AfterQueryType DEF IInv, TypeOK
<1>5. UNCHANGED <<flagVars, resVars, last_selected_db, mysql_ret, query_list>>
  BY DEF QueryStart, QueryWait
<1>6. /\ st \in Serving /\ "QUERY_WAIT" \in Serving
      /\ "QUERY_RESULT_READY" \in Serving \ Fetching /\ "QUERY_WAIT" \notin Fetching
  BY DEF Serving, Fetching
<1> QED
  BY <1>1, <1>3, <1>4, <1>5, <1>6, ServeStep

\* CONNECT_DONE keeps the invariant.
LEMMA ConnectDoneStep ==
  ASSUME IInv, ConnectDone
  PROVE  IInv'
<1>1. PICK st \in {"CONNECTION_IDLE", "CLOSE_START"} : go_next_state({}, st, st)
  BY DEF ConnectDone, Goto
<1>2. UNCHANGED <<in_process, query_list, finished, result>>
  BY DEF ConnectDone, resVars
<1>3. last_selected_db' \in DB \cup {NoDB} /\ ready' \in BOOLEAN
  BY DEF ConnectDone, IInv, TypeOK
<1>4. UNCHANGED <<tasks, err_no, ownerVars, started, schedule_close, resVars, mysql_ret, mysql,
                  in_process, query_list, session, finished>>
  BY DEF ConnectDone, Case
<1>5. current_state' \in State /\ UNCHANGED <<on_stack, in_event, waitVars>>
  BY <1>1 DEF go_next_state, State
<1>6. TypeOK'
  BY <1>3, <1>4, <1>5 DEF IInv, TypeOK, ownerVars, resVars, waitVars
<1>7. Case("CONNECT_DONE")
  BY DEF ConnectDone
<1> QED
  BY <1>1, <1>2, <1>6, <1>7, MoveStep DEF Serving, Fetching

\* clean_up keeps the types of what it writes.
LEMMA CleanUpType ==
  ASSUME TypeOK, clean_up
  PROVE  /\ session' \in [Query -> Session] /\ finished' \in Seq(Query)
         /\ in_process' \in Query \cup {NoQuery} /\ query_list' \in Seq(Query)
         /\ started' \in Seq(Query)
         /\ fd_event' \in BOOLEAN /\ fd_armed' \in SUBSET {"READ", "WRITE"}
         /\ timeout' \in BOOLEAN
<1>1. AnswerClosed
  BY DEF clean_up
<1> QED
  BY <1>1, AnswerClosedType DEF clean_up, TypeOK

\* clean_up answers everyone in order and drops the event and the timer.
LEMMA CleanUpControl ==
  ASSUME IInv, clean_up
  PROVE  /\ AnsweredInOrder' /\ in_process' = NoQuery /\ query_list' = <<>>
         /\ ~fd_event' /\ ~timeout'
<1>1. AnswerClosed
  BY DEF clean_up
<1>2. ~fd_event' /\ ~timeout'
  BY DEF clean_up, IInv, Control
<1> QED
  BY <1>1, <1>2, CloseOrder DEF IInv

\* CLOSE_DONE keeps the invariant.
LEMMA CloseDoneStep ==
  ASSUME IInv, CloseDone
  PROVE  IInv'
<1>1. clean_up /\ Case("CLOSE_DONE") /\ current_state' = "CONNECT_DONE"
  BY DEF CloseDone
<1>2. TypeOK'
  <2>1. /\ session' \in [Query -> Session] /\ finished' \in Seq(Query)
        /\ in_process' \in Query \cup {NoQuery} /\ query_list' \in Seq(Query)
        /\ started' \in Seq(Query)
        /\ fd_event' \in BOOLEAN /\ fd_armed' \in SUBSET {"READ", "WRITE"}
        /\ timeout' \in BOOLEAN
    BY <1>1, CleanUpType DEF IInv
  <2>2. on_stack' = FALSE /\ in_event' = {} /\ ready' = FALSE
    BY DEF CloseDone, Return
  <2>3. UNCHANGED <<tasks, err_no, ownerVars, schedule_close, resVars, last_selected_db,
                    mysql_ret, mysql>>
    BY <1>1 DEF CloseDone, Case
  <2> QED
    BY <1>1, <2>1, <2>2, <2>3 DEF IInv, TypeOK, ownerVars, resVars, State
<1>3. AnsweredInOrder' /\ in_process' = NoQuery /\ ~fd_event' /\ ~timeout'
  BY <1>1, CleanUpControl
<1>4. Control' /\ Lifetime'
  BY <1>1, <1>3, StepControl DEF IInv, Case, Serving, Fetching
<1> QED
  BY <1>2, <1>3, <1>4 DEF IInv

\* Finishing the session in process and going on in a state that serves nobody.
LEMMA FinishStep ==
  ASSUME IInv, NEW st \in Serving, Case(st), NEW next_st \in {"CONNECTION_IDLE", "CLOSE_START"},
         NEW code \in Code, NEW s \in [Query -> Session], DoneCurrentQuery(code, s), Goto(next_st),
         mysql' \in Handle, result' \in {"null", "live", "freed"},
         last_selected_db' \in DB \cup {NoDB},
         UNCHANGED <<flagVars, result_row, mysql_ret, query_list>>
  PROVE  IInv'
<1>1. /\ session' \in [Query -> Session] /\ finished' \in Seq(Query)
      /\ in_process' \in Query \cup {NoQuery}
  BY DoneType DEF IInv
<1>2. current_state' = next_st /\ UNCHANGED <<on_stack, in_event, waitVars>>
  BY DEF Goto, go_next_state
<1>3. UNCHANGED <<tasks, err_no, ownerVars, started>>
  BY DEF Case
<1>4. TypeOK'
  BY <1>1, <1>2, <1>3 DEF IInv, TypeOK, ownerVars, flagVars, waitVars, State
<1>5. AnsweredInOrder' /\ in_process' = NoQuery
  BY <1>3, DoneOrder DEF IInv
<1>6. timeout' => fd_event'
  BY <1>2 DEF IInv, Control, waitVars
<1>7. Control' /\ Lifetime'
  BY <1>2, <1>3, <1>5, <1>6, StepControl DEF IInv, Case, Serving, Fetching
<1> QED
  BY <1>4, <1>5, <1>7 DEF IInv

\* The idle state without sessions keeps the invariant.
LEMMA IdleEmptyStep ==
  ASSUME IInv, IdleEmpty
  PROVE  IInv'
<1>1. /\ Case("CONNECTION_IDLE")
      /\ UNCHANGED <<tasks, err_no, ownerVars, started, waitVars, flagVars, resVars,
                     last_selected_db, mysql_ret, mysql, in_process, query_list, session, finished>>
  BY DEF IdleEmpty, Case, Goto, go_next_state
<1>2. /\ current_state' \in {"CONNECTION_IDLE", "CLOSE_START"} /\ on_stack' \in BOOLEAN
      /\ in_event' \in SUBSET MysqlStatus
  BY DEF IdleEmpty, Case, Goto, go_next_state, Return, IInv, TypeOK
<1>3. TypeOK'
  BY <1>1, <1>2 DEF IInv, TypeOK, ownerVars, flagVars, resVars, waitVars, State
<1>4. AnsweredInOrder'
  BY <1>1, SameOrder DEF IInv
<1>5. in_process' = NoQuery /\ (timeout' => fd_event')
  BY <1>1 DEF IInv, Control, Case, Serving, waitVars
<1>6. Control' /\ Lifetime'
  BY <1>1, <1>2, <1>5, StepControl DEF IInv, Case, Serving, Fetching
<1> QED
  BY <1>3, <1>4, <1>6 DEF IInv

\* Taking the next session keeps the invariant.
LEMMA IdleTakeStep ==
  ASSUME IInv, IdleTake
  PROVE  IInv'
<1>1. /\ Case("CONNECTION_IDLE") /\ query_list # <<>>
      /\ in_process' = Head(query_list) /\ query_list' = Tail(query_list)
      /\ UNCHANGED <<tasks, err_no, ownerVars, started, flagVars, resVars, last_selected_db,
                     mysql_ret, mysql, session, finished>>
  BY DEF IdleTake, Case
<1>2. /\ current_state' \in {"SELECT_DB_START", "QUERY_START"}
      /\ UNCHANGED <<on_stack, in_event, waitVars>>
  BY DEF IdleTake, Goto, go_next_state
<1>3. in_process = NoQuery /\ in_process' \in Query /\ query_list' \in Seq(Query)
  BY <1>1 DEF IInv, Control, Case, Serving, TypeOK
<1>4. TypeOK'
  BY <1>1, <1>2, <1>3 DEF IInv, TypeOK, ownerVars, flagVars, resVars, waitVars, State
<1>5. AnsweredInOrder'
  <2>1. Pending = <<>> \o query_list
    BY <1>3 DEF Pending, InProcess
  <2>2. Pending' = <<Head(query_list)>> \o Tail(query_list)
    BY <1>1, <1>3 DEF Pending, InProcess
  <2>3. Pending' = Pending
    BY <1>1, <1>3, <2>1, <2>2, SeqFacts DEF IInv, TypeOK
  <2> QED
    BY <1>1, <2>3 DEF IInv, AnsweredInOrder
<1>6. in_process' # NoQuery /\ (timeout' => fd_event')
  BY <1>2, <1>3 DEF IInv, Control, waitVars
<1>7. Control' /\ Lifetime'
  BY <1>1, <1>2, <1>6, StepControl DEF IInv, Case, Serving, Fetching
<1> QED
  BY <1>4, <1>5, <1>7 DEF IInv

\* SELECT_DB_DONE keeps the invariant.
LEMMA SelectDbDoneStep ==
  ASSUME IInv, SelectDbDone
  PROVE  IInv'
<1>1. /\ Case("SELECT_DB_DONE") /\ last_selected_db' = session[in_process].db
      /\ UNCHANGED <<flagVars, resVars, mysql_ret, mysql, query_list>>
  BY DEF SelectDbDone
<1>2. in_process \in Query /\ "SELECT_DB_DONE" \in Serving
  BY <1>1, ServingOnStack DEF Serving, Case
<1>3. last_selected_db' \in DB \cup {NoDB}
  BY <1>1, <1>2 DEF IInv, TypeOK, Session
<1>4. CASE Goto("QUERY_START") /\ UNCHANGED <<in_process, session, finished>>
  <2>1. go_next_state({}, "QUERY_START", "QUERY_START")
    BY <1>4 DEF Goto
  <2>2. current_state' = "QUERY_START" /\ UNCHANGED <<on_stack, in_event, waitVars>>
    BY <2>1 DEF go_next_state
  <2>3. TypeOK'
    BY <1>1, <1>3, <1>4, <2>2 DEF IInv, TypeOK, Case, ownerVars, flagVars, resVars, waitVars, State
  <2> QED
    BY <1>1, <1>4, <2>1, <2>3, MoveStep DEF resVars, Serving, Fetching
<1>5. CASE DoneCurrentQuery("ok", session) /\ Goto("CONNECTION_IDLE")
  <2>1. "ok" \in Code /\ session \in [Query -> Session] /\ mysql' \in Handle
        /\ result' \in {"null", "live", "freed"}
    BY <1>1 DEF IInv, TypeOK, Code, Errno, resVars
  <2>2. UNCHANGED <<flagVars, result_row, mysql_ret, query_list>>
    BY <1>1 DEF resVars
  <2> QED
    BY <1>1, <1>2, <1>3, <1>5, <2>1, <2>2, FinishStep
<1> QED
  BY <1>4, <1>5 DEF SelectDbDone

\* An empty statement keeps the invariant.
LEMMA QueryStartEmptyStep ==
  ASSUME IInv, QueryStartEmpty
  PROVE  IInv'
<1>1. /\ Case("QUERY_START") /\ DoneCurrentQuery("empty", session) /\ Goto("CONNECTION_IDLE")
      /\ UNCHANGED <<flagVars, result_row, mysql_ret, query_list>>
  BY DEF QueryStartEmpty, resVars
<1>2. /\ "empty" \in Code /\ session \in [Query -> Session] /\ mysql' \in Handle
      /\ result' \in {"null", "live", "freed"} /\ last_selected_db' \in DB \cup {NoDB}
      /\ "QUERY_START" \in Serving
  BY DEF QueryStartEmpty, IInv, TypeOK, Code, resVars, Serving
<1> QED
  BY <1>1, <1>2, FinishStep

\* A query without a result set keeps the invariant.
LEMMA UseResultNullStep ==
  ASSUME IInv, UseResultNull
  PROVE  IInv'
<1>1. PICK e \in Errno : mysql' = [mysql EXCEPT !.errno = e] /\ FailQuery(e)
  BY DEF UseResultNull, IInv, TypeOK, Handle
<1>2. PICK next_st \in {"CONNECTION_IDLE", "CLOSE_START"} : Goto(next_st)
  BY <1>1 DEF FailQuery, AfterError
<1>3. mysql' \in Handle
  BY <1>1 DEF IInv, TypeOK, Handle
<1>4. /\ Case("QUERY_RESULT_READY") /\ DoneCurrentQuery(e, session) /\ e \in Code
      /\ "QUERY_RESULT_READY" \in Serving /\ session \in [Query -> Session]
      /\ result' \in {"null", "live", "freed"} /\ last_selected_db' \in DB \cup {NoDB}
      /\ UNCHANGED <<flagVars, result_row, mysql_ret, query_list>>
  BY <1>1 DEF UseResultNull, FailQuery, IInv, TypeOK, Code, Serving
<1> QED
  BY <1>2, <1>3, <1>4, FinishStep

\* A query with a result set keeps the invariant.
LEMMA UseResultStep ==
  ASSUME IInv, UseResult
  PROVE  IInv'
<1>1. PICK n \in 0 .. MaxRows : mysql' = [mysql EXCEPT !.unread = n]
  BY DEF UseResult
<1>2. mysql' \in Handle
  <2>1. n \in Nat
    OBVIOUS
  <2> QED
    BY <1>1, <2>1, Zenon DEF IInv, TypeOK, Handle
<1>3. /\ Case("QUERY_RESULT_READY") /\ result' = "live"
      /\ UNCHANGED <<tasks, err_no, ownerVars, started, flagVars, result_row, last_selected_db,
                     mysql_ret, in_process, query_list, session, finished>>
  BY DEF UseResult, Case
<1>4. current_state' = "FETCH_ROW_START" /\ UNCHANGED <<on_stack, in_event, waitVars>>
  BY DEF UseResult, Goto, go_next_state
<1>5. TypeOK'
  BY <1>2, <1>3, <1>4 DEF IInv, TypeOK, ownerVars, flagVars, waitVars, State
<1>6. AnsweredInOrder'
  BY <1>3, SameOrder DEF IInv
<1>7. in_process' # NoQuery /\ (timeout' => fd_event')
  BY <1>3, <1>4, ServingOnStack DEF IInv, Control, Case, Serving, waitVars
<1>8. Control' /\ Lifetime'
  BY <1>3, <1>4, <1>7, StepControl DEF IInv, Case, Serving, Fetching
<1> QED
  BY <1>5, <1>6, <1>8 DEF IInv

\* A delivered row keeps the invariant.
LEMMA FetchRowReadyStep ==
  ASSUME IInv, FetchRowReady
  PROVE  IInv'
<1>1. /\ Case("FETCH_ROW_RESULT_READY")
      /\ session' = [session EXCEPT ![in_process].rows = @ + 1]
      /\ go_next_state({}, "FETCH_ROW_START", "FETCH_ROW_START")
      /\ UNCHANGED <<flagVars, resVars, last_selected_db, mysql_ret, mysql, in_process,
                     query_list, finished>>
  BY DEF FetchRowReady, Goto
<1>2. in_process \in Query
  BY <1>1, ServingOnStack DEF Case, Serving
<1>3. session' \in [Query -> Session]
  <2>1. session[in_process] \in Session
    BY <1>2 DEF IInv, TypeOK
  <2>2. session[in_process].rows + 1 \in Nat
    BY <2>1 DEF Session
  <2>3. [session[in_process] EXCEPT !.rows = session[in_process].rows + 1] \in Session
    BY <2>1, <2>2, Zenon DEF Session
  <2> QED
    BY <1>1, <1>2, <2>3 DEF IInv, TypeOK
<1>4. current_state' = "FETCH_ROW_START" /\ UNCHANGED <<on_stack, in_event, waitVars>>
  BY <1>1 DEF go_next_state
<1>5. TypeOK'
  BY <1>1, <1>3, <1>4 DEF IInv, TypeOK, Case, ownerVars, flagVars, resVars, waitVars, State
<1> QED
  BY <1>1, <1>5, MoveStep DEF resVars, Serving, Fetching

\* The end of a result set keeps the invariant.
LEMMA FetchRowEndStep ==
  ASSUME IInv, FetchRowEnd
  PROVE  IInv'
<1> DEFINE s == [session EXCEPT ![in_process].result_count = mysql.fetched]
<1>1. /\ Case("FETCH_ROW_RESULT_READY") /\ result' = "freed"
      /\ mysql' = [mysql EXCEPT !.unread = 0]
      /\ DoneCurrentQuery(mysql.errno, s) /\ Goto("CONNECTION_IDLE")
      /\ UNCHANGED <<flagVars, result_row, last_selected_db, mysql_ret, query_list>>
  BY DEF FetchRowEnd
<1>2. in_process \in Query /\ "FETCH_ROW_RESULT_READY" \in Serving
  BY <1>1, ServingOnStack DEF Case, Serving
<1>3. mysql' \in Handle /\ mysql.errno \in Code /\ mysql.fetched \in Nat
  BY <1>1 DEF IInv, TypeOK, Handle, Code
<1>4. s \in [Query -> Session]
  <2>1. session \in [Query -> Session] /\ session[in_process] \in Session
    BY <1>2 DEF IInv, TypeOK
  <2>2. [session[in_process] EXCEPT !.result_count = mysql.fetched] \in Session
    BY <1>3, <2>1, Zenon DEF Session
  <2> QED
    BY <1>2, <2>1, <2>2
<1>5. last_selected_db' \in DB \cup {NoDB}
  BY <1>1 DEF IInv, TypeOK
<1> HIDE DEF s
<1> QED
  BY <1>1, <1>2, <1>3, <1>4, <1>5, FinishStep

\* Every case of HandleState keeps the invariant.
LEMMA HandleStateStep ==
  ASSUME IInv, HandleState
  PROVE  IInv'
<1>1. CASE ConnectStart \/ ConnectWait
  BY <1>1, ConnectStep DEF ConnectStart, ConnectWait
<1>2. CASE CloseStart \/ CloseWait
  BY <1>2, CloseStep DEF CloseStart, CloseWait
<1>3. CASE SelectDbStart \/ SelectDbWait
  BY <1>3, SelectDbStep DEF SelectDbStart, SelectDbWait
<1>4. CASE FetchRowStart \/ FetchRowWait
  BY <1>4, FetchStep DEF FetchRowStart, FetchRowWait
<1> QED
  BY <1>1, <1>2, <1>3, <1>4, ConnectDoneStep, CloseDoneStep, IdleEmptyStep, IdleTakeStep,
     SelectDbDoneStep, QueryStartEmptyStep, QueryStep, UseResultNullStep, UseResultStep,
     FetchRowReadyStep, FetchRowEndStep DEF HandleState

\* A step that leaves the sessions, the control state and the owner alone.
LEMMA QuietStep ==
  ASSUME IInv, UNCHANGED <<tasks, queueVars, ownerVars, current_state, mysql, mysql_ret, resVars,
                           last_selected_db, err_no>>,
         ready' \in BOOLEAN, schedule_close' \in BOOLEAN, on_stack' \in BOOLEAN,
         in_event' \in SUBSET MysqlStatus, fd_event' = fd_event,
         fd_armed' \in SUBSET {"READ", "WRITE"}, timeout' \in BOOLEAN, timeout' => timeout,
         current_state = "CONNECT_INIT" => ~on_stack' /\ ~ready',
         on_stack' => ~Gone /\ ~destroyed
  PROVE  IInv'
<1>1. TypeOK'
  BY DEF IInv, TypeOK, queueVars, ownerVars, resVars
<1>2. AnsweredInOrder'
  BY SameOrder DEF IInv, queueVars
<1>3. Control'
  BY DEF IInv, Control, queueVars, ownerVars, resVars
<1>4. Lifetime'
  BY DEF IInv, Lifetime, Using, Closing, Gone, Destroyed, ownerVars
<1> QED
  BY <1>1, <1>2, <1>3, <1>4 DEF IInv

\* The first task is taken: what the rest of the queue is.
LEMMA TailFacts ==
  ASSUME TypeOK, tasks # <<>>
  PROVE  /\ Head(tasks) \in Task /\ Head(tasks) = tasks[1]
         /\ Tail(tasks) \in Seq(Task) /\ Len(Tail(tasks)) = Len(tasks) - 1
         /\ \A i \in 1 .. Len(Tail(tasks)) : Tail(tasks)[i] = tasks[i + 1]
         /\ Len(tasks) \in Nat /\ Len(tasks) > 0
BY DEF TypeOK

\* The work tasks of the queue: taking one keeps the lifetime of the object.
LEMMA WorkLifetime ==
  ASSUME IInv, tasks # <<>>, Head(tasks).fn \in Work, tasks' = Tail(tasks),
         UNCHANGED ownerVars
  PROVE  Lifetime' /\ ~destroyed /\ current_state # "CONNECT_INIT"
<1>1. TypeOK /\ Lifetime
  BY DEF IInv
<1>2. tasks[1].fn \in Work /\ 1 \in 1 .. Len(tasks)
  BY <1>1, TailFacts
<1>3. ~destroyed /\ ~Gone /\ ~Destroyed /\ current_state # "CONNECT_INIT"
  <2>1. ~Gone
    BY DEF Gone
  <2>2. ~Destroyed
    BY <1>2 DEF Destroyed, Work
  <2>3. ~destroyed
    BY <1>1, <2>1, <2>2 DEF Lifetime, Using, Closing
  <2>4. current_state # "CONNECT_INIT"
    BY <1>2 DEF IInv, Control, Work
  <2> QED
    BY <2>1, <2>2, <2>3, <2>4
<1>4. CASE Using
  <2>1. Using'
    BY <1>1, <1>4, TailFacts DEF Using, ownerVars
  <2> QED
    BY <2>1, <1>3 DEF Lifetime
<1>5. CASE Closing
  <2>1. Len(tasks) # 1
    BY <1>2, <1>5 DEF Closing, Work, NewTask
  <2>2. Closing'
    BY <1>1, <1>5, <2>1, TailFacts DEF Closing, ownerVars, NewTask
  <2> QED
    BY <2>2, <1>3 DEF Lifetime
<1> QED
  BY <1>1, <1>3, <1>4, <1>5 DEF Lifetime

\* The closure posted by Connect keeps the invariant.
LEMMA RunHandleStateStep ==
  ASSUME IInv, RunHandleState
  PROVE  IInv'
<1>1. /\ tasks # <<>> /\ Head(tasks).fn \in Work /\ tasks' = Tail(tasks)
      /\ on_stack' = TRUE /\ in_event' = {}
      /\ UNCHANGED <<waitVars, queueVars, flagVars, ownerVars, current_state, mysql, err_no,
                     mysql_ret, resVars, last_selected_db>>
  BY DEF RunHandleState, TakeTask, AtRest, Call, Work
<1>2. Lifetime' /\ ~destroyed /\ current_state # "CONNECT_INIT"
  BY <1>1, WorkLifetime
<1>3. tasks' \in Seq(Task)
  BY <1>1, TailFacts DEF IInv
<1>4. TypeOK'
  BY <1>1, <1>3 DEF IInv, TypeOK, waitVars, queueVars, flagVars, ownerVars, resVars
<1>5. AnsweredInOrder'
  BY <1>1, SameOrder DEF IInv, queueVars
<1>6. Control'
  BY <1>1, <1>2 DEF IInv, Control, waitVars, queueVars, flagVars, ownerVars, resVars
<1> QED
  BY <1>2, <1>4, <1>5, <1>6 DEF IInv

\* StartQuery keeps the invariant.
LEMMA RunStartQueryStep ==
  ASSUME IInv, RunStartQuery
  PROVE  IInv'
<1> DEFINE q == Head(tasks).q
<1>1. /\ tasks # <<>> /\ Head(tasks).fn = "StartQuery" /\ tasks' = Tail(tasks)
      /\ query_list' = Append(query_list, q) /\ started' = Append(started, q)
      /\ UNCHANGED <<waitVars, in_process, session, finished, flagVars, ownerVars,
                     current_state, mysql, err_no, mysql_ret, resVars, last_selected_db>>
  BY DEF RunStartQuery, TakeTask, AtRest
<1>2. on_stack' \in BOOLEAN /\ in_event' \in SUBSET MysqlStatus
  BY DEF RunStartQuery, Call, IInv, TypeOK
<1>3. Lifetime' /\ ~destroyed /\ current_state # "CONNECT_INIT"
  BY <1>1, WorkLifetime DEF Work
<1>4. tasks' \in Seq(Task) /\ q \in Query
  <2>1. tasks' \in Seq(Task) /\ Head(tasks) \in Task
    BY <1>1, TailFacts DEF IInv
  <2> QED
    BY <1>1, <2>1 DEF Task
<1>5. TypeOK'
  BY <1>1, <1>2, <1>4 DEF IInv, TypeOK, waitVars, flagVars, ownerVars, resVars
<1>6. AnsweredInOrder'
  <2>1. InProcess' = InProcess
    BY <1>1 DEF InProcess
  <2>2. /\ finished \in Seq(Query) /\ InProcess \in Seq(Query) /\ query_list \in Seq(Query)
        /\ InProcess \o query_list \in Seq(Query)
    BY PendingType DEF IInv, TypeOK, Pending
  <2>3. InProcess \o Append(query_list, q) = Append(Pending, q)
    BY <1>4, <2>2, AppendFact DEF Pending
  <2>4. finished \o Append(Pending, q) = Append(finished \o Pending, q)
    BY <1>4, <2>2, AppendFact DEF Pending
  <2>5. Pending' = Append(Pending, q)
    BY <1>1, <2>1, <2>3 DEF Pending
  <2> QED
    BY <1>1, <2>4, <2>5 DEF IInv, AnsweredInOrder
<1>7. Control'
  BY <1>1, <1>3 DEF IInv, Control, waitVars, flagVars, ownerVars, resVars
<1> QED
  BY <1>3, <1>5, <1>6, <1>7 DEF IInv

\* SyncClose, and the destructor it may trigger, keep the invariant.
LEMMA RunSyncCloseStep ==
  ASSUME IInv, RunSyncClose
  PROVE  IInv'
<1>1. /\ tasks # <<>> /\ Head(tasks).fn = "SyncClose" /\ ~on_stack
      /\ clean_up /\ ready' = FALSE /\ current_state' = "CLOSE_DONE"
      /\ destroyed' = (owner = "released")
      /\ tasks' = IF owner = "released" THEN Append(Tail(tasks), NewTask("Clean")) ELSE Tail(tasks)
      /\ UNCHANGED <<on_stack, in_event, schedule_close, owner, err_no, mysql_ret, resVars,
                     last_selected_db>>
  BY DEF RunSyncClose, TakeTask, AtRest
<1>2. TypeOK /\ Lifetime
  BY DEF IInv
<1>3. Closing /\ Len(tasks) = 1 /\ Tail(tasks) = <<>>
  <2>1. Head(tasks) = tasks[1] /\ 1 \in 1 .. Len(tasks) /\ Len(tasks) \in Nat
    BY <1>1, <1>2, TailFacts
  <2>2. ~Using /\ ~Gone /\ ~Destroyed
    BY <1>1, <2>1 DEF Using, Gone, Destroyed, Work
  <2>3. Closing
    BY <1>2, <2>2 DEF Lifetime
  <2>4. tasks[1].fn = "SyncClose"
    BY <1>1, <2>1
  <2>5. Len(tasks) = 1
    <3>1. \A i \in 1 .. Len(tasks) - 1 : tasks[i].fn # "SyncClose"
      BY <2>3 DEF Closing, Work
    <3>2. Len(tasks) # 1 => 1 \in 1 .. Len(tasks) - 1
      <4>1. Len(tasks) \in Nat /\ 1 \in 1 .. Len(tasks)
        BY <2>1
      <4>2. \A n \in Nat : 1 \in 1 .. n /\ n # 1 => 1 \in 1 .. n - 1
        OBVIOUS
      <4> QED
        BY <4>1, <4>2
    <3> QED
      BY <2>4, <3>1, <3>2, Zenon
  <2>6. Tail(tasks) = <<>>
    <3>1. tasks \in Seq(Task)
      BY <1>2 DEF TypeOK
    <3> QED
      BY <2>5, <3>1, TailOne, Zenon
  <2> QED
    BY <2>3, <2>5, <2>6
<1>4. NewTask("Clean") \in Task
  BY DEF NewTask, Task
<1>5. tasks' = IF owner = "released" THEN <<NewTask("Clean")>> ELSE <<>>
  <2>1. tasks' = IF owner = "released" THEN Append(<<>>, NewTask("Clean")) ELSE <<>>
    BY <1>1, <1>3, Zenon
  <2> QED
    BY <1>4, <2>1, OneFacts, Zenon
<1>6. tasks' \in Seq(Task)
  BY <1>4, <1>5, OneFacts, Zenon
<1>7. mysql' \in Handle
  <2>1. mysql' = [mysql EXCEPT !.op = "none", !.link = "closed", !.unread = 0]
    BY DEF RunSyncClose
  <2> QED
    BY <1>2, <2>1 DEF TypeOK, Handle
<1>8. /\ session' \in [Query -> Session] /\ finished' \in Seq(Query)
      /\ in_process' \in Query \cup {NoQuery} /\ query_list' \in Seq(Query)
      /\ started' \in Seq(Query)
      /\ fd_event' \in BOOLEAN /\ fd_armed' \in SUBSET {"READ", "WRITE"}
      /\ timeout' \in BOOLEAN
  BY <1>1, <1>2, CleanUpType
<1>9. TypeOK'
  BY <1>1, <1>2, <1>6, <1>7, <1>8 DEF TypeOK, resVars, State
<1>10. /\ AnsweredInOrder' /\ in_process' = NoQuery /\ ~fd_event' /\ ~timeout'
  BY <1>1, CleanUpControl
<1>11. Control'
  BY <1>1, <1>10 DEF Control, Serving, Fetching
<1>12. Lifetime'
  <2>1. CASE owner = "released"
    <3>1. tasks' = <<NewTask("Clean")>> /\ destroyed'
      BY <1>1, <1>5, <2>1, Zenon
    <3>2. \A i \in 1 .. Len(tasks') : tasks'[i].fn = "Clean"
      BY <3>1 DEF NewTask
    <3> QED
      BY <1>1, <1>10, <2>1, <3>1, <3>2 DEF Lifetime, Destroyed
  <2>2. CASE owner = "closing"
    BY <1>1, <1>5, <1>10, <2>2, Zenon DEF Lifetime, Gone
  <2> QED
    BY <1>3, <2>1, <2>2 DEF Closing
<1> QED
  BY <1>9, <1>10, <1>11, <1>12 DEF IInv

\* The destructor's closure keeps the invariant.
LEMMA RunCleanStep ==
  ASSUME IInv, RunClean
  PROVE  IInv'
<1>1. /\ tasks # <<>> /\ Head(tasks).fn = "Clean" /\ ~on_stack /\ tasks' = Tail(tasks)
      /\ fd_event' = FALSE /\ fd_armed' = {} /\ timeout' = FALSE
      /\ UNCHANGED <<on_stack, in_event, queueVars, flagVars, ownerVars, current_state, mysql,
                     err_no, mysql_ret, resVars, last_selected_db>>
  BY DEF RunClean, TakeTask, AtRest
<1>2. TypeOK /\ Lifetime
  BY DEF IInv
<1>3. /\ Head(tasks) = tasks[1] /\ 1 \in 1 .. Len(tasks) /\ Len(tasks) \in Nat
      /\ Tail(tasks) \in Seq(Task) /\ Len(Tail(tasks)) = Len(tasks) - 1
      /\ \A i \in 1 .. Len(Tail(tasks)) : Tail(tasks)[i] = tasks[i + 1]
  BY <1>1, <1>2, TailFacts
<1>4. Destroyed
  <2>1. ~Using /\ ~Gone
    BY <1>1, <1>3 DEF Using, Gone, Work
  <2>2. ~Closing
    BY <1>1, <1>3 DEF Closing, Work, NewTask
  <2> QED
    BY <1>2, <2>1, <2>2 DEF Lifetime
<1>5. Destroyed'
  BY <1>1, <1>3, <1>4 DEF Destroyed, ownerVars
<1>6. TypeOK'
  <2>1. /\ tasks' \in Seq(Task) /\ fd_event' \in BOOLEAN /\ timeout' \in BOOLEAN
        /\ fd_armed' \in SUBSET {"READ", "WRITE"}
    BY <1>1, <1>3
  <2>2. UNCHANGED <<on_stack, in_event, queueVars, flagVars, ownerVars, current_state, mysql,
                    err_no, mysql_ret, resVars, last_selected_db>>
    BY <1>1
  <2> QED
    BY <1>2, <2>1, <2>2 DEF TypeOK, queueVars, flagVars, ownerVars, resVars
<1>7. AnsweredInOrder'
  BY <1>1, SameOrder DEF IInv, queueVars
<1>8. Control'
  BY <1>1, <1>5 DEF IInv, Control, Destroyed, queueVars, flagVars, ownerVars, resVars
<1> QED
  BY <1>5, <1>6, <1>7, <1>8 DEF IInv, Lifetime

\* An event or the timer keeps the invariant.
LEMMA EventStep ==
  ASSUME IInv, OnWaitEventInvoked \/ OnTimeOut
  PROVE  IInv'
<1>1. /\ UNCHANGED <<tasks, queueVars, ownerVars, current_state, mysql, mysql_ret, resVars,
                     last_selected_db, err_no, flagVars>>
      /\ fd_event' = fd_event /\ fd_armed' = {} /\ timeout' = FALSE
      /\ on_stack' = TRUE /\ ~destroyed /\ (fd_event \/ timeout)
  BY DEF OnWaitEventInvoked, OnTimeOut, AtRest, Call, reset_wait_event
<1>2. in_event' \in SUBSET MysqlStatus
  BY DEF OnWaitEventInvoked, OnTimeOut, Call, LtEvToMysqlStatus, LtEvent, MysqlStatus
<1>3. /\ ready' \in BOOLEAN /\ schedule_close' \in BOOLEAN /\ on_stack' \in BOOLEAN
      /\ fd_armed' \in SUBSET {"READ", "WRITE"} /\ timeout' \in BOOLEAN
      /\ (timeout' => timeout)
  BY <1>1 DEF IInv, TypeOK, flagVars
<1>4. current_state # "CONNECT_INIT" /\ ~Gone
  BY <1>1 DEF IInv, Control, Gone
<1> QED
  BY <1>1, <1>2, <1>3, <1>4, QuietStep

\* The 60 s check keeps the invariant.
LEMMA CheckStep ==
  ASSUME IInv, do_connection_check
  PROVE  IInv'
<1>1. /\ UNCHANGED <<tasks, queueVars, ownerVars, current_state, mysql, mysql_ret, resVars,
                     last_selected_db, err_no>>
      /\ UNCHANGED <<on_stack, in_event, fd_event, fd_armed, timeout>>
      /\ ~on_stack /\ current_state # "CONNECT_INIT"
  BY DEF do_connection_check, AtRest, loopVars, waitVars
<1>2. ready' \in BOOLEAN
  BY DEF do_connection_check
<1>3. schedule_close' \in BOOLEAN
  BY DEF do_connection_check
<1>4. /\ on_stack' \in BOOLEAN /\ in_event' \in SUBSET MysqlStatus
      /\ fd_armed' \in SUBSET {"READ", "WRITE"} /\ timeout' \in BOOLEAN
      /\ (timeout' => timeout) /\ ~on_stack'
  BY <1>1 DEF IInv, TypeOK
<1> QED
  BY <1>1, <1>2, <1>3, <1>4, QuietStep

\* Close keeps the invariant.
LEMMA CloseRequestStep ==
  ASSUME IInv, Close
  PROVE  IInv'
<1>1. /\ UNCHANGED <<tasks, queueVars, ownerVars, current_state, mysql, mysql_ret, resVars,
                     last_selected_db, err_no>>
      /\ UNCHANGED <<ready, fd_event, fd_armed, timeout>>
      /\ schedule_close' = TRUE /\ ~on_stack /\ ~destroyed
  BY DEF Close, AtRest, waitVars
<1>2. /\ on_stack' \in BOOLEAN /\ in_event' \in SUBSET MysqlStatus
      /\ (on_stack' => current_state = "QUERY_START")
  BY <1>1 DEF Close, Call, IInv, TypeOK
<1>3. /\ ready' \in BOOLEAN /\ schedule_close' \in BOOLEAN
      /\ fd_armed' \in SUBSET {"READ", "WRITE"} /\ timeout' \in BOOLEAN
      /\ (timeout' => timeout)
  BY <1>1 DEF IInv, TypeOK
<1>4. current_state = "CONNECT_INIT" => ~on_stack' /\ ~ready'
  BY <1>1, <1>2 DEF IInv, Control
<1>5. on_stack' => ~Gone /\ ~destroyed
  BY <1>1, <1>2 DEF Gone
<1> QED
  BY <1>1, <1>2, <1>3, <1>4, <1>5, QuietStep

\* Every entry point of the loop keeps the invariant.
LEMMA LoopStep ==
  ASSUME IInv, Loop
  PROVE  IInv'
BY RunHandleStateStep, RunStartQueryStep, RunSyncCloseStep, RunCleanStep, EventStep, CheckStep,
   CloseRequestStep DEF Loop

\* A task is posted: what the queue is then.
LEMMA PostFacts ==
  ASSUME TypeOK, NEW t \in Task, tasks' = Append(tasks, t)
  PROVE  /\ tasks' \in Seq(Task) /\ Len(tasks') = Len(tasks) + 1 /\ Len(tasks) \in Nat
         /\ tasks'[Len(tasks')] = t
         /\ \A i \in 1 .. Len(tasks') - 1 : tasks'[i] = tasks[i] /\ i \in 1 .. Len(tasks)
         /\ \A i \in 1 .. Len(tasks') : i \in 1 .. Len(tasks) \/ i = Len(tasks')
BY DEF TypeOK

\* Connect keeps the invariant.
LEMMA ConnectOwnerStep ==
  ASSUME IInv, Connect
  PROVE  IInv'
<1>1. /\ current_state = "CONNECT_INIT" /\ owner = "using"
      /\ tasks' = Append(tasks, NewTask("HandleState")) /\ current_state' = "CONNECT_START"
      /\ UNCHANGED <<queueVars, ready, ownerVars, mysql_ret, mysql, on_stack, in_event, waitVars,
                     schedule_close, last_selected_db, resVars, err_no>>
  BY DEF Connect, OwnerStep
<1>2. NewTask("HandleState") \in Task /\ NewTask("HandleState").fn = "HandleState"
  BY DEF NewTask, Task
<1>3. TypeOK
  BY DEF IInv
<1>4. TypeOK'
  <2>1. tasks' \in Seq(Task)
    BY <1>1, <1>2, <1>3, PostFacts
  <2> QED
    BY <1>1, <1>3, <2>1 DEF TypeOK, queueVars, ownerVars, waitVars, resVars, State
<1>5. AnsweredInOrder'
  BY <1>1, SameOrder DEF IInv, queueVars
<1>6. Control'
  BY <1>1 DEF IInv, Control, queueVars, ownerVars, waitVars, resVars, Serving, Fetching
<1>7. Lifetime'
  <2>1. Using
    BY <1>1 DEF IInv, Lifetime, Closing, Gone, Destroyed
  <2>2. \A i \in 1 .. Len(tasks') : tasks'[i].fn \in Work
    BY <1>1, <1>2, <1>3, <2>1, PostFacts DEF Using, Work
  <2> QED
    BY <1>1, <2>1, <2>2 DEF Lifetime, Using, ownerVars
<1> QED
  BY <1>4, <1>5, <1>6, <1>7 DEF IInv

\* SyncConnect keeps the invariant.
LEMMA SyncConnectStep ==
  ASSUME IInv, SyncConnect
  PROVE  IInv'
<1>1. /\ current_state = "CONNECT_INIT" /\ owner = "using"
      /\ current_state' = "CONNECTION_IDLE" /\ ready' = TRUE /\ mysql_ret' = TRUE
      /\ UNCHANGED <<tasks, queueVars, ownerVars, on_stack, in_event, waitVars,
                     schedule_close, last_selected_db, resVars, err_no>>
  BY DEF SyncConnect, OwnerStep
<1>2. mysql' \in Handle
  <2>1. mysql' = [mysql EXCEPT !.link = "open", !.db = OptDB]
    BY DEF SyncConnect
  <2> QED
    BY <2>1 DEF IInv, TypeOK, Handle
<1>3. TypeOK'
  BY <1>1, <1>2 DEF IInv, TypeOK, queueVars, ownerVars, waitVars, resVars, State
<1>4. AnsweredInOrder'
  BY <1>1, SameOrder DEF IInv, queueVars
<1>5. Control'
  BY <1>1 DEF IInv, Control, queueVars, ownerVars, waitVars, resVars, Serving, Fetching
<1>6. Lifetime'
  BY <1>1 DEF IInv, Lifetime, Using, Closing, Gone, Destroyed, ownerVars
<1> QED
  BY <1>3, <1>4, <1>5, <1>6 DEF IInv

\* PendingQuery keeps the invariant.
LEMMA PendingQueryStep ==
  ASSUME IInv, NEW q \in Query, PendingQuery(q)
  PROVE  IInv'
<1>1. /\ owner = "using" /\ ready /\ tasks' = Append(tasks, QueryTask(q))
      /\ UNCHANGED <<in_process, query_list, started, finished, ready, ownerVars, current_state,
                     mysql_ret, mysql, on_stack, in_event, waitVars, schedule_close,
                     last_selected_db, resVars, err_no>>
  BY DEF PendingQuery, OwnerStep
<1>2. QueryTask(q) \in Task /\ QueryTask(q).fn = "StartQuery"
  BY DEF QueryTask, Task
<1>3. TypeOK
  BY DEF IInv
<1>4. session' \in [Query -> Session]
  <2>1. PICK db \in DB \cup {NoDB}, sql \in BOOLEAN :
          session' = [session EXCEPT ![q] = [@ EXCEPT !.db = db, !.sql = sql]]
    BY DEF PendingQuery
  <2>2. [session[q] EXCEPT !.db = db, !.sql = sql] \in Session
    BY <1>3 DEF TypeOK, Session
  <2> QED
    BY <1>3, <2>1, <2>2 DEF TypeOK
<1>5. TypeOK'
  <2>1. tasks' \in Seq(Task)
    BY <1>1, <1>2, <1>3, PostFacts
  <2> QED
    BY <1>1, <1>3, <1>4, <2>1 DEF TypeOK, ownerVars, waitVars, resVars
<1>6. AnsweredInOrder'
  BY <1>1, SameOrder DEF IInv
<1>7. Control'
  BY <1>1 DEF IInv, Control, ownerVars, waitVars, resVars
<1>8. Lifetime'
  <2>1. Using
    BY <1>1 DEF IInv, Lifetime, Closing, Gone, Destroyed
  <2>2. \A i \in 1 .. Len(tasks') : tasks'[i].fn \in Work
    BY <1>1, <1>2, <1>3, <2>1, PostFacts DEF Using, Work
  <2> QED
    BY <1>1, <2>1, <2>2 DEF Lifetime, Using, ownerVars
<1> QED
  BY <1>5, <1>6, <1>7, <1>8 DEF IInv

\* Close of the pool keeps the invariant.
LEMMA PoolCloseStep ==
  ASSUME IInv, PoolClose
  PROVE  IInv'
<1>1. /\ owner = "using" /\ owner' = "closing" /\ current_state # "CONNECT_INIT"
      /\ tasks' = Append(tasks, NewTask("SyncClose"))
      /\ UNCHANGED <<queueVars, ready, destroyed, current_state, mysql_ret, mysql, on_stack,
                     in_event, waitVars, schedule_close, last_selected_db, resVars, err_no>>
  BY DEF PoolClose, OwnerStep
<1>2. NewTask("SyncClose") \in Task
  BY DEF NewTask, Task
<1>3. TypeOK
  BY DEF IInv
<1>4. TypeOK'
  <2>1. tasks' \in Seq(Task)
    BY <1>1, <1>2, <1>3, PostFacts
  <2> QED
    BY <1>1, <1>3, <2>1 DEF TypeOK, queueVars, waitVars, resVars
<1>5. AnsweredInOrder'
  BY <1>1, SameOrder DEF IInv, queueVars
<1>6. Control'
  BY <1>1 DEF IInv, Control, queueVars, waitVars, resVars
<1>7. Lifetime'
  <2>1. Using
    BY <1>1 DEF IInv, Lifetime, Closing, Gone, Destroyed
  <2>2. /\ Len(tasks') > 0 /\ tasks'[Len(tasks')] = NewTask("SyncClose")
        /\ \A i \in 1 .. Len(tasks') - 1 : tasks'[i].fn \in Work
    BY <1>1, <1>2, <1>3, <2>1, PostFacts DEF Using
  <2> QED
    BY <1>1, <2>1, <2>2 DEF Lifetime, Using, Closing
<1> QED
  BY <1>4, <1>5, <1>6, <1>7 DEF IInv

\* The destructor, run while no task is left.
LEMMA DestructorStep ==
  ASSUME IInv, Destructor, tasks = <<>>, ~on_stack, owner' = "released",
         ~BareRelease => ~fd_event /\ ~timeout,
         UNCHANGED <<on_stack, in_event, waitVars, schedule_close, last_selected_db, resVars,
                     err_no, ready, current_state, mysql_ret, mysql>>
  PROVE  IInv'
<1>1. AnswerClosed /\ destroyed' = TRUE /\ tasks' = Append(<<>>, NewTask("Clean"))
  BY DEF Destructor
<1>2. NewTask("Clean") \in Task /\ NewTask("Clean").fn = "Clean"
  BY DEF NewTask, Task
<1>3. tasks' \in Seq(Task) /\ \A i \in 1 .. Len(tasks') : tasks'[i].fn = "Clean"
  <2>1. tasks' = <<NewTask("Clean")>> /\ tasks' \in Seq(Task) /\ Len(tasks') = 1
        /\ tasks'[1] = NewTask("Clean")
    BY <1>1, <1>2, OneFacts, Zenon
  <2> QED
    BY <1>2, <2>1
<1>4. TypeOK'
  <2>1. /\ session' \in [Query -> Session] /\ finished' \in Seq(Query)
        /\ in_process' \in Query \cup {NoQuery} /\ query_list' \in Seq(Query)
        /\ started' \in Seq(Query)
    BY <1>1, AnswerClosedType DEF IInv
  <2> QED
    BY <1>1, <1>3, <2>1 DEF IInv, TypeOK, waitVars, resVars
<1>5. AnsweredInOrder' /\ in_process' = NoQuery
  BY <1>1, CloseOrder DEF IInv
<1>6. Control'
  BY <1>1, <1>3, <1>5 DEF IInv, Control, waitVars
<1>7. Lifetime'
  BY <1>1, <1>3 DEF Lifetime, Destroyed, waitVars
<1> QED
  BY <1>4, <1>5, <1>6, <1>7 DEF IInv

\* Dropping the pool after Close keeps the invariant.
LEMMA ReleaseStep ==
  ASSUME IInv, Release
  PROVE  IInv'
<1>1. /\ owner = "closing" /\ owner' = "released"
      /\ UNCHANGED <<on_stack, in_event, waitVars, schedule_close, last_selected_db, resVars,
                     err_no, ready, current_state, mysql_ret, mysql>>
  BY DEF Release, OwnerStep
<1>2. Closing \/ Gone
  BY <1>1 DEF IInv, Lifetime, Using, Destroyed
<1>3. CASE Closing
  <2>1. NewTask("SyncClose") \in ToSet(tasks)
    BY <1>3 DEF Closing, ToSet, IInv, TypeOK
  <2>2. UNCHANGED <<tasks, queueVars, destroyed>>
    BY <2>1 DEF Release
  <2>3. TypeOK'
    BY <1>1, <2>2 DEF IInv, TypeOK, queueVars, waitVars, resVars
  <2>4. AnsweredInOrder'
    BY <2>2, SameOrder DEF IInv, queueVars
  <2>5. Control'
    BY <1>1, <2>2 DEF IInv, Control, queueVars, waitVars, resVars
  <2>6. Lifetime'
    BY <1>1, <1>3, <2>2 DEF Lifetime, Closing
  <2> QED
    BY <2>3, <2>4, <2>5, <2>6 DEF IInv
<1>4. CASE Gone
  <2>1. tasks = <<>> /\ ~on_stack /\ ~fd_event /\ ~timeout
    BY <1>4 DEF Gone
  <2>2. Destructor
    BY <2>1 DEF Release, ToSet
  <2> QED
    BY <1>1, <2>1, <2>2, DestructorStep
<1> QED
  BY <1>2, <1>3, <1>4

\* Dropping the pool without Close keeps the invariant.
LEMMA ReleaseUnclosedStep ==
  ASSUME IInv, ReleaseUnclosed
  PROVE  IInv'
<1>1. /\ Destructor /\ tasks = <<>> /\ ~on_stack /\ owner' = "released" /\ BareRelease
      /\ UNCHANGED <<on_stack, in_event, waitVars, schedule_close, last_selected_db, resVars,
                     err_no, ready, current_state, mysql_ret, mysql>>
  BY DEF ReleaseUnclosed, OwnerStep
<1> QED
  BY <1>1, DestructorStep

\* A step that changes nothing keeps the invariant.
LEMMA StutterStep ==
  ASSUME IInv, UNCHANGED vars
  PROVE  IInv'
<1>1. TypeOK'
  BY DEF IInv, TypeOK, vars, loopVars, waitVars, queueVars, flagVars, resVars, ownerVars
<1>2. AnsweredInOrder'
  BY SameOrder DEF IInv, vars, queueVars
<1>3. Control'
  BY DEF IInv, Control, vars, loopVars, waitVars, queueVars, flagVars, resVars, ownerVars
<1>4. Lifetime'
  BY DEF IInv, Lifetime, Using, Closing, Gone, Destroyed, vars, loopVars, waitVars, ownerVars
<1> QED
  BY <1>1, <1>2, <1>3, <1>4 DEF IInv

\* Every step keeps the invariant, and it holds at the start.
LEMMA Inductive == IInv /\ [Next]_vars => IInv'
BY HandleStateStep, LoopStep, ConnectOwnerStep, SyncConnectStep, PendingQueryStep, PoolCloseStep,
   ReleaseStep, ReleaseUnclosedStep, StutterStep DEF Next, Owner

\* The initial states satisfy the invariant.
LEMMA InitIInv == Init => IInv
<1> SUFFICES ASSUME Init PROVE IInv
  OBVIOUS
<1>1. TypeOK
  BY InitType
<1>2. tasks = <<>> /\ Len(tasks) = 0
  BY DEF Init
<1>3. Control
  BY <1>2 DEF Init, Control, Serving, Fetching
<1>4. Using
  BY <1>2 DEF Init, Using
<1>5. AnsweredInOrder
  BY DEF Init, AnsweredInOrder, Pending, InProcess
<1> QED
  BY <1>1, <1>3, <1>4, <1>5 DEF IInv, Lifetime

\* The inductive invariant holds in every reachable state.
LEMMA InvariantHolds == Spec => []IInv
BY InitIInv, Inductive, PTL DEF Spec

----------------------------------------------------------------------------
(* The suspended operation.                                                *)

\* The operation that state st resumes, or none.
OpAt(st) == IF st \in WaitState THEN OpOf[st] ELSE "none"

\* A call that suspends leaves its operation to its wait state.
LEMMA GoNextOp ==
  ASSUME NEW status, NEW wait_st \in WaitState, NEW next_st \in State \ WaitState,
         mysql'.op = IF status = {} THEN "none" ELSE OpOf[wait_st],
         go_next_state(status, wait_st, next_st)
  PROVE  mysql'.op = OpAt(current_state')
BY DEF go_next_state, OpAt

\* A step that goes on without a call leaves none suspended.
LEMMA GotoOp ==
  ASSUME NEW st \in State \ WaitState, mysql'.op = "none", Goto(st)
  PROVE  mysql'.op = OpAt(current_state')
BY DEF Goto, go_next_state, OpAt

\* So does a call that failed.
LEMMA FailOp ==
  ASSUME NEW code, mysql'.op = "none", FailQuery(code)
  PROVE  mysql'.op = OpAt(current_state')
BY DEF FailQuery, AfterError, Goto, go_next_state, OpAt, WaitState

\* The operation after a call, as the call came back.
LEMMA AfterOp ==
  ASSUME TypeOK, NEW op, NEW r
  PROVE  After(op, r).op = IF r.status = {} THEN "none" ELSE op
BY DEF After, TypeOK, Handle

\* Every case of HandleState leaves the operation its state resumes.
LEMMA HandleStateOp ==
  ASSUME IInv, HandleState, err_no = 0, mysql.op = OpAt(current_state)
  PROVE  mysql'.op = OpAt(current_state')
<1> USE DEF State, WaitState
<1>1. TypeOK
  BY DEF IInv
<1>2. ASSUME NEW ev, ConnectCall(ev) PROVE mysql'.op = OpAt(current_state')
  <2>1. PICK r \in Returns(ev) :
          LET up == r.status = {} /\ r.errno = "ok" IN
          /\ mysql' = [After("connect", r) EXCEPT !.link = IF up THEN "open" ELSE @,
                                                  !.db = IF up THEN OptDB ELSE @]
          /\ go_next_state(r.status, "CONNECT_WAIT", "CONNECT_DONE")
    BY <1>2 DEF ConnectCall
  <2>2. After("connect", r) \in Handle
    BY <1>1, AfterType DEF TypeOK
  <2>3. mysql'.op = IF r.status = {} THEN "none" ELSE "connect"
    BY <1>1, <2>1, <2>2, AfterOp DEF Handle
  <2> QED
    BY <2>1, <2>3, GoNextOp DEF OpOf
<1>3. ASSUME NEW ev, CloseCall(ev) PROVE mysql'.op = OpAt(current_state')
  <2>1. PICK status :
          /\ mysql' = IF status = {}
                      THEN [mysql EXCEPT !.op = "none", !.link = "closed", !.unread = 0]
                      ELSE [mysql EXCEPT !.op = "close"]
          /\ go_next_state(status, "CLOSE_WAIT", "CLOSE_DONE")
    BY <1>3 DEF CloseCall
  <2>2. mysql'.op = IF status = {} THEN "none" ELSE "close"
    BY <1>1, <2>1 DEF TypeOK, Handle
  <2> QED
    BY <2>1, <2>2, GoNextOp DEF OpOf
<1>4. ASSUME NEW ev, SelectDbCall(ev) PROVE mysql'.op = OpAt(current_state')
  <2>1. PICK r \in Returns(ev) :
          /\ mysql' = [After("select_db", r) EXCEPT
                         !.db = IF r.status = {} /\ r.errno = "ok" THEN session[in_process].db ELSE @]
          /\ IF r.errno # "ok"
             THEN FailQuery(r.errno)
             ELSE go_next_state(r.status, "SELECT_DB_WAIT", "SELECT_DB_DONE")
    BY <1>4 DEF SelectDbCall
  <2>2. After("select_db", r) \in Handle /\ (r.status # {} => r.errno = "ok")
    BY <1>1, AfterType, ReturnsType DEF TypeOK
  <2>3. mysql'.op = IF r.status = {} THEN "none" ELSE "select_db"
    BY <1>1, <2>1, <2>2, AfterOp DEF Handle
  <2>4. CASE r.errno # "ok"
    BY <2>1, <2>2, <2>3, <2>4, FailOp
  <2>5. CASE r.errno = "ok"
    BY <2>1, <2>3, <2>5, GoNextOp DEF OpOf
  <2> QED
    BY <2>4, <2>5
<1>5. ASSUME NEW ev, NEW r \in Returns(ev), mysql' = AfterQuery(r),
             \/ r.errno # "ok" /\ FailQuery(r.errno)
             \/ go_next_state(r.status, "QUERY_WAIT", "QUERY_RESULT_READY")
      PROVE  mysql'.op = OpAt(current_state')
  <2>1. After("query", r) \in Handle /\ (r.status # {} => r.errno = "ok")
    BY <1>1, AfterType, ReturnsType DEF TypeOK
  <2>2. mysql'.op = IF r.status = {} THEN "none" ELSE "query"
    BY <1>1, <1>5, <2>1, AfterOp DEF Handle, AfterQuery
  <2>3. CASE r.errno # "ok" /\ FailQuery(r.errno)
    BY <2>1, <2>2, <2>3, FailOp
  <2>4. CASE go_next_state(r.status, "QUERY_WAIT", "QUERY_RESULT_READY")
    BY <2>2, <2>4, GoNextOp DEF OpOf
  <2> QED
    BY <1>5, <2>3, <2>4
<1>6. ASSUME NEW ev, FetchRowCall(ev) PROVE mysql'.op = OpAt(current_state')
  <2>1. PICK r \in Returns(ev) :
          /\ \/ mysql' = [After("fetch", r) EXCEPT !.unread = @ - 1, !.fetched = @ + 1]
             \/ mysql' = After("fetch", r)
          /\ go_next_state(r.status, "FETCH_ROW_WAIT", "FETCH_ROW_RESULT_READY")
    BY <1>6 DEF FetchRowCall
  <2>2. After("fetch", r) \in Handle
    BY <1>1, AfterType DEF TypeOK
  <2>3. mysql'.op = IF r.status = {} THEN "none" ELSE "fetch"
    BY <1>1, <2>1, <2>2, AfterOp DEF Handle
  <2> QED
    BY <2>1, <2>3, GoNextOp DEF OpOf
<1>7. CASE ConnectStart \/ ConnectWait
  BY <1>2, <1>7 DEF ConnectStart, ConnectWait
<1>8. CASE CloseStart \/ CloseWait
  BY <1>3, <1>8 DEF CloseStart, CloseWait
<1>9. CASE SelectDbStart \/ SelectDbWait
  BY <1>4, <1>9 DEF SelectDbStart, SelectDbWait
<1>10. CASE FetchRowStart \/ FetchRowWait
  BY <1>6, <1>10 DEF FetchRowStart, FetchRowWait
<1>11. CASE QueryStart
  <2>1. PICK r \in Returns({}) :
          /\ mysql' = AfterQuery(r)
          /\ IF r.errno # "ok" THEN FailQuery(r.errno)
             ELSE go_next_state(r.status, "QUERY_WAIT", "QUERY_RESULT_READY")
    BY <1>11 DEF QueryStart
  <2> QED
    BY <1>5, <2>1
<1>12. CASE QueryWait
  <2>1. PICK r \in Returns(in_event) :
          mysql' = AfterQuery(r) /\ go_next_state(r.status, "QUERY_WAIT", "QUERY_RESULT_READY")
    BY <1>12 DEF QueryWait
  <2> QED
    BY <1>5, <2>1
<1>13. CASE UseResultNull
  <2>1. PICK e : mysql' = [mysql EXCEPT !.errno = e] /\ FailQuery(e)
    BY <1>13 DEF UseResultNull
  <2>2. mysql.op = "none" /\ mysql'.op = mysql.op
    BY <1>1, <1>13, <2>1 DEF UseResultNull, Case, OpAt, TypeOK, Handle
  <2> QED
    BY <2>1, <2>2, FailOp
<1>14. CASE ConnectDone \/ SelectDbDone \/ QueryStartEmpty \/ UseResult \/ FetchRowReady \/ FetchRowEnd
            \/ IdleTake
  <2>1. PICK st \in State \ WaitState : Goto(st)
    BY <1>14 DEF ConnectDone, SelectDbDone, QueryStartEmpty, UseResult, FetchRowReady, FetchRowEnd, IdleTake
  <2>2. mysql.op = "none"
    BY <1>14 DEF ConnectDone, SelectDbDone, QueryStartEmpty, UseResult, FetchRowReady, FetchRowEnd,
                 IdleTake, Case, OpAt
  <2>3. mysql' = mysql \/ \E n : mysql' = [mysql EXCEPT !.unread = n]
    BY <1>14 DEF ConnectDone, SelectDbDone, QueryStartEmpty, UseResult, FetchRowReady, FetchRowEnd, IdleTake
  <2>4. mysql'.op = "none"
    BY <1>1, <2>2, <2>3 DEF TypeOK, Handle
  <2> QED
    BY <2>1, <2>4, GotoOp
<1>15. CASE IdleEmpty
  BY <1>15 DEF IdleEmpty, Case, Goto, go_next_state, OpAt
<1>16. CASE CloseDone
  BY <1>16 DEF CloseDone, Case, OpAt
<1> QED
  BY <1>7, <1>8, <1>9, <1>10, <1>11, <1>12, <1>13, <1>14, <1>15, <1>16 DEF HandleState

\* Every step leaves the operation its state resumes.
LEMMA NextOp ==
  ASSUME IInv, OperationMatchesState, Next \/ UNCHANGED vars
  PROVE  OperationMatchesState'
<1>1. OperationMatchesState <=> (err_no = 0 => mysql.op = OpAt(current_state))
  BY DEF OperationMatchesState, OpAt
<1>2. OperationMatchesState' <=> (err_no' = 0 => mysql'.op = OpAt(current_state'))
  BY DEF OperationMatchesState, OpAt
<1>3. CASE HandleState
  <2>1. err_no' = err_no
    BY <1>3 DEF HandleState, ConnectStart, ConnectWait, ConnectDone, CloseStart, CloseWait, CloseDone,
                IdleEmpty, IdleTake, SelectDbStart, SelectDbWait, SelectDbDone, QueryStartEmpty,
                QueryStart, QueryWait, UseResultNull, UseResult, FetchRowStart, FetchRowWait,
                FetchRowReady, FetchRowEnd, Case
  <2> QED
    BY <1>1, <1>2, <1>3, <2>1, HandleStateOp
<1>4. CASE RunSyncClose
  <2>1. mysql'.op = "none" /\ current_state' = "CLOSE_DONE"
    BY <1>4 DEF RunSyncClose, IInv, TypeOK, Handle
  <2> QED
    BY <1>2, <2>1 DEF OpAt, WaitState
<1>5. CASE SyncConnect \/ Connect
  <2>1. /\ mysql'.op = mysql.op /\ current_state = "CONNECT_INIT" /\ err_no' = err_no
        /\ current_state' \in {"CONNECT_START", "CONNECTION_IDLE"}
    BY <1>5 DEF SyncConnect, Connect, OwnerStep, IInv, TypeOK, Handle
  <2> QED
    BY <1>1, <1>2, <2>1 DEF OpAt, WaitState
<1>6. CASE UNCHANGED <<err_no, current_state, mysql>>
  BY <1>1, <1>2, <1>6
<1>7. CASE RunHandleState \/ RunStartQuery \/ RunClean \/ OnWaitEventInvoked \/ OnTimeOut
           \/ do_connection_check \/ Close
  BY <1>6, <1>7 DEF RunHandleState, RunStartQuery, RunClean, OnWaitEventInvoked, OnTimeOut,
                    do_connection_check, Close, TakeTask, AtRest
<1>8. CASE PoolClose \/ Release \/ ReleaseUnclosed \/ \E q \in Query : PendingQuery(q)
  BY <1>6, <1>8 DEF PoolClose, Release, ReleaseUnclosed, PendingQuery, OwnerStep
<1>9. CASE UNCHANGED vars
  BY <1>6, <1>9 DEF vars
<1> QED
  BY <1>3, <1>4, <1>5, <1>7, <1>8, <1>9 DEF Next, Loop, Owner

----------------------------------------------------------------------------
(* What is armed.                                                          *)

\* Where the state machine is when HandleState has returned.
RestState == {"CONNECT_INIT", "CONNECT_START", "CONNECT_DONE", "CONNECTION_IDLE", "CLOSE_DONE"}
             \cup WaitState

\* While HandleState runs nothing is armed; when it has returned only what
\* resumes the operation it waits for is, and an event that is installed finds
\* a state that HandleState may be entered in.
Armed ==
  /\ fd_armed # {} => fd_event
  /\ on_stack => fd_armed = {} /\ ~timeout
  /\ ~on_stack => current_state \in RestState
  /\ ~on_stack /\ ~destroyed => ((current_state \in WaitState) <=> (fd_armed # {} \/ timeout))
  /\ ~on_stack /\ current_state \in {"CONNECT_INIT", "CONNECT_START", "CONNECT_DONE", "CLOSE_DONE"} =>
       ~fd_event

\* The closure that Connect posts is the only one, and comes first.
Posted ==
  \A i \in 1 .. Len(tasks) : tasks[i].fn = "HandleState" =>
    /\ current_state = "CONNECT_START" /\ ~on_stack
    /\ \A j \in 1 .. Len(tasks) : tasks[j].fn = "HandleState" => i = j

Waiting == Armed /\ Posted

\* A call comes back, or asks for a status.
LEMMA ReturnsStatus ==
  ASSUME NEW ev, NEW r \in Returns(ev)
  PROVE  r.status \in {{}} \cup WaitStatus
BY DEF Returns, Suspends, Fails

\* How one step of HandleState leaves its loop, if it does.
GoesOn == on_stack' /\ UNCHANGED waitVars
Suspended == ~on_stack' /\ current_state' \in WaitState /\ \E w \in WaitStatus : WaitMysqlStatus(w)
Rests == IdleEmpty /\ ~on_stack' /\ UNCHANGED <<waitVars, current_state>>
Shape == GoesOn \/ Suspended \/ Rests \/ CloseDone

\* A call goes on or suspends in its wait state.
LEMMA GoNextShape ==
  ASSUME on_stack, NEW status, status = {} \/ status \in WaitStatus, NEW wait_st \in WaitState,
         NEW next_st, go_next_state(status, wait_st, next_st)
  PROVE  Shape
BY DEF go_next_state, Return, Shape, GoesOn, Suspended

\* A jump goes on.
LEMMA GotoShape ==
  ASSUME on_stack, NEW st, Goto(st)
  PROVE  Shape
BY DEF Goto, go_next_state, Shape, GoesOn

\* So does the end of a session that failed.
LEMMA FailShape ==
  ASSUME on_stack, NEW code, FailQuery(code)
  PROVE  Shape
BY GotoShape DEF FailQuery, AfterError

\* Every case of HandleState has one of these shapes.
LEMMA HandleShape ==
  ASSUME HandleState
  PROVE  Shape /\ on_stack /\ UNCHANGED <<tasks, err_no, ownerVars, started>>
<1> USE DEF WaitState
<1>1. on_stack /\ UNCHANGED <<tasks, err_no, ownerVars, started>>
  BY DEF HandleState, ConnectStart, ConnectWait, ConnectDone, CloseStart, CloseWait, CloseDone,
         IdleEmpty, IdleTake, SelectDbStart, SelectDbWait, SelectDbDone, QueryStartEmpty,
         QueryStart, QueryWait, UseResultNull, UseResult, FetchRowStart, FetchRowWait,
         FetchRowReady, FetchRowEnd, Case
<1>2. CASE ConnectStart \/ ConnectWait
  <2>1. PICK status \in {{}} \cup WaitStatus :
          go_next_state(status, "CONNECT_WAIT", "CONNECT_DONE")
    BY <1>2, ReturnsStatus DEF ConnectStart, ConnectWait, ConnectCall
  <2> QED
    BY <1>1, <2>1, GoNextShape
<1>3. CASE CloseStart \/ CloseWait
  <2>1. PICK status \in {{}} \cup WaitStatus : go_next_state(status, "CLOSE_WAIT", "CLOSE_DONE")
    BY <1>3 DEF CloseStart, CloseWait, CloseCall
  <2> QED
    BY <1>1, <2>1, GoNextShape
<1>4. CASE SelectDbStart \/ SelectDbWait
  <2>1. PICK status \in {{}} \cup WaitStatus :
          \/ \E code : FailQuery(code)
          \/ go_next_state(status, "SELECT_DB_WAIT", "SELECT_DB_DONE")
    BY <1>4, ReturnsStatus DEF SelectDbStart, SelectDbWait, SelectDbCall
  <2> QED
    BY <1>1, <2>1, GoNextShape, FailShape
<1>5. CASE QueryStart \/ QueryWait
  <2>1. PICK status \in {{}} \cup WaitStatus :
          \/ \E code : FailQuery(code)
          \/ go_next_state(status, "QUERY_WAIT", "QUERY_RESULT_READY")
    BY <1>5, ReturnsStatus DEF QueryStart, QueryWait
  <2> QED
    BY <1>1, <2>1, GoNextShape, FailShape
<1>6. CASE FetchRowStart \/ FetchRowWait
  <2>1. PICK status \in {{}} \cup WaitStatus :
          go_next_state(status, "FETCH_ROW_WAIT", "FETCH_ROW_RESULT_READY")
    BY <1>6, ReturnsStatus DEF FetchRowStart, FetchRowWait, FetchRowCall
  <2> QED
    BY <1>1, <2>1, GoNextShape
<1>7. CASE UseResultNull
  BY <1>1, <1>7, FailShape DEF UseResultNull
<1>8. CASE ConnectDone \/ SelectDbDone \/ QueryStartEmpty \/ UseResult \/ FetchRowReady \/ FetchRowEnd
           \/ IdleTake
  <2>1. PICK st : Goto(st)
    BY <1>8 DEF ConnectDone, SelectDbDone, QueryStartEmpty, UseResult, FetchRowReady, FetchRowEnd, IdleTake
  <2> QED
    BY <1>1, <2>1, GotoShape
<1>9. CASE IdleEmpty
  <2>1. CASE Goto("CLOSE_START")
    BY <1>1, <2>1, GotoShape
  <2>2. CASE Return /\ UNCHANGED <<current_state, waitVars>>
    BY <1>1, <1>9, <2>2 DEF Return, Shape, Rests
  <2> QED
    BY <1>9, <2>1, <2>2 DEF IdleEmpty
<1>10. CASE CloseDone
  BY <1>1, <1>10 DEF Shape
<1> QED
  BY <1>1, <1>2, <1>3, <1>4, <1>5, <1>6, <1>7, <1>8, <1>9, <1>10 DEF HandleState

\* Every case of HandleState arms what it waits for, and nothing else.
LEMMA HandleStateWaiting ==
  ASSUME IInv, Waiting, HandleState
  PROVE  Waiting'
<1>1. Shape /\ on_stack /\ tasks' = tasks /\ ~destroyed' /\ fd_armed = {} /\ ~timeout
  BY HandleShape, LifetimeOnStack DEF IInv, Waiting, Armed
<1>2. Posted'
  BY <1>1 DEF Waiting, Posted
<1>3. fd_event \in BOOLEAN /\ fd_armed \in SUBSET {"READ", "WRITE"} /\ timeout = FALSE
  BY <1>1 DEF IInv, TypeOK
<1>4. CASE GoesOn
  BY <1>1, <1>2, <1>4 DEF GoesOn, Waiting, Armed, waitVars
<1>5. CASE Suspended
  <2>1. PICK w \in WaitStatus : WaitMysqlStatus(w)
    BY <1>5 DEF Suspended
  <2>2. fd_event' /\ (fd_armed' # {} \/ timeout')
    BY <1>3, <2>1 DEF WaitMysqlStatus
  <2> QED
    BY <1>1, <1>2, <1>5, <2>2 DEF Suspended, Waiting, Armed, RestState, WaitState
<1>6. CASE Rests
  <2>1. current_state = "CONNECTION_IDLE" /\ current_state' = "CONNECTION_IDLE"
    BY <1>6 DEF Rests, IdleEmpty, Case
  <2> QED
    BY <1>1, <1>2, <1>6, <2>1 DEF Rests, waitVars, Waiting, Armed, RestState, WaitState
<1>7. CASE CloseDone
  <2>1. current_state' = "CONNECT_DONE" /\ ~on_stack' /\ ~fd_event' /\ fd_armed' = {} /\ ~timeout'
    BY <1>1, <1>7 DEF CloseDone, Return, clean_up
  <2> QED
    BY <1>2, <2>1 DEF Waiting, Armed, RestState, WaitState
<1> QED
  BY <1>1, <1>4, <1>5, <1>6, <1>7 DEF Shape

\* Taking a task off the front keeps the closure of Connect the only one.
LEMMA TailPosted ==
  ASSUME TypeOK, Posted, tasks # <<>>, tasks' = Tail(tasks),
         current_state' = current_state,
         current_state = "CONNECT_START" /\ ~on_stack => ~on_stack' \/ Head(tasks).fn = "HandleState"
  PROVE  Posted'
<1>1. /\ Head(tasks) = tasks[1] /\ Len(tasks) \in Nat /\ Len(tasks) > 0
      /\ Len(Tail(tasks)) = Len(tasks) - 1
      /\ \A i \in 1 .. Len(Tail(tasks)) : Tail(tasks)[i] = tasks[i + 1]
  BY TailFacts
<1> SUFFICES ASSUME NEW i \in 1 .. Len(tasks'), tasks'[i].fn = "HandleState"
             PROVE  /\ current_state' = "CONNECT_START" /\ ~on_stack'
                    /\ \A j \in 1 .. Len(tasks') : tasks'[j].fn = "HandleState" => i = j
  BY DEF Posted
<1>2. /\ i + 1 \in 1 .. Len(tasks) /\ 1 \in 1 .. Len(tasks) /\ i + 1 # 1
      /\ tasks[i + 1].fn = "HandleState"
  BY <1>1
<1>3. /\ current_state = "CONNECT_START" /\ ~on_stack
      /\ \A j \in 1 .. Len(tasks) : tasks[j].fn = "HandleState" => i + 1 = j
  BY <1>2 DEF Posted
<1>4. Head(tasks).fn # "HandleState"
  BY <1>1, <1>2, <1>3
<1>5. \A j \in 1 .. Len(tasks') : tasks'[j].fn = "HandleState" => i = j
  BY <1>1, <1>3
<1> QED
  BY <1>3, <1>4, <1>5

\* Posting another closure does so too.
LEMMA AppendPosted ==
  ASSUME TypeOK, Posted, NEW t \in Task, t.fn # "HandleState", tasks' = Append(tasks, t),
         UNCHANGED <<current_state, on_stack>>
  PROVE  Posted'
<1>1. /\ Len(tasks) \in Nat /\ Len(tasks') = Len(tasks) + 1 /\ tasks'[Len(tasks')] = t
      /\ \A i \in 1 .. Len(tasks) : tasks'[i] = tasks[i]
  BY PostFacts
<1> QED
  BY <1>1 DEF Posted

\* A queue longer than one has a first task that is not its last.
LEMMA FirstOfMany ==
  ASSUME NEW n \in Nat, n > 0, n # 1
  PROVE  1 \in 1 .. n - 1
OBVIOUS

\* SyncClose is the last task.
LEMMA SyncCloseLast ==
  ASSUME IInv, tasks # <<>>, Head(tasks).fn = "SyncClose"
  PROVE  Tail(tasks) = <<>>
<1>1. TypeOK /\ Lifetime
  BY DEF IInv
<1>2. tasks[1].fn = "SyncClose" /\ 1 \in 1 .. Len(tasks) /\ Len(tasks) \in Nat /\ Len(tasks) > 0
  BY <1>1, TailFacts
<1>3. Closing
  BY <1>1, <1>2 DEF Lifetime, Using, Gone, Destroyed, Work
<1>4. 1 \notin 1 .. Len(tasks) - 1
  BY <1>2, <1>3 DEF Closing, Work
<1>5. Len(tasks) = 1
  BY <1>2, <1>4, FirstOfMany
<1> QED
  BY <1>1, <1>5, TailOne DEF TypeOK

\* A step of the loop that calls HandleState, or leaves the state as it is,
\* keeps what is armed.
LEMMA LoopWaiting ==
  ASSUME IInv, Waiting, Loop
  PROVE  Waiting'
<1>1. TypeOK /\ Control /\ Lifetime /\ Armed /\ Posted
  BY DEF IInv, Waiting
<1>2. CASE RunHandleState
  <2>1. /\ ~on_stack /\ tasks # <<>> /\ Head(tasks).fn = "HandleState" /\ tasks' = Tail(tasks)
        /\ UNCHANGED <<waitVars, ownerVars, current_state>> /\ on_stack'
    BY <1>2 DEF RunHandleState, TakeTask, AtRest, Call
  <2>2. Posted'
    BY <1>1, <2>1, TailPosted
  <2>3. ~destroyed /\ current_state = "CONNECT_START"
    <3>1. Head(tasks) = tasks[1] /\ 1 \in 1 .. Len(tasks)
      BY <1>1, <2>1, TailFacts
    <3> QED
      BY <1>1, <2>1, <3>1, WorkLifetime DEF Posted, IInv, Work
  <2> QED
    BY <1>1, <2>1, <2>2, <2>3 DEF Waiting, Armed, waitVars, WaitState
<1>3. CASE RunStartQuery
  <2>1. /\ ~on_stack /\ tasks # <<>> /\ Head(tasks).fn = "StartQuery" /\ tasks' = Tail(tasks)
        /\ UNCHANGED <<waitVars, ownerVars, current_state>>
        /\ on_stack' => current_state = "CONNECTION_IDLE"
    BY <1>3 DEF RunStartQuery, TakeTask, AtRest, Call
  <2>2. Posted'
    BY <1>1, <2>1, TailPosted
  <2>3. ~destroyed
    BY <1>1, <2>1, WorkLifetime DEF IInv, Work
  <2> QED
    BY <1>1, <2>1, <2>2, <2>3 DEF Waiting, Armed, waitVars, WaitState, ownerVars
<1>4. CASE RunSyncClose
  <2>1. /\ ~on_stack /\ ~on_stack' /\ ~fd_event' /\ current_state' = "CLOSE_DONE"
        /\ fd_event => fd_armed' = {} /\ timeout' = FALSE
        /\ ~fd_event => fd_armed' = fd_armed /\ timeout' = timeout
        /\ tasks # <<>> /\ Head(tasks).fn = "SyncClose"
        /\ tasks' = Tail(tasks) \/ tasks' = Append(Tail(tasks), NewTask("Clean"))
    BY <1>4 DEF RunSyncClose, TakeTask, AtRest, clean_up
  <2>2. ~timeout' /\ fd_armed' = {}
    BY <1>1, <2>1 DEF Armed, Control, TypeOK
  <2>3. \A i \in 1 .. Len(tasks') : tasks'[i].fn # "HandleState"
    <3>4. Tail(tasks) = <<>>
      BY <2>1, SyncCloseLast
    <3>5. NewTask("Clean") \in Task /\ NewTask("Clean").fn = "Clean"
      BY DEF NewTask, Task
    <3> QED
      BY <2>1, <3>4, <3>5, OneFacts
  <2> QED
    BY <2>1, <2>2, <2>3 DEF Waiting, Armed, Posted, RestState, WaitState
<1>5. CASE RunClean
  <2>1. /\ ~on_stack /\ ~on_stack' /\ tasks # <<>> /\ Head(tasks).fn = "Clean" /\ tasks' = Tail(tasks)
        /\ ~fd_event' /\ fd_armed' = {} /\ ~timeout' /\ UNCHANGED <<ownerVars, current_state>>
    BY <1>5 DEF RunClean, TakeTask, AtRest
  <2>2. destroyed
    <3>1. tasks[1].fn = "Clean" /\ 1 \in 1 .. Len(tasks) /\ Len(tasks) \in Nat /\ Len(tasks) > 0
      BY <1>1, <2>1, TailFacts
    <3>2. ~Closing
      <4>1. CASE Len(tasks) = 1
        BY <3>1, <4>1 DEF Closing, NewTask
      <4>2. CASE Len(tasks) # 1
        <5>1. 1 \in 1 .. Len(tasks) - 1
          BY <3>1, <4>2, FirstOfMany
        <5> QED
          BY <3>1, <5>1 DEF Closing, Work
      <4> QED
        BY <4>1, <4>2
    <3> QED
      BY <1>1, <2>1, <3>1, <3>2 DEF Lifetime, Using, Gone, Destroyed, Work
  <2>3. Posted'
    BY <1>1, <2>1, TailPosted
  <2> QED
    BY <1>1, <2>1, <2>2, <2>3 DEF Waiting, Armed, ownerVars
<1>6. CASE OnWaitEventInvoked \/ OnTimeOut
  <2>1. /\ ~on_stack /\ on_stack' /\ ~destroyed /\ (fd_event \/ timeout)
        /\ tasks' = tasks /\ ~timeout' /\ fd_armed' = {} /\ UNCHANGED <<ownerVars, current_state>>
    BY <1>6 DEF OnWaitEventInvoked, OnTimeOut, AtRest, Call, reset_wait_event
  <2>2. current_state # "CONNECT_START"
    BY <1>1, <2>1 DEF Armed, Control
  <2>3. Posted'
    BY <1>1, <2>1, <2>2 DEF Posted
  <2> QED
    BY <2>1, <2>3 DEF Waiting, Armed
<1>7. CASE do_connection_check \/ Close
  <2>1. current_state # "QUERY_START" \/ on_stack
    BY <1>1 DEF Armed, RestState, WaitState
  <2>2. UNCHANGED <<tasks, on_stack, waitVars, ownerVars, current_state>>
    BY <1>7, <2>1 DEF do_connection_check, Close, AtRest, loopVars
  <2> QED
    BY <1>1, <2>2 DEF Waiting, Armed, Posted, waitVars, ownerVars
<1> QED
  BY <1>2, <1>3, <1>4, <1>5, <1>6, <1>7 DEF Loop

\* The owner posts work, connects, and goes.
LEMMA OwnerWaiting ==
  ASSUME IInv, Waiting, Owner
  PROVE  Waiting'
<1>1. TypeOK /\ Control /\ Lifetime /\ Armed /\ Posted
  BY DEF IInv, Waiting
<1>2. UNCHANGED <<on_stack, fd_event, fd_armed, timeout>>
  BY DEF Owner, Connect, SyncConnect, PendingQuery, PoolClose, Release, ReleaseUnclosed, OwnerStep, waitVars
<1>3. ASSUME UNCHANGED current_state, destroyed => destroyed', Posted' PROVE Waiting'
  BY <1>1, <1>2, <1>3 DEF Waiting, Armed
<1>4. CASE Connect
  <2>1. /\ owner = "using" /\ current_state = "CONNECT_INIT" /\ current_state' = "CONNECT_START"
        /\ tasks' = Append(tasks, NewTask("HandleState")) /\ UNCHANGED ownerVars
    BY <1>4 DEF Connect
  <2>2. ~destroyed /\ ~destroyed' /\ ~on_stack
    BY <1>1, <2>1 DEF Lifetime, Using, Closing, Gone, Destroyed, Control, ownerVars
  <2>3. tasks \in Seq(Task) /\ NewTask("HandleState") \in Task /\ NewTask("HandleState").fn = "HandleState"
    BY <1>1 DEF NewTask, Task, TypeOK
  <2>4. /\ Len(tasks) \in Nat /\ Len(tasks') = Len(tasks) + 1
        /\ tasks'[Len(tasks')].fn = "HandleState"
        /\ \A i \in 1 .. Len(tasks) : tasks'[i] = tasks[i]
    BY <2>1, <2>3
  <2>5. \A i \in 1 .. Len(tasks) : tasks[i].fn # "HandleState"
    BY <1>1, <2>1 DEF Posted
  <2>6. \A i \in 1 .. Len(tasks') : tasks'[i].fn = "HandleState" => i = Len(tasks')
    BY <2>4, <2>5
  <2>7. Posted'
    BY <1>2, <2>1, <2>2, <2>4, <2>6 DEF Posted
  <2> QED
    BY <1>1, <1>2, <2>1, <2>2, <2>7 DEF Waiting, Armed, RestState, WaitState
<1>5. CASE SyncConnect
  <2>1. /\ owner = "using" /\ current_state = "CONNECT_INIT" /\ current_state' = "CONNECTION_IDLE"
        /\ UNCHANGED <<tasks, ownerVars>>
    BY <1>5 DEF SyncConnect
  <2>2. ~destroyed /\ ~destroyed' /\ ~on_stack
    BY <1>1, <2>1 DEF Lifetime, Using, Closing, Gone, Destroyed, Control, ownerVars
  <2>3. Posted'
    BY <1>1, <1>2, <2>1 DEF Posted
  <2> QED
    BY <1>1, <1>2, <2>1, <2>2, <2>3 DEF Waiting, Armed, RestState, WaitState
<1>6. CASE \E q \in Query : PendingQuery(q)
  <2>1. PICK q \in Query : PendingQuery(q)
    BY <1>6
  <2>2. QueryTask(q) \in Task /\ QueryTask(q).fn # "HandleState"
    BY DEF QueryTask, Task
  <2>3. tasks' = Append(tasks, QueryTask(q)) /\ UNCHANGED <<ownerVars, current_state>>
    BY <2>1 DEF PendingQuery
  <2>4. Posted'
    BY <1>1, <1>2, <2>2, <2>3, AppendPosted
  <2> QED
    BY <1>3, <2>3, <2>4 DEF ownerVars
<1>7. CASE PoolClose \/ Release \/ ReleaseUnclosed
  <2>1. /\ current_state' = current_state
        /\ destroyed => destroyed'
        /\ \/ tasks' = tasks
           \/ tasks' = Append(tasks, NewTask("SyncClose"))
           \/ tasks' = Append(tasks, NewTask("Clean"))
    BY <1>7 DEF PoolClose, Release, ReleaseUnclosed, Destructor
  <2>2. NewTask("SyncClose") \in Task /\ NewTask("SyncClose").fn # "HandleState"
    BY DEF NewTask, Task
  <2>3. NewTask("Clean") \in Task /\ NewTask("Clean").fn # "HandleState"
    BY DEF NewTask, Task
  <2>4. CASE tasks' = tasks
    BY <1>1, <1>2, <1>3, <2>1, <2>4 DEF Posted
  <2>5. CASE tasks' # tasks
    <3>1. Posted'
      BY <1>1, <1>2, <2>1, <2>2, <2>3, <2>5, AppendPosted
    <3> QED
      BY <1>3, <2>1, <3>1
  <2> QED
    BY <2>4, <2>5
<1> QED
  BY <1>4, <1>5, <1>6, <1>7 DEF Owner

\* Every step keeps it.
LEMMA NextWaiting ==
  ASSUME IInv, Waiting, Next \/ UNCHANGED vars
  PROVE  Waiting'
<1>1. CASE UNCHANGED vars
  BY <1>1 DEF vars, loopVars, waitVars, ownerVars, Waiting, Armed, Posted
<1> QED
  BY <1>1, HandleStateWaiting, LoopWaiting, OwnerWaiting DEF Next

----------------------------------------------------------------------------
(* The link to the server.                                                 *)

\* What the state and ready_ say of the handle.
Link ==
  /\ current_state \in {"CONNECT_INIT", "CONNECT_START", "CONNECT_WAIT"} => mysql.link = "init"
  /\ current_state = "CONNECT_DONE" /\ ~on_stack => mysql.link = "closed"
  /\ current_state = "CONNECT_DONE" /\ on_stack /\ mysql_ret => mysql.link = "open" /\ mysql.db = OptDB
  /\ current_state = "CLOSE_DONE" => mysql.link = "closed"
  /\ ready => mysql.link = "open" \/ (on_stack /\ current_state = "CLOSE_DONE")

\* Sessions come only after the handle was open, and an idle connection has none.
Backlog ==
  /\ mysql.link = "init" =>
       query_list = <<>> /\ \A i \in 1 .. Len(tasks) : tasks[i].fn # "StartQuery"
  /\ current_state = "CONNECTION_IDLE" /\ ~on_stack => query_list = <<>>
  /\ destroyed => query_list = <<>>

Linked == Link /\ Backlog

\* A step that serves a session leaves the link and the queue alone, and goes on
\* serving it, answers it or closes.
Serves ==
  /\ current_state \in Serving /\ on_stack
  /\ UNCHANGED <<flagVars, mysql_ret, query_list>> /\ mysql'.link = mysql.link
  /\ current_state' \in Serving \cup {"CONNECTION_IDLE", "CLOSE_START"}
  /\ current_state' = "CONNECTION_IDLE" => on_stack'

\* A session that failed is answered.
LEMMA FailServes ==
  ASSUME on_stack, NEW code, FailQuery(code)
  PROVE  current_state' \in {"CONNECTION_IDLE", "CLOSE_START"} /\ on_stack'
BY DEF FailQuery, AfterError, Goto, go_next_state

\* A call keeps the link and the database, but for connect, close and select_db.
LEMMA AfterKeeps ==
  ASSUME TypeOK, NEW op, NEW r
  PROVE  /\ After(op, r).link = mysql.link /\ After(op, r).db = mysql.db
         /\ AfterQuery(r).link = mysql.link /\ AfterQuery(r).db = mysql.db
BY DEF After, AfterQuery, TypeOK, Handle

\* Every case of HandleState for a session in process is such a step.
LEMMA ServingCases ==
  ASSUME IInv, \/ SelectDbStart \/ SelectDbWait \/ SelectDbDone \/ QueryStartEmpty \/ QueryStart
               \/ QueryWait \/ UseResultNull \/ UseResult \/ FetchRowStart \/ FetchRowWait
               \/ FetchRowReady \/ FetchRowEnd
  PROVE  Serves
<1> USE DEF Serving
<1>1. TypeOK
  BY DEF IInv
<1>2. CASE SelectDbStart \/ SelectDbWait
  <2>1. PICK ev : SelectDbCall(ev)
    BY <1>2 DEF SelectDbStart, SelectDbWait
  <2>2. PICK r \in Returns(ev) :
          /\ mysql' = [After("select_db", r) EXCEPT
                         !.db = IF r.status = {} /\ r.errno = "ok" THEN session[in_process].db ELSE @]
          /\ \/ FailQuery(r.errno)
             \/ go_next_state(r.status, "SELECT_DB_WAIT", "SELECT_DB_DONE")
          /\ UNCHANGED <<flagVars, mysql_ret, query_list>>
    BY <2>1 DEF SelectDbCall
  <2>3. After("select_db", r) \in Handle
    BY <1>1, AfterType DEF TypeOK
  <2>4. mysql'.link = mysql.link
    BY <1>1, <2>2, <2>3, AfterKeeps DEF Handle
  <2>5. on_stack /\ current_state \in Serving
    BY <1>2 DEF SelectDbStart, SelectDbWait, Case
  <2>6. /\ current_state' \in Serving \cup {"CONNECTION_IDLE", "CLOSE_START"}
        /\ current_state' = "CONNECTION_IDLE" => on_stack'
    BY <2>2, <2>5, FailServes DEF go_next_state
  <2> QED
    BY <2>2, <2>4, <2>5, <2>6 DEF Serves
<1>3. CASE QueryStart \/ QueryWait
  <2>1. PICK ev : \E r \in Returns(ev) :
          /\ mysql' = AfterQuery(r)
          /\ \/ FailQuery(r.errno)
             \/ go_next_state(r.status, "QUERY_WAIT", "QUERY_RESULT_READY")
    BY <1>3 DEF QueryStart, QueryWait
  <2>2. on_stack /\ current_state \in Serving /\ UNCHANGED <<flagVars, mysql_ret, query_list>>
    BY <1>3 DEF QueryStart, QueryWait, Case
  <2>3. mysql'.link = mysql.link
    BY <1>1, <2>1, AfterKeeps
  <2>4. /\ current_state' \in Serving \cup {"CONNECTION_IDLE", "CLOSE_START"}
        /\ current_state' = "CONNECTION_IDLE" => on_stack'
    BY <2>1, <2>2, FailServes DEF go_next_state
  <2> QED
    BY <2>2, <2>3, <2>4 DEF Serves
<1>4. CASE FetchRowStart \/ FetchRowWait
  <2>1. PICK ev : FetchRowCall(ev)
    BY <1>4 DEF FetchRowStart, FetchRowWait
  <2>2. PICK r \in Returns(ev) :
          /\ \/ mysql' = [After("fetch", r) EXCEPT !.unread = @ - 1, !.fetched = @ + 1]
             \/ mysql' = After("fetch", r)
          /\ go_next_state(r.status, "FETCH_ROW_WAIT", "FETCH_ROW_RESULT_READY")
          /\ UNCHANGED <<flagVars, mysql_ret, query_list>>
    BY <2>1 DEF FetchRowCall
  <2>3. After("fetch", r) \in Handle
    BY <1>1, AfterType DEF TypeOK
  <2>4. mysql'.link = mysql.link
    BY <1>1, <2>2, <2>3, AfterKeeps DEF Handle
  <2>5. on_stack /\ current_state \in Serving
    BY <1>4 DEF FetchRowStart, FetchRowWait, Case
  <2>6. current_state' \in Serving
    BY <2>2 DEF go_next_state
  <2> QED
    BY <2>2, <2>4, <2>5, <2>6 DEF Serves
<1>5. CASE UseResultNull
  <2>1. PICK e : mysql' = [mysql EXCEPT !.errno = e] /\ FailQuery(e)
    BY <1>5 DEF UseResultNull
  <2>2. on_stack /\ current_state \in Serving /\ UNCHANGED <<flagVars, mysql_ret, query_list>>
    BY <1>5 DEF UseResultNull, Case
  <2>3. mysql'.link = mysql.link
    BY <1>1, <2>1 DEF TypeOK, Handle
  <2> QED
    BY <2>1, <2>2, <2>3, FailServes DEF Serves
<1>6. CASE SelectDbDone \/ QueryStartEmpty \/ UseResult \/ FetchRowReady \/ FetchRowEnd
  <2>1. PICK st \in {"QUERY_START", "CONNECTION_IDLE", "FETCH_ROW_START"} : Goto(st)
    BY <1>6 DEF SelectDbDone, QueryStartEmpty, UseResult, FetchRowReady, FetchRowEnd
  <2>2. on_stack /\ current_state \in Serving /\ UNCHANGED <<flagVars, mysql_ret, query_list>>
    BY <1>6 DEF SelectDbDone, QueryStartEmpty, UseResult, FetchRowReady, FetchRowEnd, Case
  <2>3. mysql' = mysql \/ \E n : mysql' = [mysql EXCEPT !.unread = n]
    BY <1>6 DEF SelectDbDone, QueryStartEmpty, UseResult, FetchRowReady, FetchRowEnd
  <2>4. mysql'.link = mysql.link
    BY <1>1, <2>3 DEF TypeOK, Handle
  <2> QED
    BY <2>1, <2>2, <2>4 DEF Serves, Goto, go_next_state
<1> QED
  BY <1>2, <1>3, <1>4, <1>5, <1>6

\* What connecting does to the link.
LEMMA ConnectCallLink ==
  ASSUME TypeOK, NEW ev, ConnectCall(ev)
  PROVE  /\ \/ current_state' = "CONNECT_WAIT" /\ mysql'.link = mysql.link /\ mysql'.db = mysql.db
            \/ /\ current_state' = "CONNECT_DONE" /\ on_stack' = on_stack
               /\ \/ mysql_ret' /\ mysql'.link = "open" /\ mysql'.db = OptDB
                  \/ ~mysql_ret' /\ mysql'.link = mysql.link /\ mysql'.db = mysql.db
         /\ UNCHANGED <<flagVars, query_list>>
<1>1. PICK r \in Returns(ev) :
        LET up == r.status = {} /\ r.errno = "ok" IN
        /\ mysql' = [After("connect", r) EXCEPT !.link = IF up THEN "open" ELSE @,
                                                !.db = IF up THEN OptDB ELSE @]
        /\ mysql_ret' = IF r.status = {} THEN up ELSE mysql_ret
        /\ go_next_state(r.status, "CONNECT_WAIT", "CONNECT_DONE")
        /\ UNCHANGED <<flagVars, query_list>>
  BY DEF ConnectCall
<1>2. After("connect", r) \in Handle
  BY AfterType DEF TypeOK
<1>3. /\ mysql'.link = IF r.status = {} /\ r.errno = "ok" THEN "open" ELSE mysql.link
      /\ mysql'.db = IF r.status = {} /\ r.errno = "ok" THEN OptDB ELSE mysql.db
  BY <1>1, <1>2, AfterKeeps DEF Handle
<1>4. CASE r.status = {}
  <2>1. current_state' = "CONNECT_DONE" /\ on_stack' = on_stack
    BY <1>1, <1>4 DEF go_next_state
  <2>2. mysql_ret' = (r.errno = "ok")
    BY <1>1, <1>4, Zenon
  <2> QED
    BY <1>1, <1>3, <1>4, <2>1, <2>2
<1>5. CASE r.status # {}
  BY <1>1, <1>3, <1>5 DEF go_next_state
<1> QED
  BY <1>4, <1>5

\* What closing does to it.
LEMMA CloseCallLink ==
  ASSUME TypeOK, NEW ev, CloseCall(ev)
  PROVE  /\ \/ current_state' = "CLOSE_WAIT" /\ mysql'.link = mysql.link
            \/ current_state' = "CLOSE_DONE" /\ on_stack' = on_stack /\ mysql'.link = "closed"
         /\ mysql'.db = mysql.db
         /\ UNCHANGED <<flagVars, mysql_ret, query_list>>
<1>1. PICK status :
        /\ mysql' = IF status = {}
                    THEN [mysql EXCEPT !.op = "none", !.link = "closed", !.unread = 0]
                    ELSE [mysql EXCEPT !.op = "close"]
        /\ go_next_state(status, "CLOSE_WAIT", "CLOSE_DONE")
        /\ UNCHANGED <<flagVars, mysql_ret, query_list>>
  BY DEF CloseCall
<1>2. /\ mysql'.link = IF status = {} THEN "closed" ELSE mysql.link
      /\ mysql'.db = mysql.db
  BY <1>1 DEF TypeOK, Handle
<1> QED
  BY <1>1, <1>2 DEF go_next_state

\* Every case of HandleState keeps the link and the backlog.
LEMMA HandleStateLinked ==
  ASSUME IInv, Linked, HandleState
  PROVE  Linked'
<1>1. TypeOK /\ Control /\ Link /\ Backlog
  BY DEF IInv, Linked
<1>2. on_stack /\ tasks' = tasks /\ ~destroyed /\ ~destroyed'
  BY HandleShape, LifetimeOnStack DEF IInv
<1>3. CASE ConnectStart \/ ConnectWait
  <2>1. PICK ev : ConnectCall(ev)
    BY <1>3 DEF ConnectStart, ConnectWait
  <2>2. current_state \in {"CONNECT_START", "CONNECT_WAIT"}
    BY <1>3 DEF ConnectStart, ConnectWait, Case
  <2>3. mysql.link = "init" /\ ~ready
    BY <1>1, <2>2 DEF Link
  <2> QED
    BY <1>1, <1>2, <2>1, <2>3, ConnectCallLink DEF Linked, Link, Backlog, flagVars
<1>4. CASE ConnectDone
  <2>1. /\ current_state' = IF mysql_ret THEN "CONNECTION_IDLE" ELSE "CLOSE_START"
        /\ on_stack' /\ mysql' = mysql /\ query_list' = query_list /\ ready' = mysql_ret
        /\ current_state = "CONNECT_DONE"
    BY <1>2, <1>4 DEF ConnectDone, Case, Goto, go_next_state
  <2> QED
    BY <1>1, <1>2, <2>1 DEF Linked, Link, Backlog
<1>5. CASE CloseStart \/ CloseWait
  <2>1. PICK ev : CloseCall(ev)
    BY <1>5 DEF CloseStart, CloseWait
  <2>2. current_state \in {"CLOSE_START", "CLOSE_WAIT"}
    BY <1>5 DEF CloseStart, CloseWait, Case
  <2> QED
    BY <1>1, <1>2, <2>1, <2>2, CloseCallLink DEF Linked, Link, Backlog, flagVars
<1>6. CASE CloseDone
  <2>1. /\ current_state = "CLOSE_DONE" /\ current_state' = "CONNECT_DONE" /\ ready' = FALSE
        /\ on_stack' = FALSE /\ mysql' = mysql /\ query_list' = <<>>
    BY <1>6 DEF CloseDone, Case, clean_up, AnswerClosed, Return
  <2> QED
    BY <1>1, <1>2, <2>1 DEF Linked, Link, Backlog
<1>7. CASE IdleEmpty
  <2>1. /\ current_state = "CONNECTION_IDLE" /\ current_state' \in {"CONNECTION_IDLE", "CLOSE_START"}
        /\ query_list = <<>> /\ query_list' = <<>> /\ mysql' = mysql /\ ready' = ready
    BY <1>7 DEF IdleEmpty, Case, Goto, go_next_state, flagVars
  <2> QED
    BY <1>1, <1>2, <2>1 DEF Linked, Link, Backlog
<1>8. CASE IdleTake
  <2>1. /\ current_state = "CONNECTION_IDLE" /\ current_state' \in {"SELECT_DB_START", "QUERY_START"}
        /\ query_list # <<>> /\ mysql' = mysql /\ ready' = ready
    BY <1>8 DEF IdleTake, Case, Goto, go_next_state, flagVars
  <2> QED
    BY <1>1, <1>2, <2>1 DEF Linked, Link, Backlog
<1>9. CASE Serves
  BY <1>1, <1>2, <1>9 DEF Serves, Serving, Linked, Link, Backlog, flagVars
<1> QED
  BY <1>3, <1>4, <1>5, <1>6, <1>7, <1>8, <1>9, ServingCases DEF HandleState

\* Taking a task and posting one keep who has no session queued.
LEMMA TailBacklog ==
  ASSUME TypeOK, tasks # <<>>, tasks' = Tail(tasks),
         \A i \in 1 .. Len(tasks) : tasks[i].fn # "StartQuery"
  PROVE  \A i \in 1 .. Len(tasks') : tasks'[i].fn # "StartQuery"
<1>1. /\ Len(tasks) \in Nat /\ Len(tasks) > 0 /\ Len(Tail(tasks)) = Len(tasks) - 1
      /\ \A i \in 1 .. Len(Tail(tasks)) : Tail(tasks)[i] = tasks[i + 1]
  BY TailFacts
<1> QED
  BY <1>1

\* Posting a closure that hands over no session.
LEMMA AppendBacklog ==
  ASSUME TypeOK, NEW t \in Task, t.fn # "StartQuery", tasks' = Append(tasks, t),
         \A i \in 1 .. Len(tasks) : tasks[i].fn # "StartQuery"
  PROVE  \A i \in 1 .. Len(tasks') : tasks'[i].fn # "StartQuery"
<1>1. /\ Len(tasks) \in Nat /\ Len(tasks') = Len(tasks) + 1 /\ tasks'[Len(tasks')] = t
      /\ \A i \in 1 .. Len(tasks) : tasks'[i] = tasks[i]
  BY PostFacts
<1> QED
  BY <1>1

\* The steps of the loop keep the link and the backlog.
LEMMA LoopLinked ==
  ASSUME IInv, Waiting, Linked, Loop
  PROVE  Linked'
<1>1. TypeOK /\ Control /\ Lifetime /\ Armed /\ Posted /\ Link /\ Backlog
  BY DEF IInv, Waiting, Linked
<1>2. CASE RunHandleState
  <2>1. /\ ~on_stack /\ tasks # <<>> /\ Head(tasks).fn = "HandleState" /\ tasks' = Tail(tasks)
        /\ UNCHANGED <<queueVars, flagVars, ownerVars, current_state, mysql>> /\ on_stack'
    BY <1>2 DEF RunHandleState, TakeTask, AtRest, Call
  <2>2. current_state = "CONNECT_START"
    BY <1>1, <2>1, TailFacts DEF Posted
  <2> QED
    BY <1>1, <2>1, <2>2, TailBacklog DEF Linked, Link, Backlog, queueVars, flagVars, ownerVars
<1>3. CASE RunStartQuery
  <2>1. /\ ~on_stack /\ tasks # <<>> /\ Head(tasks).fn = "StartQuery" /\ tasks' = Tail(tasks)
        /\ UNCHANGED <<flagVars, ownerVars, current_state, mysql>>
        /\ current_state = "CONNECTION_IDLE" /\ in_process = NoQuery => on_stack'
        /\ on_stack' => current_state = "CONNECTION_IDLE"
    BY <1>3 DEF RunStartQuery, TakeTask, AtRest, Call
  <2>2. mysql.link # "init"
    BY <1>1, <2>1, TailFacts DEF Backlog
  <2>3. ~destroyed
    BY <1>1, <2>1, WorkLifetime DEF IInv, Work
  <2>4. current_state = "CONNECTION_IDLE" => on_stack'
    BY <1>1, <2>1 DEF Control, Serving
  <2> QED
    BY <1>1, <2>1, <2>2, <2>3, <2>4 DEF Linked, Link, Backlog, flagVars, ownerVars
<1>4. CASE RunSyncClose
  <2>1. /\ ~ready' /\ current_state' = "CLOSE_DONE" /\ query_list' = <<>>
        /\ mysql' = [mysql EXCEPT !.op = "none", !.link = "closed", !.unread = 0]
    BY <1>4 DEF RunSyncClose, clean_up, AnswerClosed
  <2>2. mysql'.link = "closed"
    BY <1>1, <2>1 DEF TypeOK, Handle
  <2> QED
    BY <2>1, <2>2 DEF Linked, Link, Backlog
<1>5. CASE RunClean
  <2>1. /\ tasks # <<>> /\ tasks' = Tail(tasks)
        /\ UNCHANGED <<on_stack, queueVars, flagVars, ownerVars, current_state, mysql, mysql_ret>>
    BY <1>5 DEF RunClean, TakeTask, AtRest
  <2> QED
    BY <1>1, <2>1, TailBacklog DEF Linked, Link, Backlog, queueVars, flagVars, ownerVars
<1>6. CASE OnWaitEventInvoked \/ OnTimeOut
  <2>1. /\ ~on_stack /\ on_stack' /\ (fd_event \/ timeout)
        /\ UNCHANGED <<tasks, queueVars, flagVars, ownerVars, current_state, mysql>>
    BY <1>6 DEF OnWaitEventInvoked, OnTimeOut, AtRest, Call
  <2>2. current_state \notin {"CONNECT_DONE", "CLOSE_DONE"}
    BY <1>1, <2>1 DEF Armed, Control
  <2> QED
    BY <1>1, <2>1, <2>2 DEF Linked, Link, Backlog, queueVars, flagVars, ownerVars
<1>7. CASE do_connection_check
  <2>1. /\ UNCHANGED <<tasks, on_stack, queueVars, ownerVars, current_state, mysql, mysql_ret>>
        /\ ready' => mysql.link = "open"
    BY <1>7 DEF do_connection_check, AtRest, loopVars
  <2> QED
    BY <1>1, <2>1 DEF Linked, Link, Backlog, queueVars, ownerVars
<1>8. CASE Close
  <2>1. current_state # "QUERY_START" \/ on_stack
    BY <1>1 DEF Armed, RestState, WaitState
  <2>2. UNCHANGED <<tasks, on_stack, queueVars, ownerVars, current_state, mysql, mysql_ret, ready>>
    BY <1>8, <2>1 DEF Close, AtRest
  <2> QED
    BY <1>1, <2>2 DEF Linked, Link, Backlog, queueVars, ownerVars
<1> QED
  BY <1>2, <1>3, <1>4, <1>5, <1>6, <1>7, <1>8 DEF Loop

\* So do those of the owner.
LEMMA OwnerLinked ==
  ASSUME IInv, Linked, Owner
  PROVE  Linked'
<1>1. TypeOK /\ Control /\ Lifetime /\ Link /\ Backlog
  BY DEF IInv, Linked
<1>2. on_stack' = on_stack
  BY DEF Owner, Connect, SyncConnect, PendingQuery, PoolClose, Release, ReleaseUnclosed, OwnerStep
<1>3. CASE Connect
  <2>1. /\ current_state = "CONNECT_INIT" /\ current_state' = "CONNECT_START"
        /\ tasks' = Append(tasks, NewTask("HandleState"))
        /\ UNCHANGED <<queueVars, ready, ownerVars, mysql_ret, mysql>>
    BY <1>3 DEF Connect
  <2>2. NewTask("HandleState") \in Task /\ NewTask("HandleState").fn # "StartQuery"
    BY DEF NewTask, Task
  <2> QED
    BY <1>1, <1>2, <2>1, <2>2, AppendBacklog DEF Linked, Link, Backlog, queueVars, ownerVars
<1>4. CASE SyncConnect
  <2>1. /\ current_state = "CONNECT_INIT" /\ current_state' = "CONNECTION_IDLE"
        /\ mysql' = [mysql EXCEPT !.link = "open", !.db = OptDB]
        /\ UNCHANGED <<tasks, queueVars, ownerVars>>
    BY <1>4 DEF SyncConnect
  <2>2. mysql'.link = "open"
    BY <1>1, <2>1 DEF TypeOK, Handle
  <2> QED
    BY <1>1, <1>2, <2>1, <2>2 DEF Linked, Link, Backlog, queueVars, ownerVars
<1>5. CASE \E q \in Query : PendingQuery(q)
  <2>1. /\ ready /\ UNCHANGED <<query_list, ready, ownerVars, current_state, mysql_ret, mysql>>
    BY <1>5 DEF PendingQuery
  <2>2. mysql.link # "init"
    BY <1>1, <2>1 DEF Link
  <2> QED
    BY <1>1, <1>2, <2>1, <2>2 DEF Linked, Link, Backlog, ownerVars
<1>6. CASE PoolClose \/ Release \/ ReleaseUnclosed
  <2>1. /\ UNCHANGED <<ready, current_state, mysql_ret, mysql>>
        /\ \/ tasks' = tasks
           \/ tasks' = Append(tasks, NewTask("SyncClose"))
           \/ tasks' = Append(tasks, NewTask("Clean"))
        /\ query_list' = <<>> \/ UNCHANGED <<query_list, destroyed>>
    BY <1>6 DEF PoolClose, Release, ReleaseUnclosed, Destructor, AnswerClosed, queueVars
  <2>2. NewTask("SyncClose") \in Task /\ NewTask("SyncClose").fn # "StartQuery"
    BY DEF NewTask, Task
  <2>3. NewTask("Clean") \in Task /\ NewTask("Clean").fn # "StartQuery"
    BY DEF NewTask, Task
  <2>4. mysql.link = "init" => \A i \in 1 .. Len(tasks') : tasks'[i].fn # "StartQuery"
    BY <1>1, <2>1, <2>2, <2>3, AppendBacklog DEF Backlog
  <2> QED
    BY <1>1, <1>2, <2>1, <2>4 DEF Linked, Link, Backlog
<1> QED
  BY <1>3, <1>4, <1>5, <1>6 DEF Owner

\* Every step keeps it.
LEMMA NextLinked ==
  ASSUME IInv, Waiting, Linked, Next \/ UNCHANGED vars
  PROVE  Linked'
<1>1. CASE UNCHANGED vars
  BY <1>1 DEF vars, loopVars, queueVars, flagVars, ownerVars, Linked, Link, Backlog
<1> QED
  BY <1>1, HandleStateLinked, LoopLinked, OwnerLinked DEF Next

----------------------------------------------------------------------------
(* The selected database.                                                  *)

\* The states in which the session in process has its database.
InItsDB == {"QUERY_START", "QUERY_WAIT", "QUERY_RESULT_READY"} \cup Fetching

\* The remembered database is the selected one, but while it is being changed,
\* and a session whose statement is run has the one it named.
Selected ==
  /\ current_state # "SELECT_DB_DONE" => last_selected_db \in {NoDB, mysql.db}
  /\ current_state \in {"CONNECT_INIT", "CONNECT_START", "CONNECT_WAIT"} => last_selected_db = NoDB
  /\ current_state = "SELECT_DB_DONE" /\ ~destroyed => session[in_process].db = mysql.db
  /\ current_state \in InItsDB /\ ~destroyed => session[in_process].db \in {NoDB, mysql.db}

\* A session that failed is done with.
LEMMA FailSelected ==
  ASSUME on_stack, Selected, current_state # "SELECT_DB_DONE", NEW code, FailQuery(code),
         last_selected_db' = last_selected_db, mysql'.db = mysql.db
  PROVE  Selected'
<1>1. current_state' \in {"CONNECTION_IDLE", "CLOSE_START"}
  BY FailServes
<1> QED
  BY <1>1 DEF Selected, InItsDB, Fetching

\* A step from one state that runs the statement to the next.
LEMMA RunSelected ==
  ASSUME Selected, current_state \in InItsDB, ~destroyed,
         current_state' \in InItsDB \cup {"CONNECTION_IDLE", "CLOSE_START"},
         current_state' \in InItsDB => session'[in_process'].db = session[in_process].db,
         last_selected_db' = last_selected_db, mysql'.db = mysql.db
  PROVE  Selected'
BY DEF Selected, InItsDB, Fetching

\* Every case of HandleState keeps the remembered database the selected one.
LEMMA HandleStateSelected ==
  ASSUME IInv, Linked, Selected, HandleState
  PROVE  Selected'
<1> USE DEF Fetching
<1>1. TypeOK /\ Link /\ mysql \in Handle
  BY DEF IInv, Linked, TypeOK
<1>2. on_stack /\ ~destroyed /\ ~destroyed'
  BY HandleShape, LifetimeOnStack DEF IInv
<1>3. CASE ConnectStart \/ ConnectWait
  <2>1. PICK ev : ConnectCall(ev)
    BY <1>3 DEF ConnectStart, ConnectWait
  <2>2. current_state \in {"CONNECT_START", "CONNECT_WAIT"} /\ last_selected_db' = last_selected_db
    BY <1>3 DEF ConnectStart, ConnectWait, ConnectCall, Case
  <2>3. current_state' \in {"CONNECT_WAIT", "CONNECT_DONE"}
    BY <1>1, <2>1, ConnectCallLink
  <2> QED
    BY <2>2, <2>3 DEF Selected, InItsDB
<1>4. CASE ConnectDone
  <2>1. /\ current_state = "CONNECT_DONE" /\ current_state' \in {"CONNECTION_IDLE", "CLOSE_START"}
        /\ mysql' = mysql /\ last_selected_db' = IF mysql_ret THEN OptDB ELSE last_selected_db
    BY <1>4 DEF ConnectDone, Case, Goto, go_next_state
  <2> QED
    BY <1>1, <1>2, <2>1 DEF Selected, InItsDB, Link
<1>5. CASE CloseStart \/ CloseWait
  <2>1. PICK ev : CloseCall(ev)
    BY <1>5 DEF CloseStart, CloseWait
  <2>2. current_state \in {"CLOSE_START", "CLOSE_WAIT"} /\ last_selected_db' = last_selected_db
    BY <1>5 DEF CloseStart, CloseWait, CloseCall, Case
  <2>3. current_state' \in {"CLOSE_WAIT", "CLOSE_DONE"} /\ mysql'.db = mysql.db
    BY <1>1, <2>1, CloseCallLink
  <2> QED
    BY <2>2, <2>3 DEF Selected, InItsDB
<1>6. CASE CloseDone
  <2>1. /\ current_state = "CLOSE_DONE" /\ current_state' = "CONNECT_DONE"
        /\ mysql' = mysql /\ last_selected_db' = last_selected_db
    BY <1>6 DEF CloseDone, Case
  <2> QED
    BY <2>1 DEF Selected, InItsDB
<1>7. CASE IdleEmpty
  <2>1. /\ current_state = "CONNECTION_IDLE" /\ current_state' \in {"CONNECTION_IDLE", "CLOSE_START"}
        /\ mysql' = mysql /\ last_selected_db' = last_selected_db
    BY <1>7 DEF IdleEmpty, Case, Goto, go_next_state
  <2> QED
    BY <2>1 DEF Selected, InItsDB
<1>8. CASE IdleTake
  <2>1. /\ current_state = "CONNECTION_IDLE" /\ in_process' = Head(query_list)
        /\ LET db == session[Head(query_list)].db IN
           current_state' = IF db # NoDB /\ db # last_selected_db THEN "SELECT_DB_START" ELSE "QUERY_START"
        /\ UNCHANGED <<mysql, last_selected_db, session>>
    BY <1>8 DEF IdleTake, Case, Goto, go_next_state
  <2> QED
    BY <2>1 DEF Selected, InItsDB
<1>9. CASE SelectDbStart \/ SelectDbWait
  <2>1. PICK ev : SelectDbCall(ev)
    BY <1>9 DEF SelectDbStart, SelectDbWait
  <2>2. PICK r \in Returns(ev) :
          /\ mysql' = [After("select_db", r) EXCEPT
                         !.db = IF r.status = {} /\ r.errno = "ok" THEN session[in_process].db ELSE @]
          /\ IF r.errno # "ok"
             THEN FailQuery(r.errno)
             ELSE /\ go_next_state(r.status, "SELECT_DB_WAIT", "SELECT_DB_DONE")
                  /\ UNCHANGED <<in_process, session>>
          /\ last_selected_db' = last_selected_db
    BY <2>1 DEF SelectDbCall
  <2>3. After("select_db", r) \in Handle
    BY <1>1, AfterType DEF TypeOK
  <2>4. mysql'.db = IF r.status = {} /\ r.errno = "ok" THEN session[in_process].db ELSE mysql.db
    BY <1>1, <2>2, <2>3, AfterKeeps DEF Handle
  <2>5. current_state \in {"SELECT_DB_START", "SELECT_DB_WAIT"}
    BY <1>9 DEF SelectDbStart, SelectDbWait, Case
  <2>6. CASE r.errno # "ok"
    BY <1>2, <2>2, <2>4, <2>5, <2>6, FailSelected
  <2>7. CASE r.errno = "ok" /\ r.status = {}
    <3>1. current_state' = "SELECT_DB_DONE" /\ UNCHANGED <<in_process, session>>
      BY <2>2, <2>7 DEF go_next_state
    <3> QED
      BY <2>4, <2>7, <3>1 DEF Selected, InItsDB
  <2>8. CASE r.errno = "ok" /\ r.status # {}
    <3>1. current_state' = "SELECT_DB_WAIT"
      BY <2>2, <2>8 DEF go_next_state
    <3> QED
      BY <2>2, <2>4, <2>5, <2>8, <3>1 DEF Selected, InItsDB
  <2> QED
    BY <2>6, <2>7, <2>8
<1>10. CASE SelectDbDone
  <2>1. /\ current_state = "SELECT_DB_DONE" /\ last_selected_db' = session[in_process].db /\ mysql' = mysql
        /\ \/ current_state' = "QUERY_START" /\ UNCHANGED <<in_process, session>>
           \/ current_state' = "CONNECTION_IDLE"
    BY <1>10 DEF SelectDbDone, Case, Goto, go_next_state
  <2> QED
    BY <1>2, <2>1 DEF Selected, InItsDB
<1>11. CASE QueryStart \/ QueryWait
  <2>1. PICK ev : \E r \in Returns(ev) :
          /\ mysql' = AfterQuery(r)
          /\ \/ FailQuery(r.errno)
             \/ /\ go_next_state(r.status, "QUERY_WAIT", "QUERY_RESULT_READY")
                /\ UNCHANGED <<in_process, session>>
    BY <1>11 DEF QueryStart, QueryWait
  <2>2. current_state \in {"QUERY_START", "QUERY_WAIT"} /\ last_selected_db' = last_selected_db
    BY <1>11 DEF QueryStart, QueryWait, Case
  <2>3. mysql'.db = mysql.db
    BY <1>1, <2>1, AfterKeeps
  <2>4. PICK r : \/ FailQuery(r.errno)
                 \/ /\ go_next_state(r.status, "QUERY_WAIT", "QUERY_RESULT_READY")
                    /\ UNCHANGED <<in_process, session>>
    BY <2>1
  <2>5. CASE FailQuery(r.errno)
    BY <1>2, <2>2, <2>3, <2>5, FailSelected
  <2>6. CASE go_next_state(r.status, "QUERY_WAIT", "QUERY_RESULT_READY") /\ UNCHANGED <<in_process, session>>
    <3>1. current_state' \in {"QUERY_WAIT", "QUERY_RESULT_READY"}
      BY <2>6 DEF go_next_state
    <3>2. current_state \in InItsDB /\ current_state' \in InItsDB
      BY <2>2, <3>1 DEF InItsDB
    <3> QED
      BY <1>2, <2>2, <2>3, <2>6, <3>2, RunSelected
  <2> QED
    BY <2>4, <2>5, <2>6
<1>12. CASE FetchRowStart \/ FetchRowWait
  <2>1. PICK ev : FetchRowCall(ev)
    BY <1>12 DEF FetchRowStart, FetchRowWait
  <2>2. PICK r \in Returns(ev) :
          /\ \/ mysql' = [After("fetch", r) EXCEPT !.unread = @ - 1, !.fetched = @ + 1]
             \/ mysql' = After("fetch", r)
          /\ go_next_state(r.status, "FETCH_ROW_WAIT", "FETCH_ROW_RESULT_READY")
          /\ UNCHANGED <<last_selected_db, in_process, session>>
    BY <2>1 DEF FetchRowCall
  <2>3. After("fetch", r) \in Handle
    BY <1>1, AfterType DEF TypeOK
  <2>4. mysql'.db = mysql.db
    <3>1. After("fetch", r).db = mysql.db
      BY <1>1, AfterKeeps
    <3>2. mysql'.db = After("fetch", r).db
      BY <2>2, <2>3 DEF Handle
    <3> QED
      BY <3>1, <3>2
  <2>5. current_state \in InItsDB
    BY <1>12 DEF FetchRowStart, FetchRowWait, Case, InItsDB
  <2>6. current_state' \in InItsDB
    BY <2>2 DEF go_next_state, InItsDB
  <2> QED
    BY <1>2, <2>2, <2>4, <2>5, <2>6, RunSelected
<1>13. CASE UseResultNull
  <2>1. PICK e : mysql' = [mysql EXCEPT !.errno = e] /\ FailQuery(e)
    BY <1>13 DEF UseResultNull
  <2>2. current_state = "QUERY_RESULT_READY" /\ last_selected_db' = last_selected_db
    BY <1>13 DEF UseResultNull, Case
  <2>3. mysql'.db = mysql.db
    BY <1>1, <2>1 DEF Handle
  <2> QED
    BY <1>2, <2>1, <2>2, <2>3, FailSelected
<1>14. CASE QueryStartEmpty \/ FetchRowEnd
  <2>1. /\ current_state \in InItsDB /\ current_state' = "CONNECTION_IDLE"
        /\ last_selected_db' = last_selected_db
        /\ mysql' = mysql \/ mysql' = [mysql EXCEPT !.unread = 0]
    BY <1>14 DEF QueryStartEmpty, FetchRowEnd, Case, Goto, go_next_state, InItsDB
  <2>2. mysql'.db = mysql.db
    BY <1>1, <2>1 DEF Handle
  <2> QED
    BY <1>2, <2>1, <2>2, RunSelected DEF InItsDB
<1>15. CASE UseResult \/ FetchRowReady
  <2>1. /\ current_state \in InItsDB /\ current_state \in Serving /\ current_state' = "FETCH_ROW_START"
        /\ UNCHANGED <<last_selected_db, in_process>>
        /\ mysql' = mysql \/ \E n : mysql' = [mysql EXCEPT !.unread = n]
        /\ session' = session \/ session' = [session EXCEPT ![in_process].rows = @ + 1]
    BY <1>15 DEF UseResult, FetchRowReady, Case, Goto, go_next_state, InItsDB, Serving
  <2>2. mysql'.db = mysql.db
    BY <1>1, <2>1 DEF Handle
  <2>3. in_process \in Query
    BY <1>2, <2>1, ServingOnStack
  <2>4. session'[in_process].db = session[in_process].db
    BY <1>1, <2>1, <2>3 DEF TypeOK, Session
  <2>5. current_state' \in InItsDB
    BY <2>1 DEF InItsDB
  <2> QED
    BY <1>2, <2>1, <2>2, <2>4, <2>5, RunSelected
<1> QED
  BY <1>3, <1>4, <1>5, <1>6, <1>7, <1>8, <1>9, <1>10, <1>11, <1>12, <1>13, <1>14, <1>15 DEF HandleState

\* The session in process was handed over.
LEMMA InProcessStarted ==
  ASSUME IInv, in_process # NoQuery
  PROVE  in_process \in ToSet(started)
<1>1. /\ started = finished \o (<<in_process>> \o query_list) /\ finished \in Seq(Query)
      /\ query_list \in Seq(Query) /\ in_process \in Query /\ started \in Seq(Query)
  BY DEF IInv, TypeOK, AnsweredInOrder, Pending, InProcess
<1>2. <<in_process>> \in Seq(Query) /\ Len(<<in_process>>) = 1 /\ <<in_process>>[1] = in_process
  BY <1>1
<1>3. /\ <<in_process>> \o query_list \in Seq(Query)
      /\ Len(<<in_process>> \o query_list) = Len(query_list) + 1
      /\ (<<in_process>> \o query_list)[1] = in_process
  BY <1>1, <1>2
<1>4. Len(finished) \in Nat /\ Len(query_list) \in Nat
  BY <1>1
<1>5. Len(finished) + 1 \in 1 .. Len(started) /\ started[Len(finished) + 1] = in_process
  BY <1>1, <1>3, <1>4
<1> QED
  BY <1>5 DEF ToSet

\* The other steps keep it: a new session is not the one in process.
LEMMA NextSelected ==
  ASSUME IInv, Waiting, Linked, Selected, Next \/ UNCHANGED vars
  PROVE  Selected'
<1>1. TypeOK
  BY DEF IInv
<1>2. CASE HandleState
  BY <1>2, HandleStateSelected
<1>3. CASE UNCHANGED <<current_state, last_selected_db, mysql, session, in_process>> /\ destroyed' = destroyed
  BY <1>3 DEF Selected
<1>4. CASE RunHandleState \/ RunStartQuery \/ RunClean \/ OnWaitEventInvoked \/ OnTimeOut
           \/ do_connection_check \/ Close \/ Connect \/ PoolClose
  <2>1. CASE Connect
    <3>1. /\ current_state = "CONNECT_INIT" /\ current_state' = "CONNECT_START"
          /\ UNCHANGED <<last_selected_db, mysql>>
      BY <2>1 DEF Connect, OwnerStep
    <3> QED
      BY <3>1 DEF Selected, InItsDB, Fetching
  <2> QED
    BY <1>3, <1>4, <2>1 DEF RunHandleState, RunStartQuery, RunClean, OnWaitEventInvoked, OnTimeOut,
       do_connection_check, Close, PoolClose, TakeTask, AtRest, OwnerStep, queueVars, ownerVars
<1>5. CASE RunSyncClose
  <2>1. /\ current_state' = "CLOSE_DONE" /\ last_selected_db' = last_selected_db
        /\ mysql' = [mysql EXCEPT !.op = "none", !.link = "closed", !.unread = 0] /\ ~on_stack
    BY <1>5 DEF RunSyncClose, TakeTask, AtRest
  <2>2. mysql'.db = mysql.db
    BY <1>1, <2>1 DEF TypeOK, Handle
  <2>3. current_state # "SELECT_DB_DONE"
    BY <2>1 DEF Waiting, Armed, RestState, WaitState
  <2> QED
    BY <2>1, <2>2, <2>3 DEF Selected, InItsDB, Fetching
<1>6. CASE SyncConnect
  <2>1. /\ current_state = "CONNECT_INIT" /\ current_state' = "CONNECTION_IDLE"
        /\ last_selected_db' = last_selected_db
    BY <1>6 DEF SyncConnect, OwnerStep
  <2> QED
    BY <2>1 DEF Selected, InItsDB, Fetching
<1>7. CASE \E q \in Query : PendingQuery(q)
  <2>1. PICK q \in Query : PendingQuery(q)
    BY <1>7
  <2>2. /\ UNCHANGED <<current_state, last_selected_db, mysql, in_process, ownerVars>>
        /\ q \notin ToSet(started) /\ \E s : session' = [session EXCEPT ![q] = s]
    BY <2>1 DEF PendingQuery, OwnerStep, Fresh
  <2>3. in_process # NoQuery => session'[in_process] = session[in_process]
    <3> SUFFICES ASSUME in_process # NoQuery PROVE session'[in_process] = session[in_process]
      OBVIOUS
    <3>1. in_process # q /\ in_process \in Query
      BY <2>2, InProcessStarted, <1>1 DEF TypeOK
    <3> QED
      BY <1>1, <2>2, <3>1 DEF TypeOK
  <2>4. current_state \in InItsDB \cup {"SELECT_DB_DONE"} /\ ~destroyed => in_process # NoQuery
    BY DEF IInv, Control, InItsDB, Fetching, Serving
  <2> QED
    BY <2>2, <2>3, <2>4 DEF Selected, ownerVars
<1>8. CASE Release \/ ReleaseUnclosed
  <2>1. /\ UNCHANGED <<current_state, last_selected_db, mysql>>
        /\ destroyed' \/ UNCHANGED <<session, in_process, destroyed>>
    BY <1>8 DEF Release, ReleaseUnclosed, Destructor, OwnerStep, queueVars
  <2> QED
    BY <2>1 DEF Selected
<1>9. CASE UNCHANGED vars
  BY <1>3, <1>9 DEF vars, queueVars, ownerVars
<1> QED
  BY <1>2, <1>4, <1>5, <1>6, <1>7, <1>8, <1>9 DEF Next, Loop, Owner

----------------------------------------------------------------------------
(* A session is handed over once.                                          *)

\* No session was handed over twice, is queued twice, or is queued again.
Once ==
  /\ \A i, j \in 1 .. Len(started) : started[i] = started[j] => i = j
  /\ \A i, j \in 1 .. Len(tasks) :
       tasks[i].fn = "StartQuery" /\ tasks[j].fn = "StartQuery" /\ tasks[i].q = tasks[j].q => i = j
  /\ \A i \in 1 .. Len(tasks), j \in 1 .. Len(started) :
       tasks[i].fn = "StartQuery" => started[j] # tasks[i].q

\* Only PendingQuery queues a session, and only StartQuery takes one over.
LEMMA QueueSteps ==
  ASSUME IInv, Next \/ UNCHANGED vars
  PROVE  \/ RunStartQuery
         \/ \E q \in Query : PendingQuery(q)
         \/ /\ started' = started
            /\ \/ tasks' = tasks
               \/ tasks # <<>> /\ tasks' = Tail(tasks)
               \/ \E f \in {"HandleState", "SyncClose", "Clean"} : tasks' = Append(tasks, NewTask(f))
               \/ \A i \in 1 .. Len(tasks') : tasks'[i].fn # "StartQuery"
<1>1. CASE HandleState
  BY <1>1, HandleShape
<1>2. CASE RunHandleState \/ RunClean
  BY <1>2 DEF RunHandleState, RunClean, TakeTask, queueVars
<1>3. CASE RunSyncClose
  <2>1. /\ started' = started /\ tasks # <<>>
        /\ tasks' = Tail(tasks) \/ (owner = "released" /\ tasks' = Append(Tail(tasks), NewTask("Clean")))
        /\ Head(tasks).fn = "SyncClose"
    BY <1>3 DEF RunSyncClose, TakeTask, clean_up, AnswerClosed
  <2>2. Tail(tasks) = <<>>
    BY <2>1, SyncCloseLast
  <2>3. NewTask("Clean") \in Task /\ NewTask("Clean").fn # "StartQuery"
    BY DEF NewTask, Task
  <2>4. CASE tasks' = Append(Tail(tasks), NewTask("Clean"))
    <3>1. \A i \in 1 .. Len(tasks') : tasks'[i].fn # "StartQuery"
      BY <2>2, <2>3, <2>4, OneFacts
    <3> QED
      BY <2>1, <3>1
  <2> QED
    BY <2>1, <2>4
<1>4. CASE OnWaitEventInvoked \/ OnTimeOut \/ do_connection_check \/ Close
  BY <1>4 DEF OnWaitEventInvoked, OnTimeOut, do_connection_check, Close, queueVars, loopVars
<1>5. CASE Connect \/ SyncConnect \/ PoolClose \/ Release \/ ReleaseUnclosed
  BY <1>5 DEF Connect, SyncConnect, PoolClose, Release, ReleaseUnclosed, Destructor, AnswerClosed, queueVars
<1>6. CASE UNCHANGED vars
  BY <1>6 DEF vars, loopVars, queueVars
<1> QED
  BY <1>1, <1>2, <1>3, <1>4, <1>5, <1>6 DEF Next, Loop, Owner

\* Every step hands a session over at most once.
LEMMA NextOnce ==
  ASSUME IInv, Once, Next \/ UNCHANGED vars
  PROVE  Once'
<1>1. TypeOK /\ tasks \in Seq(Task) /\ started \in Seq(Query) /\ Len(tasks) \in Nat /\ Len(started) \in Nat
  BY DEF IInv, TypeOK
<1>2. ASSUME tasks # <<>>
      PROVE  /\ Head(tasks) = tasks[1] /\ Len(tasks) > 0 /\ Len(Tail(tasks)) = Len(tasks) - 1
             /\ \A i \in 1 .. Len(Tail(tasks)) :
                  Tail(tasks)[i] = tasks[i + 1] /\ i + 1 \in 1 .. Len(tasks) /\ i + 1 # 1
  BY <1>1, <1>2, TailFacts
<1>3. CASE RunStartQuery
  <2>1. /\ tasks # <<>> /\ Head(tasks).fn = "StartQuery" /\ tasks' = Tail(tasks)
        /\ started' = Append(started, Head(tasks).q)
    BY <1>3 DEF RunStartQuery, TakeTask
  <2>2. tasks[1].fn = "StartQuery" /\ 1 \in 1 .. Len(tasks)
    BY <1>1, <1>2, <2>1
  <2>3. /\ Len(started') = Len(started) + 1 /\ started'[Len(started')] = tasks[1].q
        /\ \A j \in 1 .. Len(started) : started'[j] = started[j]
    BY <1>1, <1>2, <2>1
  <2>4. \A j \in 1 .. Len(started) : started[j] # tasks[1].q
    BY <2>2 DEF Once
  <2>5. \A i, j \in 1 .. Len(started') : started'[i] = started'[j] => i = j
    <3> SUFFICES ASSUME NEW i \in 1 .. Len(started'), NEW j \in 1 .. Len(started'), started'[i] = started'[j]
                 PROVE  i = j
      OBVIOUS
    <3>1. CASE i \in 1 .. Len(started) /\ j \in 1 .. Len(started)
      BY <2>3, <3>1 DEF Once
    <3>2. i \in 1 .. Len(started) \/ i = Len(started')
      BY <1>1, <2>3
    <3>3. j \in 1 .. Len(started) \/ j = Len(started')
      BY <1>1, <2>3
    <3> QED
      BY <2>3, <2>4, <3>1, <3>2, <3>3
  <2>6. \A i, j \in 1 .. Len(tasks') :
          tasks'[i].fn = "StartQuery" /\ tasks'[j].fn = "StartQuery" /\ tasks'[i].q = tasks'[j].q => i = j
    <3> SUFFICES ASSUME NEW i \in 1 .. Len(tasks'), NEW j \in 1 .. Len(tasks'),
                        tasks'[i].fn = "StartQuery", tasks'[j].fn = "StartQuery", tasks'[i].q = tasks'[j].q
                 PROVE  i = j
      OBVIOUS
    <3>1. i + 1 = j + 1
      BY <1>2, <2>1 DEF Once
    <3> QED
      BY <1>1, <3>1
  <2>7. \A i \in 1 .. Len(tasks'), j \in 1 .. Len(started') :
          tasks'[i].fn = "StartQuery" => started'[j] # tasks'[i].q
    <3> SUFFICES ASSUME NEW i \in 1 .. Len(tasks'), NEW j \in 1 .. Len(started'), tasks'[i].fn = "StartQuery"
                 PROVE  started'[j] # tasks'[i].q
      OBVIOUS
    <3>1. tasks'[i] = tasks[i + 1] /\ i + 1 \in 1 .. Len(tasks) /\ i + 1 # 1
      BY <1>2, <2>1
    <3>2. tasks[i + 1].q # tasks[1].q
      BY <2>2, <3>1 DEF Once
    <3>3. j \in 1 .. Len(started) \/ j = Len(started')
      BY <1>1, <2>3
    <3> QED
      BY <2>3, <3>1, <3>2, <3>3 DEF Once
  <2> QED
    BY <2>5, <2>6, <2>7 DEF Once
<1>4. ASSUME NEW q \in Query, PendingQuery(q) PROVE Once'
  <2>1. /\ q \notin ToSet(started) /\ QueryTask(q) \notin ToSet(tasks)
        /\ tasks' = Append(tasks, QueryTask(q)) /\ started' = started
    BY <1>4 DEF PendingQuery, Fresh
  <2>2. QueryTask(q) \in Task /\ QueryTask(q).fn = "StartQuery" /\ QueryTask(q).q = q
    BY DEF QueryTask, Task
  <2>3. /\ Len(tasks') = Len(tasks) + 1 /\ tasks'[Len(tasks')] = QueryTask(q)
        /\ \A i \in 1 .. Len(tasks) : tasks'[i] = tasks[i]
        /\ \A i \in 1 .. Len(tasks') : i \in 1 .. Len(tasks) \/ i = Len(tasks')
    BY <1>1, <2>1, <2>2
  <2>4. \A j \in 1 .. Len(started) : started[j] # q
    BY <2>1 DEF ToSet
  <2>5. \A i \in 1 .. Len(tasks) : tasks[i].fn = "StartQuery" => tasks[i].q # q
    <3> SUFFICES ASSUME NEW i \in 1 .. Len(tasks), tasks[i].fn = "StartQuery", tasks[i].q = q
                 PROVE  FALSE
      OBVIOUS
    <3>1. tasks[i] \in Task
      BY <1>1
    <3>2. tasks[i] = QueryTask(q)
      BY <3>1 DEF Task, QueryTask
    <3> QED
      BY <2>1, <3>2 DEF ToSet
  <2>6. \A i, j \in 1 .. Len(tasks') :
          tasks'[i].fn = "StartQuery" /\ tasks'[j].fn = "StartQuery" /\ tasks'[i].q = tasks'[j].q => i = j
    <3> SUFFICES ASSUME NEW i \in 1 .. Len(tasks'), NEW j \in 1 .. Len(tasks'),
                        tasks'[i].fn = "StartQuery", tasks'[j].fn = "StartQuery", tasks'[i].q = tasks'[j].q
                 PROVE  i = j
      OBVIOUS
    <3>1. CASE i \in 1 .. Len(tasks) /\ j \in 1 .. Len(tasks)
      BY <2>3, <3>1 DEF Once
    <3>2. CASE i \in 1 .. Len(tasks) /\ j = Len(tasks')
      BY <2>2, <2>3, <2>5, <3>2
    <3>3. CASE j \in 1 .. Len(tasks) /\ i = Len(tasks')
      BY <2>2, <2>3, <2>5, <3>3
    <3> QED
      BY <2>3, <3>1, <3>2, <3>3
  <2>7. \A i \in 1 .. Len(tasks'), j \in 1 .. Len(started') :
          tasks'[i].fn = "StartQuery" => started'[j] # tasks'[i].q
    BY <2>1, <2>2, <2>3, <2>4 DEF Once
  <2> QED
    BY <2>1, <2>6, <2>7 DEF Once
<1>5. ASSUME started' = started,
             \A i \in 1 .. Len(tasks') : tasks'[i].fn # "StartQuery" \/ (i \in 1 .. Len(tasks) /\ tasks'[i] = tasks[i])
      PROVE  Once'
  BY <1>5 DEF Once
<1>6. CASE started' = started /\ tasks' = tasks
  BY <1>6 DEF Once
<1>7. CASE started' = started /\ tasks # <<>> /\ tasks' = Tail(tasks)
  <2>1. \A i, j \in 1 .. Len(tasks') :
          tasks'[i].fn = "StartQuery" /\ tasks'[j].fn = "StartQuery" /\ tasks'[i].q = tasks'[j].q => i = j
    <3> SUFFICES ASSUME NEW i \in 1 .. Len(tasks'), NEW j \in 1 .. Len(tasks'),
                        tasks'[i].fn = "StartQuery", tasks'[j].fn = "StartQuery", tasks'[i].q = tasks'[j].q
                 PROVE  i = j
      OBVIOUS
    <3>1. i + 1 = j + 1
      BY <1>2, <1>7 DEF Once
    <3> QED
      BY <1>1, <3>1
  <2> QED
    BY <1>2, <1>7, <2>1 DEF Once
<1>8. ASSUME NEW f \in {"HandleState", "SyncClose", "Clean"}
      PROVE  NewTask(f) \in Task /\ NewTask(f).fn # "StartQuery"
  BY DEF NewTask, Task
<1>9. CASE started' = started /\ \E f \in {"HandleState", "SyncClose", "Clean"} : tasks' = Append(tasks, NewTask(f))
  <2>1. PICK f \in {"HandleState", "SyncClose", "Clean"} : tasks' = Append(tasks, NewTask(f))
    BY <1>9
  <2>2. /\ Len(tasks') = Len(tasks) + 1 /\ tasks'[Len(tasks')] = NewTask(f)
        /\ \A i \in 1 .. Len(tasks) : tasks'[i] = tasks[i]
        /\ \A i \in 1 .. Len(tasks') : i \in 1 .. Len(tasks) \/ i = Len(tasks')
    BY <1>1, <1>8, <2>1
  <2> QED
    BY <1>5, <1>8, <1>9, <2>2
<1>10. CASE started' = started /\ \A i \in 1 .. Len(tasks') : tasks'[i].fn # "StartQuery"
  BY <1>5, <1>10
<1> QED
  BY <1>3, <1>4, <1>6, <1>7, <1>9, <1>10, QueueSteps

----------------------------------------------------------------------------
(* What a step may do to the sessions.                                     *)

\* The queue stays as it is, and so do the codes; only the session in process or
\* one that was not handed over is written to, and only the former gets rows.
Keeps ==
  /\ Pending' = Pending /\ finished' = finished
  /\ in_process # NoQuery => in_process' = in_process
  /\ \A q \in Query : /\ session'[q].code = session[q].code
                      /\ session'[q].result_count = session[q].result_count
                      /\ session'[q].rows # session[q].rows => q = in_process
                      /\ session'[q] # session[q] => q = in_process \/ q \notin ToSet(started)

\* The session in process is answered, and no other is written to.
Answers ==
  /\ in_process \in Query /\ in_process' = NoQuery /\ query_list' = query_list
  /\ finished' = Append(finished, in_process)
  /\ \A q \in Query : q # in_process => session'[q] = session[q]

\* Leaving the sessions alone keeps everything.
LEMMA SameKeeps ==
  ASSUME UNCHANGED <<in_process, query_list, session, finished>>
  PROVE  Keeps
BY DEF Keeps, Pending, InProcess

\* DoneCurrentQuery answers the session in process.
LEMMA DoneAnswers ==
  ASSUME TypeOK, in_process \in Query, NEW code, NEW s \in [Query -> Session],
         \A q \in Query : q # in_process => s[q] = session[q],
         DoneCurrentQuery(code, s), query_list' = query_list
  PROVE  Answers
<1>1. in_process # NoQuery
  OBVIOUS
<1>2. /\ in_process' = NoQuery /\ finished' = Append(finished, in_process)
      /\ session' = s \/ session' = [s EXCEPT ![in_process].code = code]
  BY <1>1 DEF DoneCurrentQuery
<1>3. \A q \in Query : q # in_process => session'[q] = s[q]
  BY <1>2
<1> QED
  BY <1>2, <1>3 DEF Answers

\* FailQuery does too.
LEMMA FailAnswers ==
  ASSUME TypeOK, in_process \in Query, NEW code, FailQuery(code), query_list' = query_list
  PROVE  Answers
<1>1. session \in [Query -> Session] /\ DoneCurrentQuery(code, session)
  BY DEF FailQuery, TypeOK
<1> QED
  BY <1>1, DoneAnswers

\* The cases of HandleState keep the sessions, answer one, or answer all.
LEMMA HandleStateSessions ==
  ASSUME IInv, HandleState
  PROVE  Keeps \/ Answers \/ AnswerClosed
<1>1. TypeOK /\ Control /\ session \in [Query -> Session] /\ query_list \in Seq(Query)
  BY DEF IInv, TypeOK
<1>2. on_stack /\ (current_state \in Serving => in_process \in Query)
  BY HandleShape, ServingOnStack
<1>3. CASE ConnectStart \/ ConnectWait \/ ConnectDone \/ CloseStart \/ CloseWait \/ IdleEmpty
           \/ UseResult \/ FetchRowStart \/ FetchRowWait
  BY <1>3, SameKeeps DEF ConnectStart, ConnectWait, ConnectCall, ConnectDone, CloseStart, CloseWait,
     CloseCall, IdleEmpty, UseResult, FetchRowStart, FetchRowWait, FetchRowCall
<1>4. CASE CloseDone
  BY <1>4 DEF CloseDone, clean_up
<1>5. CASE IdleTake
  <2>1. /\ current_state = "CONNECTION_IDLE" /\ query_list # <<>> /\ in_process' = Head(query_list)
        /\ query_list' = Tail(query_list) /\ UNCHANGED <<session, finished>>
    BY <1>5 DEF IdleTake, Case
  <2>2. in_process = NoQuery /\ Head(query_list) \in Query
    BY <1>1, <2>1 DEF Control, Serving
  <2>3. Head(query_list) # NoQuery
    BY <2>2
  <2>4. Pending = <<>> \o query_list /\ Pending' = <<Head(query_list)>> \o Tail(query_list)
    BY <2>1, <2>2, <2>3 DEF Pending, InProcess
  <2>5. Pending' = Pending
    BY <1>1, <2>1, <2>2, <2>4, SeqFacts
  <2> QED
    BY <2>1, <2>2, <2>5 DEF Keeps
<1>6. CASE SelectDbStart \/ SelectDbWait \/ QueryStart \/ QueryWait \/ UseResultNull
  <2>1. /\ (\E code : FailQuery(code)) \/ UNCHANGED <<in_process, session, finished>>
        /\ query_list' = query_list
    BY <1>6 DEF SelectDbStart, SelectDbWait, SelectDbCall, QueryStart, QueryWait, UseResultNull
  <2>2. in_process \in Query
    BY <1>2, <1>6 DEF SelectDbStart, SelectDbWait, QueryStart, QueryWait, UseResultNull, Case, Serving
  <2> QED
    BY <1>1, <2>1, <2>2, FailAnswers, SameKeeps
<1>7. CASE SelectDbDone \/ QueryStartEmpty
  <2>1. /\ (\E code : DoneCurrentQuery(code, session)) \/ UNCHANGED <<in_process, session, finished>>
        /\ query_list' = query_list
    BY <1>7 DEF SelectDbDone, QueryStartEmpty
  <2>2. in_process \in Query
    BY <1>2, <1>7 DEF SelectDbDone, QueryStartEmpty, Case, Serving
  <2> QED
    BY <1>1, <2>1, <2>2, DoneAnswers, SameKeeps
<1>8. CASE FetchRowReady
  <2>1. /\ current_state \in Serving /\ session' = [session EXCEPT ![in_process].rows = @ + 1]
        /\ UNCHANGED <<in_process, query_list, finished>>
    BY <1>8 DEF FetchRowReady, Case, Serving
  <2>2. \A q \in Query : /\ session'[q].code = session[q].code
                         /\ session'[q].result_count = session[q].result_count
                         /\ session'[q] # session[q] => q = in_process
    BY <1>1, <1>2, <2>1 DEF Session
  <2> QED
    BY <2>1, <2>2 DEF Keeps, Pending, InProcess
<1>9. CASE FetchRowEnd
  <2> DEFINE s == [session EXCEPT ![in_process].result_count = mysql.fetched]
  <2>1. current_state \in Serving /\ DoneCurrentQuery(mysql.errno, s) /\ query_list' = query_list
    BY <1>9 DEF FetchRowEnd, Case, Serving
  <2>2. in_process \in Query /\ mysql.fetched \in Nat
    BY <1>1, <1>2, <2>1 DEF TypeOK, Handle
  <2>3. s \in [Query -> Session] /\ \A q \in Query : q # in_process => s[q] = session[q]
    BY <1>1, <2>2 DEF Session
  <2> HIDE DEF s
  <2> QED
    BY <1>1, <2>1, <2>2, <2>3, DoneAnswers
<1> QED
  BY <1>3, <1>4, <1>5, <1>6, <1>7, <1>8, <1>9 DEF HandleState

\* Every other step keeps the sessions, takes one over or answers all.
LEMMA StepSessions ==
  ASSUME IInv, Next \/ UNCHANGED vars
  PROVE  Keeps \/ Answers \/ AnswerClosed \/ RunStartQuery
<1>1. TypeOK
  BY DEF IInv
<1>2. CASE RunHandleState \/ RunClean \/ OnWaitEventInvoked \/ OnTimeOut \/ do_connection_check \/ Close
  BY <1>2, SameKeeps DEF RunHandleState, RunClean, OnWaitEventInvoked, OnTimeOut, do_connection_check,
     Close, queueVars
<1>3. CASE RunSyncClose
  BY <1>3 DEF RunSyncClose, clean_up
<1>4. CASE Connect \/ SyncConnect \/ PoolClose \/ Release \/ ReleaseUnclosed
  BY <1>4, SameKeeps DEF Connect, SyncConnect, PoolClose, Release, ReleaseUnclosed, Destructor, queueVars
<1>5. ASSUME NEW q \in Query, PendingQuery(q) PROVE Keeps
  <2>1. /\ q \notin ToSet(started) /\ UNCHANGED <<in_process, query_list, finished>>
    BY <1>5 DEF PendingQuery, Fresh
  <2>2. PICK db, sql : session' = [session EXCEPT ![q] = [@ EXCEPT !.db = db, !.sql = sql]]
    BY <1>5 DEF PendingQuery
  <2>3. \A p \in Query : /\ session'[p].code = session[p].code
                         /\ session'[p].result_count = session[p].result_count
                         /\ session'[p].rows = session[p].rows
                         /\ session'[p] # session[p] => p = q
    BY <1>1, <2>2 DEF TypeOK, Session
  <2> QED
    BY <2>1, <2>3 DEF Keeps, Pending, InProcess
<1>6. CASE UNCHANGED vars
  BY <1>6, SameKeeps DEF vars, queueVars
<1> QED
  BY <1>2, <1>3, <1>4, <1>5, <1>6, HandleStateSessions DEF Next, Loop, Owner

\* The session in process is the first of those waiting.
LEMMA InProcessPending ==
  ASSUME TypeOK, in_process \in Query
  PROVE  1 \in 1 .. Len(Pending) /\ Pending[1] = in_process /\ in_process \in ToSet(Pending)
<1>1. Pending = <<in_process>> \o query_list /\ query_list \in Seq(Query) /\ <<in_process>> \in Seq(Query)
  BY DEF TypeOK, Pending, InProcess
<1>2. 1 \in 1 .. Len(Pending) /\ Pending[1] = in_process
  BY <1>1
<1> QED
  BY <1>2 DEF ToSet

\* The elements of a concatenation.
LEMMA RangeConcat ==
  ASSUME NEW S, NEW f \in Seq(S), NEW l \in Seq(S)
  PROVE  ToSet(f \o l) = ToSet(f) \cup ToSet(l)
<1>1. Len(f) \in Nat /\ Len(l) \in Nat /\ Len(f \o l) = Len(f) + Len(l)
  OBVIOUS
<1>2. \A i \in 1 .. Len(f) : i \in 1 .. Len(f \o l) /\ (f \o l)[i] = f[i]
  BY <1>1
<1>3. \A i \in 1 .. Len(l) : Len(f) + i \in 1 .. Len(f \o l) /\ (f \o l)[Len(f) + i] = l[i]
  BY <1>1
<1>4. \A i \in 1 .. Len(f \o l) : i \in 1 .. Len(f) \/ (i - Len(f) \in 1 .. Len(l) /\ (f \o l)[i] = l[i - Len(f)])
  BY <1>1
<1>5. ASSUME NEW x \in ToSet(f \o l) PROVE x \in ToSet(f) \cup ToSet(l)
  <2>1. PICK i \in 1 .. Len(f \o l) : (f \o l)[i] = x
    BY <1>5 DEF ToSet
  <2> QED
    BY <1>2, <1>4, <2>1 DEF ToSet
<1>6. ASSUME NEW x \in ToSet(f) PROVE x \in ToSet(f \o l)
  BY <1>2, <1>6 DEF ToSet
<1>7. ASSUME NEW x \in ToSet(l) PROVE x \in ToSet(f \o l)
  <2>1. PICK i \in 1 .. Len(l) : l[i] = x
    BY <1>7 DEF ToSet
  <2>2. Len(f) + i \in 1 .. Len(f \o l) /\ (f \o l)[Len(f) + i] = x
    BY <1>3, <2>1
  <2> DEFINE k == Len(f) + i
  <2>3. k \in 1 .. Len(f \o l) /\ (f \o l)[k] = x
    BY <2>2
  <2> HIDE DEF k
  <2> QED
    BY <2>3 DEF ToSet
<1> QED
  BY <1>5, <1>6, <1>7

\* Nobody answered is waiting, and everyone answered was handed over.
LEMMA AnsweredAreGone ==
  ASSUME IInv, Once, NEW q \in ToSet(finished)
  PROVE  q \in ToSet(started) /\ q \notin ToSet(Pending) /\ q # in_process /\ q \in Query
<1>1. /\ finished \in Seq(Query) /\ Pending \in Seq(Query) /\ started = finished \o Pending
      /\ started \in Seq(Query)
  BY PendingType DEF IInv, TypeOK, AnsweredInOrder
<1>2. PICK i \in 1 .. Len(finished) : finished[i] = q
  BY DEF ToSet
<1>3. /\ Len(finished) \in Nat /\ Len(Pending) \in Nat /\ Len(started) = Len(finished) + Len(Pending)
      /\ i \in 1 .. Len(started) /\ started[i] = q
  BY <1>1, <1>2
<1>4. \A j \in 1 .. Len(Pending) : Pending[j] # q
  <2> SUFFICES ASSUME NEW j \in 1 .. Len(Pending), Pending[j] = q PROVE FALSE
    OBVIOUS
  <2>1. Len(finished) + j \in 1 .. Len(started) /\ started[Len(finished) + j] = q
    BY <1>1, <1>3
  <2>2. Len(finished) + j = i
    BY <1>3, <2>1 DEF Once
  <2> QED
    BY <1>2, <1>3, <2>2
<1>5. q \notin ToSet(Pending)
  BY <1>4 DEF ToSet
<1>6. q \in Query
  BY <1>1, <1>2
<1>7. q # in_process
  <2>1. in_process \in Query => 1 \in 1 .. Len(Pending) /\ Pending[1] = in_process
    BY InProcessPending DEF IInv
  <2> QED
    BY <1>4, <1>6, <2>1
<1> QED
  BY <1>3, <1>5, <1>6, <1>7 DEF ToSet

\* No step writes to a session that was answered.
LEMMA FinalStep ==
  ASSUME IInv, Once, Next \/ UNCHANGED vars, NEW q \in ToSet(finished)
  PROVE  session'[q] = session[q]
<1>1. q \in ToSet(started) /\ q \notin ToSet(Pending) /\ q # in_process /\ q \in Query
  BY AnsweredAreGone
<1>2. CASE AnswerClosed
  BY <1>1, <1>2 DEF AnswerClosed
<1>3. CASE RunStartQuery
  BY <1>3 DEF RunStartQuery
<1> QED
  BY <1>1, <1>2, <1>3, StepSessions DEF Keeps, Answers

----------------------------------------------------------------------------
(* The refinement.                                                         *)

\* The codes of the sessions, as the contract sees them.
Codes == [q \in Query |-> session[q].code]

\* The contract's sets are the connection's.
LEMMA SameSets == \A s : Contract!ToSet(s) = ToSet(s)
BY DEF Contract!ToSet, ToSet

\* A connection starts as the contract does.
LEMMA RefineInit == Init => Contract!Init
<1> SUFFICES ASSUME Init PROVE Contract!Init
  OBVIOUS
<1>1. Pending = <<>> /\ finished = <<>>
  BY DEF Init, Pending, InProcess
<1>2. Codes = [q \in Query |-> "ok"]
  BY DEF Init, Codes
<1> QED
  BY <1>1, <1>2 DEF Contract!Init, Codes

\* Who is handed over, waiting or answered.
LEMMA StartedParts ==
  ASSUME IInv, NEW q, q \in ToSet(Pending) \cup ToSet(finished)
  PROVE  \E i \in 1 .. Len(started) : started[i] = q
<1>1. /\ finished \in Seq(Query) /\ Pending \in Seq(Query) /\ started = finished \o Pending
      /\ Len(finished) \in Nat /\ Len(Pending) \in Nat
  BY PendingType DEF IInv, TypeOK, AnsweredInOrder
<1>2. CASE q \in ToSet(finished)
  <2>1. PICK i \in 1 .. Len(finished) : finished[i] = q
    BY <1>2 DEF ToSet
  <2>2. i \in 1 .. Len(started) /\ started[i] = q
    BY <1>1, <2>1
  <2> QED
    BY <2>2
<1>3. CASE q \in ToSet(Pending)
  <2>1. PICK i \in 1 .. Len(Pending) : Pending[i] = q
    BY <1>3 DEF ToSet
  <2>2. Len(finished) + i \in 1 .. Len(started) /\ started[Len(finished) + i] = q
    BY <1>1, <2>1
  <2> QED
    BY <2>2
<1> QED
  BY <1>2, <1>3

\* Taking a session over is Accept.
LEMMA RefineAccept ==
  ASSUME IInv, Once, RunStartQuery
  PROVE  \E q \in Query : Contract!Accept(q)
<1>1. TypeOK /\ query_list \in Seq(Query) /\ InProcess \in Seq(Query)
  BY PendingType DEF IInv, TypeOK
<1> DEFINE q == Head(tasks).q
<1>2. /\ tasks # <<>> /\ Head(tasks).fn = "StartQuery" /\ query_list' = Append(query_list, q)
      /\ UNCHANGED <<in_process, session, finished>>
  BY DEF RunStartQuery, TakeTask
<1>3. Head(tasks) = tasks[1] /\ Head(tasks) \in Task /\ 1 \in 1 .. Len(tasks)
  BY <1>1, <1>2, TailFacts
<1>4. q \in Query
  BY <1>2, <1>3 DEF Task
<1>5. \A j \in 1 .. Len(started) : started[j] # q
  BY <1>2, <1>3 DEF Once
<1> HIDE DEF q
<1>6. q \notin ToSet(Pending) \cup ToSet(finished)
  BY <1>5, StartedParts
<1>7. Pending' = InProcess \o Append(query_list, q)
  BY <1>2 DEF Pending, InProcess
<1>8. Pending' = Append(Pending, q)
  BY <1>1, <1>4, <1>7, AppendFact DEF Pending
<1>9. Codes' = Codes
  BY <1>2 DEF Codes
<1> QED
  BY <1>2, <1>4, <1>6, <1>8, <1>9, SameSets DEF Contract!Accept, Codes

\* Answering the session in process is Finish.
LEMMA RefineFinish ==
  ASSUME IInv, TypeOK', Answers
  PROVE  \E c \in Code : Contract!Finish(c)
<1>1. /\ query_list \in Seq(Query) /\ session \in [Query -> Session] /\ session' \in [Query -> Session]
  BY DEF IInv, TypeOK
<1>2. /\ in_process \in Query /\ in_process' = NoQuery /\ query_list' = query_list
      /\ finished' = Append(finished, in_process)
      /\ \A q \in Query : q # in_process => session'[q] = session[q]
  BY DEF Answers
<1>3. Pending = <<in_process>> \o query_list
  BY <1>2 DEF Pending, InProcess
<1>4. Pending # <<>> /\ Head(Pending) = in_process /\ Tail(Pending) = query_list
  <2>1. <<in_process>> \in Seq(Query) /\ Len(<<in_process>>) = 1 /\ <<in_process>>[1] = in_process
    BY <1>2
  <2>2. Pending \in Seq(Query) /\ Len(Pending) = Len(query_list) + 1 /\ Pending[1] = in_process
    BY <1>1, <1>3, <2>1
  <2>3. Len(query_list) \in Nat /\ Pending # <<>>
    BY <1>1, <2>2
  <2>4. Head(Pending) = in_process
    BY <2>2, <2>3
  <2>5. \A i \in 1 .. Len(query_list) : Pending[i + 1] = query_list[i]
    BY <1>1, <1>3, <2>1, <2>3
  <2>6. Tail(Pending) \in Seq(Query) /\ Len(Tail(Pending)) = Len(query_list)
    BY <2>2, <2>3
  <2>7. \A i \in 1 .. Len(query_list) : Tail(Pending)[i] = query_list[i]
    BY <2>2, <2>3, <2>5, <2>6
  <2>8. Tail(Pending) = query_list
    BY <1>1, <2>6, <2>7, SeqEqual
  <2> QED
    BY <2>3, <2>4, <2>8
<1>5. Pending' = query_list
  BY <1>1, <1>2, SeqFacts DEF Pending, InProcess
<1> DEFINE c == session'[in_process].code
<1>6. c \in Code
  BY <1>1, <1>2 DEF Session
<1>7. Codes' = [Codes EXCEPT ![in_process] = c]
  BY <1>2 DEF Codes
<1> HIDE DEF c
<1> QED
  BY <1>2, <1>4, <1>5, <1>6, <1>7 DEF Contract!Finish, Codes

\* Answering everyone is Abort.
LEMMA RefineAbort ==
  ASSUME IInv, AnswerClosed
  PROVE  Contract!Abort
<1>1. /\ finished' = finished \o Pending /\ Pending' = <<>>
      /\ session' = [q \in Query |-> IF q \in ToSet(Pending) THEN [session[q] EXCEPT !.code = "closed"]
                                                            ELSE session[q]]
  BY DEF AnswerClosed, Pending, InProcess
<1>2. \A q \in Query : session[q] \in Session
  BY DEF IInv, TypeOK
<1>3. \A q \in Query : session'[q].code = IF q \in ToSet(Pending) THEN "closed" ELSE session[q].code
  BY <1>1, <1>2 DEF Session
<1>4. Codes' = [q \in Query |-> IF q \in ToSet(Pending) THEN "closed" ELSE Codes[q]]
  BY <1>3 DEF Codes
<1> QED
  BY <1>1, <1>4, SameSets DEF Contract!Abort, Codes

\* Every step of the connection is a step of the contract, or none.
LEMMA RefineStep ==
  ASSUME IInv, IInv', Once, Next \/ UNCHANGED vars
  PROVE  Contract!Next \/ UNCHANGED Contract!vars
<1>1. CASE Keeps
  <2>1. Codes' = Codes
    BY <1>1 DEF Keeps, Codes
  <2> QED
    BY <1>1, <2>1 DEF Keeps, Contract!vars, Codes
<1>2. CASE Answers
  BY <1>2, RefineFinish DEF IInv, Contract!Next
<1>3. CASE AnswerClosed
  BY <1>3, RefineAbort DEF Contract!Next
<1>4. CASE RunStartQuery
  BY <1>4, RefineAccept DEF Contract!Next
<1> QED
  BY <1>1, <1>2, <1>3, <1>4, StepSessions

----------------------------------------------------------------------------
(* The rows of a result.                                                   *)

\* What a session that was not answered holds.
Untouched ==
  \A q \in Query : q \notin ToSet(finished) =>
    session[q].code = "ok" /\ session[q].result_count = 0 /\ (q # in_process => session[q].rows = 0)

\* How the rows read from the handle and those given to the session are counted.
RowsCounted ==
  /\ current_state \notin Fetching => mysql.unread = 0
  /\ current_state \in Serving \ Fetching /\ ~destroyed => session[in_process].rows = 0
  /\ current_state = "QUERY_RESULT_READY" => mysql.fetched = 0
  /\ current_state \in {"FETCH_ROW_START", "FETCH_ROW_WAIT"} /\ ~destroyed =>
       session[in_process].rows = mysql.fetched
  /\ current_state = "FETCH_ROW_RESULT_READY" /\ ~destroyed =>
       IF result_row THEN session[in_process].rows + 1 = mysql.fetched
       ELSE session[in_process].rows = mysql.fetched /\ (mysql.errno = "ok" => mysql.unread = 0)

Counted == Untouched /\ RowsCounted

\* Every step leaves alone what was not answered.
LEMMA NextUntouched ==
  ASSUME IInv, Untouched, Next \/ UNCHANGED vars
  PROVE  Untouched'
<1>1. TypeOK /\ finished \in Seq(Query) /\ in_process \in Query \cup {NoQuery} /\ Pending \in Seq(Query)
  BY PendingType DEF IInv, TypeOK
<1>2. CASE Keeps
  BY <1>1, <1>2 DEF Keeps, Untouched
<1>3. CASE Answers
  <2>1. finished' = Append(finished, in_process) /\ in_process \in Query
    BY <1>3 DEF Answers
  <2>2. ToSet(finished') = ToSet(finished) \cup {in_process}
    BY <1>1, <2>1 DEF ToSet
  <2>3. \A q \in Query : q \notin ToSet(finished') =>
          q \notin ToSet(finished) /\ q # in_process /\ session'[q] = session[q]
    BY <1>3, <2>2 DEF Answers
  <2> QED
    BY <2>3 DEF Untouched
<1>4. CASE AnswerClosed
  <2>1. ToSet(finished') = ToSet(finished) \cup ToSet(Pending)
    BY <1>1, <1>4, RangeConcat DEF AnswerClosed
  <2>2. \A q \in Query : q \notin ToSet(finished') =>
          q \notin ToSet(finished) /\ q \notin ToSet(Pending) /\ session'[q] = session[q]
    BY <1>4, <2>1 DEF AnswerClosed
  <2>3. in_process \in Query => in_process \in ToSet(Pending)
    BY <1>1, InProcessPending
  <2> QED
    BY <2>2, <2>3 DEF Untouched
<1>5. CASE RunStartQuery
  BY <1>5 DEF RunStartQuery, Untouched
<1> QED
  BY <1>2, <1>3, <1>4, <1>5, StepSessions

\* In a state that serves no session there is nothing to count.
LEMMA LeaveRows ==
  ASSUME current_state' \notin Serving, mysql'.unread = 0
  PROVE  RowsCounted'
BY DEF RowsCounted, Serving, Fetching

\* Until the result is there, no row is.
LEMMA ServeRows ==
  ASSUME RowsCounted, ~destroyed, current_state \in Serving \ Fetching,
         current_state' \in Serving \ Fetching, UNCHANGED <<in_process, session>>,
         mysql'.unread = 0, current_state' = "QUERY_RESULT_READY" => mysql'.fetched = 0
  PROVE  RowsCounted'
BY DEF RowsCounted, Fetching

\* The counters after a call.
LEMMA AfterCounts ==
  ASSUME TypeOK, NEW op, NEW r
  PROVE  /\ After(op, r).unread = mysql.unread /\ After(op, r).fetched = mysql.fetched
         /\ After(op, r).errno = r.errno
         /\ AfterQuery(r).unread = 0 /\ AfterQuery(r).fetched = 0
BY DEF After, AfterQuery, TypeOK, Handle

\* Reading a row, its end or an error keeps the count.
LEMMA FetchRows ==
  ASSUME TypeOK, RowsCounted, ~destroyed, current_state \in {"FETCH_ROW_START", "FETCH_ROW_WAIT"},
         NEW ev, FetchRowCall(ev)
  PROVE  RowsCounted'
<1>1. PICK r \in Returns(ev) :
        LET row == r.status = {} /\ r.errno = "ok" /\ mysql.unread > 0 IN
        /\ mysql' = IF row THEN [After("fetch", r) EXCEPT !.unread = @ - 1, !.fetched = @ + 1]
                           ELSE After("fetch", r)
        /\ result_row' = IF r.status = {} THEN row ELSE result_row
        /\ go_next_state(r.status, "FETCH_ROW_WAIT", "FETCH_ROW_RESULT_READY")
        /\ UNCHANGED <<in_process, session>>
  BY DEF FetchRowCall
<1>2. After("fetch", r) \in Handle /\ mysql.unread \in Nat /\ mysql.fetched \in Nat
  BY AfterType DEF TypeOK, Handle
<1>3. session[in_process].rows = mysql.fetched
  BY DEF RowsCounted
<1>4. /\ After("fetch", r).unread = mysql.unread /\ After("fetch", r).fetched = mysql.fetched
      /\ After("fetch", r).errno = r.errno
  BY AfterCounts
<1>5. CASE r.status # {}
  <2>1. current_state' = "FETCH_ROW_WAIT" /\ mysql' = After("fetch", r) /\ UNCHANGED <<in_process, session>>
    BY <1>1, <1>5 DEF go_next_state
  <2> QED
    BY <1>3, <1>4, <2>1 DEF RowsCounted, Fetching, Serving
<1>6. CASE r.status = {} /\ r.errno = "ok" /\ mysql.unread > 0
  <2>1. /\ current_state' = "FETCH_ROW_RESULT_READY" /\ result_row' /\ UNCHANGED <<in_process, session>>
        /\ mysql' = [After("fetch", r) EXCEPT !.unread = @ - 1, !.fetched = @ + 1]
    BY <1>1, <1>6 DEF go_next_state
  <2>2. mysql'.fetched = mysql.fetched + 1
    BY <1>2, <1>4, <2>1 DEF Handle
  <2> QED
    BY <1>2, <1>3, <2>1, <2>2 DEF RowsCounted, Fetching, Serving
<1>7. CASE r.status = {} /\ ~(r.errno = "ok" /\ mysql.unread > 0)
  <2>1. /\ current_state' = "FETCH_ROW_RESULT_READY" /\ UNCHANGED <<in_process, session>>
        /\ mysql' = After("fetch", r)
    BY <1>1, <1>7 DEF go_next_state
  <2>2. ~result_row'
    BY <1>1, <1>7
  <2>3. mysql'.errno = "ok" => mysql'.unread = 0
    BY <1>2, <1>4, <1>7, <2>1
  <2> QED
    BY <1>3, <1>4, <2>1, <2>2, <2>3 DEF RowsCounted, Fetching, Serving
<1> QED
  BY <1>5, <1>6, <1>7

\* Every case of HandleState keeps the count.
LEMMA HandleStateRows ==
  ASSUME IInv, Once, Counted, HandleState
  PROVE  RowsCounted'
<1>1. TypeOK /\ Control /\ mysql \in Handle /\ RowsCounted /\ Untouched
  BY DEF IInv, TypeOK, Counted
<1>2. on_stack /\ ~destroyed /\ ~destroyed'
  BY HandleShape, LifetimeOnStack DEF IInv
<1>3. CASE ConnectStart \/ ConnectWait
  <2>1. PICK ev : ConnectCall(ev)
    BY <1>3 DEF ConnectStart, ConnectWait
  <2>2. PICK r \in Returns(ev) :
          LET up == r.status = {} /\ r.errno = "ok" IN
          mysql' = [After("connect", r) EXCEPT !.link = IF up THEN "open" ELSE @,
                                               !.db = IF up THEN OptDB ELSE @]
    BY <2>1 DEF ConnectCall
  <2>3. After("connect", r) \in Handle
    BY <1>1, AfterType
  <2>4. mysql'.unread = After("connect", r).unread
    BY <2>2, <2>3 DEF Handle
  <2>5. mysql.unread = 0
    BY <1>1, <1>3 DEF ConnectStart, ConnectWait, Case, RowsCounted, Fetching
  <2>6. current_state' \notin Serving
    BY <1>1, <2>1, ConnectCallLink DEF Serving
  <2> QED
    BY <1>1, <2>4, <2>5, <2>6, AfterCounts, LeaveRows
<1>4. CASE CloseStart \/ CloseWait
  <2>1. PICK ev : CloseCall(ev)
    BY <1>4 DEF CloseStart, CloseWait
  <2>2. \/ mysql' = [mysql EXCEPT !.op = "none", !.link = "closed", !.unread = 0]
        \/ mysql' = [mysql EXCEPT !.op = "close"]
    BY <2>1 DEF CloseCall
  <2>3. mysql.unread = 0
    BY <1>1, <1>4 DEF CloseStart, CloseWait, Case, RowsCounted, Fetching
  <2>4. mysql'.unread = 0
    BY <1>1, <2>2, <2>3 DEF Handle
  <2>5. current_state' \notin Serving
    BY <1>1, <2>1, CloseCallLink DEF Serving
  <2> QED
    BY <2>4, <2>5, LeaveRows
<1>5. CASE ConnectDone \/ CloseDone \/ IdleEmpty
  <2>1. /\ current_state \notin Fetching /\ mysql' = mysql
        /\ current_state' \in {"CONNECT_DONE", "CONNECTION_IDLE", "CLOSE_START"}
    BY <1>5 DEF ConnectDone, CloseDone, IdleEmpty, Case, Goto, go_next_state, Fetching
  <2> QED
    BY <1>1, <2>1, LeaveRows DEF RowsCounted, Serving
<1>6. CASE IdleTake
  <2>1. /\ current_state = "CONNECTION_IDLE" /\ query_list # <<>> /\ in_process' = Head(query_list)
        /\ current_state' \in {"SELECT_DB_START", "QUERY_START"} /\ UNCHANGED <<mysql, session>>
    BY <1>6 DEF IdleTake, Case, Goto, go_next_state
  <2>2. /\ in_process = NoQuery /\ query_list \in Seq(Query) /\ Head(query_list) \in Query
        /\ Head(query_list) = query_list[1] /\ 1 \in 1 .. Len(query_list)
    BY <1>1, <2>1 DEF Control, Serving, TypeOK
  <2>3. Head(query_list) \in ToSet(Pending)
    <3>1. Pending = query_list
      BY <2>2 DEF Pending, InProcess
    <3> QED
      BY <2>2, <3>1 DEF ToSet
  <2>4. session[Head(query_list)].rows = 0
    BY <1>1, <2>2, <2>3, AnsweredAreGone DEF Untouched
  <2>5. mysql.unread = 0
    BY <1>1, <2>1 DEF RowsCounted, Fetching
  <2> QED
    BY <2>1, <2>4, <2>5 DEF RowsCounted, Fetching, Serving
<1>7. CASE SelectDbStart \/ SelectDbWait
  <2>1. PICK ev : SelectDbCall(ev)
    BY <1>7 DEF SelectDbStart, SelectDbWait
  <2>2. PICK r \in Returns(ev) :
          /\ mysql' = [After("select_db", r) EXCEPT
                         !.db = IF r.status = {} /\ r.errno = "ok" THEN session[in_process].db ELSE @]
          /\ \/ FailQuery(r.errno)
             \/ /\ go_next_state(r.status, "SELECT_DB_WAIT", "SELECT_DB_DONE")
                /\ UNCHANGED <<in_process, session>>
    BY <2>1 DEF SelectDbCall
  <2>3. After("select_db", r) \in Handle
    BY <1>1, AfterType
  <2>4. mysql'.unread = After("select_db", r).unread
    BY <2>2, <2>3 DEF Handle
  <2>5. current_state \in {"SELECT_DB_START", "SELECT_DB_WAIT"}
    BY <1>7 DEF SelectDbStart, SelectDbWait, Case
  <2>6. mysql'.unread = 0
    BY <1>1, <2>4, <2>5, AfterCounts DEF RowsCounted, Fetching
  <2>7. CASE FailQuery(r.errno)
    BY <1>2, <2>6, <2>7, FailServes, LeaveRows DEF Serving
  <2>8. CASE go_next_state(r.status, "SELECT_DB_WAIT", "SELECT_DB_DONE") /\ UNCHANGED <<in_process, session>>
    <3>1. current_state' \in {"SELECT_DB_WAIT", "SELECT_DB_DONE"}
      BY <2>8 DEF go_next_state
    <3> QED
      BY <1>1, <1>2, <2>5, <2>6, <2>8, <3>1, ServeRows DEF Serving, Fetching
  <2> QED
    BY <2>2, <2>7, <2>8
<1>8. CASE SelectDbDone \/ QueryStartEmpty
  <2>1. /\ current_state \in {"SELECT_DB_DONE", "QUERY_START"} /\ mysql' = mysql
        /\ \/ current_state' = "QUERY_START" /\ UNCHANGED <<in_process, session>>
           \/ current_state' = "CONNECTION_IDLE"
    BY <1>8 DEF SelectDbDone, QueryStartEmpty, Case, Goto, go_next_state
  <2>2. mysql'.unread = 0
    BY <1>1, <2>1 DEF RowsCounted, Fetching
  <2> QED
    BY <1>1, <1>2, <2>1, <2>2, ServeRows, LeaveRows DEF Serving, Fetching
<1>9. CASE QueryStart \/ QueryWait
  <2>1. PICK ev : \E r \in Returns(ev) :
          /\ mysql' = AfterQuery(r)
          /\ \/ FailQuery(r.errno)
             \/ /\ go_next_state(r.status, "QUERY_WAIT", "QUERY_RESULT_READY")
                /\ UNCHANGED <<in_process, session>>
    BY <1>9 DEF QueryStart, QueryWait
  <2>2. current_state \in {"QUERY_START", "QUERY_WAIT"}
    BY <1>9 DEF QueryStart, QueryWait, Case
  <2>3. mysql'.unread = 0 /\ mysql'.fetched = 0
    BY <1>1, <2>1, AfterCounts
  <2>4. \/ current_state' \in {"CONNECTION_IDLE", "CLOSE_START"}
        \/ current_state' \in {"QUERY_WAIT", "QUERY_RESULT_READY"} /\ UNCHANGED <<in_process, session>>
    BY <1>2, <2>1, FailServes DEF go_next_state
  <2> QED
    BY <1>1, <1>2, <2>2, <2>3, <2>4, ServeRows, LeaveRows DEF Serving, Fetching
<1>10. CASE UseResultNull
  <2>1. PICK e : mysql' = [mysql EXCEPT !.errno = e] /\ FailQuery(e)
    BY <1>10 DEF UseResultNull
  <2>2. current_state = "QUERY_RESULT_READY"
    BY <1>10 DEF UseResultNull, Case
  <2>3. mysql'.unread = 0
    BY <1>1, <2>1, <2>2 DEF RowsCounted, Fetching, Handle
  <2> QED
    BY <1>2, <2>1, <2>3, FailServes, LeaveRows DEF Serving
<1>11. CASE UseResult
  <2>1. /\ current_state = "QUERY_RESULT_READY" /\ current_state' = "FETCH_ROW_START"
        /\ UNCHANGED <<in_process, session>> /\ \E n : mysql' = [mysql EXCEPT !.unread = n]
    BY <1>11 DEF UseResult, Case, Goto, go_next_state
  <2>2. mysql'.fetched = 0 /\ session[in_process].rows = 0
    BY <1>1, <1>2, <2>1 DEF RowsCounted, Fetching, Serving, Handle
  <2> QED
    BY <2>1, <2>2 DEF RowsCounted, Fetching, Serving
<1>12. CASE FetchRowStart \/ FetchRowWait
  <2>1. PICK ev : FetchRowCall(ev)
    BY <1>12 DEF FetchRowStart, FetchRowWait
  <2>2. current_state \in {"FETCH_ROW_START", "FETCH_ROW_WAIT"}
    BY <1>12 DEF FetchRowStart, FetchRowWait, Case
  <2> QED
    BY <1>1, <1>2, <2>1, <2>2, FetchRows
<1>13. CASE FetchRowReady
  <2>1. /\ current_state = "FETCH_ROW_RESULT_READY" /\ current_state' = "FETCH_ROW_START" /\ result_row
        /\ session' = [session EXCEPT ![in_process].rows = @ + 1] /\ UNCHANGED <<in_process, mysql>>
    BY <1>13 DEF FetchRowReady, Case, Goto, go_next_state
  <2>2. in_process \in Query
    BY <1>2, <2>1, ServingOnStack DEF Serving
  <2>3. session'[in_process].rows = session[in_process].rows + 1
    BY <1>1, <2>1, <2>2 DEF TypeOK, Session
  <2>4. session[in_process].rows + 1 = mysql.fetched
    BY <1>1, <1>2, <2>1 DEF RowsCounted
  <2> QED
    BY <2>1, <2>3, <2>4 DEF RowsCounted, Fetching, Serving
<1>14. CASE FetchRowEnd
  <2>1. current_state' = "CONNECTION_IDLE" /\ mysql' = [mysql EXCEPT !.unread = 0]
    BY <1>14 DEF FetchRowEnd, Goto, go_next_state
  <2>2. mysql'.unread = 0
    BY <1>1, <2>1 DEF Handle
  <2> QED
    BY <2>1, <2>2, LeaveRows DEF Serving
<1> QED
  BY <1>3, <1>4, <1>5, <1>6, <1>7, <1>8, <1>9, <1>10, <1>11, <1>12, <1>13, <1>14 DEF HandleState

\* Every step keeps the count.
LEMMA NextCounted ==
  ASSUME IInv, Once, Counted, Next \/ UNCHANGED vars
  PROVE  Counted'
<1>1. TypeOK /\ Control /\ mysql \in Handle /\ RowsCounted /\ Untouched
  BY DEF IInv, TypeOK, Counted
<1>2. Untouched'
  BY <1>1, NextUntouched
<1>3. CASE HandleState
  BY <1>2, <1>3, HandleStateRows DEF Counted
<1>4. CASE UNCHANGED <<current_state, mysql, session, in_process, destroyed, result_row>>
  BY <1>1, <1>2, <1>4 DEF Counted, RowsCounted
<1>5. CASE RunHandleState \/ RunStartQuery \/ RunClean \/ OnWaitEventInvoked \/ OnTimeOut
           \/ do_connection_check \/ Close \/ PoolClose \/ UNCHANGED vars
  BY <1>4, <1>5 DEF RunHandleState, RunStartQuery, RunClean, OnWaitEventInvoked, OnTimeOut,
     do_connection_check, Close, PoolClose, TakeTask, AtRest, OwnerStep, queueVars, ownerVars, resVars, vars
<1>6. CASE RunSyncClose
  <2>1. /\ current_state' = "CLOSE_DONE"
        /\ mysql' = [mysql EXCEPT !.op = "none", !.link = "closed", !.unread = 0]
    BY <1>6 DEF RunSyncClose
  <2>2. mysql'.unread = 0
    BY <1>1, <2>1 DEF Handle
  <2> QED
    BY <1>2, <2>1, <2>2, LeaveRows DEF Counted, Serving
<1>7. CASE Connect \/ SyncConnect
  <2>1. /\ current_state = "CONNECT_INIT" /\ current_state' \in {"CONNECT_START", "CONNECTION_IDLE"}
        /\ mysql' = mysql \/ mysql' = [mysql EXCEPT !.link = "open", !.db = OptDB]
    BY <1>7 DEF Connect, SyncConnect
  <2>2. mysql'.unread = 0
    BY <1>1, <2>1 DEF Handle, RowsCounted, Fetching
  <2> QED
    BY <1>2, <2>1, <2>2, LeaveRows DEF Counted, Serving
<1>8. ASSUME NEW q \in Query, PendingQuery(q) PROVE Counted'
  <2>1. UNCHANGED <<current_state, mysql, in_process, destroyed, result_row>> /\ q \notin ToSet(started)
    BY <1>8 DEF PendingQuery, OwnerStep, Fresh, ownerVars, resVars
  <2>2. PICK db, sql : session' = [session EXCEPT ![q] = [@ EXCEPT !.db = db, !.sql = sql]]
    BY <1>8 DEF PendingQuery
  <2>3. \A p \in Query : session'[p].rows = session[p].rows
    BY <1>1, <2>2 DEF TypeOK, Session
  <2>4. current_state \in Serving /\ ~destroyed => in_process \in Query
    BY <1>1 DEF Control, TypeOK
  <2> QED
    BY <1>1, <1>2, <2>1, <2>3, <2>4 DEF Counted, RowsCounted, Serving, Fetching
<1>9. CASE Release \/ ReleaseUnclosed
  <2>1. /\ UNCHANGED <<current_state, mysql, result_row>>
        /\ destroyed' \/ UNCHANGED <<session, in_process, destroyed>>
    BY <1>9 DEF Release, ReleaseUnclosed, Destructor, OwnerStep, queueVars, resVars
  <2> QED
    BY <1>1, <1>2, <2>1 DEF Counted, RowsCounted
<1> QED
  BY <1>3, <1>5, <1>6, <1>7, <1>8, <1>9 DEF Next, Loop, Owner

\* A session answered with code 0 has all of its reply, when err_no_ is 0.
LEMMA CodeZeroStep ==
  ASSUME IInv, Once, Counted, OperationMatchesState', err_no = 0, err_no' = 0, Next \/ UNCHANGED vars,
         NEW q \in Query, finished' = Append(finished, q), session'[q].code = "ok"
  PROVE  /\ mysql'.op = "none" /\ mysql.unread = 0
         /\ session'[q].rows = session'[q].result_count
<1>1. /\ TypeOK /\ Control /\ mysql \in Handle /\ RowsCounted /\ Untouched /\ finished \in Seq(Query)
      /\ Pending \in Seq(Query) /\ session \in [Query -> Session]
  BY PendingType DEF IInv, TypeOK, Counted
<1>2. finished' # finished
  BY <1>1
<1>3. ~AnswerClosed
  <2> SUFFICES ASSUME AnswerClosed PROVE FALSE
    OBVIOUS
  <2>1. finished \o Pending = Append(finished, q)
    BY DEF AnswerClosed
  <2>2. Len(Pending) = 1 /\ Pending[1] = q
    <3>1. /\ Len(finished \o Pending) = Len(finished) + Len(Pending) /\ Len(finished) \in Nat
          /\ Len(Pending) \in Nat /\ Len(Append(finished, q)) = Len(finished) + 1
          /\ Append(finished, q)[Len(finished) + 1] = q
      BY <1>1
    <3>2. Len(Pending) = 1
      <4>1. Len(finished \o Pending) = Len(Append(finished, q))
        BY <2>1, Zenon
      <4>2. Len(finished) + Len(Pending) = Len(finished) + 1
        BY <3>1, <4>1, Zenon
      <4>3. \A n, m \in Nat : n + m = n + 1 => m = 1
        OBVIOUS
      <4> QED
        BY <3>1, <4>2, <4>3, Zenon
    <3>3. (finished \o Pending)[Len(finished) + 1] = Pending[1]
      BY <1>1, <3>1, <3>2
    <3> QED
      BY <2>1, <3>1, <3>2, <3>3
  <2>3. q \in ToSet(Pending)
    BY <2>2 DEF ToSet
  <2> QED
    BY <1>1, <2>3 DEF AnswerClosed, Session
<1>4. Answers
  BY <1>2, <1>3, StepSessions DEF Keeps, RunStartQuery
<1>5. q = in_process /\ in_process \in Query /\ in_process' = NoQuery /\ in_process # NoQuery
  <2>1. finished' = Append(finished, in_process) /\ in_process \in Query /\ in_process' = NoQuery
    BY <1>4 DEF Answers
  <2>2. Append(finished, q) = Append(finished, in_process)
    BY <2>1
  <2>3. q = in_process
    BY <1>1, <2>1, <2>2
  <2> QED
    BY <2>1, <2>3
<1>6. HandleState
  <2>1. CASE Loop
    BY <1>2, <1>3, <2>1 DEF Loop, RunHandleState, RunStartQuery, RunSyncClose, RunClean, OnWaitEventInvoked,
       OnTimeOut, do_connection_check, Close, clean_up, queueVars
  <2>2. CASE Owner
    BY <1>2, <1>3, <2>2 DEF Owner, Connect, SyncConnect, PendingQuery, PoolClose, Release, ReleaseUnclosed,
       Destructor, queueVars
  <2> QED
    BY <1>2, <2>1, <2>2 DEF Next, vars, queueVars
<1>7. on_stack /\ ~destroyed
  BY <1>6, HandleShape, LifetimeOnStack DEF IInv
<1>8. current_state' \notin WaitState => mysql'.op = "none"
  BY DEF OperationMatchesState
<1>9. ASSUME NEW code, code # "ok", FailQuery(code) PROVE FALSE
  <2>1. session' = [session EXCEPT ![in_process].code = code]
    BY <1>5, <1>9 DEF FailQuery, DoneCurrentQuery
  <2> QED
    BY <1>1, <1>5, <1>9, <2>1 DEF Session
<1>10. ASSUME session' = session, current_state \in Serving \ Fetching, current_state' \notin WaitState
       PROVE  /\ mysql'.op = "none" /\ mysql.unread = 0
              /\ session'[q].rows = session'[q].result_count
  <2>1. mysql.unread = 0 /\ session[in_process].rows = 0
    BY <1>1, <1>7, <1>10 DEF RowsCounted
  <2>2. in_process \notin ToSet(finished) => session[in_process].result_count = 0
    BY <1>1, <1>5 DEF Untouched
  <2>3. in_process \notin ToSet(finished)
    BY AnsweredAreGone
  <2> QED
    BY <1>5, <1>8, <1>10, <2>1, <2>2, <2>3
<1>11. CASE SelectDbDone
  <2>1. current_state = "SELECT_DB_DONE" /\ DoneCurrentQuery("ok", session) /\ current_state' = "CONNECTION_IDLE"
    BY <1>5, <1>11 DEF SelectDbDone, Case, Goto, go_next_state
  <2>2. session' = session
    BY <1>5, <2>1 DEF DoneCurrentQuery
  <2> QED
    BY <1>10, <2>1, <2>2 DEF Serving, Fetching, WaitState
<1>12. CASE UseResultNull
  <2>1. PICK e : FailQuery(e)
    BY <1>12 DEF UseResultNull
  <2>2. e = "ok" /\ current_state = "QUERY_RESULT_READY"
    BY <1>9, <1>12, <2>1 DEF UseResultNull, Case
  <2>3. session' = session
    BY <1>5, <2>1, <2>2 DEF FailQuery, DoneCurrentQuery
  <2>4. current_state' \in {"CONNECTION_IDLE", "CLOSE_START"}
    BY <1>7, <2>1, FailServes
  <2> QED
    BY <1>10, <2>2, <2>3, <2>4 DEF Serving, Fetching, WaitState
<1>13. CASE FetchRowEnd
  <2> DEFINE s == [session EXCEPT ![in_process].result_count = mysql.fetched]
  <2>1. /\ current_state = "FETCH_ROW_RESULT_READY" /\ ~result_row /\ current_state' = "CONNECTION_IDLE"
        /\ DoneCurrentQuery(mysql.errno, s)
    BY <1>13 DEF FetchRowEnd, Case, Goto, go_next_state
  <2>2. s \in [Query -> Session] /\ s[in_process].rows = session[in_process].rows
        /\ s[in_process].result_count = mysql.fetched
    BY <1>1, <1>5 DEF Session, Handle
  <2> HIDE DEF s
  <2>3. session' = IF mysql.errno = "ok" THEN s ELSE [s EXCEPT ![in_process].code = mysql.errno]
    BY <1>5, <2>1 DEF DoneCurrentQuery
  <2>4. mysql.errno = "ok"
    <3> SUFFICES ASSUME mysql.errno # "ok" PROVE FALSE
      OBVIOUS
    <3>1. session' = [s EXCEPT ![in_process].code = mysql.errno]
      BY <2>3
    <3> QED
      BY <1>5, <2>2, <3>1 DEF Session
  <2>5. mysql.unread = 0 /\ session[in_process].rows = mysql.fetched
    BY <1>1, <1>7, <2>1, <2>4 DEF RowsCounted
  <2> QED
    BY <1>5, <1>8, <2>1, <2>2, <2>3, <2>4, <2>5 DEF WaitState
<1>14. CASE QueryStartEmpty
  <2>1. session' = [session EXCEPT ![in_process].code = "empty"]
    BY <1>5, <1>14 DEF QueryStartEmpty, DoneCurrentQuery
  <2> QED
    BY <1>1, <1>5, <2>1 DEF Session
<1>15. CASE SelectDbStart \/ SelectDbWait \/ QueryStart \/ QueryWait
  <2>1. (\E code : code # "ok" /\ FailQuery(code)) \/ in_process' = in_process
    BY <1>15 DEF SelectDbStart, SelectDbWait, SelectDbCall, QueryStart, QueryWait
  <2> QED
    BY <1>5, <1>9, <2>1
<1>16. CASE ConnectStart \/ ConnectWait \/ ConnectDone \/ CloseStart \/ CloseWait \/ IdleEmpty \/ IdleTake
            \/ UseResult \/ FetchRowStart \/ FetchRowWait \/ FetchRowReady
  BY <1>2, <1>16 DEF ConnectStart, ConnectWait, ConnectCall, ConnectDone, CloseStart, CloseWait, CloseCall,
     IdleEmpty, IdleTake, UseResult, FetchRowStart, FetchRowWait, FetchRowCall, FetchRowReady
<1>17. CASE CloseDone
  BY <1>3, <1>17 DEF CloseDone, clean_up
<1> QED
  BY <1>6, <1>11, <1>12, <1>13, <1>14, <1>15, <1>16, <1>17 DEF HandleState

----------------------------------------------------------------------------
(* The whole invariant.                                                    *)

\* IInv and the layers over it: each is inductive together with those before.
ConnInv ==
  IInv /\ OperationMatchesState /\ Waiting /\ Linked /\ Selected /\ Once /\ Counted

\* The initial states satisfy it.
LEMMA InitConnInv == Init => ConnInv
<1> SUFFICES ASSUME Init PROVE ConnInv
  OBVIOUS
<1>1. IInv
  BY InitIInv
<1>2. /\ tasks = <<>> /\ Len(tasks) = 0 /\ started = <<>> /\ Len(started) = 0
      /\ current_state = "CONNECT_INIT" /\ ~on_stack /\ ~destroyed /\ ~fd_event /\ fd_armed = {} /\ ~timeout
      /\ ~ready /\ last_selected_db = NoDB /\ query_list = <<>>
      /\ mysql.link = "init" /\ mysql.op = "none" /\ mysql.unread = 0
      /\ \A q \in Query : session[q].code = "ok" /\ session[q].rows = 0 /\ session[q].result_count = 0
  BY DEF Init
<1>3. OperationMatchesState
  BY <1>2 DEF OperationMatchesState, WaitState
<1>4. Waiting
  BY <1>2 DEF Waiting, Armed, Posted, RestState, WaitState
<1>5. Linked
  BY <1>2 DEF Linked, Link, Backlog
<1>6. Selected
  BY <1>2 DEF Selected, InItsDB, Fetching
<1>7. Once
  BY <1>2 DEF Once
<1>8. Counted
  BY <1>2 DEF Counted, Untouched, RowsCounted, Serving, Fetching
<1> QED
  BY <1>1, <1>3, <1>4, <1>5, <1>6, <1>7, <1>8 DEF ConnInv

\* Every step keeps it.
LEMMA ConnInductive == ConnInv /\ [Next]_vars => ConnInv'
BY Inductive, NextOp, NextWaiting, NextLinked, NextSelected, NextOnce, NextCounted DEF ConnInv

\* It holds in every reachable state.
LEMMA ConnInvHolds == Spec => []ConnInv
BY InitConnInv, ConnInductive, PTL DEF Spec

----------------------------------------------------------------------------
(* The theorems.                                                           *)

\* Every variable of the connection keeps its type.
THEOREM TypeCorrect == Spec => []TypeOK
<1>1. IInv => TypeOK
  BY DEF IInv
<1> QED
  BY <1>1, InvariantHolds, PTL

\* Sessions are answered in the order they reach the connection, none twice and
\* none lost, whatever err_no_ holds and however the connection goes away.
THEOREM InOrder == Spec => []AnsweredInOrder
<1>1. IInv => AnsweredInOrder
  BY DEF IInv
<1> QED
  BY <1>1, InvariantHolds, PTL

\* No CHECK of the state machine fails.
THEOREM NoCheckFails == Spec => []ChecksHold
<1>1. IInv => ChecksHold
  <2> SUFFICES ASSUME IInv PROVE ChecksHold
    OBVIOUS
  <2>1. on_stack => ~destroyed
    BY DEF IInv, Lifetime, Using, Closing, Gone, Destroyed
  <2> QED
    BY <2>1 DEF IInv, Control, ChecksHold
<1> QED
  BY <1>1, InvariantHolds, PTL

\* A connection closed before its release leaves nothing behind in the loop.
THEOREM NothingLeftBehind == Spec => []NothingRefersToDestroyed
<1>1. IInv => NothingRefersToDestroyed
  <2> SUFFICES ASSUME IInv, destroyed, ~BareRelease
               PROVE  ~fd_event /\ ~timeout /\ ~on_stack /\ \A t \in ToSet(tasks) : t.fn = "Clean"
    BY DEF NothingRefersToDestroyed
  <2>1. Destroyed
    BY DEF IInv, Lifetime, Using, Closing, Gone
  <2> QED
    BY <2>1 DEF Destroyed, ToSet, IInv, TypeOK
<1> QED
  BY <1>1, InvariantHolds, PTL

\* The library is never asked to continue an operation that is not the suspended
\* one, nor to start one while another is suspended, wherever err_no_ is 0.
THEOREM OneOperation == Spec => []OperationMatchesState
<1>1. ConnInv => OperationMatchesState
  BY DEF ConnInv
<1> QED
  BY <1>1, ConnInvHolds, PTL

\* Between two runs of HandleState a direction or the timer is armed if and only
\* if an operation is suspended: nothing waits for an event that cannot come, and
\* no event of a finished operation is left for the next session.
THEOREM WaitIsArmed == Spec => []ArmedIffWaiting
<1>1. ConnInv => ArmedIffWaiting
  BY DEF ConnInv, Waiting, Armed, ArmedIffWaiting
<1> QED
  BY <1>1, ConnInvHolds, PTL

\* ready_ is true only of an open handle whenever HandleState has returned, for
\* all interleavings with the 60 s check and both ways of closing.
THEOREM ReadyIsOpen == Spec => []ReadyMeansOpen
<1>1. ConnInv => ReadyMeansOpen
  BY DEF ConnInv, Linked, Link, ReadyMeansOpen
<1> QED
  BY <1>1, ConnInvHolds, PTL

\* No session waits on an idle connection.
THEOREM IdleHasNoBacklog == Spec => []NoIdleBacklog
<1>1. ConnInv => NoIdleBacklog
  <2> SUFFICES ASSUME ConnInv, ~on_stack, in_process = NoQuery, query_list # <<>>
               PROVE  current_state = "CLOSE_WAIT" \/ mysql.link = "closed"
    BY DEF NoIdleBacklog
  <2>1. current_state \in RestState /\ ~destroyed /\ mysql.link # "init" /\ current_state # "CONNECTION_IDLE"
    BY DEF ConnInv, Waiting, Armed, Linked, Backlog
  <2>2. current_state \notin Serving
    BY <2>1 DEF ConnInv, IInv, Control
  <2> QED
    BY <2>1, <2>2 DEF ConnInv, Linked, Link, RestState, WaitState, Serving
<1> QED
  BY <1>1, ConnInvHolds, PTL

\* A session runs only in the database it named.
THEOREM SessionsRunInTheirDB == Spec => []RunsInItsDB
<1>1. ConnInv => RunsInItsDB
  BY DEF ConnInv, Selected, InItsDB, RunsInItsDB
<1> QED
  BY <1>1, ConnInvHolds, PTL

\* A session answered with code 0 has its whole reply, if err_no_ starts as 0;
\* the member is not initialised, and the run with another value shows the loss.
THEOREM CodeZeroIsComplete ==
  ASSUME ErrNo = {0}
  PROVE  Spec => CodeZeroMeansEOF
<1>1. Init => err_no = 0
  BY DEF Init
<1>2. err_no = 0 /\ [Next]_vars => (err_no = 0)'
  <2>1. CASE HandleState
    BY <2>1, HandleShape
  <2>2. CASE Loop
    BY <2>2 DEF Loop, RunHandleState, RunStartQuery, RunSyncClose, RunClean, TakeTask, AtRest,
       OnWaitEventInvoked, OnTimeOut, do_connection_check, Close
  <2>3. CASE Owner
    BY <2>3 DEF Owner, Connect, SyncConnect, PendingQuery, PoolClose, Release, ReleaseUnclosed, OwnerStep
  <2>4. CASE UNCHANGED vars
    BY <2>4 DEF vars
  <2> QED
    BY <2>1, <2>2, <2>3, <2>4 DEF Next
<1>3. Spec => [](err_no = 0)
  BY <1>1, <1>2, PTL DEF Spec
<1>4. ConnInv /\ ConnInv' /\ err_no = 0 /\ (err_no = 0)' /\ [Next]_vars =>
        [\A q \in Query :
           /\ finished' = Append(finished, q)
           /\ session'[q].code = "ok"
           => /\ mysql'.op = "none" /\ mysql.unread = 0
              /\ session'[q].rows = session'[q].result_count]_vars
  <2> SUFFICES ASSUME ConnInv, ConnInv', err_no = 0, err_no' = 0, [Next]_vars, NEW q \in Query,
                      finished' = Append(finished, q), session'[q].code = "ok"
               PROVE  /\ mysql'.op = "none" /\ mysql.unread = 0
                      /\ session'[q].rows = session'[q].result_count
    OBVIOUS
  <2> QED
    BY CodeZeroStep DEF ConnInv
<1> QED
  BY <1>3, <1>4, ConnInvHolds, PTL DEF Spec, CodeZeroMeansEOF

\* A session is never written to after its callback ran.
THEOREM AnswersStay == Spec => AnswersAreFinal
<1>1. ConnInv /\ [Next]_vars => [\A q \in ToSet(finished) : session'[q] = session[q]]_vars
  BY FinalStep DEF ConnInv
<1> QED
  BY <1>1, ConnInvHolds, PTL DEF Spec, AnswersAreFinal

\* The connection implements QueryContract, whatever err_no_ holds and however it
\* is closed or dropped: taking a session over is Accept, DoneCurrentQuery is
\* Finish, clean_up and the destructor are Abort, and nothing else is seen.
THEOREM Refinement == Spec => ImplementsContract
<1>1. ConnInv /\ ConnInv' /\ [Next]_vars => [Contract!Next]_(Contract!vars)
  BY RefineStep DEF ConnInv
<1> QED
  BY <1>1, RefineInit, ConnInvHolds, PTL DEF Spec, ImplementsContract, Contract!Spec
============================================================================
