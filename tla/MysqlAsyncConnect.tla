------------------------- MODULE MysqlAsyncConnect -------------------------
(***************************************************************************)
(* One connection of integration/async_mysql: the non-blocking state       *)
(* machine MysqlAsyncConnect::HandleState, the loop that drives it (posted *)
(* tasks, socket events, the wait timer, the 60 s check) and the thread    *)
(* that owns it (connect, hand over sessions, close, release).             *)
(*                                                                         *)
(* HandleState is a loop around a switch; each case is one action here,    *)
(* and on_stack says that the loop is running.  Nothing else of the event  *)
(* loop runs meanwhile, but the owner thread does.                         *)
(***************************************************************************)
EXTENDS Naturals, Sequences, SequencesExt

CONSTANTS
  Query,         \* the QuerySession objects
  NoQuery,       \* a null RefQuerySession
  DB,            \* the non-empty database names
  NoDB,          \* the empty name
  OptDB,         \* MysqlOptions::dbname
  MaxRows,       \* bound on the rows of one result set
  WaitStatus,    \* the MYSQL_WAIT_* sets a suspended call may ask for
  PumpEvents,    \* the LT_EVENT_* sets the pump may report for the socket
  ErrNo,         \* the values the uninitialised member err_no_ may hold
  BareRelease    \* may the owner drop the pool without calling Close?

MysqlStatus == {"READ", "WRITE", "EXCEPT", "TIMEOUT"}
LtEvent == {"READ", "WRITE", "ERROR", "CLOSE"}

ASSUME QueryAssumption == NoQuery \notin Query
ASSUME DBAssumption == NoDB \notin DB /\ OptDB \in DB
ASSUME RowsAssumption == MaxRows \in Nat
ASSUME WaitAssumption ==
  \A w \in WaitStatus : w \subseteq MysqlStatus /\ w \cap {"READ", "WRITE", "TIMEOUT"} # {}
ASSUME PumpAssumption == PumpEvents \subseteq SUBSET LtEvent
ASSUME ErrNoAssumption == ErrNo \subseteq Nat
ASSUME BareReleaseAssumption == BareRelease \in BOOLEAN

VARIABLES
  \* the event loop
  tasks,             \* the closures posted to loop_, oldest first
  on_stack,          \* HandleState is running
  in_event,          \* its argument
  fd_event,          \* fd_event_ exists and is installed in the pump
  fd_armed,          \* the directions enabled on it
  timeout,           \* timeout_ is attached to the pump
  \* members of the connection
  current_state, ready, schedule_close, last_selected_db, in_process,
  query_list, mysql_ret, result, result_row, err_no,
  \* the MariaDB handle mysql_ and the sessions
  mysql, session,
  \* the owner: the pool, and whether the connection object is gone
  owner, destroyed,
  \* history: sessions handed to StartQuery; sessions whose OnQueryDone ran
  started, finished

loopVars  == <<tasks, on_stack, in_event>>
waitVars  == <<fd_event, fd_armed, timeout>>
queueVars == <<in_process, query_list, session, started, finished>>
flagVars  == <<ready, schedule_close>>
resVars   == <<result, result_row>>
ownerVars == <<owner, destroyed>>
vars == <<loopVars, waitVars, queueVars, flagVars, resVars, ownerVars,
          current_state, last_selected_db, mysql_ret, err_no, mysql>>

State == {"CONNECT_INIT", "CONNECT_START", "CONNECT_WAIT", "CONNECT_DONE",
          "CONNECTION_IDLE",
          "SELECT_DB_START", "SELECT_DB_WAIT", "SELECT_DB_DONE",
          "QUERY_START", "QUERY_WAIT", "QUERY_RESULT_READY",
          "FETCH_ROW_START", "FETCH_ROW_WAIT", "FETCH_ROW_RESULT_READY",
          "CLOSE_START", "CLOSE_WAIT", "CLOSE_DONE"}

WaitState == {"CONNECT_WAIT", "SELECT_DB_WAIT", "QUERY_WAIT", "FETCH_ROW_WAIT", "CLOSE_WAIT"}

\* An error number is 0, one of the four IsFatalError lists, or another one;
\* a session's code_ is one of those, -1 ("closed") or -9999 ("empty query").
Errno == {"ok", "error", "fatal"}
Code == Errno \cup {"closed", "empty"}

Session == [db : DB \cup {NoDB}, sql : BOOLEAN, code : Code, rows : Nat, result_count : Nat]
Handle == [link : {"init", "open", "closed"},
           op : {"none", "connect", "select_db", "query", "fetch", "close"},
           errno : Errno, db : DB \cup {NoDB}, unread : Nat, fetched : Nat]
Task == [fn : {"StartQuery"}, q : Query]
        \cup [fn : {"HandleState", "SyncClose", "Clean"}, q : {NoQuery}]

NewTask(f) == [fn |-> f, q |-> NoQuery]
QueryTask(q) == [fn |-> "StartQuery", q |-> q]

\* The session being served, as a sequence; and everyone not answered yet.
InProcess == IF in_process = NoQuery THEN <<>> ELSE <<in_process>>
Pending == InProcess \o query_list

----------------------------------------------------------------------------
(* The constructor and InitConnection.  err_no_ has no initialiser.        *)

Init ==
  /\ tasks = <<>> /\ on_stack = FALSE /\ in_event = {}
  /\ fd_event = FALSE /\ fd_armed = {} /\ timeout = FALSE
  /\ current_state = "CONNECT_INIT"
  /\ ready = FALSE /\ schedule_close = FALSE
  /\ last_selected_db = NoDB
  /\ in_process = NoQuery /\ query_list = <<>>
  /\ mysql_ret = FALSE /\ result = "null" /\ result_row = FALSE
  /\ err_no \in ErrNo
  /\ mysql = [link |-> "init", op |-> "none", errno |-> "ok", db |-> NoDB,
              unread |-> 0, fetched |-> 0]
  /\ session = [q \in Query |-> [db |-> NoDB, sql |-> FALSE, code |-> "ok",
                                 rows |-> 0, result_count |-> 0]]
  /\ owner = "using" /\ destroyed = FALSE
  /\ started = <<>> /\ finished = <<>>

----------------------------------------------------------------------------
(* The MariaDB non-blocking calls.  A *_start or *_cont call suspends,     *)
(* asking for a status, or returns with an error number; resumed by the    *)
(* timer it fails.                                                         *)

Suspends == {[status |-> w, errno |-> "ok"] : w \in WaitStatus}
Fails == {[status |-> {}, errno |-> e] : e \in {"error", "fatal"}}
Returns(ev) ==
  IF "TIMEOUT" \in ev THEN Fails
  ELSE Suspends \cup Fails \cup {[status |-> {}, errno |-> "ok"]}

\* The handle after call op came back with r.
After(op, r) ==
  [mysql EXCEPT !.op = IF r.status = {} THEN "none" ELSE op,
                !.errno = r.errno]

----------------------------------------------------------------------------
(* Waiting: reset_wait_event, WaitMysqlStatus, go_next_state               *)

\* Mutant: the timer survives the event that beat it.
KeepTimer ==
  /\ fd_armed' = {}
  /\ UNCHANGED <<fd_event, timeout>>

reset_wait_event ==
  /\ timeout' = FALSE
  /\ fd_armed' = {}
  /\ UNCHANGED fd_event

\* Mutant: the timer is never attached.
WaitUntimed(status) ==
  /\ fd_event' = TRUE
  /\ fd_armed' = status \cap {"READ", "WRITE"}
  /\ UNCHANGED timeout

WaitMysqlStatus(status) ==
  /\ fd_event' = TRUE
  /\ fd_armed' = status \cap {"READ", "WRITE"}
  /\ timeout' = (timeout \/ "TIMEOUT" \in status)

\* HandleState leaves its loop; its argument is gone.
Return == on_stack' = FALSE /\ in_event' = {}

\* Go on at once, or leave HandleState until an event or the timer.
go_next_state(status, wait_st, next_st) ==
  IF status = {}
  THEN /\ current_state' = next_st
       /\ UNCHANGED <<on_stack, in_event, waitVars>>
  ELSE /\ current_state' = wait_st
       /\ WaitMysqlStatus(status)
       /\ Return

Goto(st) == go_next_state({}, st, st)

----------------------------------------------------------------------------
(* Answering sessions: DoneCurrentQuery, clean_up                          *)

\* Mutant: in_process_ is not reset.
DoneWithoutReset(code, s) ==
  /\ session' = IF code = "ok" THEN s ELSE [s EXCEPT ![in_process].code = code]
  /\ finished' = Append(finished, in_process)
  /\ UNCHANGED in_process

\* s is the session table after what the caller wrote to it.
DoneCurrentQuery(code, s) ==
  IF in_process = NoQuery
  THEN session' = s /\ UNCHANGED <<in_process, finished>>
  ELSE /\ session' = IF code = "ok" THEN s ELSE [s EXCEPT ![in_process].code = code]
       /\ finished' = Append(finished, in_process)
       /\ in_process' = NoQuery

IsFatalError(code) == code = "fatal"

AfterError(code) == Goto(IF IsFatalError(code) THEN "CLOSE_START" ELSE "CONNECTION_IDLE")

\* Mutant: the list is cleared without answering it.
AnswerCurrentOnly ==
  /\ session' = [q \in Query |-> IF q = in_process THEN [session[q] EXCEPT !.code = "closed"]
                                                  ELSE session[q]]
  /\ finished' = finished \o InProcess
  /\ in_process' = NoQuery
  /\ query_list' = <<>>
  /\ UNCHANGED started

\* Mutant: the list is answered before the session in process.
AnswerListFirst ==
  /\ session' = [q \in Query |-> IF q \in ToSet(Pending)
                                 THEN [session[q] EXCEPT !.code = "closed"]
                                 ELSE session[q]]
  /\ finished' = finished \o query_list \o InProcess
  /\ in_process' = NoQuery
  /\ query_list' = <<>>
  /\ UNCHANGED started

\* SetCode(-1, "closed") and OnQueryDone for the session in process, then for
\* the list in order; the destructor does the same.
AnswerClosed ==
  /\ session' = [q \in Query |-> IF q \in ToSet(Pending)
                                 THEN [session[q] EXCEPT !.code = "closed"]
                                 ELSE session[q]]
  /\ finished' = finished \o Pending
  /\ in_process' = NoQuery
  /\ query_list' = <<>>
  /\ UNCHANGED started

\* Mutant: the timer is left attached.
CleanUpKeepTimer ==
  /\ AnswerClosed
  /\ fd_event' = FALSE
  /\ fd_armed' = {}
  /\ UNCHANGED timeout

clean_up ==
  /\ AnswerClosed
  /\ fd_event' = FALSE
  /\ IF fd_event THEN fd_armed' = {} /\ timeout' = FALSE
                 ELSE UNCHANGED <<fd_armed, timeout>>

----------------------------------------------------------------------------
(* HandleState, one action per case of the switch.                         *)

Case(st) ==
  /\ on_stack
  /\ current_state = st
  /\ UNCHANGED <<tasks, err_no, ownerVars, started>>

ConnectCall(ev) ==
  \E r \in Returns(ev) :
    LET up == r.status = {} /\ r.errno = "ok" IN
    /\ mysql' = [After("connect", r) EXCEPT !.link = IF up THEN "open" ELSE @,
                                            !.db = IF up THEN OptDB ELSE @]
    /\ mysql_ret' = IF r.status = {} THEN up ELSE mysql_ret
    /\ go_next_state(r.status, "CONNECT_WAIT", "CONNECT_DONE")
    /\ UNCHANGED <<flagVars, resVars, last_selected_db, in_process, query_list,
                   session, finished>>

ConnectStart == Case("CONNECT_START") /\ ConnectCall({})

ConnectWait == Case("CONNECT_WAIT") /\ ConnectCall(in_event)

\* The hook OnConnectReady is empty in the pool.
ConnectDone ==
  /\ Case("CONNECT_DONE")
  /\ ready' = mysql_ret
  /\ Goto(IF mysql_ret THEN "CONNECTION_IDLE" ELSE "CLOSE_START")
  /\ last_selected_db' = IF mysql_ret THEN OptDB ELSE last_selected_db
  /\ UNCHANGED <<schedule_close, resVars, mysql_ret, mysql, in_process,
                 query_list, session, finished>>

\* mysql_close never fails; resumed by the timer it gives up on the goodbye.
CloseCall(ev) ==
  \E status \in {{}} \cup (IF "TIMEOUT" \in ev THEN {} ELSE WaitStatus) :
    /\ mysql' = IF status = {}
                THEN [mysql EXCEPT !.op = "none", !.link = "closed", !.unread = 0]
                ELSE [mysql EXCEPT !.op = "close"]
    /\ go_next_state(status, "CLOSE_WAIT", "CLOSE_DONE")
    /\ UNCHANGED <<flagVars, resVars, last_selected_db, mysql_ret, in_process,
                   query_list, session, finished>>

CloseStart == Case("CLOSE_START") /\ CloseCall({})

CloseWait == Case("CLOSE_WAIT") /\ CloseCall(in_event)

\* Mutant: the closed connection still calls itself ready.
CloseDoneStillReady ==
  /\ Case("CLOSE_DONE")
  /\ clean_up
  /\ current_state' = "CONNECT_DONE"
  /\ Return
  /\ UNCHANGED <<ready, schedule_close, resVars, last_selected_db, mysql_ret, mysql>>

\* The hook OnConnectionClosed is empty in the pool.
CloseDone ==
  /\ Case("CLOSE_DONE")
  /\ ready' = FALSE
  /\ clean_up
  /\ current_state' = "CONNECT_DONE"
  /\ Return
  /\ UNCHANGED <<schedule_close, resVars, last_selected_db, mysql_ret, mysql>>

\* Mutant: a scheduled close is forgotten.
IdleNeverCloses ==
  /\ Case("CONNECTION_IDLE")
  /\ query_list = <<>>
  /\ Return
  /\ UNCHANGED <<current_state, waitVars, flagVars, resVars, last_selected_db,
                 mysql_ret, mysql, in_process, query_list, session, finished>>

IdleEmpty ==
  /\ Case("CONNECTION_IDLE")
  /\ query_list = <<>>
  /\ IF schedule_close THEN Goto("CLOSE_START")
                       ELSE Return /\ UNCHANGED <<current_state, waitVars>>
  /\ UNCHANGED <<flagVars, resVars, last_selected_db, mysql_ret, mysql,
                 in_process, query_list, session, finished>>

IdleTake ==
  /\ Case("CONNECTION_IDLE")
  /\ query_list # <<>>
  /\ in_process' = Head(query_list)
  /\ query_list' = Tail(query_list)
  /\ LET db == session[Head(query_list)].db IN
     Goto(IF db # NoDB /\ db # last_selected_db THEN "SELECT_DB_START" ELSE "QUERY_START")
  /\ UNCHANGED <<flagVars, resVars, last_selected_db, mysql_ret, mysql,
                 session, finished>>

\* The current session is answered with an error; the state machine goes on.
FailQuery(code) == DoneCurrentQuery(code, session) /\ AfterError(code)

SelectDbCall(ev) ==
  \E r \in Returns(ev) :
    /\ mysql' = [After("select_db", r) EXCEPT
                   !.db = IF r.status = {} /\ r.errno = "ok" THEN session[in_process].db ELSE @]
    /\ IF r.errno # "ok"
       THEN FailQuery(r.errno)
       ELSE /\ go_next_state(r.status, "SELECT_DB_WAIT", "SELECT_DB_DONE")
            /\ UNCHANGED <<in_process, session, finished>>
    /\ UNCHANGED <<flagVars, resVars, last_selected_db, mysql_ret, query_list>>

SelectDbStart == Case("SELECT_DB_START") /\ SelectDbCall({})

SelectDbWait == Case("SELECT_DB_WAIT") /\ SelectDbCall(in_event)

\* Mutant: the selected database is not remembered.
SelectDbForgets ==
  /\ Case("SELECT_DB_DONE")
  /\ IF session[in_process].sql
     THEN Goto("QUERY_START") /\ UNCHANGED <<in_process, session, finished>>
     ELSE DoneCurrentQuery("ok", session) /\ Goto("CONNECTION_IDLE")
  /\ UNCHANGED <<last_selected_db, flagVars, resVars, mysql_ret, mysql, query_list>>

SelectDbDone ==
  /\ Case("SELECT_DB_DONE")
  /\ last_selected_db' = session[in_process].db
  /\ IF session[in_process].sql
     THEN Goto("QUERY_START") /\ UNCHANGED <<in_process, session, finished>>
     ELSE DoneCurrentQuery("ok", session) /\ Goto("CONNECTION_IDLE")
  /\ UNCHANGED <<flagVars, resVars, mysql_ret, mysql, query_list>>

\* The handle after a query call: the result of the last query is gone.
AfterQuery(r) == [After("query", r) EXCEPT !.unread = 0, !.fetched = 0]

QueryStartEmpty ==
  /\ Case("QUERY_START")
  /\ ~session[in_process].sql
  /\ DoneCurrentQuery("empty", session)
  /\ Goto("CONNECTION_IDLE")
  /\ UNCHANGED <<flagVars, resVars, last_selected_db, mysql_ret, mysql, query_list>>

QueryStart ==
  /\ Case("QUERY_START")
  /\ session[in_process].sql
  /\ \E r \in Returns({}) :
       /\ mysql' = AfterQuery(r)
       /\ IF r.errno # "ok"
          THEN FailQuery(r.errno)
          ELSE /\ go_next_state(r.status, "QUERY_WAIT", "QUERY_RESULT_READY")
               /\ UNCHANGED <<in_process, session, finished>>
  /\ UNCHANGED <<flagVars, resVars, last_selected_db, mysql_ret, query_list>>

\* The test reads the member err_no_, not the local err_no the call wrote.
QueryWait ==
  /\ Case("QUERY_WAIT")
  /\ \E r \in Returns(in_event) :
       /\ mysql' = AfterQuery(r)
       /\ IF err_no # 0
          THEN FailQuery(r.errno)
          ELSE /\ go_next_state(r.status, "QUERY_WAIT", "QUERY_RESULT_READY")
               /\ UNCHANGED <<in_process, session, finished>>
  /\ UNCHANGED <<flagVars, resVars, last_selected_db, mysql_ret, query_list>>

\* mysql_use_result: NULL after a failed query, after a statement without a
\* result set (errno 0), or when it fails itself.
UseResultNull ==
  /\ Case("QUERY_RESULT_READY")
  /\ result' = "null"
  /\ \E e \in IF mysql.errno = "ok" THEN Errno ELSE {mysql.errno} :
       /\ mysql' = [mysql EXCEPT !.errno = e]
       /\ FailQuery(e)
  /\ UNCHANGED <<flagVars, result_row, last_selected_db, mysql_ret, query_list>>

UseResult ==
  /\ Case("QUERY_RESULT_READY")
  /\ mysql.errno = "ok"
  /\ result' = "live"
  /\ \E n \in 0 .. MaxRows : mysql' = [mysql EXCEPT !.unread = n]
  /\ Goto("FETCH_ROW_START")
  /\ UNCHANGED <<flagVars, result_row, last_selected_db, mysql_ret, in_process,
                 query_list, session, finished>>

FetchRowCall(ev) ==
  \E r \in Returns(ev) :
    LET row == r.status = {} /\ r.errno = "ok" /\ mysql.unread > 0 IN
    /\ mysql' = IF row THEN [After("fetch", r) EXCEPT !.unread = @ - 1, !.fetched = @ + 1]
                       ELSE After("fetch", r)
    /\ result_row' = IF r.status = {} THEN row ELSE result_row
    /\ go_next_state(r.status, "FETCH_ROW_WAIT", "FETCH_ROW_RESULT_READY")
    /\ UNCHANGED <<flagVars, result, last_selected_db, mysql_ret, in_process,
                   query_list, session, finished>>

FetchRowStart == Case("FETCH_ROW_START") /\ FetchRowCall({})

FetchRowWait == Case("FETCH_ROW_WAIT") /\ FetchRowCall(in_event)

FetchRowReady ==
  /\ Case("FETCH_ROW_RESULT_READY")
  /\ result_row
  /\ session' = [session EXCEPT ![in_process].rows = @ + 1]
  /\ Goto("FETCH_ROW_START")
  /\ UNCHANGED <<flagVars, resVars, last_selected_db, mysql_ret, mysql, in_process,
                 query_list, finished>>

\* Mutant: a row that is not there is always the end of the result set.
FetchRowEndIgnoresErrno ==
  /\ Case("FETCH_ROW_RESULT_READY")
  /\ ~result_row
  /\ result' = "freed"
  /\ mysql' = [mysql EXCEPT !.unread = 0]
  /\ DoneCurrentQuery("ok", [session EXCEPT ![in_process].result_count = mysql.fetched])
  /\ Goto("CONNECTION_IDLE")
  /\ UNCHANGED <<flagVars, result_row, last_selected_db, mysql_ret, query_list>>

\* No row: the end of the result set, or an error.  mysql_free_result drains
\* what the server still sends; result_ keeps the freed pointer.
FetchRowEnd ==
  /\ Case("FETCH_ROW_RESULT_READY")
  /\ ~result_row
  /\ result' = "freed"
  /\ mysql' = [mysql EXCEPT !.unread = 0]
  /\ DoneCurrentQuery(mysql.errno, [session EXCEPT ![in_process].result_count = mysql.fetched])
  /\ Goto("CONNECTION_IDLE")
  /\ UNCHANGED <<flagVars, result_row, last_selected_db, mysql_ret, query_list>>

HandleState ==
  \/ ConnectStart \/ ConnectWait \/ ConnectDone
  \/ CloseStart \/ CloseWait \/ CloseDone
  \/ IdleEmpty \/ IdleTake
  \/ SelectDbStart \/ SelectDbWait \/ SelectDbDone
  \/ QueryStartEmpty \/ QueryStart \/ QueryWait
  \/ UseResultNull \/ UseResult
  \/ FetchRowStart \/ FetchRowWait \/ FetchRowReady \/ FetchRowEnd

----------------------------------------------------------------------------
(* The event loop, between two runs of HandleState.                        *)

\* HandleState(ev) is called: its first step comes next.
Call(ev) == on_stack' = TRUE /\ in_event' = ev

AtRest == ~on_stack /\ UNCHANGED <<err_no, mysql_ret, resVars, last_selected_db>>

TakeTask(f) ==
  /\ AtRest
  /\ tasks # <<>>
  /\ Head(tasks).fn = f

RunHandleState ==
  /\ TakeTask("HandleState")
  /\ tasks' = Tail(tasks)
  /\ Call({})
  /\ UNCHANGED <<waitVars, queueVars, flagVars, ownerVars, current_state, mysql>>

\* Mutant: the idle state machine is not woken.
StartQueryNoWake ==
  /\ TakeTask("StartQuery")
  /\ tasks' = Tail(tasks)
  /\ query_list' = Append(query_list, Head(tasks).q)
  /\ started' = Append(started, Head(tasks).q)
  /\ UNCHANGED <<on_stack, in_event, waitVars, in_process, session, finished, flagVars,
                 ownerVars, current_state, mysql>>

\* StartQuery: join the list, and wake the state machine if it is idle.
RunStartQuery ==
  /\ TakeTask("StartQuery")
  /\ tasks' = Tail(tasks)
  /\ query_list' = Append(query_list, Head(tasks).q)
  /\ started' = Append(started, Head(tasks).q)
  /\ IF current_state = "CONNECTION_IDLE" /\ in_process = NoQuery
     THEN Call({}) ELSE UNCHANGED <<on_stack, in_event>>
  /\ UNCHANGED <<waitVars, in_process, session, finished, flagVars, ownerVars,
                 current_state, mysql>>

\* SyncClose, blocking.  The closure holds a reference: if the pool is gone
\* the destructor runs as the closure dies, and posts its own cleaning task.
RunSyncClose ==
  /\ TakeTask("SyncClose")
  /\ clean_up
  /\ ready' = FALSE
  /\ mysql' = [mysql EXCEPT !.op = "none", !.link = "closed", !.unread = 0]
  /\ current_state' = "CLOSE_DONE"
  /\ destroyed' = (owner = "released")
  /\ tasks' = IF owner = "released" THEN Append(Tail(tasks), NewTask("Clean")) ELSE Tail(tasks)
  /\ UNCHANGED <<on_stack, in_event, schedule_close, owner>>

\* The destructor's closure: forget the event and the timer.
RunClean ==
  /\ TakeTask("Clean")
  /\ tasks' = Tail(tasks)
  /\ fd_event' = FALSE /\ fd_armed' = {} /\ timeout' = FALSE
  /\ UNCHANGED <<on_stack, in_event, queueVars, flagVars, ownerVars, current_state, mysql>>

\* Mutant: loop events are passed on as MYSQL_WAIT_* bits.
RawEvents(event) == event

LtEvToMysqlStatus(event) ==
  (event \cap {"READ", "WRITE"}) \cup (IF "ERROR" \in event THEN {"EXCEPT"} ELSE {})

\* HandleRead, HandleWrite, HandleError and HandleClose.  What the pump hands
\* over need not be what is armed: errors and hang-ups always come, and one
\* wake-up calls one handler after the other.
OnWaitEventInvoked ==
  /\ AtRest
  /\ fd_event /\ ~destroyed
  /\ \E event \in PumpEvents : Call(LtEvToMysqlStatus(event))
  /\ reset_wait_event
  /\ UNCHANGED <<tasks, queueVars, flagVars, ownerVars, current_state, mysql>>

\* The pump detaches a one-shot timer before it calls the handler.
OnTimeOut ==
  /\ AtRest
  /\ timeout /\ ~destroyed
  /\ Call({"TIMEOUT"})
  /\ reset_wait_event
  /\ UNCHANGED <<tasks, queueVars, flagVars, ownerVars, current_state, mysql>>

\* The 60 s timer of Connect and SyncConnect, whatever the state machine does:
\* mysql_ping can only succeed on an open handle.  It also writes the handle's
\* errno, which is left out: the next call writes it again, except a fetch that
\* ends with EOF, for which a failed ping would show as the code of an error.
do_connection_check ==
  /\ AtRest
  /\ current_state # "CONNECT_INIT" /\ ~destroyed
  /\ ready' \in {FALSE, mysql.link = "open"}
  /\ schedule_close' = (schedule_close \/ ~ready')
  /\ UNCHANGED <<loopVars, waitVars, queueVars, ownerVars, current_state, mysql>>

\* Mutant: Close does not wait for the operation in progress.
CloseAtOnce ==
  /\ AtRest
  /\ ~destroyed
  /\ schedule_close' = TRUE
  /\ current_state' = "CLOSE_START"
  /\ Call({})
  /\ UNCHANGED <<tasks, waitVars, queueVars, ready, ownerVars, mysql>>

Close ==
  /\ AtRest
  /\ ~destroyed
  /\ schedule_close' = TRUE
  /\ IF in_process = NoQuery /\ current_state = "QUERY_START"
     THEN Call({}) ELSE UNCHANGED <<on_stack, in_event>>
  /\ UNCHANGED <<tasks, waitVars, queueVars, ready, ownerVars, current_state, mysql>>

Loop ==
  \/ RunHandleState \/ RunStartQuery \/ RunSyncClose \/ RunClean
  \/ OnWaitEventInvoked \/ OnTimeOut \/ do_connection_check \/ Close

----------------------------------------------------------------------------
(* The owner thread: MysqlAsyncClientImpl and its user.                    *)

OwnerStep ==
  UNCHANGED <<on_stack, in_event, waitVars, schedule_close, last_selected_db,
              resVars, err_no>>

Connect ==
  /\ OwnerStep
  /\ owner = "using" /\ current_state = "CONNECT_INIT"
  /\ current_state' = "CONNECT_START"
  /\ tasks' = Append(tasks, NewTask("HandleState"))
  /\ UNCHANGED <<queueVars, ready, ownerVars, mysql_ret, mysql>>

\* Blocking, on the owner's thread; last_selected_db_ is left empty.  The pool
\* ends the program when it fails.
SyncConnect ==
  /\ OwnerStep
  /\ owner = "using" /\ current_state = "CONNECT_INIT"
  /\ mysql' = [mysql EXCEPT !.link = "open", !.db = OptDB]
  /\ mysql_ret' = TRUE
  /\ ready' = TRUE
  /\ current_state' = "CONNECTION_IDLE"
  /\ UNCHANGED <<tasks, queueVars, ownerVars>>

Fresh(q) == q \notin ToSet(started) /\ QueryTask(q) \notin ToSet(tasks)

\* A new session (New, UseDB, Query, Then) goes to a connection found ready.
PendingQuery(q) ==
  /\ OwnerStep
  /\ owner = "using" /\ ready
  /\ Fresh(q)
  /\ \E db \in DB \cup {NoDB}, sql \in BOOLEAN :
       session' = [session EXCEPT ![q] = [@ EXCEPT !.db = db, !.sql = sql]]
  /\ tasks' = Append(tasks, QueryTask(q))
  /\ UNCHANGED <<in_process, query_list, started, finished, ready, ownerVars,
                 current_state, mysql_ret, mysql>>

PoolClose ==
  /\ OwnerStep
  /\ owner = "using" /\ current_state # "CONNECT_INIT"
  /\ owner' = "closing"
  /\ tasks' = Append(tasks, NewTask("SyncClose"))
  /\ UNCHANGED <<queueVars, ready, destroyed, current_state, mysql_ret, mysql>>

\* ~MysqlAsyncConnect: answer who is left, then have the loop forget the
\* event and the timer.
Destructor ==
  /\ destroyed' = TRUE
  /\ AnswerClosed
  /\ tasks' = Append(tasks, NewTask("Clean"))

\* The pool drops its reference, after Close; a SyncClose still in the queue
\* keeps the connection alive.
Release ==
  /\ OwnerStep
  /\ owner = "closing"
  /\ owner' = "released"
  /\ IF NewTask("SyncClose") \in ToSet(tasks)
     THEN UNCHANGED <<tasks, queueVars, destroyed>>
     ELSE Destructor
  /\ UNCHANGED <<ready, current_state, mysql_ret, mysql>>

\* The pool is dropped without Close.  The last two conjuncts of the guard are
\* the model's: ~MysqlAsyncClientImpl tests nothing, and the closures that are
\* pending, like the handler that runs, hold a plain this.  What happens when one
\* of them is left is undefined behaviour and not modelled.
ReleaseUnclosed ==
  /\ OwnerStep
  /\ BareRelease
  /\ owner = "using" /\ ~on_stack /\ tasks = <<>>
  /\ owner' = "released"
  /\ Destructor
  /\ UNCHANGED <<ready, current_state, mysql_ret, mysql>>

Owner ==
  \/ Connect \/ SyncConnect
  \/ \E q \in Query : PendingQuery(q)
  \/ PoolClose \/ Release \/ ReleaseUnclosed

Next == HandleState \/ Loop \/ Owner

Spec == Init /\ [][Next]_vars

\* HandleState runs until it returns; the loop runs every task; a timer that
\* stays attached fires; a call that is resumed again and again completes
\* (replies and packets are finite).  No event is ever promised.
Completes == HandleState /\ mysql.op # "none" /\ mysql'.op = "none"
Fairness ==
  /\ WF_vars(HandleState)
  /\ SF_vars(RunHandleState \/ RunStartQuery \/ RunSyncClose \/ RunClean)
  /\ WF_vars(OnTimeOut)
  /\ SF_vars(Completes)

FairSpec == Spec /\ Fairness

----------------------------------------------------------------------------
(* Properties                                                              *)

\* The variables hold values of their types.
TypeOK ==
  /\ tasks \in Seq(Task) /\ on_stack \in BOOLEAN /\ in_event \in SUBSET MysqlStatus
  /\ fd_event \in BOOLEAN /\ fd_armed \in SUBSET {"READ", "WRITE"} /\ timeout \in BOOLEAN
  /\ current_state \in State /\ ready \in BOOLEAN /\ schedule_close \in BOOLEAN
  /\ last_selected_db \in DB \cup {NoDB}
  /\ in_process \in Query \cup {NoQuery} /\ query_list \in Seq(Query)
  /\ mysql_ret \in BOOLEAN /\ result \in {"null", "live", "freed"} /\ result_row \in BOOLEAN
  /\ err_no \in Nat
  /\ mysql \in Handle /\ session \in [Query -> Session]
  /\ owner \in {"using", "closing", "released"} /\ destroyed \in BOOLEAN
  /\ started \in Seq(Query) /\ finished \in Seq(Query)

\* Sessions are answered in the order they reach the connection, none twice
\* and none lost, through errors, time-outs, both ways of closing and the
\* destructor.
AnsweredInOrder == started = finished \o Pending

\* The states in which a session is in process, and those that read its rows.
Serving == {"SELECT_DB_START", "SELECT_DB_WAIT", "SELECT_DB_DONE", "QUERY_START",
            "QUERY_WAIT", "QUERY_RESULT_READY", "FETCH_ROW_START", "FETCH_ROW_WAIT",
            "FETCH_ROW_RESULT_READY"}
Fetching == {"FETCH_ROW_START", "FETCH_ROW_WAIT", "FETCH_ROW_RESULT_READY"}
\* Every CHECK of HandleState, HandleStateIDLE and HandleStateSelectDB holds:
\* a session is in process exactly in the states that use it, a fetch has its
\* result, and HandleState is never entered in a state it has no case for.
ChecksHold ==
  /\ ~destroyed => /\ (current_state \in Serving) <=> (in_process # NoQuery)
                   /\ current_state \in Fetching => result = "live"
  /\ on_stack => current_state # "CONNECT_INIT" /\ ~destroyed

\* A *_cont call resumes the operation that is suspended, a *_start call finds
\* none: the library's contract for one handle.  It needs err_no_ to be 0.
OpOf == [CONNECT_WAIT |-> "connect", SELECT_DB_WAIT |-> "select_db", QUERY_WAIT |-> "query",
         FETCH_ROW_WAIT |-> "fetch", CLOSE_WAIT |-> "close"]
OperationMatchesState ==
  err_no = 0 =>
    mysql.op = IF current_state \in WaitState THEN OpOf[current_state] ELSE "none"

\* While an operation is suspended something is armed to resume it; otherwise
\* neither direction nor the timer is, so no late event meets the next session.
ArmedIffWaiting ==
  ~on_stack /\ ~destroyed => ((current_state \in WaitState) <=> (fd_armed # {} \/ timeout))

\* A session that named a database is sent to the server only while that
\* database is the selected one, whatever sessions ran or failed before.
RunsInItsDB ==
  ~destroyed /\ current_state \in {"QUERY_WAIT", "QUERY_RESULT_READY"} \cup Fetching =>
    session[in_process].db \in {NoDB, mysql.db}

\* Whenever HandleState has returned, IsReady() is true only of an open handle:
\* no check, late event or second close revives a closed one.
ReadyMeansOpen == ready /\ ~on_stack => mysql.link = "open"

\* When HandleState has returned, sessions wait only behind one in process, or
\* on a connection that was closing or closed before they reached it.
NoIdleBacklog ==
  ~on_stack /\ in_process = NoQuery /\ query_list # <<>> =>
    current_state = "CLOSE_WAIT" \/ mysql.link = "closed"

\* When the connection object is gone, no posted task, event or timer of the
\* loop refers to it, if Close came before the release.
NothingRefersToDestroyed ==
  destroyed /\ ~BareRelease =>
    /\ ~fd_event /\ ~timeout /\ ~on_stack
    /\ \A t \in ToSet(tasks) : t.fn = "Clean"

\* A session is answered with code 0 only at the end of its reply: nothing of
\* it is suspended or unread, and every row fetched was delivered and counted.
CodeZeroMeansEOF ==
  [][\A q \in Query :
       /\ finished' = Append(finished, q)
       /\ session'[q].code = "ok"
       => /\ mysql'.op = "none" /\ mysql.unread = 0
          /\ session'[q].rows = session'[q].result_count]_vars

\* What a session holds when its callback runs is what it keeps.
AnswersAreFinal ==
  [][\A q \in ToSet(finished) : session'[q] = session[q]]_vars

\* A session that reaches an open connection is answered.
EveryQueryAnswered ==
  \A q \in Query :
    q \in ToSet(Pending) /\ mysql.link = "open" ~> q \in ToSet(finished)

\* A connection told to close while it serves a session closes, unless the pool
\* is dropped first.
BusyCloseCompletes ==
  schedule_close /\ in_process # NoQuery ~> mysql.link = "closed" \/ destroyed

\* The connection implements the contract of its sessions.
Contract == INSTANCE QueryContract
  WITH pending <- Pending, code <- [q \in Query |-> session[q].code]
ImplementsContract == Contract!Spec
============================================================================
