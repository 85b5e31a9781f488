---------------------------- MODULE WatchContext ----------------------------
(***************************************************************************)
(* content/etcdv3: EtcdWatcher::Watch and the WatchContext it returns, as  *)
(* TestWatch and PusKeyEvery in examples/etcdclient/test_client.cc use     *)
(* them.  One coroutine starts the watch, a second one reads the changes,  *)
(* each response is handed to handler_ by a coroutine of its own, and a    *)
(* fourth changes keys and stops the watch.  Source and model call an      *)
(* event of a response a change; a response may carry several of them.     *)
(*                                                                         *)
(* A coroutine locks a context, starts an operation and yields in one      *)
(* step: a resumption that is posted earlier takes effect only after that. *)
(* CO_GO names no loop and is also used where there is none                *)
(* (test_client.cc:131), so coroutines run in any order.  etcd and the two *)
(* directions of the stream are external; a change of a key travels apart  *)
(* from the stream.                                                        *)
(*                                                                         *)
(* OnDone tells that gRPC is through with the call.  The code does not keep*)
(* its coroutines from starting an operation after that; nothing completes *)
(* such an operation, and the coroutine that waits for it is lost.         *)
(***************************************************************************)
EXTENDS CallContext, Integers, FiniteSets, SequencesExt

CONSTANTS
  WatchIds,     \* the ids etcd may give the watch; -1 says it refuses
  MaxChanges    \* bound on the changes made

ASSUME WatchIdsAssumption == WatchIds \subseteq Int
ASSUME MaxChangesAssumption == MaxChanges \in Nat

Direction == {"read", "write"}
Coroutine == {"start", "loop", "stop"}

\* A response: watch number id was created or canceled, or the given changes.
Response(k, id, changes) == [kind |-> k, id |-> id, changes |-> changes]

VARIABLES
  pc,           \* per coroutine
  watch_id,
  response,     \* what the last completed read filled in
  seen,         \* the changes reads have filled in so far
  deliveries,   \* delivery coroutines, by the changes of their copy not handed over yet
  handled,      \* the changes handler_ was called with
  held,         \* the user holds a reference to the context
  \* the stream
  ops,          \* operations started and not completed
  up, down,     \* requests and responses on their way
  over, onDone, \* the RPC has ended; gRPC is through with it
  \* etcd
  watching,     \* the watch exists
  made          \* number of the last change

userVars == <<pc, watch_id, deliveries, handled, held>>
streamVars == <<response, seen, ops, up, down, over, onDone>>
serverVars == <<watching, made>>
vars == <<contextVars, userVars, streamVars, serverVars>>

Init ==
  /\ ctx = [c \in Direction |-> NewContext]
  /\ thread = [c \in Direction |-> Outside]
  /\ posted = <<>>
  /\ pc = [r \in Coroutine |-> "idle"]
  /\ watch_id = -1 /\ response = Response("none", 0, {})
  /\ seen = {} /\ deliveries = {} /\ handled = <<>> /\ held = FALSE
  /\ ops = {} /\ up = <<>> /\ down = <<>> /\ over = FALSE /\ onDone = FALSE
  /\ watching = FALSE /\ made = 0

----------------------------------------------------------------------------
(* The coroutines.                                                         *)

\* The coroutine goes on from place.
Awake(r, place) == pc[r] = place /\ Resume(r)

Leave(r, place) == pc' = [pc EXCEPT ![r] = place]

\* One of StartRead, StartWrite and StartWritesDone, and CO_YIELD.
Begin(r, op, place) ==
  \/ ~onDone /\ ops' = ops \cup {op} /\ Leave(r, place)
  \/ onDone /\ UNCHANGED ops /\ Leave(r, "lost")

Await(r, c, op, place) == LockContext(c, r) /\ Begin(r, op, place)

\* Watch builds the context and calls Start.
Start ==
  /\ pc["start"] = "idle"
  /\ held' = TRUE
  /\ Await("start", "write", "create", "writing")
  /\ UNCHANGED <<thread, posted, watch_id, deliveries, handled,
                 response, seen, up, down, over, onDone, serverVars>>

\* Mutant: Start posts the change loop before it reads the first response.
LoopBeforeCreated ==
  /\ Awake("start", "writing")
  /\ \/ /\ ctx["write"].success /\ ~onDone /\ LockContext("read", "start")
        /\ ops' = ops \cup {"read"} /\ UNCHANGED held
        /\ pc' = [pc EXCEPT !["start"] = "reading", !["loop"] = "ready"]
     \/ ~ctx["write"].success /\ Leave("start", "failed") /\ held' = FALSE
        /\ UNCHANGED <<ctx, ops>>
  /\ UNCHANGED <<thread, watch_id, deliveries, handled,
                 response, seen, up, down, over, onDone, serverVars>>

ReadCreated ==
  /\ Awake("start", "writing")
  /\ \/ ctx["write"].success /\ Await("start", "read", "read", "reading") /\ UNCHANGED held
     \/ ~ctx["write"].success /\ Leave("start", "failed") /\ held' = FALSE
        /\ UNCHANGED <<ctx, ops>>
  /\ UNCHANGED <<thread, watch_id, deliveries, handled,
                 response, seen, up, down, over, onDone, serverVars>>

\* Start posts the change loop before it looks at the id; a false result makes
\* Watch drop the context.
Started ==
  /\ Awake("start", "reading")
  /\ \/ /\ ctx["read"].success
        /\ watch_id' = response.id
        /\ pc' = [pc EXCEPT !["start"] = IF watch_id' >= 0 THEN "started" ELSE "failed",
                            !["loop"] = "ready"]
        /\ held' = (watch_id' >= 0)
     \/ ~ctx["read"].success /\ Leave("start", "failed") /\ held' = FALSE /\ UNCHANGED watch_id
  /\ UNCHANGED <<ctx, thread, deliveries, handled, streamVars, serverVars>>

\* The head of the loop: StartRead.
NextRead ==
  /\ pc["loop"] = "ready"
  /\ Await("loop", "read", "read", "reading")
  /\ UNCHANGED <<thread, posted, watch_id, deliveries, handled, held,
                 response, seen, up, down, over, onDone, serverVars>>

\* The loop is resumed: it ends on a failed read or a canceled watch, otherwise
\* it posts a coroutine with a copy of the response.
HandOver ==
  /\ Awake("loop", "reading")
  /\ IF ctx["read"].success /\ response.kind # "canceled"
       THEN deliveries' = deliveries \cup {response.changes} /\ Leave("loop", "again")
       ELSE Leave("loop", "ended") /\ UNCHANGED deliveries
  /\ UNCHANGED <<ctx, thread, watch_id, handled, held, streamVars, serverVars>>

\* Mutant: the loop does not look at Canceled().
KeepReading ==
  /\ pc["loop"] = "again"
  /\ Leave("loop", "ready")
  /\ UNCHANGED <<contextVars, watch_id, deliveries, handled, held, streamVars, serverVars>>

\* The condition of the loop, read_ctx_.Canceled().
TestCanceled ==
  /\ pc["loop"] = "again"
  /\ Leave("loop", IF ctx["read"].cancel THEN "ended" ELSE "ready")
  /\ UNCHANGED <<contextVars, watch_id, deliveries, handled, held, streamVars, serverVars>>

IsFirst(v, changes) == v \in changes /\ \A w \in changes : v <= w

\* Mutant: the coroutine holds a reference to the loop's response, not a copy.
DeliverByReference(v) ==
  /\ IsFirst(v, response.changes)
  /\ \E rest \in deliveries : deliveries' = deliveries \ {rest}
  /\ handled' = Append(handled, v)
  /\ UNCHANGED <<contextVars, pc, watch_id, held, streamVars, serverVars>>

\* A delivery coroutine calls handler_ with its next change, v.
Deliver(v) ==
  /\ \E rest \in deliveries :
       /\ IsFirst(v, rest)
       /\ deliveries' = ((deliveries \ {rest}) \cup {rest \ {v}}) \ {{}}
  /\ handled' = Append(handled, v)
  /\ UNCHANGED <<contextVars, pc, watch_id, held, streamVars, serverVars>>

\* StopWatch returns to its caller, which then drops the context.
StopReturns(ok) ==
  /\ Leave("stop", IF ok THEN "stopped" ELSE "failed")
  /\ held' = FALSE

\* Mutant: an off-by-one in the test of the id.
StopWatchOffByOne ==
  /\ pc["stop"] = "idle" /\ pc["start"] = "started"
  /\ watch_id <= 1 /\ StopReturns(TRUE)
  /\ UNCHANGED <<contextVars, watch_id, deliveries, handled, streamVars, serverVars>>

StopWatch ==
  /\ pc["stop"] = "idle" /\ pc["start"] = "started"
  /\ \/ watch_id <= 0 /\ StopReturns(TRUE) /\ UNCHANGED <<ctx, ops>>
     \/ watch_id > 0 /\ Await("stop", "write", "cancel", "writing")
        /\ UNCHANGED held
  /\ UNCHANGED <<thread, posted, watch_id, deliveries, handled,
                 response, seen, up, down, over, onDone, serverVars>>

\* Mutant: StopWatch does not wait for StartWritesDone.
CancelWithoutWait ==
  /\ Awake("stop", "writing")
  /\ \/ ctx["write"].success /\ Cancel("read") /\ ops' = IF onDone THEN ops ELSE ops \cup {"writesdone"}
     \/ ~ctx["write"].success /\ UNCHANGED <<ctx, ops>>
  /\ StopReturns(ctx["write"].success)
  /\ UNCHANGED <<thread, watch_id, deliveries, handled,
                 response, seen, up, down, over, onDone, serverVars>>

\* The cancel request is written: read_ctx_.Cancel() and StartWritesDone.
CancelWritten ==
  /\ Awake("stop", "writing")
  /\ \/ /\ ctx["write"].success /\ ~ctx["write"].mu
        /\ ctx' = [ctx EXCEPT !["read"].cancel = TRUE, !["write"].resumer = <<"stop">>]
        /\ Begin("stop", "writesdone", "closing")
        /\ UNCHANGED held
     \/ ~ctx["write"].success /\ StopReturns(FALSE) /\ UNCHANGED <<ctx, ops>>
  /\ UNCHANGED <<thread, watch_id, deliveries, handled,
                 response, seen, up, down, over, onDone, serverVars>>

Stopped ==
  /\ Awake("stop", "closing")
  /\ StopReturns(ctx["write"].success)
  /\ UNCHANGED <<ctx, thread, watch_id, deliveries, handled, streamVars, serverVars>>

\* Changes of watched keys: client->Put of PusKeyEvery, or a transaction of
\* another client.  etcd sends them in one response when the watch exists.
Change ==
  \E n \in 1 .. MaxChanges - made :
    /\ made' = made + n
    /\ down' = IF watching THEN Append(down, Response("change", 0, made + 1 .. made + n))
               ELSE down
    /\ UNCHANGED <<contextVars, userVars, response, seen, ops, up, over, onDone, watching>>

----------------------------------------------------------------------------
(* gRPC and etcd.                                                          *)

\* OnWriteDone and OnWritesDoneDone; op fails once the RPC is over.
OnWriteDone(op) ==
  /\ op \in ops /\ thread["write"].at = "out"
  /\ ops' = ops \ {op}
  /\ up' = IF over THEN up ELSE Append(up, op)
  /\ CallResumeContext("write", ~over)
  /\ UNCHANGED <<ctx, posted, userVars, response, seen, down, over, onDone, serverVars>>

OnReadDone ==
  /\ "read" \in ops /\ thread["read"].at = "out"
  /\ ops' = ops \ {"read"}
  /\ \/ /\ down # <<>>
        /\ response' = Head(down) /\ down' = Tail(down)
        /\ seen' = seen \cup Head(down).changes
        /\ CallResumeContext("read", TRUE)
     \/ /\ over /\ down = <<>>
        /\ CallResumeContext("read", FALSE) /\ UNCHANGED <<response, seen, down>>
  /\ UNCHANGED <<ctx, posted, userVars, up, over, onDone, serverVars>>

OnDone ==
  /\ over /\ ~onDone /\ ops = {} /\ \A c \in Direction : thread[c].at = "out"
  /\ onDone' = TRUE
  /\ Cancel("read")
  /\ UNCHANGED <<thread, posted, userVars, response, seen, ops, up, down, over, serverVars>>

\* etcd takes the next request: it creates the watch or refuses to, cancels it,
\* or ends the stream when the client has closed it.
Serve ==
  /\ up # <<>> /\ ~over
  /\ up' = Tail(up)
  /\ \/ /\ Head(up) = "create"
        /\ \E id \in WatchIds : /\ down' = Append(down, Response("created", id, {}))
                                /\ watching' = (id >= 0)
        /\ UNCHANGED over
     \/ /\ Head(up) = "cancel"
        /\ down' = Append(down, Response("canceled", watch_id, {})) /\ watching' = FALSE
        /\ UNCHANGED over
     \/ /\ Head(up) = "writesdone"
        /\ over' = TRUE /\ watching' = FALSE /\ UNCHANGED down
  /\ UNCHANGED <<contextVars, userVars, response, seen, ops, onDone, made>>

\* The connection breaks, with what is on its way.
Break ==
  /\ pc["start"] # "idle" /\ ~over
  /\ over' = TRUE /\ watching' = FALSE /\ up' = <<>>
  /\ \E n \in 0 .. Len(down) : down' = SubSeq(down, 1, n)
  /\ UNCHANGED <<contextVars, userVars, response, seen, ops, onDone, made>>

----------------------------------------------------------------------------
Loop == NextRead \/ HandOver \/ TestCanceled \/ \E v \in 1 .. MaxChanges : Deliver(v)

User == Start \/ ReadCreated \/ Started \/ StopWatch \/ CancelWritten \/ Stopped

Grpc ==
  \/ \E op \in {"create", "cancel", "writesdone"} : OnWriteDone(op)
  \/ OnReadDone \/ OnDone
  \/ \E c \in Direction : ResumeContext(c) /\ UNCHANGED <<userVars, streamVars, serverVars>>

Next == User \/ Loop \/ Change \/ Grpc \/ Serve \/ Break

Spec == Init /\ [][Next]_vars

\* Coroutines and gRPC's threads go on, and etcd takes what was sent.  Nobody
\* has to call StopWatch or to change a key.
Fairness ==
  /\ WF_vars(ReadCreated \/ Started) /\ WF_vars(CancelWritten \/ Stopped)
  /\ WF_vars(NextRead \/ HandOver \/ TestCanceled) /\ WF_vars(Grpc) /\ WF_vars(Serve)

FairSpec == Spec /\ Fairness

----------------------------------------------------------------------------
(* Properties                                                              *)

\* Every change read off the stream is handed to handler_ once, by a coroutine
\* with its own copy of the response (watch_context.cc:66-70): none is lost when
\* the loop is canceled or the stream breaks, and none comes twice.
EveryChangeHandledOnce ==
  LET done == ToSet(handled)
      pending == UNION deliveries
      unread == IF pc["loop"] = "reading" /\ "read" \notin ops THEN response.changes ELSE {}
  IN /\ seen = done \cup pending \cup unread
     /\ Cardinality(done) = Len(handled) /\ done \cap pending = {}

\* CHECK(response.created()) of Start (watch_context.cc:36) holds: the first
\* response is the answer to the request that creates the watch, although etcd
\* sends changes as soon as the watch exists and the stream may break.
FirstResponseCreates ==
  [][Started /\ ctx["read"].success => response.kind = "created"]_vars

\* When the last reference to the context goes no operation is outstanding, and
\* the gRPC threads have nothing left to do in it but to unlock a context.
\* (OnDone may still come.)
NoOperationOutlivesContext ==
  pc["start"] # "idle" /\ ~held /\ deliveries = {} /\ pc["loop"] \in {"idle", "ended"} =>
    ops = {} /\ \A c \in Direction : thread[c].at \in {"out", "unlock"}

\* A stopped watch ends: the caller takes the true result of StopWatch for "stop
\* watch changes done" (test_client.cc:45-46), and a change loop that is in its
\* read or before its test of Canceled() (watch_context.cc:71) does end and let
\* go of the context.  One that has passed the test and not called StartRead yet
\* may be lost: gRPC may be through with the call by then.  This needs an id
\* above 0: Start also accepts 0 (watch_context.cc:42), for which StopWatch does
\* nothing (watch_context.cc:80).
StoppedLoopEnds ==
  pc["stop"] = "stopped" /\ watch_id > 0 /\ pc["loop"] \in {"reading", "again"}
    ~> pc["loop"] = "ended"
=============================================================================
