-------------------------- MODULE KeepAliveContext --------------------------
(***************************************************************************)
(* content/etcdv3/context/keepalive_ctx: the bidirectional stream that     *)
(* keeps a lease alive, as LeaseKeepalive starts it and the example        *)
(* (TestKeepAlive in examples/etcdclient/test_client.cc) uses it.          *)
(*                                                                         *)
(* gRPC runs the reactions one at a time here, because each of them starts *)
(* at most one operation, and OnDone after all of them; the delayed write  *)
(* is a task of the loop, which gRPC knows nothing about.                  *)
(*                                                                         *)
(* The owner keeps the context.  TestKeepAlive drops it when Wait has      *)
(* returned, which may be while OnReadDone is between ResumeContext and    *)
(* shared_from_this and is always possible before OnDone; what then runs   *)
(* in a destroyed object is not modelled.                                  *)
(***************************************************************************)
EXTENDS CallContext

K == "keepalive"     \* the one context

VARIABLES
  pc,        \* the coroutine that owns the stream
  ops,       \* writes, reads and writesdones started and not completed
  timer,     \* the delayed StartWrite is posted
  checking,  \* OnReadDone has yet to look at Canceled()
  half,      \* StartWritesDone was called
  over,      \* the server ended the RPC, or the connection is lost
  onDone,    \* gRPC is through with the call
  late       \* StartWrite was called on a call gRPC is through with

streamVars == <<ops, timer, checking, half, over, onDone, late>>
vars == <<contextVars, pc, streamVars>>

Init ==
  /\ ctx = [c \in {K} |-> NewContext]
  /\ thread = [c \in {K} |-> Outside]
  /\ posted = <<>> /\ pc = "new" /\ ops = <<>>
  /\ timer = FALSE /\ checking = FALSE /\ half = FALSE
  /\ over = FALSE /\ onDone = FALSE /\ late = FALSE

StartOp(op) == ops' = Append(ops, op)

----------------------------------------------------------------------------
(* The coroutine: LeaseKeepalive, any time later Wait.                     *)

Start ==
  /\ pc = "new"
  /\ StartOp("write")
  /\ pc' = "run"
  /\ UNCHANGED <<contextVars, timer, checking, half, over, onDone, late>>

\* Mutant: Cancel half-closes the stream itself.
CancelAtOnce ==
  /\ pc # "new" /\ ~ctx[K].cancel
  /\ Cancel(K)
  /\ StartOp("writesdone") /\ half' = TRUE
  /\ UNCHANGED <<thread, posted, pc, timer, checking, over, onDone, late>>

\* Cancel only sets the flag; whoever holds the context may call it.
CancelKeepAlive ==
  /\ pc # "new" /\ ~ctx[K].cancel
  /\ Cancel(K)
  /\ UNCHANGED <<thread, posted, pc, streamVars>>

\* Mutant: done_ is read before resumer_ is set.
LoadThenLock ==
  \/ /\ pc = "run"
     /\ pc' = IF ctx[K].done THEN "left" ELSE "load"
     /\ UNCHANGED <<contextVars, streamVars>>
  \/ /\ pc = "load"
     /\ LockContext(K, "caller")
     /\ pc' = "waiting"
     /\ UNCHANGED <<thread, posted, streamVars>>

\* Wait: LockContext sets the resumer, then reads done_; if it is not set the
\* coroutine yields.
Wait ==
  \/ /\ pc = "run"
     /\ LockContext(K, "caller")
     /\ pc' = "load"
     /\ UNCHANGED <<thread, posted, streamVars>>
  \/ /\ pc = "load"
     /\ pc' = IF ctx[K].done THEN "left" ELSE "waiting"
     /\ UNCHANGED <<contextVars, streamVars>>

Resumed ==
  /\ pc = "waiting"
  /\ Resume("caller")
  /\ pc' = "resumed"
  /\ UNCHANGED <<ctx, thread, streamVars>>

----------------------------------------------------------------------------
(* The reactions, on gRPC threads, and the delayed task, on the loop.      *)

InReaction == thread[K].at # "out" \/ checking

\* Operation op completes; it fails once the RPC is over.
Completes(op) ==
  /\ ~InReaction
  /\ ops # <<>> /\ Head(ops) = op

OnWriteDone ==
  /\ Completes("write")
  /\ \/ ~over /\ ops' = Append(Tail(ops), "read") /\ UNCHANGED thread
     \/ over /\ ops' = Tail(ops) /\ CallResumeContext(K, FALSE)
  /\ UNCHANGED <<ctx, posted, pc, timer, checking, half, over, onDone, late>>

\* Mutant: every read resumes the context.
OnReadDoneResumes ==
  /\ Completes("read")
  /\ ops' = Tail(ops)
  /\ CallResumeContext(K, ~over)
  /\ checking' = TRUE
  /\ UNCHANGED <<ctx, posted, pc, timer, half, over, onDone, late>>

\* A failed read resumes the context and goes on like a good one.
OnReadDone ==
  /\ Completes("read")
  /\ ops' = Tail(ops)
  /\ IF over THEN CallResumeContext(K, FALSE) ELSE UNCHANGED thread
  /\ checking' = TRUE
  /\ UNCHANGED <<ctx, posted, pc, timer, half, over, onDone, late>>

\* Mutant: the return after StartWritesDone is missing.
CheckWithoutReturn ==
  /\ checking /\ thread[K].at = "out"
  /\ checking' = FALSE
  /\ IF ctx[K].cancel THEN StartOp("writesdone") /\ half' = TRUE ELSE UNCHANGED <<ops, half>>
  /\ timer' = TRUE
  /\ UNCHANGED <<contextVars, pc, over, onDone, late>>

\* Mutant: OnReadDone never looks at Canceled().
NeverCheck ==
  /\ checking /\ thread[K].at = "out"
  /\ checking' = FALSE
  /\ timer' = TRUE
  /\ UNCHANGED <<contextVars, pc, ops, half, over, onDone, late>>

\* The second half of OnReadDone.
CheckCanceled ==
  /\ checking /\ thread[K].at = "out"
  /\ checking' = FALSE
  /\ \/ ctx[K].cancel /\ StartOp("writesdone") /\ half' = TRUE /\ UNCHANGED timer
     \/ ~ctx[K].cancel /\ timer' = TRUE /\ UNCHANGED <<ops, half>>
  /\ UNCHANGED <<contextVars, pc, over, onDone, late>>

OnWritesDoneDone ==
  /\ Completes("writesdone")
  /\ ops' = Tail(ops)
  /\ UNCHANGED <<contextVars, pc, timer, checking, half, over, onDone, late>>

\* The delayed task: it holds a reference to the context, not the call.
DelayedWrite ==
  /\ timer /\ timer' = FALSE
  /\ \/ ~onDone /\ StartOp("write") /\ UNCHANGED late
     \/ onDone /\ late' = TRUE /\ UNCHANGED ops
  /\ UNCHANGED <<contextVars, pc, checking, half, over, onDone>>

\* The status has come and nothing is outstanding.
OnDone ==
  /\ over /\ ops = <<>> /\ ~InReaction /\ ~onDone
  /\ onDone' = TRUE
  /\ \E ok \in BOOLEAN : CallResumeContext(K, ok)
  /\ UNCHANGED <<ctx, posted, pc, ops, timer, checking, half, over, late>>

\* The server ends the RPC, or the connection breaks.
End ==
  /\ pc # "new" /\ ~over /\ over' = TRUE
  /\ UNCHANGED <<contextVars, pc, ops, timer, checking, half, onDone, late>>

----------------------------------------------------------------------------
Coroutine == Wait \/ Resumed

Reaction ==
  \/ OnWriteDone \/ OnReadDone \/ CheckCanceled \/ OnWritesDoneDone \/ OnDone
  \/ ResumeContext(K) /\ UNCHANGED <<pc, streamVars>>

Next == Start \/ CancelKeepAlive \/ Coroutine \/ Reaction \/ DelayedWrite \/ End

Spec == Init /\ [][Next]_vars

\* The loop and gRPC's threads go on, a started operation completes (etcd
\* answers every request), and the server ends a stream that is half-closed.
Fairness ==
  /\ WF_vars(Resumed) /\ WF_vars(pc = "load" /\ Wait) /\ WF_vars(Reaction)
  /\ WF_vars(DelayedWrite) /\ WF_vars(half /\ End)

FairSpec == Spec /\ Fairness

----------------------------------------------------------------------------
(* Properties                                                              *)

Driver == {x \in {"op", "timer", "reaction"} :
             \/ x = "op" /\ ops # <<>>
             \/ x = "timer" /\ timer
             \/ x = "reaction" /\ InReaction}

\* The stream is driven by one thing at a time, an operation, a reaction or the
\* delayed task (request_ and response_ are shared by all of them), and while
\* the RPC goes on never by none (keepalive_ctx.cc:56-79).
OneDriver ==
  ~onDone =>
    /\ Len(ops) <= 1
    /\ \A x, y \in Driver : x = y
    /\ Driver = {} => pc = "new" \/ half \/ over

\* Once the stream is half-closed nothing writes to it or reads from it any
\* more, and a canceled stream is not touched after OnDone.
QuietAfterWritesDone ==
  half => ~timer /\ ~late /\ \A i \in DOMAIN ops : ops[i] = "writesdone"

\* Wait returns for a reason: the stream has failed or ended, and Success()
\* tells of success only when OnDone did.
WaitReturnsForCause ==
  pc \in {"left", "resumed"} => over /\ (ctx[K].success => onDone)

\* "false: mean ResumeContext not call before resumer be set" (keepalive_ctx.cc:45):
\* a coroutine that yields in Wait is resumed once the RPC is over.
WaitIsResumed == pc = "waiting" /\ over ~> pc = "resumed"

\* Cancel ends the stream, whatever the stream is doing when the flag is set.
CanceledStreamEnds == ctx[K].cancel ~> onDone
=============================================================================
