------------------------ MODULE KeepAliveContextProofs ------------------------
(***************************************************************************)
(* Proofs about KeepAliveContext: that one thing at a time drives the      *)
(* stream, that a half-closed stream is left alone, and that Wait returns  *)
(* for a cause.                                                            *)
(***************************************************************************)
EXTENDS KeepAliveContext, CallContextProofs

Op == {"write", "read", "writesdone"}

\* The types of the variables.
Types ==
  /\ pc \in {"new", "run", "load", "waiting", "left", "resumed"}
  /\ ops \in Seq(Op) /\ posted \in Seq({"caller"})
  /\ ctx \in [{K} -> ContextType({"caller"})] /\ thread \in [{K} -> ThreadType]
  /\ timer \in BOOLEAN /\ checking \in BOOLEAN /\ half \in BOOLEAN
  /\ over \in BOOLEAN /\ onDone \in BOOLEAN /\ late \in BOOLEAN

\* What drives the stream: an outstanding operation, the delayed task or a
\* reaction.  gRPC is through with the call only when nothing of the first kind is
\* left; the delayed task it knows nothing about.
Driven ==
  /\ ops = <<>> \/ \E o \in Op : ops = <<o>>
  /\ ops # <<>> => ~onDone /\ ~timer /\ ~InReaction
  /\ timer /\ ~onDone => ~InReaction
  /\ checking => ~onDone
  /\ ~onDone => ops # <<>> \/ timer \/ InReaction \/ pc = "new" \/ half \/ over
  /\ pc = "new" => ops = <<>> /\ ~timer /\ ~InReaction /\ ~over /\ ~half
  /\ onDone => over

\* Once the stream is half-closed only OnDone reacts.
HalfClosed ==
  /\ half => /\ ~timer /\ ~late /\ ~checking
             /\ ops = <<>> \/ ops = <<"writesdone">>
             /\ thread[K].at # "out" => onDone
  /\ ops = <<"writesdone">> => half
  /\ late => onDone

\* Whoever is in ResumeContext, and whatever it has left there, is there because
\* the RPC is over.
Cause ==
  /\ thread[K].at # "out" => over /\ (thread[K].ok => onDone)
  /\ ctx[K].done => over
  /\ ctx[K].success => onDone
  /\ posted # <<>> => over
  /\ pc \in {"left", "resumed"} => over

StreamInv == Types /\ Driven /\ HalfClosed /\ Cause

\* A started operation is the only one when there was none, and none is left when
\* the only one completes.
LEMMA OneOperation ==
  ASSUME ops = <<>> \/ \E o \in Op : ops = <<o>>
  PROVE  /\ \A x : ops = <<>> => Append(ops, x) = <<x>>
         /\ ops # <<>> => Head(ops) \in Op /\ ops = <<Head(ops)>> /\ Tail(ops) = <<>>
         /\ \A x : ops # <<>> => Append(Tail(ops), x) = <<x>>
         /\ ops \in Seq(Op) /\ \A x \in Op : <<x>> # <<>> /\ <<x>> \in Seq(Op)
  <1>1. \A x : Append(<<>>, x) = <<x>> /\ Head(<<x>>) = x /\ Tail(<<x>>) = <<>> /\ <<x>> # <<>>
    OBVIOUS
  <1>2. <<>> \in Seq(Op) /\ \A x \in Op : <<x>> \in Seq(Op)
    OBVIOUS
  <1>3. CASE ops = <<>>
    BY <1>1, <1>2, <1>3
  <1>4. CASE \E o \in Op : ops = <<o>>
    <2>1. PICK o \in Op : ops = <<o>>
      BY <1>4
    <2>2. Head(ops) = o /\ Tail(ops) = <<>> /\ ops # <<>>
      BY <1>1, <2>1
    <2> QED
      BY <1>1, <1>2, <2>1, <2>2
  <1> QED
    BY <1>3, <1>4

\* Entering ResumeContext changes the thread and nothing else (call_context.cc:8).
LEMMA EnterResume ==
  ASSUME thread \in [{K} -> ThreadType], NEW ok \in BOOLEAN, CallResumeContext(K, ok)
  PROVE  thread' \in [{K} -> ThreadType] /\ thread'[K].at = "success" /\ thread'[K].ok = ok
  BY DEF CallResumeContext, ThreadType

\* The stream before LeaseKeepalive starts it.
LEMMA StreamInit == Init => StreamInv
  <1> SUFFICES ASSUME Init PROVE StreamInv
    OBVIOUS
  <1>1. /\ ctx \in [{K} -> ContextType({"caller"})] /\ thread \in [{K} -> ThreadType]
        /\ ~ctx[K].done /\ ~ctx[K].success /\ thread[K].at = "out"
    BY DEF Init, NewContext, Outside, ContextType, ThreadType
  <1>2. Types
    <2>1. ops \in Seq(Op) /\ posted \in Seq({"caller"})
      BY DEF Init
    <2> QED
      BY <1>1, <2>1, Zenon DEF Init, Types
  <1>3. Driven /\ HalfClosed /\ Cause
    BY <1>1 DEF Init, Driven, HalfClosed, Cause, InReaction
  <1> QED
    BY <1>2, <1>3 DEF StreamInv

\* The steps of the coroutine: LeaseKeepalive, Cancel, Wait and its resumption.
LEMMA StreamCoroutine ==
  ASSUME StreamInv, Start \/ CancelKeepAlive \/ Coroutine
  PROVE  StreamInv'
  <1> USE DEF StreamInv
  <1>1. CASE Start
    <2>1. /\ pc = "new" /\ pc' = "run" /\ ops = <<>> /\ ops' = <<"write">> /\ ops' \in Seq(Op)
          /\ UNCHANGED <<ctx, thread, posted, timer, checking, half, over, onDone, late>>
      BY <1>1, OneOperation DEF Start, StartOp, contextVars, Driven, Op
    <2>2. ops' # <<>> /\ "write" \in Op
      BY <2>1 DEF Op
    <2>3. ~half /\ ~onDone
      BY <2>1 DEF Driven
    <2> QED
      BY <2>1, <2>2, <2>3 DEF Types, Driven, HalfClosed, Cause, InReaction
  <1>2. CASE CancelKeepAlive
    <2>1. /\ ctx' \in [{K} -> ContextType({"caller"})]
          /\ ctx'[K].done = ctx[K].done /\ ctx'[K].success = ctx[K].success
          /\ UNCHANGED <<thread, posted, pc, ops, timer, checking, half, over, onDone, late>>
      BY <1>2 DEF CancelKeepAlive, Cancel, streamVars, Types, ContextType
    <2> QED
      BY <2>1 DEF Types, Driven, HalfClosed, Cause, InReaction
  <1>3. CASE pc = "run" /\ LockContext(K, "caller") /\ pc' = "load" /\ UNCHANGED <<thread, posted, streamVars>>
    <2>1. /\ ctx' \in [{K} -> ContextType({"caller"})]
          /\ ctx'[K].done = ctx[K].done /\ ctx'[K].success = ctx[K].success
      <3>1. K \in {K} /\ "caller" \in {"caller"} /\ ctx \in [{K} -> ContextType({"caller"})]
        BY DEF Types
      <3> QED
        BY <1>3, <3>1, LockStep
    <2>2. UNCHANGED <<thread, posted, ops, timer, checking, half, over, onDone, late>>
      BY <1>3 DEF streamVars
    <2> QED
      BY <1>3, <2>1, <2>2 DEF Types, Driven, HalfClosed, Cause, InReaction
  <1>4. CASE pc = "load" /\ pc' = (IF ctx[K].done THEN "left" ELSE "waiting") /\ UNCHANGED <<contextVars, streamVars>>
    <2>1. UNCHANGED <<ctx, thread, posted, ops, timer, checking, half, over, onDone, late>>
      BY <1>4 DEF streamVars, contextVars
    <2> QED
      BY <1>4, <2>1 DEF Types, Driven, HalfClosed, Cause, InReaction
  <1>5. CASE Resumed
    <2>1. /\ pc = "waiting" /\ pc' = "resumed" /\ posted # <<>> /\ posted' = Tail(posted)
          /\ UNCHANGED <<ctx, thread, ops, timer, checking, half, over, onDone, late>>
      BY <1>5 DEF Resumed, Resume, streamVars
    <2>2. posted' \in Seq({"caller"})
      BY <2>1 DEF Types
    <2> QED
      BY <2>1, <2>2 DEF Types, Driven, HalfClosed, Cause, InReaction
  <1> QED
    BY <1>1, <1>2, <1>3, <1>4, <1>5 DEF Coroutine, Wait

\* OnWriteDone (keepalive_ctx.cc:74-79).
LEMMA StreamWriteDone == ASSUME StreamInv, OnWriteDone PROVE StreamInv'
  <1> USE DEF StreamInv
  <1>1. /\ thread[K].at = "out" /\ ~checking /\ ops # <<>> /\ Head(ops) = "write"
        /\ UNCHANGED <<ctx, posted, pc, timer, checking, half, over, onDone, late>>
    BY DEF OnWriteDone, Completes, InReaction
  <1>2. ops = <<"write">> /\ ~half /\ ~onDone /\ ~timer /\ pc # "new"
    BY <1>1, OneOperation DEF Driven, HalfClosed
  <1>3. CASE ~over /\ ops' = Append(Tail(ops), "read") /\ UNCHANGED thread
    <2>1. ops' = <<"read">> /\ ops' \in Seq(Op) /\ ops' # <<>> /\ "read" \in Op
      BY <1>1, <1>3, OneOperation DEF Driven, Op
    <2> QED
      BY <1>1, <1>2, <1>3, <2>1 DEF Types, Driven, HalfClosed, Cause, InReaction
  <1>4. CASE over /\ ops' = Tail(ops) /\ CallResumeContext(K, FALSE)
    <2>1. thread' \in [{K} -> ThreadType] /\ thread'[K].at = "success" /\ ~thread'[K].ok
      BY <1>4, EnterResume DEF Types
    <2>2. ops' = <<>> /\ ops' \in Seq(Op)
      BY <1>1, <1>4, OneOperation DEF Driven
    <2> QED
      BY <1>1, <1>2, <1>4, <2>1, <2>2 DEF Types, Driven, HalfClosed, Cause, InReaction
  <1> QED
    BY <1>3, <1>4 DEF OnWriteDone

\* The first half of OnReadDone (keepalive_ctx.cc:56-62).
LEMMA StreamReadDone == ASSUME StreamInv, OnReadDone PROVE StreamInv'
  <1> USE DEF StreamInv
  <1>1. /\ thread[K].at = "out" /\ ~checking /\ ops # <<>> /\ Head(ops) = "read"
        /\ ops' = Tail(ops) /\ checking'
        /\ IF over THEN CallResumeContext(K, FALSE) ELSE UNCHANGED thread
        /\ UNCHANGED <<ctx, posted, pc, timer, half, over, onDone, late>>
    BY DEF OnReadDone, Completes, InReaction
  <1>2. ops = <<"read">> /\ ~half /\ ~onDone /\ ~timer /\ pc # "new"
    BY <1>1, OneOperation DEF Driven, HalfClosed
  <1>3. ops' = <<>> /\ ops' \in Seq(Op) /\ checking' = TRUE
    BY <1>1, OneOperation DEF Driven, OnReadDone
  <1>4. /\ thread' \in [{K} -> ThreadType]
        /\ thread'[K].at # "out" => over /\ ~thread'[K].ok
    BY <1>1, EnterResume DEF Types
  <1> QED
    BY <1>1, <1>2, <1>3, <1>4 DEF Types, Driven, HalfClosed, Cause, InReaction

\* The second half of OnReadDone (keepalive_ctx.cc:64-72).
LEMMA StreamCheck == ASSUME StreamInv, CheckCanceled PROVE StreamInv'
  <1> USE DEF StreamInv
  <1>1. /\ checking /\ checking' = FALSE /\ thread[K].at = "out"
        /\ UNCHANGED <<ctx, thread, posted, pc, over, onDone, late>>
    BY DEF CheckCanceled, contextVars
  <1>2. ops = <<>> /\ ~timer /\ ~onDone /\ ~half /\ ~late /\ pc # "new"
    BY <1>1 DEF Driven, HalfClosed, InReaction
  <1>3. CASE StartOp("writesdone") /\ half' = TRUE /\ UNCHANGED timer
    <2>1. ops' = <<"writesdone">> /\ ops' \in Seq(Op) /\ ops' # <<>> /\ "writesdone" \in Op
      BY <1>2, <1>3, OneOperation DEF Driven, StartOp, Op
    <2> QED
      BY <1>1, <1>2, <1>3, <2>1 DEF Types, Driven, HalfClosed, Cause, InReaction
  <1>4. CASE timer' = TRUE /\ UNCHANGED <<ops, half>>
    BY <1>1, <1>2, <1>4 DEF Types, Driven, HalfClosed, Cause, InReaction
  <1> QED
    BY <1>3, <1>4 DEF CheckCanceled

\* OnWritesDoneDone, the delayed StartWrite, OnDone and the end of the RPC.
LEMMA StreamEnd ==
  ASSUME StreamInv, OnWritesDoneDone \/ DelayedWrite \/ OnDone \/ End
  PROVE  StreamInv'
  <1> USE DEF StreamInv
  <1>1. CASE OnWritesDoneDone
    <2>1. /\ thread[K].at = "out" /\ ~checking /\ ops # <<>> /\ Head(ops) = "writesdone"
          /\ ops' = Tail(ops)
          /\ UNCHANGED <<ctx, thread, posted, pc, timer, checking, half, over, onDone, late>>
      BY <1>1 DEF OnWritesDoneDone, Completes, InReaction, contextVars
    <2>2. ops = <<"writesdone">> /\ ops' = <<>> /\ ops' \in Seq(Op)
      BY <2>1, OneOperation DEF Driven
    <2>3. half
      BY <2>2 DEF HalfClosed
    <2> QED
      BY <2>1, <2>2, <2>3 DEF Types, Driven, HalfClosed, Cause, InReaction
  <1>2. CASE DelayedWrite
    <2>1. /\ timer /\ timer' = FALSE
          /\ UNCHANGED <<ctx, thread, posted, pc, checking, half, over, onDone>>
      BY <1>2 DEF DelayedWrite, contextVars
    <2>2. CASE ~onDone /\ StartOp("write") /\ UNCHANGED late
      <3>1. ops = <<>> /\ ~InReaction /\ ~half /\ pc # "new"
        BY <2>1, <2>2 DEF Driven, HalfClosed
      <3>2. ops' = <<"write">> /\ ops' \in Seq(Op) /\ ops' # <<>> /\ "write" \in Op
        BY <2>2, <3>1, OneOperation DEF Driven, StartOp, Op
      <3> QED
        BY <2>1, <2>2, <3>1, <3>2 DEF Types, Driven, HalfClosed, Cause, InReaction
    <2>3. CASE onDone /\ late' = TRUE /\ UNCHANGED ops
      BY <2>1, <2>3 DEF Types, Driven, HalfClosed, Cause, InReaction
    <2> QED
      BY <1>2, <2>2, <2>3 DEF DelayedWrite
  <1>3. CASE OnDone
    <2>1. /\ over /\ ops = <<>> /\ ~InReaction /\ ~onDone /\ onDone' = TRUE
          /\ UNCHANGED <<ctx, posted, pc, ops, timer, checking, half, over, late>>
      BY <1>3 DEF OnDone
    <2>2. PICK ok \in BOOLEAN : CallResumeContext(K, ok)
      BY <1>3 DEF OnDone
    <2>3. thread' \in [{K} -> ThreadType]
      BY <2>2, EnterResume DEF Types
    <2> QED
      BY <2>1, <2>3 DEF Types, Driven, HalfClosed, Cause, InReaction
  <1>4. CASE End
    <2>1. /\ pc # "new" /\ over' = TRUE
          /\ UNCHANGED <<ctx, thread, posted, pc, ops, timer, checking, half, onDone, late>>
      BY <1>4 DEF End, contextVars
    <2> QED
      BY <2>1 DEF Types, Driven, HalfClosed, Cause, InReaction
  <1> QED
    BY <1>1, <1>2, <1>3, <1>4

\* A step of ResumeContext.
LEMMA StreamResume ==
  ASSUME StreamInv, ResumeContext(K), UNCHANGED <<pc, streamVars>>
  PROVE  StreamInv'
  <1> USE DEF StreamInv
  <1>1. UNCHANGED <<pc, ops, timer, checking, half, over, onDone, late>>
    BY DEF streamVars
  <1>2. /\ ctx' \in [{K} -> ContextType({"caller"})] /\ thread' \in [{K} -> ThreadType]
        /\ posted' \in Seq({"caller"})
        /\ ctx'[K].success = IF thread[K].at = "success" THEN thread[K].ok ELSE ctx[K].success
        /\ ctx'[K].done = (thread[K].at = "done" \/ ctx[K].done)
        /\ thread[K].at # "out" /\ thread'[K].ok = thread[K].ok
    <2>1. /\ ctx \in [{K} -> ContextType({"caller"})] /\ thread \in [{K} -> ThreadType]
          /\ posted \in Seq({"caller"}) /\ K \in {K} /\ ResumeContext(K)
      BY DEF Types
    <2>2. Resuming({K}, {"caller"}, K)
      BY <2>1, ResumeStep
    <2> QED
      BY <2>2 DEF Resuming
  <1>3. over /\ pc # "new"
    BY <1>2 DEF Driven, InReaction, Cause
  <1>4. Cause'
    BY <1>1, <1>2, <1>3 DEF Cause
  <1> QED
    BY <1>1, <1>2, <1>3, <1>4 DEF Types, Driven, HalfClosed, InReaction

\* The invariant of the stream is kept by the coroutine, by the reactions on gRPC's
\* threads and by the delayed task.
LEMMA StreamInvariant == Spec => []StreamInv
  <1>1. StreamInv /\ [Next]_vars => StreamInv'
    <2> SUFFICES ASSUME StreamInv, [Next]_vars
                 PROVE  StreamInv'
      OBVIOUS
    <2>1. CASE Start \/ CancelKeepAlive \/ Coroutine
      BY <2>1, StreamCoroutine
    <2>2. CASE Reaction
      BY <2>2, StreamWriteDone, StreamReadDone, StreamCheck, StreamEnd, StreamResume DEF Reaction
    <2>3. CASE DelayedWrite \/ End
      BY <2>3, StreamEnd
    <2>4. CASE UNCHANGED vars
      BY <2>4 DEF vars, contextVars, streamVars, StreamInv, Types, Driven, HalfClosed, Cause,
         InReaction
    <2> QED
      BY <2>1, <2>2, <2>3, <2>4 DEF Next
  <1> QED
    BY <1>1, StreamInit, PTL DEF Spec

----------------------------------------------------------------------------
\* One thing at a time drives the stream, an operation, a reaction or the delayed
\* task, so that request_ and response_ are never used by two of them; and while
\* the RPC goes on there always is one (keepalive_ctx.cc:56-79).
THEOREM DrivenByOne == Spec => []OneDriver
  <1>1. StreamInv => OneDriver
    <2> SUFFICES ASSUME StreamInv, ~onDone
                 PROVE  /\ Len(ops) <= 1
                        /\ \A x, y \in Driver : x = y
                        /\ Driver = {} => pc = "new" \/ half \/ over
      BY DEF OneDriver
    <2>1. Len(ops) <= 1
      <3>1. Len(<<>>) <= 1 /\ \A o \in Op : Len(<<o>>) <= 1
        OBVIOUS
      <3> QED
        BY <3>1, Zenon DEF StreamInv, Driven
    <2>2. \A x, y \in Driver : x = y
      BY DEF StreamInv, Driven, Driver
    <2>3. Driver = {} => ops = <<>> /\ ~timer /\ ~InReaction
      BY DEF Driver
    <2> QED
      BY <2>1, <2>2, <2>3 DEF StreamInv, Driven
  <1> QED
    BY <1>1, StreamInvariant, PTL

\* Once StartWritesDone was called nothing writes to the stream or reads from it,
\* and the delayed task does not meet a call that is done (keepalive_ctx.cc:64-72).
THEOREM HalfClosedIsQuiet == Spec => []QuietAfterWritesDone
  <1>1. StreamInv => QuietAfterWritesDone
    <2> SUFFICES ASSUME StreamInv, half
                 PROVE  ~timer /\ ~late /\ \A i \in DOMAIN ops : ops[i] = "writesdone"
      BY DEF QuietAfterWritesDone
    <2>1. \A i \in DOMAIN <<"writesdone">> : <<"writesdone">>[i] = "writesdone"
      OBVIOUS
    <2>2. \A i \in DOMAIN <<>> : FALSE
      OBVIOUS
    <2> QED
      BY <2>1, <2>2 DEF StreamInv, HalfClosed
  <1> QED
    BY <1>1, StreamInvariant, PTL

\* Wait returns only after the stream has failed or ended, and Success() then tells
\* of success only when OnDone did (keepalive_ctx.cc:41-54).
THEOREM WaitHasCause == Spec => []WaitReturnsForCause
  <1>1. StreamInv => WaitReturnsForCause
    BY DEF StreamInv, Cause, WaitReturnsForCause
  <1> QED
    BY <1>1, StreamInvariant, PTL

----------------------------------------------------------------------------
(* The race between Wait and ResumeContext.                                *)

\* A gRPC thread is in ResumeContext and has yet to call the resumer.
WillResume == thread[K].at \in {"success", "done", "lock", "resume"}

\* A coroutine that yielded in Wait is resumed or about to be, once gRPC is through
\* with the call or done_ is set, whichever way LockContext, the load of done_ and
\* the steps of ResumeContext interleave (call_context.cc:8-24).
NoWakeUpLost ==
  pc = "waiting" /\ (onDone \/ ctx[K].done) => WillResume \/ posted # <<>>

\* The resumer is set before done_ is read, and done_ before the resumer is called.
Waking ==
  /\ pc \in {"load", "waiting"} => ctx[K].resumer = <<"caller">>
  /\ onDone => ctx[K].done \/ thread[K].at \in {"success", "done"}
  /\ pc = "waiting" /\ ctx[K].done => WillResume \/ posted # <<>>

\* The coroutine: LeaseKeepalive, Cancel, Wait and its resumption.
LEMMA WakingCoroutine ==
  ASSUME StreamInv, Waking, Start \/ CancelKeepAlive \/ Coroutine
  PROVE  Waking'
  <1>1. ctx \in [{K} -> ContextType({"caller"})]
    BY DEF StreamInv, Types
  <1>2. CASE Start
    BY <1>2 DEF Start, Waking, WillResume, contextVars
  <1>3. CASE CancelKeepAlive
    <2>1. ctx'[K].resumer = ctx[K].resumer /\ ctx'[K].done = ctx[K].done
      BY <1>1, <1>3, CancelStep DEF CancelKeepAlive
    <2> QED
      BY <1>3, <2>1 DEF CancelKeepAlive, streamVars, Waking, WillResume
  <1>4. CASE pc = "run" /\ LockContext(K, "caller") /\ pc' = "load" /\ UNCHANGED <<thread, posted, streamVars>>
    <2>1. ctx'[K].resumer = <<"caller">> /\ ctx'[K].done = ctx[K].done
      <3>1. K \in {K} /\ "caller" \in {"caller"}
        OBVIOUS
      <3>2. LockContext(K, "caller")
        BY <1>4
      <3> QED
        BY <1>1, <3>1, <3>2, LockStep
    <2> QED
      BY <1>4, <2>1 DEF streamVars, Waking, WillResume
  <1>5. CASE pc = "load" /\ pc' = (IF ctx[K].done THEN "left" ELSE "waiting") /\ UNCHANGED <<contextVars, streamVars>>
    BY <1>5 DEF contextVars, streamVars, Waking, WillResume
  <1>6. CASE Resumed
    BY <1>6 DEF Resumed, streamVars, Waking, WillResume
  <1> QED
    BY <1>2, <1>3, <1>4, <1>5, <1>6 DEF Coroutine, Wait

\* A reaction that enters ResumeContext, and the steps that leave the context alone.
LEMMA WakingReaction ==
  ASSUME StreamInv, Waking,
         OnWriteDone \/ OnReadDone \/ CheckCanceled \/ OnWritesDoneDone \/ OnDone
           \/ DelayedWrite \/ End \/ UNCHANGED vars
  PROVE  Waking'
  <1>1. ASSUME NEW ok \in BOOLEAN, CallResumeContext(K, ok), UNCHANGED <<ctx, posted, pc>>
        PROVE  Waking'
    <2>1. thread'[K].at = "success"
      BY <1>1, EnterResume DEF StreamInv, Types
    <2> QED
      BY <1>1, <2>1 DEF Waking, WillResume
  <1>2. ASSUME UNCHANGED <<ctx, thread, posted, pc, onDone>> PROVE Waking'
    BY <1>2 DEF Waking, WillResume
  <1>3. CASE OnWriteDone \/ OnReadDone
    BY <1>1, <1>2, <1>3 DEF OnWriteDone, OnReadDone
  <1>4. CASE OnDone
    BY <1>1, <1>4 DEF OnDone
  <1>5. CASE CheckCanceled \/ OnWritesDoneDone \/ DelayedWrite \/ End \/ UNCHANGED vars
    BY <1>2, <1>5 DEF CheckCanceled, OnWritesDoneDone, DelayedWrite, End, vars, contextVars, streamVars
  <1> QED
    BY <1>3, <1>4, <1>5

\* A step of ResumeContext: with a resumer there is something to post.
LEMMA WakingResume ==
  ASSUME StreamInv, Waking, ResumeContext(K), UNCHANGED <<pc, streamVars>>
  PROVE  Waking'
  <1>1. /\ ctx \in [{K} -> ContextType({"caller"})] /\ thread \in [{K} -> ThreadType]
        /\ posted \in Seq({"caller"}) /\ K \in {K}
    BY DEF StreamInv, Types
  <1>2. Resuming({K}, {"caller"}, K)
    BY <1>1, ResumeStep
  <1>3. /\ ctx'[K].resumer = ctx[K].resumer /\ ctx'[K].done = (thread[K].at = "done" \/ ctx[K].done)
        /\ thread'[K].at = NextPlace(thread[K].at) /\ thread[K].at # "out"
        /\ posted' = IF thread[K].at = "resume" THEN posted \o ctx[K].resumer ELSE posted
    BY <1>2 DEF Resuming
  <1>4. thread[K].at \in {"success", "done", "lock", "resume", "unlock"}
    BY <1>1, <1>3 DEF ThreadType
  <1>5. ASSUME pc = "waiting", thread[K].at = "resume" PROVE posted' # <<>>
    <2>1. posted' = posted \o <<"caller">>
      BY <1>3, <1>5 DEF Waking
    <2> QED
      BY <1>1, <2>1
  <1>6. thread[K].at # "resume" => posted' = posted
    BY <1>3
  <1>7. /\ WillResume => WillResume' \/ thread[K].at = "resume"
        /\ thread[K].at = "done" => WillResume'
        /\ thread[K].at = "success" => thread'[K].at = "done"
    BY <1>3, <1>4 DEF NextPlace, WillResume
  <1>8. onDone' => ctx'[K].done \/ thread'[K].at \in {"success", "done"}
    <2>1. onDone' = onDone
      BY DEF streamVars
    <2> QED
      BY <1>3, <1>7, <2>1 DEF Waking
  <1>9. ASSUME pc' = "waiting", ctx'[K].done PROVE WillResume' \/ posted' # <<>>
    <2>1. pc = "waiting"
      BY <1>9
    <2>2. CASE thread[K].at = "resume"
      BY <1>5, <2>1, <2>2
    <2>3. CASE thread[K].at = "done"
      BY <1>7, <2>3
    <2>4. CASE thread[K].at \notin {"resume", "done"}
      BY <1>3, <1>6, <1>7, <1>9, <2>1, <2>4 DEF Waking
    <2> QED
      BY <2>2, <2>3, <2>4
  <1> QED
    BY <1>3, <1>8, <1>9 DEF Waking

\* A coroutine in Wait cannot miss the end of the stream: whenever gRPC is through
\* with the call, its resumption is posted or some thread is on its way to post it.
\* Together with the fairness of the threads this is what WaitIsResumed needs
\* (keepalive_ctx.cc:41-54, call_context.cc:8-24).
THEOREM WaitMissesNothing == Spec => []NoWakeUpLost
  <1>1. Init => Waking
    BY DEF Init, Waking
  <1>2. StreamInv /\ Waking /\ [Next]_vars => Waking'
    BY WakingCoroutine, WakingReaction, WakingResume DEF Next, Reaction
  <1>3. Waking => NoWakeUpLost
    BY DEF Waking, NoWakeUpLost, WillResume
  <1> QED
    BY <1>1, <1>2, <1>3, StreamInvariant, PTL DEF Spec
=============================================================================
