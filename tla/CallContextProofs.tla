-------------------------- MODULE CallContextProofs --------------------------
(***************************************************************************)
(* What one step of CallContext::ResumeContext does to the contexts and    *)
(* the threads, for any set of contexts and of resumers.  The proofs about *)
(* the etcd operations rest on these facts.                                *)
(***************************************************************************)
EXTENDS CallContext, SequenceTheorems, TLAPS

\* The statement of ResumeContext that follows the one at place p.
NextPlace(p) ==
  CASE p = "success" -> "done"
    [] p = "done" -> "lock"
    [] p = "lock" -> "resume"
    [] p = "resume" -> "unlock"
    [] OTHER -> "out"

\* A resumer is a sequence, of one closure or none (call_context.h:73).
LEMMA ResumerIsSequence ==
  ASSUME NEW R, NEW x \in ContextType(R)
  PROVE  x.resumer \in Seq(R)
  <1>1. x.resumer = <<>> \/ \E r \in R : x.resumer = <<r>>
    BY DEF ContextType
  <1>2. <<>> \in Seq(R) /\ \A r \in R : <<r>> \in Seq(R)
    OBVIOUS
  <1> QED
    BY <1>1, <1>2

\* What one step of ResumeContext does to the contexts C and the coroutines R.
Resuming(C, R, c) ==
  /\ ctx' \in [C -> ContextType(R)] /\ thread' \in [C -> ThreadType]
  /\ posted' \in Seq(R)
  /\ \A d \in C : d # c => ctx'[d] = ctx[d] /\ thread'[d] = thread[d]
  /\ ctx'[c].resumer = ctx[c].resumer /\ ctx'[c].cancel = ctx[c].cancel
  /\ ctx'[c].success = IF thread[c].at = "success" THEN thread[c].ok ELSE ctx[c].success
  /\ ctx'[c].done = (thread[c].at = "done" \/ ctx[c].done)
  /\ ctx'[c].mu = IF thread[c].at = "lock" THEN TRUE
                  ELSE IF thread[c].at = "unlock" THEN FALSE ELSE ctx[c].mu
  /\ thread[c].at # "out" /\ (thread[c].at = "lock" => ~ctx[c].mu)
  /\ thread'[c].at = NextPlace(thread[c].at) /\ thread'[c].ok = thread[c].ok
  /\ posted' = IF thread[c].at = "resume" THEN posted \o ctx[c].resumer ELSE posted

\* GoOn moves the thread that resumes c, and leaves its argument.
LEMMA GoOnStep ==
  ASSUME NEW C, thread \in [C -> ThreadType], NEW c \in C, NEW p, GoOn(c, p),
         p \in {"out", "success", "done", "lock", "resume", "unlock"}
  PROVE  /\ thread' \in [C -> ThreadType] /\ thread'[c].ok = thread[c].ok
         /\ thread'[c].at = p
         /\ \A d \in C : d # c => thread'[d] = thread[d]
  <1> DEFINE t == [thread[c] EXCEPT !.at = p]
  <1>1. thread[c] \in ThreadType
    OBVIOUS
  <1>2. t \in ThreadType /\ t.at = p /\ t.ok = thread[c].ok
    BY <1>1 DEF ThreadType
  <1>3. thread' = [thread EXCEPT ![c] = t]
    BY DEF GoOn
  <1> HIDE DEF t
  <1> QED
    BY <1>2, <1>3

\* ResumeContext changes one context, sets its flags, holds its mutex around the
\* call of the resumer and calls that once (call_context.cc:8-17).
LEMMA ResumeStep ==
  ASSUME NEW C, NEW R, ctx \in [C -> ContextType(R)], thread \in [C -> ThreadType],
         posted \in Seq(R), NEW c \in C, ResumeContext(c)
  PROVE  Resuming(C, R, c)
  <1>1. CASE SetSuccess(c)
    <2> DEFINE x == [ctx[c] EXCEPT !.success = thread[c].ok]
    <2>1. /\ thread' \in [C -> ThreadType] /\ thread'[c].ok = thread[c].ok
          /\ thread'[c].at = "done" /\ \A d \in C : d # c => thread'[d] = thread[d]
      BY <1>1, GoOnStep DEF SetSuccess
    <2>2. /\ x \in ContextType(R) /\ x.success = thread[c].ok
          /\ x.done = ctx[c].done /\ x.cancel = ctx[c].cancel /\ x.mu = ctx[c].mu /\ x.resumer = ctx[c].resumer
      BY DEF ContextType, ThreadType
    <2>3. /\ thread[c].at = "success" /\ posted' = posted
          /\ ctx' = [ctx EXCEPT ![c] = x]
      BY <1>1 DEF SetSuccess
    <2> HIDE DEF x
    <2>4. ctx' \in [C -> ContextType(R)] /\ ctx'[c] = x /\ \A d \in C : d # c => ctx'[d] = ctx[d]
      BY <2>2, <2>3
    <2>5. NextPlace(thread[c].at) = "done"
      BY <2>3 DEF NextPlace
    <2>6. ctx[c].done \in BOOLEAN
      BY DEF ContextType
    <2> QED
      BY <2>1, <2>2, <2>3, <2>4, <2>5, <2>6 DEF Resuming
  <1>2. CASE SetDone(c)
    <2> DEFINE x == [ctx[c] EXCEPT !.done = TRUE]
    <2>1. /\ thread' \in [C -> ThreadType] /\ thread'[c].ok = thread[c].ok
          /\ thread'[c].at = "lock" /\ \A d \in C : d # c => thread'[d] = thread[d]
      BY <1>2, GoOnStep DEF SetDone
    <2>2. /\ x \in ContextType(R) /\ x.done = TRUE
          /\ x.success = ctx[c].success /\ x.cancel = ctx[c].cancel /\ x.mu = ctx[c].mu /\ x.resumer = ctx[c].resumer
      BY DEF ContextType, ThreadType
    <2>3. /\ thread[c].at = "done" /\ posted' = posted
          /\ ctx' = [ctx EXCEPT ![c] = x]
      BY <1>2 DEF SetDone
    <2> HIDE DEF x
    <2>4. ctx' \in [C -> ContextType(R)] /\ ctx'[c] = x /\ \A d \in C : d # c => ctx'[d] = ctx[d]
      BY <2>2, <2>3
    <2>5. NextPlace(thread[c].at) = "lock"
      BY <2>3 DEF NextPlace
    <2>6. ctx[c].done \in BOOLEAN
      BY DEF ContextType
    <2> QED
      BY <2>1, <2>2, <2>3, <2>4, <2>5, <2>6 DEF Resuming
  <1>3. CASE Lock(c)
    <2> DEFINE x == [ctx[c] EXCEPT !.mu = TRUE]
    <2>1. /\ thread' \in [C -> ThreadType] /\ thread'[c].ok = thread[c].ok
          /\ thread'[c].at = "resume" /\ \A d \in C : d # c => thread'[d] = thread[d]
      BY <1>3, GoOnStep DEF Lock
    <2>2. /\ x \in ContextType(R) /\ x.mu = TRUE
          /\ x.success = ctx[c].success /\ x.done = ctx[c].done /\ x.cancel = ctx[c].cancel /\ x.resumer = ctx[c].resumer
      BY DEF ContextType, ThreadType
    <2>3. /\ thread[c].at = "lock" /\ ~ctx[c].mu /\ posted' = posted
          /\ ctx' = [ctx EXCEPT ![c] = x]
      BY <1>3 DEF Lock
    <2> HIDE DEF x
    <2>4. ctx' \in [C -> ContextType(R)] /\ ctx'[c] = x /\ \A d \in C : d # c => ctx'[d] = ctx[d]
      BY <2>2, <2>3
    <2>5. NextPlace(thread[c].at) = "resume"
      BY <2>3 DEF NextPlace
    <2>6. ctx[c].done \in BOOLEAN
      BY DEF ContextType
    <2> QED
      BY <2>1, <2>2, <2>3, <2>4, <2>5, <2>6 DEF Resuming
  <1>4. CASE CallResumer(c)
    <2>1. posted' = posted \o ctx[c].resumer /\ posted' \in Seq(R)
      <3>1. ctx[c].resumer \in Seq(R)
        BY ResumerIsSequence
      <3> QED
        BY <1>4, <3>1, ConcatProperties DEF CallResumer
    <2> QED
      BY <1>4, <2>1 DEF CallResumer, Resuming, GoOn, ContextType, ThreadType, NextPlace
  <1>5. CASE Unlock(c)
    <2> DEFINE x == [ctx[c] EXCEPT !.mu = FALSE]
    <2>1. /\ thread' \in [C -> ThreadType] /\ thread'[c].ok = thread[c].ok
          /\ thread'[c].at = "out" /\ \A d \in C : d # c => thread'[d] = thread[d]
      BY <1>5, GoOnStep DEF Unlock
    <2>2. /\ x \in ContextType(R) /\ x.mu = FALSE
          /\ x.success = ctx[c].success /\ x.done = ctx[c].done /\ x.cancel = ctx[c].cancel /\ x.resumer = ctx[c].resumer
      BY DEF ContextType, ThreadType
    <2>3. /\ thread[c].at = "unlock" /\ posted' = posted
          /\ ctx' = [ctx EXCEPT ![c] = x]
      BY <1>5 DEF Unlock
    <2> HIDE DEF x
    <2>4. ctx' \in [C -> ContextType(R)] /\ ctx'[c] = x /\ \A d \in C : d # c => ctx'[d] = ctx[d]
      BY <2>2, <2>3
    <2>5. NextPlace(thread[c].at) = "out"
      BY <2>3 DEF NextPlace
    <2>6. ctx[c].done \in BOOLEAN
      BY DEF ContextType
    <2> QED
      BY <2>1, <2>2, <2>3, <2>4, <2>5, <2>6 DEF Resuming
  <1> QED
    BY <1>1, <1>2, <1>3, <1>4, <1>5 DEF ResumeContext

\* LockContext sets the resumer of a context nobody holds, and nothing else
\* (call_context.cc:19-24).
LEMMA LockStep ==
  ASSUME NEW C, NEW R, ctx \in [C -> ContextType(R)], NEW c \in C, NEW r \in R, LockContext(c, r)
  PROVE  /\ ctx' \in [C -> ContextType(R)] /\ ~ctx[c].mu
         /\ \A d \in C : d # c => ctx'[d] = ctx[d]
         /\ ctx'[c].resumer = <<r>> /\ ctx'[c].mu = ctx[c].mu /\ ctx'[c].done = ctx[c].done
         /\ ctx'[c].success = ctx[c].success /\ ctx'[c].cancel = ctx[c].cancel
  BY DEF LockContext, ContextType

\* Cancel sets the cancel flag of one context, and nothing else.
LEMMA CancelStep ==
  ASSUME NEW C, NEW R, ctx \in [C -> ContextType(R)], NEW c \in C, Cancel(c)
  PROVE  /\ ctx' \in [C -> ContextType(R)] /\ ctx'[c].cancel
         /\ \A d \in C : d # c => ctx'[d] = ctx[d]
         /\ ctx'[c].resumer = ctx[c].resumer /\ ctx'[c].mu = ctx[c].mu
         /\ ctx'[c].done = ctx[c].done /\ ctx'[c].success = ctx[c].success
  <1> DEFINE x == [ctx[c] EXCEPT !.cancel = TRUE]
  <1>1. /\ x \in ContextType(R) /\ x.cancel /\ x.resumer = ctx[c].resumer /\ x.mu = ctx[c].mu
        /\ x.done = ctx[c].done /\ x.success = ctx[c].success
    BY DEF ContextType
  <1>2. ctx' = [ctx EXCEPT ![c] = x]
    BY DEF Cancel
  <1> HIDE DEF x
  <1> QED
    BY <1>1, <1>2
=============================================================================
