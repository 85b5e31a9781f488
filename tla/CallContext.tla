----------------------------- MODULE CallContext -----------------------------
(***************************************************************************)
(* content/etcdv3/context/call_context: how a gRPC thread hands the outcome*)
(* of an operation to the coroutine that waits for it.                     *)
(*                                                                         *)
(* The module has no specification of its own: the etcd modules extend it  *)
(* and compose its steps with theirs.  A gRPC thread may run between any   *)
(* two steps of a coroutine, also before the coroutine yields; the resumer *)
(* of a coroutine posts to the loop the coroutine runs on                  *)
(* (keepalive_ctx.cc:45-46), hence takes effect only once it has yielded.  *)
(***************************************************************************)
EXTENDS Naturals, Sequences

VARIABLES
  ctx,       \* the contexts
  thread,    \* per context: where a gRPC thread is in ResumeContext, and its argument
  posted     \* the resumptions posted to the loop

contextVars == <<ctx, thread, posted>>

\* A context as its constructor leaves it; resumer holds at most one closure.
NewContext == [success |-> FALSE, done |-> FALSE, cancel |-> FALSE, mu |-> FALSE,
               resumer |-> <<>>]

ContextType(R) == [success : BOOLEAN, done : BOOLEAN, cancel : BOOLEAN, mu : BOOLEAN,
                   resumer : {<<>>} \cup {<<r>> : r \in R}]

\* No thread is in ResumeContext.
Outside == [at |-> "out", ok |-> FALSE]

ThreadType == [at : {"out", "success", "done", "lock", "resume", "unlock"}, ok : BOOLEAN]

\* The critical section of LockContext, by the coroutine whose resumer is r.
LockContext(c, r) ==
  /\ ~ctx[c].mu
  /\ ctx' = [ctx EXCEPT ![c].resumer = <<r>>]

Cancel(c) == ctx' = [ctx EXCEPT ![c].cancel = TRUE]

\* A coroutine that yielded goes on with the resumption that is next.
Resume(r) ==
  /\ posted # <<>> /\ Head(posted) = r
  /\ posted' = Tail(posted)

----------------------------------------------------------------------------
(* ResumeContext, one step per access to the context.                      *)

CallResumeContext(c, ok) == thread' = [thread EXCEPT ![c] = [at |-> "success", ok |-> ok]]

GoOn(c, place) == thread' = [thread EXCEPT ![c].at = place]

\* Mutant: the resumer is called before the outcome is stored.
ResumeFirst(c) ==
  /\ thread[c].at = "success"
  /\ posted' = posted \o ctx[c].resumer
  /\ GoOn(c, "done")
  /\ UNCHANGED ctx

SetSuccess(c) ==
  /\ thread[c].at = "success"
  /\ ctx' = [ctx EXCEPT ![c].success = thread[c].ok]
  /\ GoOn(c, "done")
  /\ UNCHANGED posted

SetDone(c) ==
  /\ thread[c].at = "done"
  /\ ctx' = [ctx EXCEPT ![c].done = TRUE]
  /\ GoOn(c, "lock")
  /\ UNCHANGED posted

Lock(c) ==
  /\ thread[c].at = "lock" /\ ~ctx[c].mu
  /\ ctx' = [ctx EXCEPT ![c].mu = TRUE]
  /\ GoOn(c, "resume")
  /\ UNCHANGED posted

\* Mutant: resumer_ is called a second time.
ResumeTwice(c) ==
  /\ thread[c].at = "resume"
  /\ posted' = posted \o ctx[c].resumer \o ctx[c].resumer
  /\ GoOn(c, "unlock")
  /\ UNCHANGED ctx

CallResumer(c) ==
  /\ thread[c].at = "resume"
  /\ posted' = posted \o ctx[c].resumer
  /\ GoOn(c, "unlock")
  /\ UNCHANGED ctx

Unlock(c) ==
  /\ thread[c].at = "unlock"
  /\ ctx' = [ctx EXCEPT ![c].mu = FALSE]
  /\ GoOn(c, "out")
  /\ UNCHANGED posted

ResumeContext(c) ==
  SetSuccess(c) \/ SetDone(c) \/ Lock(c) \/ CallResumer(c) \/ Unlock(c)
=============================================================================
