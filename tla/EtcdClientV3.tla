---------------------------- MODULE EtcdClientV3 ----------------------------
(***************************************************************************)
(* content/etcdv3: the unary calls of EtcdClientV3 (Put, Range, LeaseGrant,*)
(* TimeToAlive), which wait for their reply with a CallContext.            *)
(*                                                                         *)
(* One coroutine makes the calls one after the other, each with a context  *)
(* on its own stack.  gRPC completes a call on a thread of its own, at any *)
(* time after it was started.                                              *)
(***************************************************************************)
EXTENDS CallContext, PrefixRange

CONSTANT MaxCalls    \* bound on the calls the coroutine makes

ASSUME MaxCallsAssumption == MaxCalls \in Nat

Call == 1 .. MaxCalls
Kind == {"Put", "Range", "LeaseGrant", "TimeToAlive"}

\* No request of Range is on the stack.
NoRequest == [key |-> <<>>, range_end |-> <<>>]

VARIABLES
  pc, call,     \* where the coroutine is, and in which call
  request,      \* the RangeRequest of a Range; an end <<>> is not set
  \* per call
  kind,         \* the operation
  live,         \* its frame, with the context in it, exists
  status,       \* status_.ok()
  response,     \* response_ is filled
  rpc, outcome, \* the RPC, and how it ended
  ret           \* what the operation returned to its caller

coVars == <<pc, call, request>>
callVars == <<kind, ret>>
frameVars == <<live, status, response>>
rpcVars == <<rpc, outcome>>
vars == <<contextVars, coVars, callVars, frameVars, rpcVars>>

\* A default grpc::Status is OK.
Init ==
  /\ pc = "idle" /\ call = 0 /\ request = NoRequest /\ posted = <<>>
  /\ ctx = [c \in Call |-> NewContext]
  /\ thread = [c \in Call |-> Outside]
  /\ kind = [c \in Call |-> "Put"]
  /\ live = [c \in Call |-> FALSE]
  /\ status = [c \in Call |-> TRUE]
  /\ response = [c \in Call |-> FALSE]
  /\ rpc = [c \in Call |-> "none"]
  /\ outcome = [c \in Call |-> "none"]
  /\ ret = [c \in Call |-> "none"]

----------------------------------------------------------------------------
(* The coroutine.                                                          *)

\* Mutant: no operation calls LockContext.
BeginUnlocked ==
  /\ pc = "idle" /\ call < MaxCalls
  /\ call' = call + 1
  /\ \E k \in Kind : kind' = [kind EXCEPT ![call + 1] = k]
  /\ pc' = "start" /\ UNCHANGED request
  /\ live' = [live EXCEPT ![call + 1] = TRUE]
  /\ UNCHANGED <<contextVars, ret, status, response, rpcVars>>

\* What Range asks for, by its arguments.
RangeRequest(key, with_prefix) ==
  [key |-> key, range_end |-> IF with_prefix THEN RangeEnd(key) ELSE <<>>]

\* An operation builds its request and its context.  TimeToAlive does not call
\* LockContext.
Begin ==
  /\ pc = "idle" /\ call < MaxCalls
  /\ call' = call + 1
  /\ \E k \in Kind :
       /\ kind' = [kind EXCEPT ![call + 1] = k]
       /\ pc' = IF k = "TimeToAlive" THEN "start" ELSE "lock"
       /\ IF k = "Range"
            THEN \E key \in Key, with_prefix \in BOOLEAN : request' = RangeRequest(key, with_prefix)
            ELSE UNCHANGED request
  /\ live' = [live EXCEPT ![call + 1] = TRUE]
  /\ UNCHANGED <<contextVars, ret, status, response, rpcVars>>

\* These callers ignore what LockContext returns.
LockFirst ==
  /\ pc = "lock"
  /\ LockContext(call, call)
  /\ pc' = "start"
  /\ UNCHANGED <<thread, posted, call, request, callVars, frameVars, rpcVars>>

StartCall ==
  /\ pc = "start"
  /\ rpc' = [rpc EXCEPT ![call] = "sent"]
  /\ pc' = "yield"
  /\ UNCHANGED <<contextVars, call, request, callVars, frameVars, outcome>>

\* CO_YIELD: from here on the loop runs what is posted to it.
Yield ==
  /\ pc = "yield"
  /\ pc' = "suspended"
  /\ UNCHANGED <<contextVars, call, request, callVars, frameVars, rpcVars>>

Resumed ==
  /\ pc = "suspended"
  /\ \E c \in Call : Resume(c)
  /\ pc' = "return"
  /\ UNCHANGED <<ctx, thread, call, request, callVars, frameVars, rpcVars>>

\* Mutant: Put returns the error code it got.
ResultWithErrorCode(k, ok, filled) ==
  IF k = "Put" /\ ~ok THEN "error_code" ELSE IF filled THEN "data" ELSE "zero"

\* What the operations return, from the context alone: Put the revision or -1,
\* Range the key values or none, LeaseGrant and TimeToAlive a field of the
\* response, which is 0 in an empty one.
Result(k, ok, filled) ==
  CASE k = "Put" -> IF ok THEN (IF filled THEN "data" ELSE "zero") ELSE "minus_one"
    [] k = "Range" -> IF ok /\ filled THEN "data" ELSE "empty"
    [] OTHER -> IF filled THEN "data" ELSE "zero"

\* The operation returns and its frame goes away, with the context in it.
Return ==
  /\ pc = "return"
  /\ ret' = [ret EXCEPT ![call] = Result(kind[call], status[call], response[call])]
  /\ live' = [live EXCEPT ![call] = FALSE]
  /\ pc' = "idle" /\ request' = NoRequest
  /\ UNCHANGED <<contextVars, call, kind, status, response, rpcVars>>

----------------------------------------------------------------------------
(* The gRPC thread that completes call c.                                  *)

\* The reply arrived, or the RPC failed; only a good reply fills response_.
Complete(c) ==
  /\ rpc[c] = "sent"
  /\ \E ok \in BOOLEAN :
       /\ outcome' = [outcome EXCEPT ![c] = IF ok THEN "ok" ELSE "failed"]
       /\ response' = [response EXCEPT ![c] = ok]
  /\ rpc' = [rpc EXCEPT ![c] = "callback"]
  /\ UNCHANGED <<contextVars, coVars, callVars, live, status>>

Ok(c) == outcome[c] = "ok"

\* Mutant: Put's callback does not keep the status, like the others.
CallbackWithoutStatus(c) ==
  /\ rpc[c] = "callback"
  /\ CallResumeContext(c, Ok(c))
  /\ rpc' = [rpc EXCEPT ![c] = "answered"]
  /\ UNCHANGED <<ctx, posted, coVars, callVars, frameVars, outcome>>

\* The lambda given to gRPC.  Only the one of Put keeps the status.
Callback(c) ==
  /\ rpc[c] = "callback"
  /\ status' = [status EXCEPT ![c] = IF kind[c] = "Put" THEN Ok(c) ELSE @]
  /\ CallResumeContext(c, Ok(c))
  /\ rpc' = [rpc EXCEPT ![c] = "answered"]
  /\ UNCHANGED <<ctx, posted, coVars, callVars, live, response, outcome>>

----------------------------------------------------------------------------
Coroutine == Begin \/ LockFirst \/ StartCall \/ Yield \/ Resumed \/ Return

GrpcThread(c) ==
  \/ Callback(c)
  \/ ResumeContext(c) /\ UNCHANGED <<coVars, callVars, frameVars, rpcVars>>

Next == Coroutine \/ \E c \in Call : Complete(c) \/ GrpcThread(c)

Spec == Init /\ [][Next]_vars

\* The loop and gRPC's threads go on.  No deadline is set on the calls, so a
\* reply need never come.
Fairness == WF_vars(Coroutine) /\ \A c \in Call : WF_vars(GrpcThread(c))

FairSpec == Spec /\ Fairness

----------------------------------------------------------------------------
(* Properties                                                              *)

\* Type invariant of the coroutine, the contexts and the gRPC threads.
TypeOK ==
  /\ pc \in {"idle", "lock", "start", "yield", "suspended", "return"}
  /\ call \in 0 .. MaxCalls
  /\ request.key \in Key \cup {<<>>} /\ request.range_end \in Key \cup {<<>>}
  /\ posted \in Seq(Call)
  /\ ctx \in [Call -> ContextType(Call)]
  /\ thread \in [Call -> ThreadType]
  /\ kind \in [Call -> Kind]
  /\ live \in [Call -> BOOLEAN]
  /\ status \in [Call -> BOOLEAN]
  /\ response \in [Call -> BOOLEAN]
  /\ rpc \in [Call -> {"none", "sent", "callback", "answered"}]
  /\ outcome \in [Call -> {"none", "ok", "failed"}]
  /\ ret \in [Call -> {"none", "data", "zero", "empty", "minus_one"}]

\* A coroutine is resumed by the call it waits in and by no earlier one
\* (call_context.cc:12-15): whatever is posted is its own, and only once.
ResumedByOwnCall ==
  /\ Len(posted) <= 1
  /\ posted # <<>> => Head(posted) = call /\ pc \in {"yield", "suspended"}

\* "success return a reversion id, return -1 when failed" (etcd_client.h:50):
\* Put tells its outcome, and a failed Range or LeaseGrant returns no data.
ReturnsOutcome ==
  \A c \in Call : ret[c] # "none" =>
    /\ ret[c] = "data" <=> outcome[c] = "ok"
    /\ kind[c] = "Put" => ret[c] \in {"data", "minus_one"}

\* The coroutine may destroy the context while its gRPC thread is still in
\* ResumeContext (call_context.cc:12-16): all that thread has left to do then
\* is to unlock mu_.
LateTouchIsUnlock ==
  \A c \in Call : ~live[c] =>
    rpc[c] \in {"none", "answered"} /\ thread[c].at \in {"out", "unlock"}

\* A Range with_prefix asks for no key without the prefix, and for every key that
\* has it unless the prefix ends in the last byte, also where the sum leaves the
\* range of char (etcd_client.cc:87-88).  From the last byte the sum wraps to 0.
PrefixIsExact ==
  request.range_end # <<>> =>
    \A k \in Key :
      /\ Selected(request.key, request.range_end, k) => IsPrefix(request.key, k)
      /\ IsPrefix(request.key, k) /\ Last(request.key) # Byte - 1
           => Selected(request.key, request.range_end, k)

\* A call that locks its context first returns once gRPC has completed it,
\* also when it completes before the coroutine yields.
CompletedCallReturns ==
  \A c \in Call :
    rpc[c] = "callback" /\ kind[c] # "TimeToAlive" ~> ret[c] # "none"
=============================================================================
