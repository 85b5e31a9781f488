------------------------- MODULE WatchContextProofs -------------------------
(***************************************************************************)
(* Proofs about WatchContext, for any number of changes and any ids etcd   *)
(* gives: the first response creates the watch, every change is handed over*)
(* once, no operation outlives the context, and a coroutine that waits on a*)
(* stream gRPC is not through with is resumed.                             *)
(***************************************************************************)
EXTENDS WatchContext, CallContextProofs, FiniteSetTheorems

WriteOp == {"create", "cancel", "writesdone"}
ResponseType ==
  [kind : {"none", "created", "canceled", "change"}, id : Int, changes : SUBSET Int]

\* The types of the variables.
Types ==
  /\ ctx \in [Direction -> ContextType(Coroutine)] /\ thread \in [Direction -> ThreadType]
  /\ posted \in Seq(Coroutine)
  /\ pc \in [Coroutine -> {"idle", "writing", "reading", "started", "failed", "ready", "again",
                           "ended", "closing", "stopped", "lost"}]
  /\ watch_id \in Int /\ response \in ResponseType /\ held \in BOOLEAN
  /\ seen \in SUBSET Int /\ deliveries \in SUBSET (SUBSET Int) /\ handled \in Seq(Int)
  /\ ops \in SUBSET (WriteOp \cup {"read"}) /\ up \in Seq(WriteOp) /\ down \in Seq(ResponseType)
  /\ over \in BOOLEAN /\ onDone \in BOOLEAN /\ watching \in BOOLEAN
  /\ made \in 0 .. MaxChanges

\* How far the coroutines are: the loop begins when Start has read the first
\* response, and StopWatch comes after Start.
Order ==
  /\ pc["start"] \in {"idle", "writing", "reading", "started", "failed", "lost"}
  /\ pc["loop"] \in {"idle", "ready", "reading", "again", "ended", "lost"}
  /\ pc["stop"] \in {"idle", "writing", "closing", "stopped", "failed", "lost"}
  /\ pc["loop"] # "idle" => pc["start"] \in {"started", "failed"}
  /\ pc["stop"] # "idle" => pc["start"] = "started"
  /\ held <=> \/ pc["start"] \in {"writing", "reading", "lost"}
              \/ pc["start"] = "started" /\ pc["stop"] \in {"idle", "writing", "closing", "lost"}

\* Coroutine r has yielded until an operation of direction d completes.
WaitsOn(d, r) ==
  \/ d = "write" /\ r = "start" /\ pc["start"] = "writing"
  \/ d = "write" /\ r = "stop" /\ pc["stop"] \in {"writing", "closing"}
  \/ d = "read" /\ r = "start" /\ pc["start"] = "reading"
  \/ d = "read" /\ r = "loop" /\ pc["loop"] = "reading"

Outstanding(d) == IF d = "read" THEN "read" \in ops ELSE ops \cap WriteOp # {}

Posted(r) == \E i \in 1 .. Len(posted) : posted[i] = r

\* Somebody waits for direction d and was not resumed yet.
Expected(d) == \E r \in Coroutine : WaitsOn(d, r) /\ ~Posted(r)

\* What the coroutines and the gRPC threads hand to each other in direction d.
Handing(d) ==
  /\ ctx[d].mu <=> thread[d].at \in {"resume", "unlock"}
  /\ thread[d].at # "success" => ctx[d].success = thread[d].ok
  /\ \A r \in Coroutine : WaitsOn(d, r) => ctx[d].resumer = <<r>>
  /\ Outstanding(d) => thread[d].at = "out" /\ Expected(d)
  /\ thread[d].at \notin {"out", "unlock"} => ~Outstanding(d) /\ Expected(d)

\* A coroutine is resumed once, and only when it waits for that.
Resumptions ==
  /\ \A i, j \in 1 .. Len(posted) : posted[i] = posted[j] => i = j
  /\ \A r \in Coroutine : Posted(r) =>
       \E d \in Direction :
         WaitsOn(d, r) /\ ~Outstanding(d) /\ thread[d].at \in {"out", "unlock"}

\* The coroutine that writes an operation waits for it.
Writes ==
  /\ "create" \in ops => pc["start"] = "writing"
  /\ "cancel" \in ops => pc["stop"] = "writing"
  /\ "writesdone" \in ops => pc["stop"] = "closing"

HandInv == Types /\ Order /\ (\A d \in Direction : Handing(d)) /\ Resumptions

\* The request that creates the watch is on its way.
Creating == "create" \in ops \/ \E i \in 1 .. Len(up) : up[i] = "create"

\* What is on its way: the request to create the watch goes first, and so does
\* the response to it; no other response says that a watch was created.
OnTheWay ==
  /\ "create" \in ops => up = <<>>
  /\ \A i \in 1 .. Len(up) : up[i] = "create" => Len(up) = 1 /\ "create" \notin ops
  /\ \A i \in 1 .. Len(up) : up[i] # "create" => response.kind # "none"
  /\ Creating => down = <<>> /\ ~watching /\ response.kind = "none"
  /\ response.kind = "none" /\ down = <<>> => ~watching
  /\ over => ~watching
  /\ \A i \in 1 .. Len(down) : down[i].kind # "none"
  /\ \A i \in 1 .. Len(down) : down[i].kind = "created" <=> i = 1 /\ response.kind = "none"

\* What the coroutines have read of it.
Arrived ==
  /\ pc["start"] = "idle" => ops = {} /\ up = <<>> /\ down = <<>> /\ ~watching
  /\ pc["start"] \in {"idle", "writing"} => response.kind = "none"
  /\ pc["start"] = "reading" /\ "read" \in ops => response.kind = "none"
  /\ pc["start"] = "reading" /\ "read" \notin ops =>
       response.kind = IF thread["read"].ok THEN "created" ELSE "none"
  /\ pc["start"] = "started" \/ pc["loop"] # "idle" => response.kind # "none"

FirstResponse == OnTheWay /\ Arrived

Done == ToSet(handled)
Pending == UNION deliveries

\* The last read has filled in a response that the loop has yet to look at.
Unread == pc["loop"] = "reading" /\ "read" \notin ops /\ thread["read"].ok

\* A change on its way was not read before, and comes in one response.
Sent ==
  /\ seen \subseteq 1 .. made
  /\ \A i \in 1 .. Len(down) : down[i].changes \subseteq (1 .. made) \ seen
  /\ \A i, j \in 1 .. Len(down) : i # j => down[i].changes \cap down[j].changes = {}
  /\ \A i \in 1 .. Len(down) : down[i].kind # "change" => down[i].changes = {}
  /\ response.kind # "change" => response.changes = {}

\* A change that was read is in response, with a delivery coroutine or handled.
Kept ==
  /\ IF Unread
       THEN /\ response.changes \cap (Done \cup Pending) = {}
            /\ seen = Done \cup Pending \cup response.changes
       ELSE response.changes \subseteq Done \cup Pending /\ seen = Done \cup Pending
  /\ Done \cap Pending = {} /\ Cardinality(Done) = Len(handled)
  /\ \A s, u \in deliveries : s # u => s \cap u = {}

Changes == Sent /\ Kept

\* Once StopWatch has canceled the watch the loop ends at its next test.
Stopping ==
  pc["stop"] = "closing" \/ (pc["stop"] = "stopped" /\ watch_id > 0) => ctx["read"].cancel

WatchInv == HandInv /\ Writes /\ FirstResponse /\ Changes /\ Stopping

----------------------------------------------------------------------------
(* The hand-over between coroutines and gRPC threads.                      *)

\* A coroutine that is resumed is posted no longer, and nobody else is affected.
LEMMA ResumeOnce ==
  ASSUME posted \in Seq(Coroutine), Resumptions, NEW r \in Coroutine, Resume(r)
  PROVE  /\ posted' \in Seq(Coroutine) /\ Posted(r) /\ ~Posted(r)'
         /\ \A x \in Coroutine : x # r => (Posted(x)' <=> Posted(x))
         /\ \A i, j \in 1 .. Len(posted') : posted'[i] = posted'[j] => i = j
  <1> DEFINE n == Len(posted)
             m == Len(posted')
  <1>1. posted # <<>> /\ posted[1] = r /\ posted' = Tail(posted)
    BY DEF Resume
  <1>2. /\ posted' \in Seq(Coroutine) /\ n \in Nat /\ n # 0 /\ m \in Nat /\ m = n - 1
        /\ \A i \in 1 .. m : posted'[i] = posted[i + 1]
    BY <1>1, HeadTailProperties, EmptySeq, LenProperties
  <1>3. \A i, j \in 1 .. n : posted[i] = posted[j] => i = j
    BY DEF Resumptions
  <1>4. /\ \A x : Posted(x) <=> \E i \in 1 .. n : posted[i] = x
        /\ \A x : Posted(x)' <=> \E i \in 1 .. m : posted'[i] = x
    BY DEF Posted
  <1> HIDE DEF n, m
  <1>5. 1 \in 1 .. n /\ \A i \in 1 .. m : i + 1 \in 1 .. n /\ i + 1 # 1
    BY <1>2
  <1>6. \A i \in 1 .. n : i = 1 \/ (i - 1 \in 1 .. m /\ (i - 1) + 1 = i)
    BY <1>2
  <1>7. ~Posted(r)' /\ Posted(r)
    <2>1. Posted(r)
      BY <1>1, <1>4, <1>5
    <2>2. ASSUME NEW i \in 1 .. m, posted'[i] = r PROVE FALSE
      <3>1. posted[i + 1] = posted[1] /\ i + 1 \in 1 .. n /\ 1 \in 1 .. n /\ i + 1 # 1
        BY <1>1, <1>2, <1>5, <2>2
      <3> QED
        BY <3>1, <1>3
    <2> QED
      BY <1>4, <2>1, <2>2
  <1>8. ASSUME NEW x, x # r PROVE Posted(x)' <=> Posted(x)
    <2>1. ASSUME NEW i \in 1 .. m, posted'[i] = x PROVE \E j \in 1 .. n : posted[j] = x
      BY <1>2, <1>5, <2>1
    <2>2. ASSUME NEW i \in 1 .. n, posted[i] = x PROVE \E j \in 1 .. m : posted'[j] = x
      BY <1>1, <1>2, <1>6, <1>8, <2>2
    <2> QED
      BY <1>4, <2>1, <2>2
  <1>9. \A i, j \in 1 .. m : posted'[i] = posted'[j] => i = j
    <2> SUFFICES ASSUME NEW i \in 1 .. m, NEW j \in 1 .. m, posted'[i] = posted'[j]
                 PROVE  i = j
      OBVIOUS
    <2>1. i + 1 = j + 1
      BY <1>2, <1>3, <1>5
    <2> QED
      BY <1>2, <2>1
  <1> QED
    BY <1>2, <1>7, <1>8, <1>9 DEF m

\* The resumer of a coroutine that is not posted yet posts it.
LEMMA PostOnce ==
  ASSUME posted \in Seq(Coroutine), Resumptions, NEW r \in Coroutine, ~Posted(r),
         posted' = posted \o <<r>>
  PROVE  /\ posted' \in Seq(Coroutine) /\ Posted(r)'
         /\ \A x \in Coroutine : x # r => (Posted(x)' <=> Posted(x))
         /\ \A i, j \in 1 .. Len(posted') : posted'[i] = posted'[j] => i = j
  <1> DEFINE n == Len(posted)
             m == Len(posted')
  <1>1. posted' = Append(posted, r)
    BY AppendIsConcat
  <1>2. /\ posted' \in Seq(Coroutine) /\ n \in Nat /\ m = n + 1
        /\ \A i \in 1 .. n : posted'[i] = posted[i]
        /\ posted'[n + 1] = r
    BY <1>1, AppendProperties, LenProperties
  <1>3. \A i, j \in 1 .. n : posted[i] = posted[j] => i = j
    BY DEF Resumptions
  <1>4. /\ \A x : Posted(x) <=> \E i \in 1 .. n : posted[i] = x
        /\ \A x : Posted(x)' <=> \E i \in 1 .. m : posted'[i] = x
    BY DEF Posted
  <1> HIDE DEF n, m
  <1>5. /\ \A i \in 1 .. m : i = n + 1 \/ i \in 1 .. n
        /\ n + 1 \in 1 .. m /\ \A i \in 1 .. n : i \in 1 .. m
    BY <1>2
  <1>6. Posted(r)'
    BY <1>2, <1>4, <1>5
  <1>7. \A x : x # r => (Posted(x)' <=> Posted(x))
    BY <1>2, <1>4, <1>5
  <1>8. \A i, j \in 1 .. m : posted'[i] = posted'[j] => i = j
    BY <1>2, <1>3, <1>4, <1>5
  <1> QED
    BY <1>2, <1>6, <1>7, <1>8 DEF m

\* The two directions and the three coroutines.
LEMMA Names ==
  /\ "read" \in Direction /\ "write" \in Direction /\ "read" # "write"
  /\ "start" \in Coroutine /\ "loop" \in Coroutine /\ "stop" \in Coroutine
  /\ "start" # "loop" /\ "start" # "stop" /\ "loop" # "stop"
  BY DEF Direction, Coroutine

\* Nothing is handed over at first.
LEMMA HandInit == Init => HandInv
  <1> SUFFICES ASSUME Init PROVE HandInv
    OBVIOUS
  <1>1. /\ ctx \in [Direction -> ContextType(Coroutine)] /\ thread \in [Direction -> ThreadType]
        /\ \A d \in Direction : ~ctx[d].mu /\ thread[d].at = "out" /\ ctx[d].success = thread[d].ok
    BY DEF Init, NewContext, Outside, ContextType, ThreadType
  <1>2. posted \in Seq(Coroutine) /\ handled \in Seq(Int) /\ up \in Seq(WriteOp) /\ down \in Seq(ResponseType)
    BY DEF Init
  <1>3. response \in ResponseType /\ watch_id \in Int
    BY DEF Init, Response, ResponseType
  <1>4. pc \in [Coroutine -> {"idle", "writing", "reading", "started", "failed", "ready", "again",
                           "ended", "closing", "stopped", "lost"}]
    BY DEF Init
  <1>5. made \in 0 .. MaxChanges
    BY MaxChangesAssumption DEF Init
  <1>6. Types
    BY <1>1, <1>2, <1>3, <1>4, <1>5 DEF Types, Init
  <1>7. \A r \in Coroutine : pc[r] = "idle" /\ ~Posted(r)
    BY DEF Init, Posted
  <1>8. Order
    BY <1>7, Names DEF Order, Init
  <1>9. \A d \in Direction : Handing(d)
    BY <1>1, <1>7, Names DEF Handing, WaitsOn, Outstanding, Init
  <1>10. Resumptions
    BY <1>7 DEF Resumptions, Init
  <1> QED
    BY <1>6, <1>8, <1>9, <1>10 DEF HandInv

\* When nobody waits for a direction no thread resumes it, and nothing is outstanding.
LEMMA Quiet ==
  ASSUME HandInv, NEW d \in Direction, ~Expected(d)
  PROVE  ~Outstanding(d) /\ thread[d].at \in {"out", "unlock"} /\ (~ctx[d].mu => thread[d].at = "out")
  BY DEF HandInv, Handing

\* What a step keeps that leaves a direction and those who wait for it alone.
LEMMA Undisturbed ==
  ASSUME NEW d \in Direction, Handing(d), ctx'[d].mu = ctx[d].mu,
         ctx'[d].success = ctx[d].success, ctx'[d].resumer = ctx[d].resumer,
         thread'[d] = thread[d], Outstanding(d)' <=> Outstanding(d),
         \A r \in Coroutine : WaitsOn(d, r)' => WaitsOn(d, r),
         Expected(d) => Expected(d)'
  PROVE  Handing(d)'
  BY DEF Handing

\* A coroutine locks the context of direction d, starts an operation and yields.
LEMMA AwaitHands ==
  ASSUME HandInv, NEW d \in Direction, NEW r \in Coroutine,
         ctx[d].mu = FALSE, ~Expected(d), thread' = thread,
         ctx'[d].resumer = <<r>>, ctx'[d].mu = ctx[d].mu, ctx'[d].success = ctx[d].success,
         Outstanding(d)', ~Posted(r)',
         \A x \in Coroutine : WaitsOn(d, x)' <=> x = r
  PROVE  Handing(d)'
  <1>1. thread[d].at = "out"
    BY Quiet
  <1>2. Expected(d)'
    BY DEF Expected
  <1> QED
    BY <1>1, <1>2 DEF HandInv, Handing

\* A coroutine starts an operation on a call gRPC is through with: it waits for
\* nothing that could come, and the others are not affected.
LEMMA HandLost ==
  ASSUME HandInv, NEW d \in Direction, NEW r \in Coroutine,
         ctx' \in [Direction -> ContextType(Coroutine)], thread' = thread, ops' = ops,
         \A e \in Direction : ctx'[e].mu = ctx[e].mu /\ ctx'[e].success = ctx[e].success,
         \A e \in Direction : e # d => ctx'[e].resumer = ctx[e].resumer,
         pc' = [pc EXCEPT ![r] = "lost"], Order', held' \in BOOLEAN,
         posted' \in Seq(Coroutine), ~Posted(r)',
         \A x \in Coroutine : x # r => (Posted(x)' <=> Posted(x)),
         \A i, j \in 1 .. Len(posted') : posted'[i] = posted'[j] => i = j,
         \A e \in Direction : WaitsOn(e, r) => ~Expected(e),
         \A x \in Coroutine : x # r => ~WaitsOn(d, x),
         UNCHANGED <<watch_id, deliveries, handled, response, seen, up, down, over, onDone,
                     watching, made>>
  PROVE  HandInv'
  <1> USE Names
  <1>1. /\ \A x \in Coroutine : x # r => pc'[x] = pc[x]
        /\ pc'[r] = "lost"
        /\ pc' \in [Coroutine -> {"idle", "writing", "reading", "started", "failed", "ready",
                                  "again", "ended", "closing", "stopped", "lost"}]
    BY DEF HandInv, Types
  <1>2. Types'
    BY <1>1 DEF HandInv, Types
  <1>3. \A e \in Direction : \A x \in Coroutine : WaitsOn(e, x)' <=> WaitsOn(e, x) /\ x # r
    <2> SUFFICES ASSUME NEW e \in Direction, NEW x \in Coroutine
                 PROVE  WaitsOn(e, x)' <=> WaitsOn(e, x) /\ x # r
      OBVIOUS
    <2>1. CASE x = r
      BY <1>1, <2>1 DEF WaitsOn
    <2>2. CASE x # r
      BY <1>1, <2>2 DEF WaitsOn
    <2> QED
      BY <2>1, <2>2
  <1>4. \A e \in Direction : Outstanding(e)' <=> Outstanding(e)
    BY DEF Outstanding
  <1>5. ASSUME NEW e \in Direction PROVE Handing(e)'
    <2>1. \A x \in Coroutine : WaitsOn(e, x)' => ctx'[e].resumer = <<x>>
      BY <1>3 DEF HandInv, Handing
    <2>2. CASE WaitsOn(e, r)
      <3>1. ~Outstanding(e) /\ thread[e].at \in {"out", "unlock"}
        BY <2>2, Quiet
      <3> QED
        BY <1>4, <2>1, <3>1 DEF HandInv, Handing
    <2>3. CASE ~WaitsOn(e, r)
      <3>1. Expected(e) => Expected(e)'
        BY <1>3, <2>3 DEF Expected
      <3> QED
        BY <1>4, <2>1, <3>1 DEF HandInv, Handing
    <2> QED
      BY <2>2, <2>3
  <1>6. Resumptions'
    <2>1. ASSUME NEW x \in Coroutine, Posted(x)'
          PROVE  \E e \in Direction :
                   WaitsOn(e, x)' /\ ~Outstanding(e)' /\ thread'[e].at \in {"out", "unlock"}
      <3>1. x # r /\ Posted(x)
        BY <2>1
      <3>2. PICK e \in Direction : WaitsOn(e, x) /\ ~Outstanding(e) /\ thread[e].at \in {"out", "unlock"}
        BY <3>1 DEF HandInv, Resumptions
      <3> QED
        BY <1>3, <1>4, <3>1, <3>2
    <2> QED
      BY <2>1 DEF Resumptions
  <1> QED
    BY <1>2, <1>5, <1>6 DEF HandInv

\* Watch builds the context and Start writes the request (watch_context.cc:18-20).
LEMMA HandStart == ASSUME HandInv, Start PROVE HandInv'
  <1> USE Names
  <1>1. /\ pc["start"] = "idle" /\ held' = TRUE /\ LockContext("write", "start")
        /\ UNCHANGED <<thread, posted, watch_id, deliveries, handled, response, seen,
                       up, down, over, onDone, watching, made>>
    BY DEF Start, Await, serverVars
  <1>2. /\ ctx' \in [Direction -> ContextType(Coroutine)] /\ ~ctx["write"].mu
        /\ ctx'["read"] = ctx["read"]
        /\ ctx'["write"].resumer = <<"start">> /\ ctx'["write"].mu = ctx["write"].mu
        /\ ctx'["write"].success = ctx["write"].success
    <2>1. ctx \in [Direction -> ContextType(Coroutine)]
      BY DEF HandInv, Types
    <2> QED
      BY <1>1, <2>1, LockStep
  <1>3. pc["loop"] = "idle" /\ pc["stop"] = "idle"
    BY <1>1 DEF HandInv, Order
  <1>4. \A x \in Coroutine : ~WaitsOn("write", x) /\ ~WaitsOn("read", x) /\ ~Posted(x)
    BY <1>1, <1>3 DEF HandInv, Resumptions, WaitsOn, Direction
  <1>5. ~Expected("write") /\ \A x \in Coroutine : ~Posted(x)'
    BY <1>1, <1>4 DEF Expected, Posted
  <1>6. CASE onDone
    <2>1. ops' = ops /\ pc' = [pc EXCEPT !["start"] = "lost"]
      BY <1>6 DEF Start, Await, Begin, Leave
    <2>2. pc'["start"] = "lost" /\ pc'["loop"] = pc["loop"] /\ pc'["stop"] = pc["stop"]
      BY <2>1 DEF HandInv, Types
    <2>3. Order'
      BY <1>1, <1>3, <2>2 DEF Order
    <2>4. /\ \A e \in Direction : ctx'[e].mu = ctx[e].mu /\ ctx'[e].success = ctx[e].success
          /\ \A e \in Direction : e # "write" => ctx'[e].resumer = ctx[e].resumer
          /\ \A e \in Direction : \A x \in Coroutine : ~WaitsOn(e, x)
      BY <1>2, <1>4 DEF Direction
    <2>5. /\ posted' \in Seq(Coroutine) /\ \A x \in Coroutine : Posted(x)' <=> Posted(x)
          /\ \A i, j \in 1 .. Len(posted') : posted'[i] = posted'[j] => i = j
      BY <1>1, <1>4, <1>5 DEF HandInv, Types, Resumptions
    <2> QED
      BY <1>1, <1>2, <1>5, <2>1, <2>3, <2>4, <2>5, HandLost
  <1>7. CASE ~onDone
    <2>1. ops' = ops \cup {"create"} /\ pc' = [pc EXCEPT !["start"] = "writing"]
      BY <1>7 DEF Start, Await, Begin, Leave
    <2>2. pc'["start"] = "writing" /\ pc'["loop"] = pc["loop"] /\ pc'["stop"] = pc["stop"]
      BY <2>1 DEF HandInv, Types
    <2>3. Types'
      BY <1>1, <1>2, <2>1 DEF HandInv, Types, WriteOp
    <2>4. Order'
      BY <1>1, <1>3, <2>2 DEF Order
    <2>5. Outstanding("write")' /\ \A x \in Coroutine : WaitsOn("write", x)' <=> x = "start"
      BY <1>3, <2>1, <2>2 DEF Outstanding, WaitsOn, WriteOp
    <2>6. Handing("write")'
      BY <1>1, <1>2, <1>5, <2>5, AwaitHands DEF HandInv, Types, ContextType
    <2>7. Handing("read")'
      BY <1>1, <1>2, <1>3, <1>4, <2>1, <2>2 DEF HandInv, Handing, WaitsOn, Outstanding, Expected
    <2>8. Resumptions'
      BY <1>1, <1>5 DEF HandInv, Resumptions
    <2> QED
      BY <2>3, <2>4, <2>6, <2>7, <2>8 DEF HandInv, Direction
  <1> QED
    BY <1>6, <1>7

\* Start reads the first response, or gives up (watch_context.cc:22-30).
LEMMA HandReadCreated == ASSUME HandInv, ReadCreated PROVE HandInv'
  <1> USE Names
  <1>1. /\ pc["start"] = "writing" /\ Resume("start")
        /\ UNCHANGED <<thread, watch_id, deliveries, handled, response, seen,
                       up, down, over, onDone, watching, made>>
    BY DEF ReadCreated, Awake, serverVars
  <1>2. /\ posted' \in Seq(Coroutine) /\ Posted("start") /\ ~Posted("start")'
        /\ \A x \in Coroutine : x # "start" => (Posted(x)' <=> Posted(x))
        /\ \A i, j \in 1 .. Len(posted') : posted'[i] = posted'[j] => i = j
    BY <1>1, ResumeOnce DEF HandInv, Types
  <1>3. pc["loop"] = "idle" /\ pc["stop"] = "idle"
    BY <1>1 DEF HandInv, Order
  <1>4. /\ \A x \in Coroutine : ~WaitsOn("read", x) /\ (WaitsOn("write", x) => x = "start")
        /\ \A x \in Coroutine : ~Posted(x)'
    BY <1>1, <1>2, <1>3 DEF HandInv, Resumptions, WaitsOn, Direction
  <1>5. /\ ~Expected("write") /\ ~Expected("read")
    BY <1>2, <1>4 DEF Expected
  <1>6. ~Outstanding("write") /\ ~Outstanding("read") /\ thread["write"].at \in {"out", "unlock"}
    BY <1>5, Quiet
  <1>9. CASE Await("start", "read", "read", "reading") /\ UNCHANGED held /\ onDone
    <2>1. LockContext("read", "start") /\ ops' = ops /\ pc' = [pc EXCEPT !["start"] = "lost"]
      BY <1>9 DEF Await, Begin, Leave
    <2>2. /\ ctx' \in [Direction -> ContextType(Coroutine)]
          /\ \A e \in Direction : ctx'[e].mu = ctx[e].mu /\ ctx'[e].success = ctx[e].success
          /\ \A e \in Direction : e # "read" => ctx'[e].resumer = ctx[e].resumer
      <3>1. ctx \in [Direction -> ContextType(Coroutine)]
        BY DEF HandInv, Types
      <3>2. /\ ctx' \in [Direction -> ContextType(Coroutine)] /\ ctx'["write"] = ctx["write"]
            /\ ctx'["read"].mu = ctx["read"].mu /\ ctx'["read"].success = ctx["read"].success
        BY <2>1, <3>1, LockStep
      <3> QED
        BY <3>2 DEF Direction
    <2>3. pc'["start"] = "lost" /\ pc'["loop"] = pc["loop"] /\ pc'["stop"] = pc["stop"]
      BY <2>1 DEF HandInv, Types
    <2>4. Order'
      BY <1>1, <1>3, <1>9, <2>3 DEF HandInv, Order
    <2>5. \A e \in Direction : ~Expected(e)
      BY <1>5 DEF Direction
    <2>6. held' \in BOOLEAN
      BY <1>9 DEF HandInv, Types
    <2> QED
      BY <1>1, <1>2, <1>4, <2>1, <2>2, <2>4, <2>5, <2>6, HandLost
  <1>7. CASE Await("start", "read", "read", "reading") /\ UNCHANGED held /\ ~onDone
    <2>1. /\ LockContext("read", "start") /\ ops' = ops \cup {"read"}
          /\ pc' = [pc EXCEPT !["start"] = "reading"]
      BY <1>7 DEF Await, Begin, Leave
    <2>2. /\ ctx' \in [Direction -> ContextType(Coroutine)] /\ ~ctx["read"].mu
          /\ ctx'["write"] = ctx["write"]
          /\ ctx'["read"].resumer = <<"start">> /\ ctx'["read"].mu = ctx["read"].mu
          /\ ctx'["read"].success = ctx["read"].success
      <3>1. ctx \in [Direction -> ContextType(Coroutine)]
        BY DEF HandInv, Types
      <3> QED
        BY <2>1, <3>1, LockStep
    <2>3. pc'["start"] = "reading" /\ pc'["loop"] = pc["loop"] /\ pc'["stop"] = pc["stop"]
      BY <2>1 DEF HandInv, Types
    <2>4. Types'
      BY <1>1, <1>2, <1>7, <2>1, <2>2 DEF HandInv, Types
    <2>5. Order'
      BY <1>1, <1>3, <1>7, <2>3 DEF HandInv, Order
    <2>6. Outstanding("read")' /\ \A x \in Coroutine : WaitsOn("read", x)' <=> x = "start"
      BY <1>3, <2>1, <2>3 DEF Outstanding, WaitsOn
    <2>7. Handing("read")'
      BY <1>1, <1>4, <1>5, <2>2, <2>6, AwaitHands DEF HandInv, Types, ContextType
    <2>8. ~Outstanding("write")' /\ \A x \in Coroutine : ~WaitsOn("write", x)'
      BY <1>3, <1>6, <2>1, <2>3 DEF Outstanding, WaitsOn, WriteOp
    <2>9. Handing("write")'
      BY <1>1, <1>6, <2>2, <2>8 DEF HandInv, Handing
    <2>10. Resumptions'
      BY <1>2, <1>4 DEF Resumptions
    <2> QED
      BY <2>4, <2>5, <2>7, <2>9, <2>10 DEF HandInv, Direction
  <1>8. CASE Leave("start", "failed") /\ held' = FALSE /\ UNCHANGED <<ctx, ops>>
    <2>1. /\ pc' = [pc EXCEPT !["start"] = "failed"]
          /\ pc'["start"] = "failed" /\ pc'["loop"] = pc["loop"] /\ pc'["stop"] = pc["stop"]
      BY <1>8 DEF HandInv, Types, Leave
    <2>2. Types'
      BY <1>1, <1>2, <1>8, <2>1 DEF HandInv, Types
    <2>3. Order'
      BY <1>1, <1>3, <1>8, <2>1 DEF HandInv, Order
    <2>4. \A d \in Direction : ~Outstanding(d)' /\ \A x \in Coroutine : ~WaitsOn(d, x)'
      BY <1>3, <1>6, <1>8, <2>1 DEF Outstanding, WaitsOn, Direction
    <2>5. ASSUME NEW d \in Direction PROVE Handing(d)'
      <3>1. ~Expected(d) /\ thread'[d] = thread[d] /\ ctx'[d] = ctx[d]
        BY <1>1, <1>5, <1>8 DEF Direction
      <3>2. thread[d].at \in {"out", "unlock"}
        BY <3>1, Quiet
      <3> QED
        BY <2>4, <3>1, <3>2 DEF HandInv, Handing
    <2>6. Resumptions'
      BY <1>2, <1>4 DEF Resumptions
    <2> QED
      BY <2>2, <2>3, <2>5, <2>6 DEF HandInv
  <1> QED
    BY <1>7, <1>8, <1>9 DEF ReadCreated

\* Start returns; the loop has no operation outstanding yet (watch_context.cc:31-42).
LEMMA HandStarted == ASSUME HandInv, Started PROVE HandInv'
  <1> USE Names
  <1>1. /\ pc["start"] = "reading" /\ Resume("start")
        /\ UNCHANGED <<ctx, thread, deliveries, handled, response, seen, ops,
                       up, down, over, onDone, watching, made>>
    BY DEF Started, Awake, serverVars, streamVars
  <1>2. /\ posted' \in Seq(Coroutine) /\ Posted("start") /\ ~Posted("start")'
        /\ \A x \in Coroutine : x # "start" => (Posted(x)' <=> Posted(x))
        /\ \A i, j \in 1 .. Len(posted') : posted'[i] = posted'[j] => i = j
    BY <1>1, ResumeOnce DEF HandInv, Types
  <1>3. pc["loop"] = "idle" /\ pc["stop"] = "idle"
    BY <1>1 DEF HandInv, Order
  <1>4. /\ \A x \in Coroutine : ~WaitsOn("write", x) /\ (WaitsOn("read", x) => x = "start")
        /\ \A x \in Coroutine : ~Posted(x)'
    BY <1>1, <1>2, <1>3 DEF HandInv, Resumptions, WaitsOn, Direction
  <1>5. /\ ~Expected("write") /\ ~Expected("read")
    BY <1>2, <1>4 DEF Expected
  <1>6. /\ pc'["start"] \in {"started", "failed"} /\ pc'["loop"] \in {"idle", "ready"}
        /\ pc'["stop"] = pc["stop"] /\ held' = (pc'["start"] = "started") /\ watch_id' \in Int
        /\ pc' \in [Coroutine -> {"idle", "writing", "reading", "started", "failed", "ready",
                                  "again", "ended", "closing", "stopped", "lost"}]
    <2>1. response.id \in Int /\ watch_id \in Int
      BY DEF HandInv, Types, ResponseType
    <2>2. CASE /\ watch_id' = response.id
               /\ pc' = [pc EXCEPT !["start"] = IF watch_id' >= 0 THEN "started" ELSE "failed",
                                   !["loop"] = "ready"]
               /\ held' = (watch_id' >= 0)
      <3>1. CASE watch_id' >= 0
        BY <1>3, <2>1, <2>2, <3>1 DEF HandInv, Types
      <3>2. CASE ~(watch_id' >= 0)
        <4>1. pc' = [pc EXCEPT !["start"] = "failed", !["loop"] = "ready"] /\ watch_id' \in Int
          BY <2>1, <2>2, <3>2
        <4>2. held' = FALSE
          <5>1. held' = (watch_id' >= 0)
            BY <2>2
          <5>2. (watch_id' >= 0) = FALSE
            BY <2>1, <2>2, <3>2
          <5> QED
            BY <5>1, <5>2, Zenon
        <4> QED
          BY <1>3, <4>1, <4>2 DEF HandInv, Types
      <3> QED
        BY <3>1, <3>2
    <2>3. CASE Leave("start", "failed") /\ held' = FALSE /\ UNCHANGED watch_id
      BY <1>3, <2>1, <2>3 DEF HandInv, Types, Leave
    <2> QED
      BY <2>2, <2>3 DEF Started
  <1>7. Types'
    BY <1>1, <1>2, <1>6 DEF HandInv, Types
  <1>8. Order'
    BY <1>1, <1>3, <1>6 DEF HandInv, Order
  <1>9. \A d \in Direction : \A x \in Coroutine : ~WaitsOn(d, x)'
    BY <1>3, <1>6 DEF WaitsOn, Direction
  <1>10. ASSUME NEW d \in Direction PROVE Handing(d)'
    <2>1. ~Expected(d) /\ thread'[d] = thread[d] /\ ctx'[d] = ctx[d]
      BY <1>1, <1>5 DEF Direction
    <2>2. thread[d].at \in {"out", "unlock"} /\ ~Outstanding(d)
      BY <2>1, Quiet
    <2>3. ~Outstanding(d)'
      BY <1>1, <2>2 DEF Outstanding
    <2> QED
      BY <1>9, <2>1, <2>2, <2>3 DEF HandInv, Handing
  <1>11. Resumptions'
    BY <1>2, <1>4 DEF Resumptions
  <1> QED
    BY <1>7, <1>8, <1>10, <1>11 DEF HandInv

\* The loop waits for the next response.
LEMMA HandNextRead == ASSUME HandInv, NextRead PROVE HandInv'
  <1> USE Names
  <1>1. /\ pc["loop"] = "ready" /\ Await("loop", "read", "read", "reading")
        /\ UNCHANGED <<thread, posted, watch_id, deliveries, handled, held,
                       response, seen, up, down, over, onDone, watching, made>>
    BY DEF NextRead, serverVars
  <1>2. pc["start"] \in {"started", "failed"}
    BY <1>1 DEF HandInv, Order
  <1>3. /\ \A x \in Coroutine : ~WaitsOn("read", x)
        /\ \A x \in Coroutine : Posted(x)' <=> Posted(x)
    BY <1>1, <1>2 DEF WaitsOn, Posted
  <1>4. ~Expected("read") /\ ~Posted("loop")
    BY <1>1, <1>3 DEF Expected, HandInv, Resumptions, WaitsOn
  <1>5. ~Outstanding("read") /\ thread["read"].at \in {"out", "unlock"}
    BY <1>4, Quiet
  <1>6. /\ ctx' \in [Direction -> ContextType(Coroutine)] /\ ~ctx["read"].mu
        /\ ctx'["write"] = ctx["write"]
        /\ ctx'["read"].resumer = <<"loop">> /\ ctx'["read"].mu = ctx["read"].mu
        /\ ctx'["read"].success = ctx["read"].success
    <2>1. ctx \in [Direction -> ContextType(Coroutine)] /\ LockContext("read", "loop")
      BY <1>1 DEF HandInv, Types, Await
    <2> QED
      BY <2>1, LockStep
  <1>7. CASE onDone
    <2>1. ops' = ops /\ pc' = [pc EXCEPT !["loop"] = "lost"]
      BY <1>1, <1>7 DEF Await, Begin, Leave
    <2>2. pc'["loop"] = "lost" /\ pc'["start"] = pc["start"] /\ pc'["stop"] = pc["stop"]
      BY <2>1 DEF HandInv, Types
    <2>3. Order'
      BY <1>1, <1>2, <2>2 DEF HandInv, Order
    <2>4. /\ \A e \in Direction : ctx'[e].mu = ctx[e].mu /\ ctx'[e].success = ctx[e].success
          /\ \A e \in Direction : e # "read" => ctx'[e].resumer = ctx[e].resumer
          /\ \A e \in Direction : ~WaitsOn(e, "loop")
      BY <1>3, <1>6 DEF Direction, WaitsOn
    <2>5. /\ posted' \in Seq(Coroutine) /\ ~Posted("loop")' /\ held' \in BOOLEAN
          /\ \A i, j \in 1 .. Len(posted') : posted'[i] = posted'[j] => i = j
      BY <1>1, <1>3, <1>4 DEF HandInv, Types, Resumptions
    <2> QED
      BY <1>1, <1>3, <1>6, <2>1, <2>3, <2>4, <2>5, HandLost
  <1>8. CASE ~onDone
    <2>1. ops' = ops \cup {"read"} /\ pc' = [pc EXCEPT !["loop"] = "reading"]
      BY <1>1, <1>8 DEF Await, Begin, Leave
    <2>3. pc'["loop"] = "reading" /\ pc'["start"] = pc["start"] /\ pc'["stop"] = pc["stop"]
      BY <2>1 DEF HandInv, Types
    <2>4. Types'
      BY <1>1, <2>1, <1>6 DEF HandInv, Types
    <2>5. Order'
      BY <1>1, <1>2, <2>3 DEF HandInv, Order
    <2>6. Outstanding("read")' /\ \A x \in Coroutine : WaitsOn("read", x)' <=> x = "loop"
      BY <1>2, <2>1, <2>3 DEF Outstanding, WaitsOn
    <2>7. Handing("read")'
      BY <1>1, <1>3, <1>4, <1>6, <2>6, AwaitHands DEF HandInv, Types, ContextType
    <2>8. /\ Outstanding("write")' <=> Outstanding("write")
          /\ \A x \in Coroutine : WaitsOn("write", x)' <=> WaitsOn("write", x)
      BY <2>1, <2>3 DEF Outstanding, WaitsOn, WriteOp
    <2>9. Expected("write")' <=> Expected("write")
      BY <1>3, <2>8 DEF Expected
    <2>10. Handing("write")'
      BY <1>1, <1>6, <2>8, <2>9, Undisturbed DEF HandInv
    <2>11. Resumptions'
      <3>1. ASSUME NEW x \in Coroutine, Posted(x)
            PROVE  WaitsOn("write", x)' /\ ~Outstanding("write")' /\ thread'["write"].at \in {"out", "unlock"}
        BY <1>1, <1>3, <2>8, <3>1 DEF HandInv, Resumptions, Direction
      <3> QED
        BY <1>1, <1>3, <3>1 DEF HandInv, Resumptions
    <2> QED
      BY <2>4, <2>5, <2>7, <2>10, <2>11 DEF HandInv, Direction
  <1> QED
    BY <1>7, <1>8

\* The loop tests Canceled().
LEMMA HandTestCanceled == ASSUME HandInv, TestCanceled PROVE HandInv'
  <1> USE Names
  <1>1. /\ pc["loop"] = "again"
        /\ UNCHANGED <<ctx, thread, posted, watch_id, deliveries, handled, held, response, seen, ops,
                       up, down, over, onDone, watching, made>>
    BY DEF TestCanceled, contextVars, streamVars, serverVars
  <1>2. pc["start"] \in {"started", "failed"}
    BY <1>1 DEF HandInv, Order
  <1>3. /\ pc'["loop"] \in {"ended", "ready"} /\ pc'["start"] = pc["start"] /\ pc'["stop"] = pc["stop"]
        /\ pc' \in [Coroutine -> {"idle", "writing", "reading", "started", "failed", "ready",
                                  "again", "ended", "closing", "stopped", "lost"}]
    <2>1. pc' = [pc EXCEPT !["loop"] = "ended"] \/ pc' = [pc EXCEPT !["loop"] = "ready"]
      BY DEF TestCanceled, Leave
    <2> QED
      BY <2>1 DEF HandInv, Types
  <1>4. Types'
    BY <1>1, <1>3 DEF HandInv, Types
  <1>5. Order'
    BY <1>1, <1>2, <1>3 DEF HandInv, Order
  <1>6. /\ \A d \in Direction : \A x \in Coroutine : WaitsOn(d, x)' <=> WaitsOn(d, x)
        /\ \A d \in Direction : Outstanding(d)' <=> Outstanding(d)
        /\ \A x \in Coroutine : Posted(x)' <=> Posted(x)
    BY <1>1, <1>3 DEF WaitsOn, Direction, Outstanding, Posted
  <1>7. ASSUME NEW d \in Direction PROVE Handing(d)'
    <2>1. Expected(d) => Expected(d)'
      BY <1>6 DEF Expected
    <2> QED
      BY <1>1, <1>6, <2>1, Undisturbed DEF HandInv
  <1>8. Resumptions'
    BY <1>1, <1>6 DEF HandInv, Resumptions
  <1> QED
    BY <1>4, <1>5, <1>7, <1>8 DEF HandInv

\* The loop goes on with a response, and waits no more.
LEMMA HandHandOver == ASSUME HandInv, HandOver PROVE HandInv'
  <1> USE Names
  <1>1. /\ pc["loop"] = "reading" /\ Resume("loop")
        /\ UNCHANGED <<ctx, thread, watch_id, handled, held, response, seen, ops,
                       up, down, over, onDone, watching, made>>
    BY DEF HandOver, Awake, serverVars, streamVars
  <1>2. /\ posted' \in Seq(Coroutine) /\ Posted("loop") /\ ~Posted("loop")'
        /\ \A x \in Coroutine : x # "loop" => (Posted(x)' <=> Posted(x))
        /\ \A i, j \in 1 .. Len(posted') : posted'[i] = posted'[j] => i = j
    BY <1>1, ResumeOnce DEF HandInv, Types
  <1>3. pc["start"] \in {"started", "failed"}
    BY <1>1 DEF HandInv, Order
  <1>4. ~Expected("read")
    BY <1>1, <1>2, <1>3 DEF Expected, WaitsOn
  <1>5. ~Outstanding("read") /\ thread["read"].at \in {"out", "unlock"}
    BY <1>4, Quiet
  <1>6. /\ pc'["loop"] \in {"again", "ended"} /\ pc'["start"] = pc["start"]
        /\ pc'["stop"] = pc["stop"] /\ deliveries' \in SUBSET (SUBSET Int)
        /\ pc' \in [Coroutine -> {"idle", "writing", "reading", "started", "failed", "ready",
                                  "again", "ended", "closing", "stopped", "lost"}]
    <2>1. response.changes \in SUBSET Int
      BY DEF HandInv, Types, ResponseType
    <2>2. deliveries' \in SUBSET (SUBSET Int)
      BY <2>1 DEF HandOver, HandInv, Types
    <2>3. pc' = [pc EXCEPT !["loop"] = "again"] \/ pc' = [pc EXCEPT !["loop"] = "ended"]
      BY DEF HandOver, Leave
    <2> QED
      BY <2>2, <2>3 DEF HandInv, Types
  <1>7. Types'
    BY <1>1, <1>2, <1>6 DEF HandInv, Types
  <1>8. Order'
    BY <1>1, <1>3, <1>6 DEF HandInv, Order
  <1>9. /\ \A x \in Coroutine : WaitsOn("write", x)' <=> WaitsOn("write", x)
        /\ \A x \in Coroutine : ~WaitsOn("read", x)' /\ (WaitsOn("write", x) => x # "loop")
        /\ \A d \in Direction : Outstanding(d)' <=> Outstanding(d)
    BY <1>1, <1>3, <1>6 DEF WaitsOn, Outstanding
  <1>10. Handing("read")'
    BY <1>1, <1>5, <1>9 DEF HandInv, Handing
  <1>11. Handing("write")'
    <2>1. Expected("write") => Expected("write")'
      BY <1>2, <1>9 DEF Expected
    <2> QED
      BY <1>1, <1>9, <2>1, Undisturbed DEF HandInv
  <1>12. Resumptions'
    <2>1. ASSUME NEW x \in Coroutine, Posted(x)'
          PROVE  WaitsOn("write", x)' /\ ~Outstanding("write")' /\ thread'["write"].at \in {"out", "unlock"}
      <3>1. x # "loop" /\ Posted(x) /\ ~WaitsOn("read", x)
        BY <1>2, <1>3, <2>1 DEF WaitsOn
      <3> QED
        BY <1>1, <1>9, <3>1 DEF HandInv, Resumptions, Direction
    <2> QED
      BY <1>2, <2>1 DEF Resumptions
  <1> QED
    BY <1>7, <1>8, <1>10, <1>11, <1>12 DEF HandInv, Direction

\* A step of the coroutine that stops the watch leaves the reading side alone.
LEMMA ReadSideKept ==
  ASSUME HandInv, thread' = thread, ctx'["read"].mu = ctx["read"].mu,
         ctx'["read"].success = ctx["read"].success, ctx'["read"].resumer = ctx["read"].resumer,
         pc'["start"] = pc["start"], pc'["loop"] = pc["loop"],
         "read" \in ops' <=> "read" \in ops,
         \A x \in Coroutine : x # "stop" => (Posted(x)' <=> Posted(x))
  PROVE  /\ Handing("read")'
         /\ \A x \in Coroutine : x # "stop" /\ WaitsOn("read", x) /\ ~Outstanding("read")
                                   => WaitsOn("read", x)' /\ ~Outstanding("read")'
         /\ \A x \in Coroutine : WaitsOn("read", x) => x # "stop"
  <1> USE Names
  <1>1. /\ Outstanding("read")' <=> Outstanding("read")
        /\ \A x \in Coroutine : WaitsOn("read", x)' <=> WaitsOn("read", x)
        /\ \A x \in Coroutine : WaitsOn("read", x) => x # "stop"
    BY DEF Outstanding, WaitsOn
  <1>2. Expected("read") => Expected("read")'
    BY <1>1 DEF Expected
  <1>3. Handing("read")'
    BY <1>1, <1>2, Undisturbed DEF HandInv
  <1> QED
    BY <1>1, <1>3

\* StopWatch returns at once, or writes the request to cancel.
LEMMA HandStop == ASSUME HandInv, StopWatch PROVE HandInv'
  <1> USE Names
  <1>1. /\ pc["stop"] = "idle" /\ pc["start"] = "started"
        /\ UNCHANGED <<thread, posted, watch_id, deliveries, handled, response, seen,
                       up, down, over, onDone, watching, made>>
    BY DEF StopWatch, serverVars
  <1>2. /\ \A x \in Coroutine : ~WaitsOn("write", x)
        /\ \A x \in Coroutine : Posted(x)' <=> Posted(x)
    BY <1>1 DEF WaitsOn, Posted
  <1>3. ~Expected("write") /\ ~Posted("stop") /\ ~Posted("stop")'
    BY <1>1, <1>2 DEF Expected, HandInv, Resumptions, WaitsOn
  <1>4. ~Outstanding("write") /\ thread["write"].at \in {"out", "unlock"}
    BY <1>3, Quiet
  <1>5. /\ pc' \in [Coroutine -> {"idle", "writing", "reading", "started", "failed", "ready",
                                  "again", "ended", "closing", "stopped", "lost"}]
        /\ pc'["start"] = pc["start"] /\ pc'["loop"] = pc["loop"]
        /\ "read" \in ops' <=> "read" \in ops
    BY DEF StopWatch, StopReturns, Await, Begin, Leave, HandInv, Types
  <1>6. CASE StopReturns(TRUE) /\ UNCHANGED <<ctx, ops>>
    <2>1. pc'["stop"] = "stopped" /\ held' = FALSE
      BY <1>6 DEF StopReturns, Leave, HandInv, Types
    <2>2. Types'
      BY <1>1, <1>5, <1>6, <2>1 DEF HandInv, Types
    <2>3. Order'
      BY <1>1, <1>5, <2>1 DEF HandInv, Order
    <2>4. \A x \in Coroutine : ~WaitsOn("write", x)'
      BY <1>1, <1>5, <2>1 DEF WaitsOn
    <2>5. Handing("write")'
      BY <1>1, <1>4, <1>6, <2>4 DEF HandInv, Handing, Outstanding
    <2>6. /\ Handing("read")'
          /\ \A x \in Coroutine : x # "stop" /\ WaitsOn("read", x) /\ ~Outstanding("read")
                                    => WaitsOn("read", x)' /\ ~Outstanding("read")'
      BY <1>1, <1>2, <1>5, <1>6, ReadSideKept
    <2>7. Resumptions'
      BY <1>1, <1>2, <1>3, <2>6 DEF HandInv, Resumptions, Direction
    <2> QED
      BY <2>2, <2>3, <2>5, <2>6, <2>7 DEF HandInv, Direction
  <1>8. CASE Await("stop", "write", "cancel", "writing") /\ UNCHANGED held /\ onDone
    <2>1. LockContext("write", "stop") /\ ops' = ops /\ pc' = [pc EXCEPT !["stop"] = "lost"]
      BY <1>8 DEF Await, Begin, Leave
    <2>2. /\ ctx' \in [Direction -> ContextType(Coroutine)]
          /\ \A e \in Direction : ctx'[e].mu = ctx[e].mu /\ ctx'[e].success = ctx[e].success
          /\ \A e \in Direction : e # "write" => ctx'[e].resumer = ctx[e].resumer
      <3>1. ctx \in [Direction -> ContextType(Coroutine)]
        BY DEF HandInv, Types
      <3>2. /\ ctx' \in [Direction -> ContextType(Coroutine)] /\ ctx'["read"] = ctx["read"]
            /\ ctx'["write"].mu = ctx["write"].mu /\ ctx'["write"].success = ctx["write"].success
        BY <2>1, <3>1, LockStep
      <3> QED
        BY <3>2 DEF Direction
    <2>3. pc'["stop"] = "lost"
      BY <2>1 DEF HandInv, Types
    <2>4. Order'
      BY <1>1, <1>5, <1>8, <2>3 DEF HandInv, Order
    <2>5. /\ posted' \in Seq(Coroutine) /\ held' \in BOOLEAN
          /\ \A i, j \in 1 .. Len(posted') : posted'[i] = posted'[j] => i = j
          /\ \A e \in Direction : ~WaitsOn(e, "stop")
      BY <1>1, <1>8 DEF HandInv, Types, Resumptions, WaitsOn
    <2> QED
      BY <1>1, <1>2, <1>3, <2>1, <2>2, <2>4, <2>5, HandLost
  <1>7. CASE Await("stop", "write", "cancel", "writing") /\ UNCHANGED held /\ ~onDone
    <2>1. /\ LockContext("write", "stop") /\ ops' = ops \cup {"cancel"}
          /\ pc' = [pc EXCEPT !["stop"] = "writing"]
      BY <1>7 DEF Await, Begin, Leave
    <2>2. /\ ctx' \in [Direction -> ContextType(Coroutine)] /\ ~ctx["write"].mu
          /\ ctx'["read"] = ctx["read"]
          /\ ctx'["write"].resumer = <<"stop">> /\ ctx'["write"].mu = ctx["write"].mu
          /\ ctx'["write"].success = ctx["write"].success
      <3>1. ctx \in [Direction -> ContextType(Coroutine)]
        BY DEF HandInv, Types
      <3> QED
        BY <2>1, <3>1, LockStep
    <2>3. pc'["stop"] = "writing"
      BY <2>1 DEF HandInv, Types
    <2>4. Types'
      BY <1>1, <1>5, <1>7, <2>1, <2>2 DEF HandInv, Types, WriteOp
    <2>5. Order'
      BY <1>1, <1>5, <1>7, <2>3 DEF HandInv, Order
    <2>6. Outstanding("write")' /\ \A x \in Coroutine : WaitsOn("write", x)' <=> x = "stop"
      BY <1>1, <1>5, <2>1, <2>3 DEF Outstanding, WaitsOn, WriteOp
    <2>7. Handing("write")'
      BY <1>1, <1>3, <2>2, <2>6, AwaitHands DEF HandInv, Types, ContextType
    <2>8. /\ Handing("read")'
          /\ \A x \in Coroutine : x # "stop" /\ WaitsOn("read", x) /\ ~Outstanding("read")
                                    => WaitsOn("read", x)' /\ ~Outstanding("read")'
      BY <1>1, <1>2, <1>5, <2>2, ReadSideKept
    <2>9. Resumptions'
      BY <1>1, <1>2, <1>3, <2>8 DEF HandInv, Resumptions, Direction
    <2> QED
      BY <2>4, <2>5, <2>7, <2>8, <2>9 DEF HandInv, Direction
  <1> QED
    BY <1>6, <1>7, <1>8 DEF StopWatch

\* StopWatch goes on: it closes the stream, or returns.
LEMMA HandCanceled == ASSUME HandInv, CancelWritten \/ Stopped PROVE HandInv'
  <1> USE Names
  <1>1. /\ pc["stop"] \in {"writing", "closing"} /\ Resume("stop")
        /\ UNCHANGED <<thread, watch_id, deliveries, handled, response, seen,
                       up, down, over, onDone, watching, made>>
    BY DEF CancelWritten, Stopped, Awake, serverVars, streamVars
  <1>2. /\ posted' \in Seq(Coroutine) /\ Posted("stop") /\ ~Posted("stop")'
        /\ \A x \in Coroutine : x # "stop" => (Posted(x)' <=> Posted(x))
        /\ \A i, j \in 1 .. Len(posted') : posted'[i] = posted'[j] => i = j
    BY <1>1, ResumeOnce DEF HandInv, Types
  <1>3. pc["start"] = "started"
    BY <1>1 DEF HandInv, Order
  <1>4. ~Expected("write")
    BY <1>1, <1>2, <1>3 DEF Expected, WaitsOn
  <1>5. ~Outstanding("write") /\ thread["write"].at \in {"out", "unlock"}
    BY <1>4, Quiet
  <1>6. /\ pc' \in [Coroutine -> {"idle", "writing", "reading", "started", "failed", "ready",
                                  "again", "ended", "closing", "stopped", "lost"}]
        /\ pc'["start"] = pc["start"] /\ pc'["loop"] = pc["loop"]
        /\ "read" \in ops' <=> "read" \in ops
    BY DEF CancelWritten, Stopped, StopReturns, Begin, Leave, HandInv, Types, streamVars
  <1>7. ASSUME Handing("read")', Handing("write")',
               \A x \in Coroutine : x # "stop" /\ WaitsOn("read", x) /\ ~Outstanding("read")
                                      => WaitsOn("read", x)' /\ ~Outstanding("read")'
        PROVE  (\A d \in Direction : Handing(d)') /\ Resumptions'
    <2>1. ASSUME NEW x \in Coroutine, Posted(x)'
          PROVE  WaitsOn("read", x)' /\ ~Outstanding("read")' /\ thread'["read"].at \in {"out", "unlock"}
      <3>1. x # "stop" /\ Posted(x) /\ ~WaitsOn("write", x)
        BY <1>2, <1>3, <2>1 DEF WaitsOn
      <3> QED
        BY <1>1, <1>7, <3>1 DEF HandInv, Resumptions, Direction
    <2> QED
      BY <1>2, <1>7, <2>1 DEF Resumptions, Direction
  <1>8. CASE \E ok \in BOOLEAN : StopReturns(ok) /\ UNCHANGED <<ctx, ops>>
    <2>1. pc'["stop"] \in {"stopped", "failed"} /\ held' = FALSE
      BY <1>8 DEF StopReturns, Leave, HandInv, Types
    <2>2. Types'
      BY <1>1, <1>2, <1>6, <1>8, <2>1 DEF HandInv, Types
    <2>3. Order'
      BY <1>1, <1>3, <1>6, <2>1 DEF HandInv, Order
    <2>4. \A x \in Coroutine : ~WaitsOn("write", x)'
      BY <1>3, <1>6, <2>1 DEF WaitsOn
    <2>5. Handing("write")'
      BY <1>1, <1>5, <1>8, <2>4 DEF HandInv, Handing, Outstanding
    <2>6. /\ Handing("read")'
          /\ \A x \in Coroutine : x # "stop" /\ WaitsOn("read", x) /\ ~Outstanding("read")
                                    => WaitsOn("read", x)' /\ ~Outstanding("read")'
      BY <1>1, <1>2, <1>6, <1>8, ReadSideKept
    <2> QED
      BY <1>7, <2>2, <2>3, <2>5, <2>6 DEF HandInv
  <1>9. CASE /\ ~ctx["write"].mu
             /\ ctx' = [ctx EXCEPT !["read"].cancel = TRUE, !["write"].resumer = <<"stop">>]
             /\ Begin("stop", "writesdone", "closing")
             /\ UNCHANGED held
    <2>1. /\ ctx' \in [Direction -> ContextType(Coroutine)]
          /\ ctx'["write"].resumer = <<"stop">> /\ ctx'["write"].mu = ctx["write"].mu
          /\ ctx'["write"].success = ctx["write"].success
          /\ ctx'["read"].resumer = ctx["read"].resumer /\ ctx'["read"].mu = ctx["read"].mu
          /\ ctx'["read"].success = ctx["read"].success
      <3>1. ctx \in [Direction -> ContextType(Coroutine)]
        BY DEF HandInv, Types
      <3> QED
        BY <1>9, <3>1 DEF ContextType, Direction
    <2>2. CASE onDone
      <3>1. ops' = ops /\ pc' = [pc EXCEPT !["stop"] = "lost"]
        BY <1>9, <2>2 DEF Begin, Leave
      <3>2. pc'["stop"] = "lost"
        BY <3>1 DEF HandInv, Types
      <3>3. Order'
        BY <1>1, <1>3, <1>6, <1>9, <3>2 DEF HandInv, Order
      <3>4. /\ \A e \in Direction : ctx'[e].mu = ctx[e].mu /\ ctx'[e].success = ctx[e].success
            /\ \A e \in Direction : e # "write" => ctx'[e].resumer = ctx[e].resumer
            /\ \A e \in Direction : WaitsOn(e, "stop") => ~Expected(e)
            /\ \A x \in Coroutine : x # "stop" => ~WaitsOn("write", x)
        BY <1>3, <1>4, <2>1 DEF Direction, WaitsOn
      <3>5. held' \in BOOLEAN
        BY <1>9 DEF HandInv, Types
      <3> QED
        BY <1>1, <1>2, <2>1, <3>1, <3>3, <3>4, <3>5, HandLost
    <2>3. CASE ~onDone
      <3>1. ops' = ops \cup {"writesdone"} /\ pc' = [pc EXCEPT !["stop"] = "closing"]
        BY <1>9, <2>3 DEF Begin, Leave
      <3>2. pc'["stop"] = "closing"
        BY <3>1 DEF HandInv, Types, Leave
      <3>3. Types'
        BY <1>1, <1>2, <1>6, <1>9, <2>1, <3>1 DEF HandInv, Types, WriteOp
      <3>4. Order'
        BY <1>1, <1>3, <1>6, <1>9, <3>2 DEF HandInv, Order
      <3>5. Outstanding("write")' /\ \A x \in Coroutine : WaitsOn("write", x)' <=> x = "stop"
        BY <1>3, <1>6, <3>1, <3>2 DEF Outstanding, WaitsOn, WriteOp
      <3>6. Handing("write")'
        BY <1>1, <1>2, <1>4, <1>9, <2>1, <3>5, AwaitHands DEF HandInv, Types, ContextType
      <3>7. /\ Handing("read")'
            /\ \A x \in Coroutine : x # "stop" /\ WaitsOn("read", x) /\ ~Outstanding("read")
                                      => WaitsOn("read", x)' /\ ~Outstanding("read")'
        BY <1>1, <1>2, <1>6, <2>1, ReadSideKept
      <3> QED
        BY <1>7, <3>3, <3>4, <3>6, <3>7 DEF HandInv
    <2> QED
      BY <2>2, <2>3
  <1>10. ctx["write"].success \in BOOLEAN
    BY DEF HandInv, Types, ContextType
  <1> QED
    BY <1>8, <1>9, <1>10 DEF CancelWritten, Stopped, streamVars

\* Change, with the number of changes given.
ChangeOf(n) ==
  /\ made' = made + n
  /\ down' = IF watching THEN Append(down, Response("change", 0, made + 1 .. made + n)) ELSE down
  /\ UNCHANGED <<contextVars, userVars, response, seen, ops, up, over, onDone, watching>>

\* A change is of some number of keys.
LEMMA ChangeIs == Change <=> \E n \in 1 .. MaxChanges - made : ChangeOf(n)
  BY DEF Change, ChangeOf

\* The response to a change.
LEMMA ChangeResponse ==
  ASSUME NEW n \in Int, made \in Int
  PROVE  LET r == Response("change", 0, made + 1 .. made + n)
         IN r \in ResponseType /\ r.kind = "change" /\ r.changes = made + 1 .. made + n
  <1>1. (made + 1 .. made + n) \in SUBSET Int
    OBVIOUS
  <1> QED
    BY <1>1 DEF Response, ResponseType

\* The response that creates a watch, and the one that cancels it.
LEMMA OtherResponse ==
  ASSUME NEW k \in {"created", "canceled"}, NEW id \in Int
  PROVE  LET r == Response(k, id, {})
         IN r \in ResponseType /\ r.kind = k /\ r.changes = {}
  BY DEF Response, ResponseType

\* The steps of etcd and of a delivery coroutine leave the hand-over alone.
LEMMA HandServer ==
  ASSUME HandInv, (\E v \in 1 .. MaxChanges : Deliver(v)) \/ Change \/ Serve \/ Break \/ UNCHANGED vars
  PROVE  HandInv'
  <1>1. UNCHANGED <<ctx, thread, posted, pc, watch_id, held, response, seen, ops, onDone>>
    BY DEF Deliver, Change, Serve, Break, vars, contextVars, userVars, streamVars, serverVars
  <1>2. /\ up' \in Seq(WriteOp) /\ down' \in Seq(ResponseType) /\ made' \in 0 .. MaxChanges
        /\ deliveries' \in SUBSET (SUBSET Int) /\ handled' \in Seq(Int)
        /\ over' \in BOOLEAN /\ watching' \in BOOLEAN
    <2> USE DEF HandInv, Types
    <2>1. CASE \E v \in 1 .. MaxChanges : Deliver(v)
      <3>1. PICK v \in 1 .. MaxChanges : Deliver(v)
        BY <2>1
      <3>2. v \in Int
        BY <3>1
      <3>3. handled' \in Seq(Int)
        BY <3>1, <3>2, AppendProperties DEF Deliver
      <3>4. deliveries' \in SUBSET (SUBSET Int)
        <4>1. PICK rest \in deliveries : deliveries' = ((deliveries \ {rest}) \cup {rest \ {v}}) \ {{}}
          BY <3>1 DEF Deliver
        <4>2. rest \ {v} \in SUBSET Int
          BY <4>1
        <4> QED
          BY <4>1, <4>2
      <3> QED
        BY <3>1, <3>3, <3>4 DEF Deliver, streamVars, serverVars
    <2>2. CASE Change
      <3>1. PICK n \in 1 .. MaxChanges - made : ChangeOf(n)
        BY <2>2, ChangeIs
      <3>2. down' \in Seq(ResponseType)
        BY <3>1, ChangeResponse, AppendProperties DEF ChangeOf
      <3>3. made' \in 0 .. MaxChanges
        BY <3>1, MaxChangesAssumption DEF ChangeOf
      <3> QED
        BY <3>1, <3>2, <3>3 DEF ChangeOf, userVars
    <2>3. CASE Serve
      <3>1. up' \in Seq(WriteOp)
        BY <2>3, HeadTailProperties DEF Serve
      <3>2. /\ \A id \in WatchIds : Response("created", id, {}) \in ResponseType
            /\ Response("canceled", watch_id, {}) \in ResponseType
        BY WatchIdsAssumption, OtherResponse
      <3>3. down' \in Seq(ResponseType)
        <4>1. CASE \E id \in WatchIds : down' = Append(down, Response("created", id, {}))
          <5>1. PICK id \in WatchIds : down' = Append(down, Response("created", id, {}))
            BY <4>1
          <5> QED
            BY <3>2, <5>1, AppendProperties
        <4>2. CASE down' = Append(down, Response("canceled", watch_id, {}))
          BY <3>2, <4>2, AppendProperties
        <4>3. CASE UNCHANGED down
          BY <4>3
        <4> QED
          BY <2>3, <4>1, <4>2, <4>3 DEF Serve
      <3>4. watching' \in BOOLEAN /\ over' \in BOOLEAN
        <4>1. \A id \in WatchIds : (id >= 0) \in BOOLEAN
          BY WatchIdsAssumption
        <4> QED
          BY <2>3, <4>1 DEF Serve
      <3> QED
        BY <2>3, <3>1, <3>3, <3>4 DEF Serve, userVars
    <2>4. CASE Break
      <3>1. PICK n \in 0 .. Len(down) : down' = SubSeq(down, 1, n)
        BY <2>4 DEF Break
      <3>2. down' \in Seq(ResponseType)
        BY <3>1
      <3>3. <<>> \in Seq(WriteOp)
        OBVIOUS
      <3>4. up' \in Seq(WriteOp) /\ over' = TRUE /\ watching' = FALSE
        BY <2>4, <3>3 DEF Break
      <3> QED
        BY <2>4, <3>2, <3>4 DEF Break, userVars
    <2>5. CASE UNCHANGED vars
      BY <2>5 DEF vars, userVars, streamVars, serverVars
    <2> QED
      BY <2>1, <2>2, <2>3, <2>4, <2>5
  <1>3. Types'
    BY <1>1, <1>2 DEF HandInv, Types
  <1>4. Order' /\ Resumptions' /\ \A d \in Direction : Handing(d)'
    BY <1>1 DEF HandInv, Order, Resumptions, Handing, WaitsOn, Outstanding, Expected, Posted
  <1> QED
    BY <1>3, <1>4 DEF HandInv

\* A coroutine waits for one direction at a time.
LEMMA OneDirection ==
  ASSUME HandInv, NEW d \in Direction, NEW e \in Direction, NEW x \in Coroutine,
         WaitsOn(d, x), WaitsOn(e, x)
  PROVE  d = e
  BY DEF HandInv, Order, WaitsOn, Direction

\* An operation of direction d completes: a gRPC thread enters ResumeContext.
LEMMA HandComplete ==
  ASSUME HandInv, NEW d \in Direction, NEW ok \in BOOLEAN,
         Outstanding(d), ~Outstanding(d)', CallResumeContext(d, ok),
         \A e \in Direction : e # d => (Outstanding(e)' <=> Outstanding(e)),
         UNCHANGED <<ctx, posted, pc>>
  PROVE  thread' \in [Direction -> ThreadType] /\ (\A e \in Direction : Handing(e)') /\ Resumptions'
  <1>1. /\ thread' \in [Direction -> ThreadType] /\ thread'[d] = [at |-> "success", ok |-> ok]
        /\ \A e \in Direction : e # d => thread'[e] = thread[e]
    BY DEF HandInv, Types, ThreadType, CallResumeContext
  <1>2. /\ \A e \in Direction : \A x \in Coroutine : WaitsOn(e, x)' <=> WaitsOn(e, x)
        /\ \A x \in Coroutine : Posted(x)' <=> Posted(x)
    BY DEF WaitsOn, Posted
  <1>3. \A e \in Direction : Expected(e)' <=> Expected(e)
    BY <1>2 DEF Expected
  <1>4. Handing(d)'
    <2>1. thread[d].at = "out" /\ Expected(d) /\ ~ctx[d].mu
      BY DEF HandInv, Handing
    <2> QED
      BY <1>1, <1>2, <1>3, <2>1 DEF HandInv, Handing
  <1>5. ASSUME NEW e \in Direction, e # d PROVE Handing(e)'
    BY <1>1, <1>2, <1>3, <1>5, Undisturbed DEF HandInv
  <1>6. Resumptions'
    <2>1. ASSUME NEW x \in Coroutine, Posted(x)
          PROVE  \E e \in Direction :
                   WaitsOn(e, x)' /\ ~Outstanding(e)' /\ thread'[e].at \in {"out", "unlock"}
      <3>1. PICK e \in Direction : WaitsOn(e, x) /\ ~Outstanding(e) /\ thread[e].at \in {"out", "unlock"}
        BY <2>1 DEF HandInv, Resumptions
      <3> QED
        BY <1>1, <1>2, <3>1
    <2> QED
      BY <1>2, <2>1 DEF HandInv, Resumptions
  <1> QED
    BY <1>1, <1>4, <1>5, <1>6

\* OnWriteDone and OnWritesDoneDone: one operation is outstanding, so none is left.
LEMMA HandOnWriteDone ==
  ASSUME HandInv, Writes, NEW op \in WriteOp, OnWriteDone(op)
  PROVE  HandInv'
  <1> USE Names
  <1>1. /\ op \in ops /\ ops' = ops \ {op} /\ CallResumeContext("write", ~over)
        /\ UNCHANGED <<ctx, posted, pc, watch_id, deliveries, handled, held,
                       response, seen, down, over, onDone, watching, made>>
    BY DEF OnWriteDone, userVars, serverVars
  <1>2. Outstanding("write") /\ ~Outstanding("write")' /\ (Outstanding("read")' <=> Outstanding("read"))
    BY <1>1 DEF HandInv, Order, Writes, Outstanding, WriteOp
  <1>3. (~over) \in BOOLEAN
    OBVIOUS
  <1>4. thread' \in [Direction -> ThreadType] /\ (\A e \in Direction : Handing(e)') /\ Resumptions'
    BY <1>1, <1>2, <1>3, HandComplete DEF Direction
  <1>5. up' \in Seq(WriteOp)
    BY AppendProperties DEF OnWriteDone, HandInv, Types
  <1>6. Types'
    BY <1>1, <1>4, <1>5 DEF HandInv, Types
  <1>7. Order'
    BY <1>1 DEF HandInv, Order
  <1> QED
    BY <1>4, <1>6, <1>7 DEF HandInv

\* OnReadDone fills in response.
LEMMA HandOnReadDone == ASSUME HandInv, OnReadDone PROVE HandInv'
  <1> USE Names
  <1>1. /\ "read" \in ops /\ ops' = ops \ {"read"} /\ \E ok \in BOOLEAN : CallResumeContext("read", ok)
        /\ UNCHANGED <<ctx, posted, pc, watch_id, deliveries, handled, held,
                       up, over, onDone, watching, made>>
    BY DEF OnReadDone, userVars, serverVars
  <1>2. Outstanding("read") /\ ~Outstanding("read")' /\ (Outstanding("write")' <=> Outstanding("write"))
    BY <1>1 DEF Outstanding, WriteOp
  <1>3. PICK ok \in BOOLEAN : CallResumeContext("read", ok)
    BY <1>1
  <1>4. thread' \in [Direction -> ThreadType] /\ (\A e \in Direction : Handing(e)') /\ Resumptions'
    BY <1>1, <1>2, <1>3, HandComplete DEF Direction
  <1>5. response' \in ResponseType /\ seen' \in SUBSET Int /\ down' \in Seq(ResponseType)
    <2>1. CASE down # <<>> /\ response' = Head(down) /\ down' = Tail(down)
               /\ seen' = seen \cup Head(down).changes
      <3>1. Head(down) \in ResponseType /\ Tail(down) \in Seq(ResponseType)
        BY <2>1, HeadTailProperties DEF HandInv, Types
      <3>2. Head(down).changes \in SUBSET Int
        BY <3>1 DEF ResponseType
      <3> QED
        BY <2>1, <3>1, <3>2 DEF HandInv, Types
    <2>2. CASE UNCHANGED <<response, seen, down>>
      BY <2>2 DEF HandInv, Types
    <2> QED
      BY <2>1, <2>2 DEF OnReadDone
  <1>6. Types'
    BY <1>1, <1>4, <1>5 DEF HandInv, Types
  <1>7. Order'
    BY <1>1 DEF HandInv, Order
  <1> QED
    BY <1>4, <1>6, <1>7 DEF HandInv

\* OnDone cancels the reading context, which wakes nobody.
LEMMA HandOnDone == ASSUME HandInv, OnDone PROVE HandInv'
  <1> USE Names
  <1>1. /\ onDone' = TRUE /\ ctx' = [ctx EXCEPT !["read"].cancel = TRUE]
        /\ UNCHANGED <<thread, posted, pc, watch_id, deliveries, handled, held,
                       response, seen, ops, up, down, over, watching, made>>
    BY DEF OnDone, Cancel, userVars, serverVars
  <1>2. /\ ctx' \in [Direction -> ContextType(Coroutine)]
        /\ \A d \in Direction : /\ ctx'[d].mu = ctx[d].mu /\ ctx'[d].success = ctx[d].success
                               /\ ctx'[d].resumer = ctx[d].resumer
    <2>1. ctx \in [Direction -> ContextType(Coroutine)] /\ Cancel("read")
      BY DEF HandInv, Types, OnDone
    <2>2. /\ ctx' \in [Direction -> ContextType(Coroutine)]
          /\ \A d \in Direction : d # "read" => ctx'[d] = ctx[d]
          /\ ctx'["read"].mu = ctx["read"].mu /\ ctx'["read"].success = ctx["read"].success
          /\ ctx'["read"].resumer = ctx["read"].resumer
      BY <2>1, CancelStep
    <2> QED
      BY <2>2
  <1>3. Types'
    BY <1>1, <1>2 DEF HandInv, Types
  <1>4. Order' /\ Resumptions'
    BY <1>1 DEF HandInv, Order, Resumptions, WaitsOn, Outstanding, Posted
  <1>5. /\ \A d \in Direction : (Outstanding(d)' <=> Outstanding(d)) /\ (Expected(d)' <=> Expected(d))
        /\ \A d \in Direction : \A x \in Coroutine : WaitsOn(d, x)' <=> WaitsOn(d, x)
    BY <1>1 DEF WaitsOn, Outstanding, Posted, Expected
  <1>6. ASSUME NEW d \in Direction PROVE Handing(d)'
    BY <1>1, <1>2, <1>5, Undisturbed DEF HandInv
  <1> QED
    BY <1>3, <1>4, <1>6 DEF HandInv

\* What a step of ResumeContext changes.
LEMMA ResumeChanges ==
  ASSUME HandInv, NEW c \in Direction, ResumeContext(c)
  PROVE  /\ ctx' \in [Direction -> ContextType(Coroutine)] /\ thread' \in [Direction -> ThreadType]
         /\ posted' \in Seq(Coroutine)
         /\ \A d \in Direction : d # c => ctx'[d] = ctx[d] /\ thread'[d] = thread[d]
         /\ ctx'[c].resumer = ctx[c].resumer /\ ctx'[c].cancel = ctx[c].cancel
         /\ ctx'[c].success = IF thread[c].at = "success" THEN thread[c].ok ELSE ctx[c].success
         /\ ctx'[c].mu = IF thread[c].at = "lock" THEN TRUE
                         ELSE IF thread[c].at = "unlock" THEN FALSE ELSE ctx[c].mu
         /\ thread[c].at # "out" /\ (thread[c].at = "lock" => ~ctx[c].mu)
         /\ thread'[c].at = NextPlace(thread[c].at) /\ thread'[c].ok = thread[c].ok
         /\ posted' = IF thread[c].at = "resume" THEN posted \o ctx[c].resumer ELSE posted
  <1>1. /\ ctx \in [Direction -> ContextType(Coroutine)] /\ thread \in [Direction -> ThreadType]
        /\ posted \in Seq(Coroutine)
    BY DEF HandInv, Types
  <1>2. Resuming(Direction, Coroutine, c)
    BY <1>1, ResumeStep
  <1> QED
    BY <1>2 DEF Resuming

\* A step of ResumeContext: the one who waits is posted, once.
LEMMA HandResume ==
  ASSUME HandInv, NEW c \in Direction, ResumeContext(c), UNCHANGED <<userVars, streamVars, serverVars>>
  PROVE  HandInv'
  <1>1. UNCHANGED <<pc, watch_id, deliveries, handled, held, response, seen, ops, up, down,
                    over, onDone, watching, made>>
    BY DEF userVars, streamVars, serverVars
  <1>2. /\ ctx \in [Direction -> ContextType(Coroutine)] /\ thread \in [Direction -> ThreadType]
        /\ posted \in Seq(Coroutine)
    BY DEF HandInv, Types
  <1>3. /\ ctx' \in [Direction -> ContextType(Coroutine)] /\ thread' \in [Direction -> ThreadType]
        /\ posted' \in Seq(Coroutine)
        /\ \A d \in Direction : d # c => ctx'[d] = ctx[d] /\ thread'[d] = thread[d]
        /\ ctx'[c].resumer = ctx[c].resumer
        /\ ctx'[c].success = IF thread[c].at = "success" THEN thread[c].ok ELSE ctx[c].success
        /\ ctx'[c].mu = IF thread[c].at = "lock" THEN TRUE
                        ELSE IF thread[c].at = "unlock" THEN FALSE ELSE ctx[c].mu
        /\ thread[c].at # "out" /\ (thread[c].at = "lock" => ~ctx[c].mu)
        /\ thread'[c].at = NextPlace(thread[c].at) /\ thread'[c].ok = thread[c].ok
        /\ posted' = IF thread[c].at = "resume" THEN posted \o ctx[c].resumer ELSE posted
    BY ResumeChanges
  <1>4. Types'
    BY <1>1, <1>3 DEF HandInv, Types
  <1>5. Order'
    BY <1>1 DEF HandInv, Order
  <1>6. /\ \A d \in Direction : Outstanding(d)' <=> Outstanding(d)
        /\ \A d \in Direction : \A x \in Coroutine : WaitsOn(d, x)' <=> WaitsOn(d, x)
    BY <1>1 DEF WaitsOn, Outstanding
  <1>7. ~Outstanding(c)
    BY <1>3 DEF HandInv, Handing
  <1>8. CASE thread[c].at = "resume"
    <2>1. PICK r \in Coroutine : WaitsOn(c, r) /\ ~Posted(r)
      BY <1>8 DEF HandInv, Handing, Expected
    <2>2. posted' = posted \o <<r>>
      BY <1>3, <1>8, <2>1 DEF HandInv, Handing
    <2>3. /\ Posted(r)'
          /\ \A x \in Coroutine : x # r => (Posted(x)' <=> Posted(x))
          /\ \A i, j \in 1 .. Len(posted') : posted'[i] = posted'[j] => i = j
      BY <1>2, <2>1, <2>2, PostOnce DEF HandInv
    <2>4. thread'[c].at = "unlock" /\ ctx'[c].mu = ctx[c].mu /\ ctx'[c].success = ctx[c].success
      BY <1>3, <1>8 DEF NextPlace
    <2>5. Handing(c)'
      BY <1>3, <1>6, <1>7, <1>8, <2>4 DEF HandInv, Handing
    <2>6. ASSUME NEW d \in Direction, d # c PROVE Handing(d)'
      <3>1. \A x \in Coroutine : WaitsOn(d, x) => x # r
        BY <2>1, <2>6, OneDirection
      <3>2. Expected(d) => Expected(d)'
        BY <1>6, <2>3, <3>1 DEF Expected
      <3>3. ctx'[d] = ctx[d] /\ thread'[d] = thread[d]
        BY <1>3, <2>6
      <3> QED
        BY <1>6, <3>2, <3>3, Undisturbed DEF HandInv
    <2>7. Resumptions'
      <3>1. ASSUME NEW x \in Coroutine, Posted(x)'
            PROVE  \E e \in Direction :
                     WaitsOn(e, x)' /\ ~Outstanding(e)' /\ thread'[e].at \in {"out", "unlock"}
        <4>1. CASE x = r
          BY <1>6, <1>7, <2>1, <2>4, <4>1
        <4>2. CASE x # r
          <5>1. PICK e \in Direction : WaitsOn(e, x) /\ ~Outstanding(e) /\ thread[e].at \in {"out", "unlock"}
            BY <2>3, <3>1, <4>2 DEF HandInv, Resumptions
          <5>2. e # c
            BY <1>8, <5>1
          <5> QED
            BY <1>3, <1>6, <5>1, <5>2
        <4> QED
          BY <4>1, <4>2
      <3> QED
        BY <2>3, <3>1 DEF Resumptions
    <2> QED
      BY <1>4, <1>5, <2>5, <2>6, <2>7 DEF HandInv
  <1>9. CASE thread[c].at # "resume"
    <2>1. posted' = posted /\ \A x \in Coroutine : Posted(x)' <=> Posted(x)
      BY <1>3, <1>9 DEF Posted
    <2>2. \A d \in Direction : Expected(d)' <=> Expected(d)
      BY <1>6, <2>1 DEF Expected
    <2>3. thread[c].at \in {"success", "done", "lock", "unlock"}
      BY <1>2, <1>3, <1>9 DEF ThreadType
    <2>4. Handing(c)'
      BY <1>3, <1>6, <1>7, <2>2, <2>3 DEF HandInv, Handing, NextPlace
    <2>5. ASSUME NEW d \in Direction, d # c PROVE Handing(d)'
      <3>1. ctx'[d] = ctx[d] /\ thread'[d] = thread[d]
        BY <1>3, <2>5
      <3> QED
        BY <1>6, <2>2, <3>1, Undisturbed DEF HandInv
    <2>6. Resumptions'
      <3>1. ASSUME NEW x \in Coroutine, Posted(x)
            PROVE  \E e \in Direction :
                     WaitsOn(e, x)' /\ ~Outstanding(e)' /\ thread'[e].at \in {"out", "unlock"}
        <4>1. PICK e \in Direction : WaitsOn(e, x) /\ ~Outstanding(e) /\ thread[e].at \in {"out", "unlock"}
          BY <3>1 DEF HandInv, Resumptions
        <4>2. thread'[e].at \in {"out", "unlock"}
          BY <1>3, <4>1 DEF NextPlace
        <4> QED
          BY <1>6, <4>1, <4>2
      <3> QED
        BY <2>1, <3>1 DEF HandInv, Resumptions
    <2> QED
      BY <1>4, <1>5, <2>4, <2>5, <2>6 DEF HandInv
  <1> QED
    BY <1>8, <1>9

\* Every step keeps an operation with the coroutine that waits for it.
LEMMA WritesKept ==
  ASSUME HandInv, Writes, Next \/ UNCHANGED vars
  PROVE  Writes'
  <1> USE Names
  <1> USE DEF Writes
  <1>1. pc \in [Coroutine -> {"idle", "writing", "reading", "started", "failed", "ready", "again",
                              "ended", "closing", "stopped", "lost"}]
    BY DEF HandInv, Types
  <1>2. CASE Start
    BY <1>1, <1>2 DEF Start, Await, Begin, Leave
  <1>3. CASE ReadCreated
    <2>1. Posted("start") /\ pc["start"] = "writing" /\ pc["stop"] = "idle"
      BY <1>3, ResumeOnce DEF ReadCreated, Awake, HandInv, Types, Order
    <2>2. ~Expected("write")
      BY <2>1 DEF Expected, WaitsOn
    <2>3. "create" \notin ops
      BY <2>2, Quiet DEF Outstanding, WriteOp
    <2> QED
      BY <1>1, <1>3, <2>1, <2>3 DEF ReadCreated, Await, Begin, Leave
  <1>4. CASE Started
    BY <1>1, <1>4 DEF Started, Awake, Leave, streamVars
  <1>5. CASE StopWatch
    BY <1>1, <1>5 DEF StopWatch, StopReturns, Await, Begin, Leave
  <1>6. CASE CancelWritten \/ Stopped
    <2>1. Resume("stop") /\ pc["stop"] \in {"writing", "closing"}
      BY <1>6 DEF CancelWritten, Stopped, Awake
    <2>2. Posted("stop") /\ pc["start"] = "started"
      BY <2>1, ResumeOnce DEF HandInv, Types, Order
    <2>3. ~Expected("write")
      BY <2>1, <2>2 DEF Expected, WaitsOn
    <2>4. ops \cap WriteOp = {}
      BY <2>3, Quiet DEF Outstanding
    <2>5. CASE CancelWritten
      BY <1>1, <2>4, <2>5 DEF CancelWritten, StopReturns, Begin, Leave, WriteOp
    <2>6. CASE Stopped
      BY <1>1, <2>4, <2>6 DEF Stopped, StopReturns, Leave, WriteOp, streamVars
    <2> QED
      BY <1>6, <2>5, <2>6
  <1>7. CASE NextRead \/ TestCanceled
    BY <1>1, <1>7 DEF NextRead, TestCanceled, Await, Begin, Leave, streamVars
  <1>8. CASE HandOver
    BY <1>1, <1>8 DEF HandOver, Leave, streamVars
  <1>9. CASE \/ \E v \in 1 .. MaxChanges : Deliver(v)
             \/ Change \/ OnDone \/ Serve \/ Break \/ UNCHANGED vars
    <2>1. UNCHANGED <<pc, ops>>
      BY <1>9 DEF Deliver, Change, OnDone, Serve, Break, vars, userVars, streamVars
    <2> QED
      BY <2>1
  <1>10. CASE OnReadDone \/ \E op \in WriteOp : OnWriteDone(op)
    <2>1. UNCHANGED pc /\ ops' \subseteq ops
      BY <1>10 DEF OnReadDone, OnWriteDone, userVars
    <2> QED
      BY <2>1
  <1>11. CASE \E c \in Direction : ResumeContext(c) /\ UNCHANGED <<userVars, streamVars, serverVars>>
    <2>1. UNCHANGED <<pc, ops>>
      BY <1>11 DEF userVars, streamVars
    <2> QED
      BY <2>1
  <1> QED
    BY <1>2, <1>3, <1>4, <1>5, <1>6, <1>7, <1>8, <1>9, <1>10, <1>11
       DEF Next, User, Loop, Grpc, WriteOp

\* Every step keeps the hand-over.
LEMMA HandNext ==
  ASSUME HandInv, Writes, Next \/ UNCHANGED vars
  PROVE  HandInv'
  <1>1. CASE Start
    BY <1>1, HandStart
  <1>2. CASE ReadCreated
    BY <1>2, HandReadCreated
  <1>3. CASE Started
    BY <1>3, HandStarted
  <1>4. CASE StopWatch
    BY <1>4, HandStop
  <1>5. CASE CancelWritten \/ Stopped
    BY <1>5, HandCanceled
  <1>6. CASE NextRead \/ TestCanceled
    BY <1>6, HandNextRead, HandTestCanceled
  <1>7. CASE HandOver
    BY <1>7, HandHandOver
  <1>8. CASE (\E v \in 1 .. MaxChanges : Deliver(v)) \/ Change \/ Serve \/ Break \/ UNCHANGED vars
    BY <1>8, HandServer
  <1>9. CASE \E op \in WriteOp : OnWriteDone(op)
    BY <1>9, HandOnWriteDone
  <1>10. CASE OnReadDone
    BY <1>10, HandOnReadDone
  <1>11. CASE OnDone
    BY <1>11, HandOnDone
  <1>12. CASE \E c \in Direction : ResumeContext(c) /\ UNCHANGED <<userVars, streamVars, serverVars>>
    BY <1>12, HandResume
  <1> QED
    BY <1>1, <1>2, <1>3, <1>4, <1>5, <1>6, <1>7, <1>8, <1>9, <1>10, <1>11, <1>12
       DEF Next, User, Loop, Grpc, WriteOp

\* The hand-over is kept in every behaviour.
LEMMA HandInvariant == Spec => [](HandInv /\ Writes)
  <1>1. Init => HandInv /\ Writes
    BY HandInit DEF Init, Writes
  <1>2. HandInv /\ Writes /\ [Next]_vars => (HandInv /\ Writes)'
    BY HandNext, WritesKept
  <1> QED
    BY <1>1, <1>2, PTL DEF Spec

\* The last reference to the context goes when no coroutine waits any more: no
\* operation is outstanding then, and no thread is before unlock in
\* ResumeContext (watch_context.cc:49, call_context.cc:8-17).
THEOREM NothingOutlivesContext == Spec => []NoOperationOutlivesContext
  <1>1. HandInv => NoOperationOutlivesContext
    <2> SUFFICES ASSUME HandInv, pc["start"] # "idle", ~held, pc["loop"] \in {"idle", "ended"}
                 PROVE  ops = {} /\ \A c \in Direction : thread[c].at \in {"out", "unlock"}
      BY DEF NoOperationOutlivesContext
    <2>1. pc["start"] \in {"started", "failed"} /\ pc["stop"] \in {"idle", "stopped", "failed"}
      BY DEF HandInv, Order
    <2>2. \A d \in Direction : ~Expected(d)
      BY <2>1 DEF Expected, WaitsOn
    <2>3. \A d \in Direction : ~Outstanding(d) /\ thread[d].at \in {"out", "unlock"}
      BY <2>2, Quiet
    <2>4. ops = {}
      BY <2>3, Names DEF Outstanding, HandInv, Types
    <2> QED
      BY <2>3, <2>4
  <1> QED
    BY <1>1, HandInvariant, PTL

----------------------------------------------------------------------------
(* The order of requests and responses.                                    *)

\* A sequence at its two ends.
LEMMA SeqEnds ==
  ASSUME NEW S, NEW s \in Seq(S), NEW x \in S
  PROVE  /\ Len(s) \in Nat /\ (s = <<>> <=> Len(s) = 0)
         /\ Append(s, x) \in Seq(S) /\ Len(Append(s, x)) = Len(s) + 1
         /\ \A i \in 1 .. Len(s) : Append(s, x)[i] = s[i]
         /\ Append(s, x)[Len(s) + 1] = x
         /\ s # <<>> => /\ Head(s) = s[1] /\ Tail(s) \in Seq(S) /\ Len(Tail(s)) = Len(s) - 1
                       /\ \A i \in 1 .. Len(Tail(s)) : Tail(s)[i] = s[i + 1]
  <1>1. Len(s) \in Nat /\ (s = <<>> <=> Len(s) = 0)
    BY EmptySeq, LenProperties
  <1>2. /\ Append(s, x) \in Seq(S) /\ Len(Append(s, x)) = Len(s) + 1
        /\ \A i \in 1 .. Len(s) : Append(s, x)[i] = s[i]
        /\ Append(s, x)[Len(s) + 1] = x
    BY AppendProperties
  <1>3. s # <<>> => /\ Head(s) = s[1] /\ Tail(s) \in Seq(S) /\ Len(Tail(s)) = Len(s) - 1
                    /\ \A i \in 1 .. Len(Tail(s)) : Tail(s)[i] = s[i + 1]
    BY HeadTailProperties
  <1> QED
    BY <1>1, <1>2, <1>3

\* A step of the user or of a gRPC thread that sends and receives nothing.
LEMMA SameOnTheWay ==
  ASSUME OnTheWay, UNCHANGED <<response, up, down, over, watching>>,
         "create" \in ops' => "create" \in ops
  PROVE  OnTheWay'
  BY DEF OnTheWay, Creating

\* Change: etcd sends it only for a watch that exists.
LEMMA ChangeOnTheWay ==
  ASSUME HandInv, OnTheWay, Change
  PROVE  OnTheWay'
  <1>5. PICK n \in 1 .. MaxChanges - made : ChangeOf(n)
    BY ChangeIs
  <1> DEFINE r == Response("change", 0, made + 1 .. made + n)
  <1>1. down \in Seq(ResponseType) /\ r \in ResponseType /\ r.kind = "change"
    <2>1. down \in Seq(ResponseType) /\ made \in Int /\ n \in Int
      BY DEF HandInv, Types
    <2> QED
      BY <2>1, ChangeResponse
  <1>2. UNCHANGED <<response, up, over, watching, ops>>
    BY <1>5 DEF ChangeOf
  <1>3. CASE ~watching
    BY <1>2, <1>3, <1>5, SameOnTheWay DEF ChangeOf
  <1>4. CASE watching
    <2>1. down' = Append(down, r) /\ ~Creating /\ (down = <<>> => response.kind # "none") /\ ~over
      BY <1>4, <1>5 DEF ChangeOf, OnTheWay
    <2> HIDE DEF r
    <2>2. /\ Len(down) \in Nat /\ Len(down') = Len(down) + 1 /\ down'[Len(down) + 1] = r
          /\ \A i \in 1 .. Len(down) : down'[i] = down[i]
          /\ (down = <<>> <=> Len(down) = 0) /\ down' # <<>>
      BY <1>1, <2>1, SeqEnds, EmptySeq
    <2>3. ASSUME NEW i \in 1 .. Len(down')
          PROVE  down'[i].kind # "none" /\ (down'[i].kind = "created" <=> i = 1 /\ response.kind = "none")
      <3>1. CASE i \in 1 .. Len(down)
        BY <2>2, <3>1 DEF OnTheWay
      <3>2. CASE i \notin 1 .. Len(down)
        <4>1. i = Len(down) + 1
          BY <2>2, <3>2
        <4> QED
          BY <1>1, <2>1, <2>2, <4>1
      <3> QED
        BY <3>1, <3>2
    <2>4. ~Creating'
      BY <1>2, <2>1 DEF Creating
    <2> QED
      BY <1>2, <2>1, <2>2, <2>3, <2>4 DEF OnTheWay
  <1> QED
    BY <1>3, <1>4

\* OnWriteDone sends the request.
LEMMA WriteOnTheWay ==
  ASSUME HandInv, Writes, FirstResponse, NEW op \in WriteOp, OnWriteDone(op)
  PROVE  OnTheWay'
  <1>1. op \in ops /\ ops' = ops \ {op} /\ UNCHANGED <<response, down, over, watching>>
    BY DEF OnWriteDone, serverVars
  <1>2. CASE over
    BY <1>1, <1>2, SameOnTheWay DEF OnWriteDone, FirstResponse
  <1>3. CASE ~over
    <2>1. up' = Append(up, op) /\ up \in Seq(WriteOp)
      BY <1>3 DEF OnWriteDone, HandInv, Types
    <2>2. /\ Len(up) \in Nat /\ Len(up') = Len(up) + 1 /\ up'[Len(up) + 1] = op
          /\ \A i \in 1 .. Len(up) : up'[i] = up[i]
          /\ (up = <<>> <=> Len(up) = 0)
      BY <2>1, SeqEnds
    <2>3. \A i \in 1 .. Len(up') : i \in 1 .. Len(up) \/ i = Len(up) + 1
      BY <2>2
    <2>4. CASE op = "create"
      <3>1. Len(up) = 0 /\ Creating /\ "create" \notin ops'
        BY <1>1, <2>2, <2>4 DEF FirstResponse, OnTheWay, Creating
      <3>2. \A i \in 1 .. Len(up') : up'[i] = "create"
        BY <2>2, <2>3, <2>4, <3>1
      <3>3. down = <<>> /\ ~watching /\ response.kind = "none"
        BY <3>1 DEF FirstResponse, OnTheWay
      <3> QED
        BY <1>1, <2>2, <3>1, <3>2, <3>3 DEF FirstResponse, OnTheWay, Creating
    <2>5. CASE op # "create"
      <3>1. pc["stop"] # "idle"
        BY <1>1, <2>5 DEF Writes, WriteOp
      <3>2. pc["start"] = "started" /\ response.kind # "none"
        BY <3>1 DEF HandInv, Order, FirstResponse, Arrived
      <3>3. ~Creating
        BY <3>2 DEF FirstResponse, OnTheWay
      <3>4. ~Creating'
        BY <1>1, <2>2, <2>3, <2>5, <3>3 DEF Creating
      <3> QED
        BY <1>1, <3>2, <3>4 DEF FirstResponse, OnTheWay, Creating
    <2> QED
      BY <2>4, <2>5
  <1> QED
    BY <1>2, <1>3

\* OnReadDone takes the first response.
LEMMA ReadOnTheWay ==
  ASSUME HandInv, OnTheWay, OnReadDone
  PROVE  OnTheWay'
  <1>1. ops' = ops \ {"read"} /\ UNCHANGED <<up, over, watching>>
    BY DEF OnReadDone, serverVars
  <1>2. CASE UNCHANGED <<response, down>>
    BY <1>1, <1>2, SameOnTheWay
  <1>3. CASE down # <<>> /\ response' = Head(down) /\ down' = Tail(down)
    <2>1. down \in Seq(ResponseType) /\ response \in ResponseType
      BY DEF HandInv, Types
    <2>2. /\ Len(down) \in Nat /\ Len(down) # 0 /\ response' = down[1] /\ Len(down') = Len(down) - 1
          /\ \A i \in 1 .. Len(down') : down'[i] = down[i + 1]
      BY <1>3, <2>1, SeqEnds
    <2>3. 1 \in 1 .. Len(down) /\ \A i \in 1 .. Len(down') : i + 1 \in 1 .. Len(down) /\ i + 1 # 1
      BY <2>2
    <2>4. response'.kind # "none"
      BY <2>2, <2>3 DEF OnTheWay
    <2>5. ~Creating /\ ~Creating'
      BY <1>1, <1>3 DEF OnTheWay, Creating
    <2>6. \A i \in 1 .. Len(down') : down'[i].kind # "none" /\ down'[i].kind # "created"
      BY <2>2, <2>3 DEF OnTheWay
    <2> QED
      BY <1>1, <2>4, <2>5, <2>6 DEF OnTheWay, Creating
  <1> QED
    BY <1>2, <1>3 DEF OnReadDone

\* Serve answers the first request.
LEMMA ServeOnTheWay ==
  ASSUME HandInv, OnTheWay, Serve
  PROVE  OnTheWay'
  <1>1. up # <<>> /\ up' = Tail(up) /\ ~over /\ UNCHANGED <<response, ops>>
    BY DEF Serve
  <1>2. /\ Len(up) \in Nat /\ Len(up) # 0 /\ Head(up) = up[1] /\ Len(up') = Len(up) - 1
        /\ \A i \in 1 .. Len(up') : up'[i] = up[i + 1]
    BY <1>1, SeqEnds DEF HandInv, Types
  <1>3. 1 \in 1 .. Len(up) /\ \A i \in 1 .. Len(up') : i + 1 \in 1 .. Len(up) /\ i + 1 # 1
    BY <1>2
  <1>4. "create" \notin ops
    BY <1>1 DEF OnTheWay
  <1>5. /\ \A i \in 1 .. Len(up') : up'[i] # "create" /\ response.kind # "none"
        /\ ~Creating'
    <2>1. ASSUME NEW i \in 1 .. Len(up') PROVE up'[i] # "create"
      <3>1. up[i + 1] = "create" => Len(up) = 1
        BY <1>3 DEF OnTheWay
      <3> QED
        BY <1>2, <3>1
    <2>2. ASSUME NEW i \in 1 .. Len(up') PROVE response.kind # "none"
      <3>1. up[i + 1] # "create"
        BY <1>2, <2>1
      <3> QED
        BY <1>3, <3>1 DEF OnTheWay
    <2> QED
      BY <1>1, <1>4, <2>1, <2>2 DEF Creating
  <1>6. down \in Seq(ResponseType)
    BY DEF HandInv, Types
  <1>7. ASSUME NEW r \in ResponseType, down' = Append(down, r), r.kind # "none",
               r.kind = "created" <=> down = <<>> /\ response.kind = "none",
               UNCHANGED over
        PROVE  OnTheWay'
    <2>1. /\ Len(down) \in Nat /\ Len(down') = Len(down) + 1 /\ down'[Len(down) + 1] = r
          /\ \A i \in 1 .. Len(down) : down'[i] = down[i]
          /\ (down = <<>> <=> Len(down) = 0)
      BY <1>6, <1>7, SeqEnds
    <2>2. ASSUME NEW i \in 1 .. Len(down')
          PROVE  down'[i].kind # "none" /\ (down'[i].kind = "created" <=> i = 1 /\ response.kind = "none")
      <3>1. CASE i \in 1 .. Len(down)
        BY <2>1, <3>1 DEF OnTheWay
      <3>2. CASE i \notin 1 .. Len(down)
        <4>1. i = Len(down) + 1
          BY <2>1, <3>2
        <4> QED
          BY <1>7, <2>1, <4>1
      <3> QED
        BY <3>1, <3>2
    <2>3. down' # <<>>
      BY <2>1, EmptySeq
    <2> QED
      BY <1>1, <1>4, <1>5, <1>7, <2>2, <2>3 DEF OnTheWay
  <1>8. CASE Head(up) = "create"
    <2>1. PICK id \in WatchIds : down' = Append(down, Response("created", id, {})) /\ UNCHANGED over
      BY <1>8 DEF Serve
    <2>2. Creating
      BY <1>2, <1>3, <1>8 DEF Creating
    <2>3. /\ Response("created", id, {}) \in ResponseType /\ Response("created", id, {}).kind = "created"
          /\ down = <<>> /\ response.kind = "none"
      BY <2>2, WatchIdsAssumption, OtherResponse DEF OnTheWay
    <2> QED
      BY <1>7, <2>1, <2>3
  <1>9. CASE Head(up) # "create"
    <2>1. response.kind # "none"
      BY <1>2, <1>3, <1>9 DEF OnTheWay
    <2>2. CASE down' = Append(down, Response("canceled", watch_id, {})) /\ UNCHANGED over
      <3>1. Response("canceled", watch_id, {}) \in ResponseType /\ Response("canceled", watch_id, {}).kind = "canceled"
        BY OtherResponse DEF HandInv, Types
      <3> QED
        BY <1>7, <2>1, <2>2, <3>1
    <2>3. CASE UNCHANGED down /\ watching' = FALSE
      BY <1>1, <1>4, <1>5, <2>1, <2>3 DEF OnTheWay
    <2> QED
      BY <1>9, <2>2, <2>3 DEF Serve
  <1> QED
    BY <1>8, <1>9

\* Break loses what is on its way, the last responses first.
LEMMA BreakOnTheWay ==
  ASSUME HandInv, OnTheWay, Break
  PROVE  OnTheWay'
  <1>1. over' = TRUE /\ watching' = FALSE /\ up' = <<>> /\ UNCHANGED <<response, ops>>
    BY DEF Break
  <1>2. PICK n \in 0 .. Len(down) : down' = SubSeq(down, 1, n)
    BY DEF Break
  <1>3. down \in Seq(ResponseType)
    BY DEF HandInv, Types
  <1>4. /\ Len(down) \in Nat /\ Len(down') = n /\ \A i \in 1 .. n : i \in 1 .. Len(down) /\ down'[i] = down[i]
        /\ (down = <<>> => down' = <<>>)
    BY <1>2, <1>3, SubSeqProperties, EmptySeq
  <1>5. Creating' => Creating
    BY <1>1 DEF Creating
  <1> QED
    BY <1>1, <1>4, <1>5 DEF OnTheWay

\* The coroutine that goes on after a completed operation of direction d finds
\* what the gRPC thread left.
LEMMA ResumedAfter ==
  ASSUME HandInv, NEW d \in Direction, NEW r \in Coroutine, WaitsOn(d, r), Resume(r)
  PROVE  ~Outstanding(d) /\ thread[d].at \in {"out", "unlock"} /\ ctx[d].success = thread[d].ok
  <1>1. Posted(r)
    BY ResumeOnce DEF HandInv, Types
  <1>2. PICK e \in Direction : WaitsOn(e, r) /\ ~Outstanding(e) /\ thread[e].at \in {"out", "unlock"}
    BY <1>1 DEF HandInv, Resumptions
  <1>3. e = d
    BY <1>2, OneDirection
  <1> QED
    BY <1>2, <1>3 DEF HandInv, Handing

\* The steps of Watch and Start.
LEMMA StartArrived ==
  ASSUME HandInv, Arrived, Start \/ ReadCreated \/ Started
  PROVE  Arrived'
  <1> USE Names
  <1>1. pc \in [Coroutine -> {"idle", "writing", "reading", "started", "failed", "ready", "again",
                              "ended", "closing", "stopped", "lost"}]
    BY DEF HandInv, Types
  <1>2. pc["start"] \in {"idle", "writing", "reading"}
    BY DEF Start, ReadCreated, Started, Awake
  <1>3. pc["loop"] = "idle"
    BY <1>2 DEF HandInv, Order
  <1>4. UNCHANGED response
    BY DEF Start, ReadCreated, Started, streamVars
  <1>5. CASE Start
    <2>1. pc["start"] = "idle" /\ pc'["start"] \in {"writing", "lost"} /\ pc'["loop"] = "idle"
      BY <1>1, <1>3, <1>5 DEF Start, Await, Begin, Leave
    <2> QED
      BY <1>4, <2>1 DEF Arrived
  <1>6. CASE ReadCreated
    <2>1. /\ pc["start"] = "writing" /\ pc'["loop"] = "idle"
          /\ pc'["start"] \in {"failed", "lost"} \/ (pc'["start"] = "reading" /\ "read" \in ops')
      BY <1>1, <1>3, <1>6 DEF ReadCreated, Awake, Await, Begin, Leave
    <2> QED
      BY <1>4, <2>1 DEF Arrived
  <1>7. CASE Started
    <2>1. pc["start"] = "reading" /\ Resume("start") /\ WaitsOn("read", "start")
      BY <1>7 DEF Started, Awake, WaitsOn
    <2>2. ~Outstanding("read") /\ ctx["read"].success = thread["read"].ok
      BY <2>1, ResumedAfter
    <2>3. "read" \notin ops
      BY <2>2 DEF Outstanding
    <2>4. CASE ctx["read"].success
      <3>1. response.kind = "created"
        BY <2>1, <2>2, <2>3, <2>4 DEF Arrived
      <3>2. pc'["start"] \in {"started", "failed"}
        BY <1>1, <1>7, <2>4 DEF Started
      <3> QED
        BY <1>4, <3>1, <3>2 DEF Arrived
    <2>5. CASE ~ctx["read"].success
      <3>1. pc'["start"] = "failed" /\ pc'["loop"] = "idle"
        BY <1>1, <1>3, <1>7, <2>5 DEF Started, Leave
      <3> QED
        BY <3>1 DEF Arrived
    <2> QED
      BY <2>4, <2>5
  <1> QED
    BY <1>5, <1>6, <1>7

\* The steps of the loop and of StopWatch.
LEMMA LoopArrived ==
  ASSUME HandInv, Arrived, NextRead \/ HandOver \/ TestCanceled \/ StopWatch \/ CancelWritten \/ Stopped
  PROVE  Arrived'
  <1> USE Names
  <1>1. pc \in [Coroutine -> {"idle", "writing", "reading", "started", "failed", "ready", "again",
                              "ended", "closing", "stopped", "lost"}]
    BY DEF HandInv, Types
  <1>2. pc["start"] = "started" \/ pc["loop"] # "idle"
    BY DEF NextRead, HandOver, TestCanceled, StopWatch, CancelWritten, Stopped, Awake, HandInv, Order
  <1>3. pc["start"] \in {"started", "failed"}
    BY <1>2 DEF HandInv, Order
  <1>4. pc'["start"] = pc["start"]
    BY <1>1 DEF NextRead, HandOver, TestCanceled, StopWatch, CancelWritten, Stopped, StopReturns, Await, Begin, Leave
  <1>5. UNCHANGED response
    BY DEF NextRead, HandOver, TestCanceled, StopWatch, CancelWritten, Stopped, streamVars
  <1> QED
    BY <1>2, <1>3, <1>4, <1>5 DEF Arrived

\* OnReadDone: the first response it fills in is the one Start reads.
LEMMA ReadArrived ==
  ASSUME HandInv, FirstResponse, OnReadDone
  PROVE  Arrived'
  <1> USE Names
  <1>1. /\ "read" \in ops /\ ops' = ops \ {"read"} /\ UNCHANGED pc
        /\ thread \in [Direction -> ThreadType]
    BY DEF OnReadDone, userVars, HandInv, Types
  <1>2. Outstanding("read")
    BY <1>1 DEF Outstanding
  <1>3. pc["start"] = "reading" \/ pc["loop"] = "reading"
    BY <1>2 DEF HandInv, Handing, Expected, WaitsOn
  <1>4. pc["start"] \in {"reading", "started", "failed"}
    BY <1>3 DEF HandInv, Order
  <1>5. CASE UNCHANGED <<response, seen, down>> /\ CallResumeContext("read", FALSE)
    <2>1. thread'["read"].ok = FALSE
      BY <1>1, <1>5 DEF CallResumeContext
    <2> QED
      BY <1>1, <1>4, <1>5, <2>1 DEF FirstResponse, Arrived
  <1>6. CASE down # <<>> /\ response' = Head(down) /\ CallResumeContext("read", TRUE)
    <2>1. thread'["read"].ok = TRUE
      BY <1>1, <1>6 DEF CallResumeContext
    <2>2. response' = down[1] /\ 1 \in 1 .. Len(down)
      BY <1>6, SeqEnds DEF HandInv, Types
    <2>3. response'.kind # "none" /\ (pc["start"] = "reading" => response'.kind = "created")
      BY <1>1, <2>2 DEF FirstResponse, OnTheWay, Arrived
    <2> QED
      BY <1>1, <1>4, <2>1, <2>3 DEF Arrived
  <1> QED
    BY <1>5, <1>6 DEF OnReadDone

\* The other steps.
LEMMA ServerArrived ==
  ASSUME HandInv, FirstResponse,
         \/ \E v \in 1 .. MaxChanges : Deliver(v)
         \/ Change \/ Serve \/ Break \/ OnDone \/ UNCHANGED vars
         \/ \E op \in WriteOp : OnWriteDone(op)
         \/ \E c \in Direction : ResumeContext(c) /\ UNCHANGED <<userVars, streamVars, serverVars>>
  PROVE  Arrived'
  <1>1. UNCHANGED <<pc, response>>
    BY DEF Deliver, Change, Serve, Break, OnDone, OnWriteDone, vars, userVars, streamVars
  <1>2. ops' \subseteq ops /\ ("read" \in ops' <=> "read" \in ops)
    BY DEF Deliver, Change, Serve, Break, OnDone, OnWriteDone, vars, userVars, streamVars, WriteOp
  <1>3. thread'["read"].ok = thread["read"].ok
    <2>1. ctx \in [Direction -> ContextType(Coroutine)] /\ thread \in [Direction -> ThreadType]
          /\ posted \in Seq(Coroutine)
      BY DEF HandInv, Types
    <2>2. CASE \E c \in Direction : ResumeContext(c)
      <3>1. PICK c \in Direction : ResumeContext(c)
        BY <2>2
      <3>2. (\A d \in Direction : d # c => thread'[d] = thread[d]) /\ thread'[c].ok = thread[c].ok
        BY <3>1, ResumeChanges
      <3> QED
        BY <3>2, Names
    <2>3. CASE \E op \in WriteOp : OnWriteDone(op)
      BY <2>1, <2>3, Names DEF OnWriteDone, CallResumeContext
    <2>4. CASE UNCHANGED thread
      BY <2>4
    <2> QED
      BY <2>2, <2>3, <2>4 DEF Deliver, Change, Serve, Break, OnDone, vars, contextVars
  <1>4. ASSUME pc["start"] = "idle" PROVE up' = <<>> /\ down' = <<>> /\ ~watching'
    <2>1. ops = {} /\ up = <<>> /\ down = <<>> /\ ~watching
      BY <1>4 DEF FirstResponse, Arrived
    <2> QED
      BY <1>4, <2>1 DEF Deliver, Change, Serve, Break, OnDone, OnWriteDone, vars, streamVars, serverVars
  <1> QED
    BY <1>1, <1>2, <1>3, <1>4 DEF FirstResponse, Arrived

\* The first response is the one to the request that creates the watch.
LEMMA FirstNext ==
  ASSUME HandInv, Writes, FirstResponse, Next \/ UNCHANGED vars
  PROVE  FirstResponse'
  <1>1. OnTheWay'
    <2>1. CASE Start
      <3>1. /\ pc["start"] = "idle" /\ ops' \in {ops, ops \cup {"create"}}
            /\ UNCHANGED <<response, up, down, over, watching>>
        BY <2>1 DEF Start, Await, Begin, serverVars
      <3>2. up = <<>> /\ down = <<>> /\ ~watching /\ response.kind = "none"
        BY <3>1 DEF FirstResponse, Arrived
      <3> QED
        BY <3>1, <3>2 DEF FirstResponse, OnTheWay
    <2>2. CASE \/ ReadCreated \/ Started \/ StopWatch \/ CancelWritten \/ Stopped
               \/ NextRead \/ HandOver \/ TestCanceled \/ OnDone \/ UNCHANGED vars
               \/ \E v \in 1 .. MaxChanges : Deliver(v)
               \/ \E c \in Direction : ResumeContext(c) /\ UNCHANGED <<userVars, streamVars, serverVars>>
      <3>1. UNCHANGED <<response, up, down, over, watching>>
        BY <2>2 DEF ReadCreated, Started, StopWatch, CancelWritten, Stopped, NextRead, HandOver,
                    TestCanceled, OnDone, Deliver, vars, streamVars, serverVars
      <3>2. "create" \in ops' => "create" \in ops
        <4>1. CASE ReadCreated \/ NextRead
          BY <4>1 DEF ReadCreated, NextRead, Await, Begin
        <4>2. CASE StopWatch
          <5>1. ops' = ops \/ ops' = ops \cup {"cancel"}
            BY <4>2 DEF StopWatch, Await, Begin
          <5> QED
            BY <5>1
        <4>3. CASE CancelWritten
          <5>1. ops' = ops \/ ops' = ops \cup {"writesdone"}
            BY <4>3 DEF CancelWritten, Begin
          <5> QED
            BY <5>1
        <4>4. CASE UNCHANGED ops
          BY <4>4
        <4> QED
          BY <2>2, <4>1, <4>2, <4>3, <4>4 DEF Started, Stopped, HandOver, TestCanceled, OnDone, Deliver, vars, streamVars
      <3> QED
        BY <3>1, <3>2, SameOnTheWay DEF FirstResponse
    <2>3. CASE Change
      BY <2>3, ChangeOnTheWay DEF FirstResponse
    <2>4. CASE \E op \in WriteOp : OnWriteDone(op)
      BY <2>4, WriteOnTheWay
    <2>5. CASE OnReadDone
      BY <2>5, ReadOnTheWay DEF FirstResponse
    <2>6. CASE Serve
      BY <2>6, ServeOnTheWay DEF FirstResponse
    <2>7. CASE Break
      BY <2>7, BreakOnTheWay DEF FirstResponse
    <2> QED
      BY <2>1, <2>2, <2>3, <2>4, <2>5, <2>6, <2>7 DEF Next, User, Loop, Grpc, WriteOp
  <1>2. Arrived'
    <2>1. CASE Start \/ ReadCreated \/ Started
      BY <2>1, StartArrived DEF FirstResponse
    <2>2. CASE NextRead \/ HandOver \/ TestCanceled \/ StopWatch \/ CancelWritten \/ Stopped
      BY <2>2, LoopArrived DEF FirstResponse
    <2>3. CASE OnReadDone
      BY <2>3, ReadArrived
    <2>4. CASE \/ \E v \in 1 .. MaxChanges : Deliver(v)
               \/ Change \/ Serve \/ Break \/ OnDone \/ UNCHANGED vars
               \/ \E op \in WriteOp : OnWriteDone(op)
               \/ \E c \in Direction : ResumeContext(c) /\ UNCHANGED <<userVars, streamVars, serverVars>>
      BY <2>4, ServerArrived
    <2> QED
      BY <2>1, <2>2, <2>3, <2>4 DEF Next, User, Loop, Grpc, WriteOp
  <1> QED
    BY <1>1, <1>2 DEF FirstResponse

----------------------------------------------------------------------------
(* Where the changes are.                                                  *)

\* OnReadDone takes the first response off the stream.
LEMMA ReadSent ==
  ASSUME HandInv, Sent, OnReadDone
  PROVE  Sent'
  <1>1. made' = made
    BY DEF OnReadDone, serverVars
  <1>2. CASE UNCHANGED <<response, seen, down>>
    BY <1>1, <1>2 DEF Sent
  <1>3. CASE /\ down # <<>> /\ response' = Head(down) /\ down' = Tail(down)
             /\ seen' = seen \cup Head(down).changes
    <2>1. /\ Len(down) \in Nat /\ Len(down) # 0 /\ Head(down) = down[1] /\ Len(down') = Len(down) - 1
          /\ \A i \in 1 .. Len(down') : down'[i] = down[i + 1]
      BY <1>3, SeqEnds DEF HandInv, Types
    <2>2. 1 \in 1 .. Len(down) /\ \A i \in 1 .. Len(down') : i + 1 \in 1 .. Len(down) /\ i + 1 # 1
      BY <2>1
    <2>3. seen' \subseteq 1 .. made
      <3>1. seen \subseteq 1 .. made /\ down[1].changes \subseteq 1 .. made
        BY <2>2 DEF Sent
      <3> QED
        BY <1>3, <2>1, <3>1
    <2>4. ASSUME NEW i \in 1 .. Len(down')
          PROVE  /\ down'[i].changes \subseteq (1 .. made) \ seen'
                 /\ down'[i].kind # "change" => down'[i].changes = {}
      <3>1. down'[i] = down[i + 1]
        BY <2>1
      <3>2. /\ down[i + 1].changes \subseteq (1 .. made) \ seen
            /\ down[i + 1].kind # "change" => down[i + 1].changes = {}
            /\ down[i + 1].changes \cap down[1].changes = {}
        BY <2>2 DEF Sent
      <3> QED
        BY <1>3, <2>1, <3>1, <3>2
    <2>5. ASSUME NEW i \in 1 .. Len(down'), NEW j \in 1 .. Len(down'), i # j
          PROVE  down'[i].changes \cap down'[j].changes = {}
      <3>1. i + 1 # j + 1 /\ i + 1 \in 1 .. Len(down) /\ j + 1 \in 1 .. Len(down)
        BY <2>1, <2>2, <2>5
      <3>2. down[i + 1].changes \cap down[j + 1].changes = {}
        BY <3>1 DEF Sent
      <3> QED
        BY <2>1, <3>2
    <2>6. response'.kind # "change" => response'.changes = {}
      BY <1>3, <2>1, <2>2 DEF Sent
    <2> QED
      BY <1>1, <2>3, <2>4, <2>5, <2>6 DEF Sent
  <1> QED
    BY <1>2, <1>3 DEF OnReadDone

\* One more response is sent: new changes, or none.
LEMMA AppendSent ==
  ASSUME HandInv, Sent, NEW r \in ResponseType, down' = Append(down, r), UNCHANGED <<response, seen>>,
         (1 .. made) \subseteq (1 .. made'),
         r.changes \subseteq (1 .. made') \ (1 .. made),
         r.kind # "change" => r.changes = {}
  PROVE  Sent'
  <1>1. down \in Seq(ResponseType)
    BY DEF HandInv, Types
  <1>2. /\ Len(down) \in Nat /\ Len(down') = Len(down) + 1 /\ down'[Len(down) + 1] = r
        /\ \A i \in 1 .. Len(down) : down'[i] = down[i]
    BY <1>1, SeqEnds
  <1>3. \A i \in 1 .. Len(down') : i \in 1 .. Len(down) \/ i = Len(down) + 1
    BY <1>2
  <1>4. ASSUME NEW i \in 1 .. Len(down')
        PROVE  /\ down'[i].changes \subseteq (1 .. made') \ seen
               /\ down'[i].kind # "change" => down'[i].changes = {}
               /\ i \in 1 .. Len(down) => down'[i].changes \subseteq 1 .. made
               /\ i \notin 1 .. Len(down) => down'[i].changes \cap (1 .. made) = {}
    <2>1. CASE i \in 1 .. Len(down)
      BY <1>2, <2>1 DEF Sent
    <2>2. CASE i = Len(down) + 1 /\ i \notin 1 .. Len(down)
      BY <1>2, <2>2 DEF Sent
    <2> QED
      BY <1>3, <2>1, <2>2
  <1>5. ASSUME NEW i \in 1 .. Len(down'), NEW j \in 1 .. Len(down'), i # j
        PROVE  down'[i].changes \cap down'[j].changes = {}
    <2>1. CASE i \in 1 .. Len(down) /\ j \in 1 .. Len(down)
      BY <1>2, <1>5, <2>1 DEF Sent
    <2>2. CASE (i \in 1 .. Len(down)) # (j \in 1 .. Len(down))
      BY <1>4, <2>2
    <2>3. CASE i \notin 1 .. Len(down) /\ j \notin 1 .. Len(down)
      BY <1>3, <1>5, <2>3
    <2> QED
      BY <2>1, <2>2, <2>3
  <1>6. seen' \subseteq 1 .. made'
    BY DEF Sent
  <1> QED
    BY <1>4, <1>5, <1>6 DEF Sent

\* What is on its way changes with the server's steps and OnReadDone only.
LEMMA SentNext ==
  ASSUME HandInv, Sent, Next \/ UNCHANGED vars
  PROVE  Sent'
  <1>1. made \in Nat
    BY MaxChangesAssumption DEF HandInv, Types
  <1>2. CASE OnReadDone
    BY <1>2, ReadSent
  <1>3. CASE Change
    <2>1. PICK n \in 1 .. MaxChanges - made : ChangeOf(n)
      BY <1>3, ChangeIs
    <2>2. n \in Nat /\ made' = made + n /\ UNCHANGED <<response, seen>>
      BY <1>1, <2>1, MaxChangesAssumption DEF ChangeOf
    <2>3. /\ (1 .. made) \subseteq (1 .. made')
          /\ (made + 1 .. made + n) \subseteq (1 .. made') \ (1 .. made)
      BY <1>1, <2>2
    <2>4. CASE down' = Append(down, Response("change", 0, made + 1 .. made + n))
      BY <1>1, <2>2, <2>3, <2>4, AppendSent, ChangeResponse
    <2>5. CASE UNCHANGED down
      BY <2>2, <2>3, <2>5 DEF Sent
    <2> QED
      BY <2>1, <2>4, <2>5 DEF ChangeOf
  <1>4. CASE Serve
    <2>1. UNCHANGED <<made, response, seen>>
      BY <1>4 DEF Serve
    <2>2. CASE \E id \in WatchIds : down' = Append(down, Response("created", id, {}))
      <3>1. PICK id \in WatchIds : down' = Append(down, Response("created", id, {}))
        BY <2>2
      <3>2. id \in Int
        BY WatchIdsAssumption
      <3> QED
        BY <2>1, <3>1, <3>2, AppendSent, OtherResponse
    <2>3. CASE down' = Append(down, Response("canceled", watch_id, {}))
      <3>1. watch_id \in Int
        BY DEF HandInv, Types
      <3> QED
        BY <2>1, <2>3, <3>1, AppendSent, OtherResponse
    <2>4. CASE UNCHANGED down
      BY <2>1, <2>4 DEF Sent
    <2> QED
      BY <1>4, <2>2, <2>3, <2>4 DEF Serve
  <1>5. CASE Break
    <2>1. UNCHANGED <<made, response, seen>>
      BY <1>5 DEF Break
    <2>2. PICK n \in 0 .. Len(down) : down' = SubSeq(down, 1, n)
      BY <1>5 DEF Break
    <2>3. down \in Seq(ResponseType)
      BY DEF HandInv, Types
    <2>4. Len(down') = n /\ \A i \in 1 .. n : i \in 1 .. Len(down) /\ down'[i] = down[i]
      BY <2>2, <2>3, SubSeqProperties
    <2> QED
      BY <2>1, <2>4 DEF Sent
  <1>6. CASE UNCHANGED <<made, response, seen, down>>
    BY <1>6 DEF Sent
  <1> QED
    BY <1>2, <1>3, <1>4, <1>5, <1>6
       DEF Next, User, Loop, Grpc, Start, ReadCreated, Started, StopWatch, CancelWritten, Stopped,
           NextRead, HandOver, TestCanceled, Deliver, OnWriteDone, OnDone, vars, streamVars, serverVars

\* The changes handled once handler_ was called with v.
LEMMA DeliveredSet ==
  ASSUME HandInv, NEW v \in 1 .. MaxChanges, Deliver(v)
  PROVE  Done' = Done \cup {v} /\ Len(handled') = Len(handled) + 1 /\ Len(handled) \in Nat
         /\ DOMAIN handled = 1 .. Len(handled)
  <1>1. handled' = Append(handled, v)
    BY DEF Deliver
  <1>2. handled \in Seq(Int) /\ v \in Int
    BY DEF HandInv, Types
  <1>3. /\ Len(handled) \in Nat /\ Len(handled') = Len(handled) + 1 /\ handled'[Len(handled) + 1] = v
        /\ \A i \in 1 .. Len(handled) : handled'[i] = handled[i]
        /\ DOMAIN handled = 1 .. Len(handled) /\ DOMAIN handled' = 1 .. Len(handled')
    <2>1. handled' \in Seq(Int)
      BY <1>1, <1>2, SeqEnds
    <2> QED
      BY <1>1, <1>2, <2>1, SeqEnds, LenProperties
  <1>4. Done' = Done \cup {v}
    <2>1. Done = {handled[i] : i \in 1 .. Len(handled)} /\ Done' = {handled'[i] : i \in 1 .. Len(handled')}
      BY <1>3 DEF Done, ToSet
    <2>2. /\ Len(handled) + 1 \in 1 .. Len(handled')
          /\ \A i \in 1 .. Len(handled') : i \in 1 .. Len(handled) \/ i = Len(handled) + 1
          /\ \A i \in 1 .. Len(handled) : i \in 1 .. Len(handled')
      BY <1>3
    <2>3. ASSUME NEW x \in Done' PROVE x \in Done \cup {v}
      BY <1>3, <2>1, <2>2
    <2>4. ASSUME NEW x \in Done \cup {v} PROVE x \in Done'
      BY <1>3, <2>1, <2>2
    <2> QED
      BY <2>3, <2>4
  <1> QED
    BY <1>3, <1>4

\* The copies D once v was taken off the one called rest.
Without(D, rest, v) == ((D \ {rest}) \cup {rest \ {v}}) \ {{}}

\* A delivery coroutine that takes v off its copy, one of disjoint ones.
LEMMA TakeOff ==
  ASSUME NEW D, NEW rest \in D, NEW v \in rest,
         \A s, u \in D : s # u => s \cap u = {}
  PROVE  /\ UNION Without(D, rest, v) = (UNION D) \ {v}
         /\ \A s, u \in Without(D, rest, v) : s # u => s \cap u = {}
  <1> DEFINE E == ((D \ {rest}) \cup {rest \ {v}}) \ {{}}
  <1>1. ASSUME NEW x \in UNION E PROVE x \in (UNION D) \ {v}
    <2>1. PICK s \in E : x \in s
      OBVIOUS
    <2>2. CASE s = rest \ {v}
      BY <2>1, <2>2
    <2>3. CASE s \in D /\ s # rest
      <3>1. s \cap rest = {}
        BY <2>3
      <3> QED
        BY <2>1, <2>3, <3>1
    <2> QED
      BY <2>1, <2>2, <2>3
  <1>2. ASSUME NEW x \in (UNION D) \ {v} PROVE x \in UNION E
    <2>1. PICK s \in D : x \in s
      BY <1>2
    <2>2. CASE s = rest
      <3>1. x \in rest \ {v} /\ rest \ {v} \in E
        BY <1>2, <2>1, <2>2
      <3> QED
        BY <3>1
    <2>3. CASE s # rest
      <3>1. s \in E
        BY <2>1, <2>3
      <3> QED
        BY <2>1, <3>1
    <2> QED
      BY <2>2, <2>3
  <1>3. ASSUME NEW s \in E, NEW u \in E, s # u PROVE s \cap u = {}
    <2>1. \A w \in E : w = rest \ {v} \/ (w \in D /\ w # rest)
      OBVIOUS
    <2>2. CASE s \in D /\ s # rest /\ u \in D
      BY <1>3, <2>2
    <2>3. CASE s \in D /\ s # rest /\ u = rest \ {v}
      BY <2>3
    <2>4. CASE s = rest \ {v} /\ u \in D /\ u # rest
      BY <2>4
    <2> QED
      BY <1>3, <2>1, <2>2, <2>3, <2>4
  <1> QED
    BY <1>1, <1>2, <1>3 DEF Without

\* A coroutine that calls handler_ moves its change to those handled.
LEMMA DeliverKept ==
  ASSUME HandInv, Kept, NEW v \in 1 .. MaxChanges, Deliver(v)
  PROVE  Kept'
  <1>1. handled' = Append(handled, v) /\ UNCHANGED <<pc, ops, thread, response, seen>>
    BY DEF Deliver, contextVars, streamVars
  <1>2. handled \in Seq(Int) /\ v \in Int
    BY DEF HandInv, Types
  <1>3. Len(handled) \in Nat /\ Len(handled') = Len(handled) + 1 /\ DOMAIN handled = 1 .. Len(handled)
    BY DeliveredSet
  <1>4. Done' = Done \cup {v}
    BY DeliveredSet
  <1>5. PICK rest \in deliveries :
          v \in rest /\ deliveries' = Without(deliveries, rest, v)
    BY DEF Deliver, IsFirst, Without
  <1>6. v \in Pending /\ v \notin Done
    BY <1>5 DEF Kept, Pending
  <1>7. Pending' = Pending \ {v} /\ \A s, u \in deliveries' : s # u => s \cap u = {}
    <2>1. \A s, u \in deliveries : s # u => s \cap u = {}
      BY DEF Kept
    <2>2. /\ UNION Without(deliveries, rest, v) = (UNION deliveries) \ {v}
          /\ \A s, u \in Without(deliveries, rest, v) : s # u => s \cap u = {}
      <3>1. rest \in deliveries /\ v \in rest
        BY <1>5
      <3> QED
        BY <2>1, <3>1, TakeOff
    <2> QED
      BY <1>5, <2>2 DEF Pending
  <1>8. IsFiniteSet(Done)
    <2>1. IsFiniteSet(1 .. Len(handled))
      BY <1>3, FS_Interval
    <2>2. handled \in [1 .. Len(handled) -> Int]
      BY <1>2, LenProperties
    <2>3. handled \in Surjection(1 .. Len(handled), Done)
      BY <1>3, <2>2 DEF Surjection, Done, ToSet
    <2> QED
      BY <2>1, <2>3, FS_Surjection
  <1>9. Cardinality(Done') = Cardinality(Done) + 1
    BY <1>4, <1>6, <1>8, FS_AddElement
  <1>10. Done' \cup Pending' = Done \cup Pending /\ Done' \cap Pending' = {}
    BY <1>4, <1>6, <1>7 DEF Kept
  <1>11. Unread' <=> Unread
    BY <1>1 DEF Unread
  <1>12. Cardinality(Done') = Len(handled')
    BY <1>3, <1>9 DEF Kept
  <1> QED
    BY <1>1, <1>7, <1>10, <1>11, <1>12 DEF Kept

\* The loop hands the changes it has read to a coroutine of their own.
LEMMA HandOverKept ==
  ASSUME HandInv, Changes, HandOver
  PROVE  Kept'
  <1> USE Names
  <1>1. /\ pc["loop"] = "reading" /\ Resume("loop")
        /\ UNCHANGED <<response, seen, handled, ops, thread>>
    BY DEF HandOver, Awake, streamVars
  <1>2. "read" \notin ops /\ ctx["read"].success = thread["read"].ok
    BY <1>1, ResumedAfter DEF WaitsOn, Outstanding
  <1>3. pc'["loop"] \in {"again", "ended"}
    BY DEF HandOver, Leave, HandInv, Types
  <1>4. ~Unread' /\ Done' = Done
    BY <1>1, <1>3 DEF Unread, Done
  <1>5. Kept
    BY DEF Changes
  <1>6. CASE ctx["read"].success /\ response.kind # "canceled"
    <2>1. Unread
      BY <1>1, <1>2, <1>6 DEF Unread
    <2>2. deliveries' = deliveries \cup {response.changes}
      BY <1>6 DEF HandOver
    <2>3. Pending' = Pending \cup response.changes
      BY <2>2 DEF Pending
    <2>4. response.changes \cap Pending = {}
      BY <1>5, <2>1 DEF Kept
    <2>5. \A s \in deliveries : s \cap response.changes = {}
      BY <2>4 DEF Pending
    <2>6. \A s, u \in deliveries' : s # u => s \cap u = {}
      BY <1>5, <2>2, <2>5 DEF Kept
    <2> QED
      BY <1>1, <1>4, <1>5, <2>1, <2>3, <2>6 DEF Kept
  <1>7. CASE ~(ctx["read"].success /\ response.kind # "canceled")
    <2>1. deliveries' = deliveries
      BY <1>7 DEF HandOver
    <2>2. Pending' = Pending
      BY <2>1 DEF Pending
    <2>3. Unread => response.changes = {}
      BY <1>2, <1>7 DEF Unread, Changes, Sent
    <2>4. seen = Done \cup Pending /\ response.changes \subseteq Done \cup Pending
      BY <1>5, <2>3 DEF Kept
    <2> QED
      BY <1>1, <1>4, <1>5, <2>1, <2>2, <2>4 DEF Kept
  <1> QED
    BY <1>6, <1>7

\* OnReadDone fills in a response the loop has yet to look at, or Start.
LEMMA ReadKept ==
  ASSUME HandInv, FirstResponse, Changes, OnReadDone
  PROVE  Kept'
  <1> USE Names
  <1>1. /\ "read" \in ops /\ ops' = ops \ {"read"} /\ UNCHANGED <<pc, handled, deliveries>>
        /\ thread \in [Direction -> ThreadType]
    BY DEF OnReadDone, userVars, HandInv, Types
  <1>2. ~Unread /\ Done' = Done /\ Pending' = Pending
    BY <1>1 DEF Unread, Done, Pending
  <1>3. /\ seen = Done \cup Pending
        /\ response.changes \subseteq Done \cup Pending
        /\ Done \cap Pending = {} /\ Cardinality(Done) = Len(handled)
        /\ \A s, u \in deliveries : s # u => s \cap u = {}
    BY <1>2 DEF Changes, Kept
  <1>4. CASE CallResumeContext("read", FALSE) /\ UNCHANGED <<response, seen, down>>
    <2>1. ~Unread'
      BY <1>1, <1>4 DEF CallResumeContext, Unread
    <2> QED
      BY <1>1, <1>2, <1>3, <1>4, <2>1 DEF Kept
  <1>5. CASE /\ down # <<>> /\ response' = Head(down)
             /\ seen' = seen \cup Head(down).changes
             /\ CallResumeContext("read", TRUE)
    <2>1. response' = down[1] /\ 1 \in 1 .. Len(down)
      BY <1>5, SeqEnds DEF HandInv, Types
    <2>2. response'.changes \cap seen = {} /\ seen' = seen \cup response'.changes
      BY <1>5, <2>1 DEF Changes, Sent
    <2>3. CASE pc["loop"] = "reading"
      <3>1. Unread'
        BY <1>1, <1>5, <2>3 DEF CallResumeContext, Unread
      <3> QED
        BY <1>1, <1>2, <1>3, <2>2, <3>1 DEF Kept
    <2>4. CASE pc["loop"] # "reading"
      <3>1. Outstanding("read")
        BY <1>1 DEF Outstanding
      <3>2. pc["start"] = "reading"
        BY <2>4, <3>1 DEF HandInv, Handing, Expected, WaitsOn
      <3>3. response.kind = "none"
        BY <1>1, <3>2 DEF FirstResponse, Arrived
      <3>4. response'.kind = "created"
        BY <2>1, <3>3 DEF FirstResponse, OnTheWay
      <3>5. response'.changes = {}
        BY <2>1, <3>4 DEF Changes, Sent
      <3>6. ~Unread'
        BY <1>1, <2>4 DEF Unread
      <3> QED
        BY <1>1, <1>2, <1>3, <2>2, <3>5, <3>6 DEF Kept
    <2> QED
      BY <2>3, <2>4
  <1> QED
    BY <1>4, <1>5 DEF OnReadDone

\* The other steps neither hand a change over nor read one.
LEMMA SameUnread ==
  ASSUME HandInv,
         \/ Start \/ ReadCreated \/ Started \/ StopWatch \/ CancelWritten \/ Stopped \/ NextRead \/ TestCanceled
         \/ Change \/ Serve \/ Break \/ OnDone \/ UNCHANGED vars
         \/ \E op \in WriteOp : OnWriteDone(op)
         \/ \E c \in Direction : ResumeContext(c) /\ UNCHANGED <<userVars, streamVars, serverVars>>
  PROVE  Unread' <=> Unread
  <1>1. /\ pc \in [Coroutine -> {"idle", "writing", "reading", "started", "failed", "ready", "again",
                              "ended", "closing", "stopped", "lost"}]
        /\ thread \in [Direction -> ThreadType]
    BY DEF HandInv, Types
  <1>2. CASE Start \/ ReadCreated \/ Started
    <2>1. pc["start"] \in {"idle", "writing", "reading"}
      BY <1>2 DEF Start, ReadCreated, Started, Awake
    <2>2. pc["loop"] = "idle"
      BY <2>1 DEF HandInv, Order
    <2>3. pc'["loop"] # "reading"
      BY <1>1, <1>2, <2>2, Names DEF Start, ReadCreated, Started, Await, Begin, Leave
    <2> QED
      BY <2>2, <2>3 DEF Unread
  <1>3. CASE NextRead \/ TestCanceled
    <2>1. pc["loop"] # "reading" /\ (pc'["loop"] # "reading" \/ "read" \in ops')
      BY <1>1, <1>3, Names DEF NextRead, TestCanceled, Await, Begin, Leave
    <2> QED
      BY <2>1 DEF Unread
  <1>4. CASE StopWatch \/ CancelWritten \/ Stopped
    <2>1. pc'["loop"] = pc["loop"] /\ thread' = thread
      BY <1>1, <1>4, Names DEF StopWatch, CancelWritten, Stopped, StopReturns, Await, Begin, Leave
    <2>2. ops' = ops \/ ops' = ops \cup {"cancel"} \/ ops' = ops \cup {"writesdone"}
      BY <1>4 DEF StopWatch, CancelWritten, Stopped, Await, Begin, streamVars
    <2> QED
      BY <2>1, <2>2 DEF Unread
  <1>5. CASE Change \/ Serve \/ Break \/ OnDone \/ UNCHANGED vars
    <2>1. UNCHANGED <<pc, ops, thread>>
      BY <1>5 DEF Change, Serve, Break, OnDone, vars, contextVars, userVars, streamVars
    <2> QED
      BY <2>1 DEF Unread
  <1>6. CASE \E op \in WriteOp : OnWriteDone(op)
    <2>1. PICK op \in WriteOp : OnWriteDone(op)
      BY <1>6
    <2>2. UNCHANGED pc /\ ops' = ops \ {op} /\ thread'["read"] = thread["read"]
      BY <1>1, <2>1, Names DEF OnWriteDone, CallResumeContext, userVars
    <2> QED
      BY <2>2 DEF Unread, WriteOp
  <1>7. CASE \E c \in Direction : ResumeContext(c) /\ UNCHANGED <<userVars, streamVars, serverVars>>
    <2>1. PICK c \in Direction : ResumeContext(c) /\ UNCHANGED <<userVars, streamVars, serverVars>>
      BY <1>7
    <2>2. (\A d \in Direction : d # c => thread'[d] = thread[d]) /\ thread'[c].ok = thread[c].ok
      BY <2>1, ResumeChanges
    <2>3. UNCHANGED <<pc, ops>> /\ thread'["read"].ok = thread["read"].ok
      BY <2>1, <2>2, Names DEF userVars, streamVars
    <2> QED
      BY <2>3 DEF Unread
  <1> QED
    BY <1>2, <1>3, <1>4, <1>5, <1>6, <1>7

\* Every step keeps track of the changes.
LEMMA ChangesNext ==
  ASSUME HandInv, FirstResponse, Changes, Next \/ UNCHANGED vars
  PROVE  Changes'
  <1>1. Sent'
    BY SentNext DEF Changes
  <1>2. CASE \E v \in 1 .. MaxChanges : Deliver(v)
    BY <1>1, <1>2, DeliverKept DEF Changes
  <1>3. CASE HandOver
    BY <1>1, <1>3, HandOverKept DEF Changes
  <1>4. CASE OnReadDone
    BY <1>1, <1>4, ReadKept DEF Changes
  <1>5. CASE \/ Start \/ ReadCreated \/ Started \/ StopWatch \/ CancelWritten \/ Stopped \/ NextRead \/ TestCanceled
             \/ Change \/ Serve \/ Break \/ OnDone \/ UNCHANGED vars
             \/ \E op \in WriteOp : OnWriteDone(op)
             \/ \E c \in Direction : ResumeContext(c) /\ UNCHANGED <<userVars, streamVars, serverVars>>
    <2>1. Unread' <=> Unread
      BY <1>5, SameUnread
    <2>2. UNCHANGED <<response, seen, deliveries, handled>>
      BY <1>5 DEF Start, ReadCreated, Started, StopWatch, CancelWritten, Stopped, NextRead, TestCanceled,
                  Change, Serve, Break, OnDone, OnWriteDone, vars, userVars, streamVars
    <2> QED
      BY <1>1, <2>1, <2>2 DEF Changes, Kept, Done, Pending
  <1> QED
    BY <1>2, <1>3, <1>4, <1>5 DEF Next, User, Loop, Grpc, WriteOp

----------------------------------------------------------------------------
(* Stopping the watch.                                                     *)

\* read_ctx_ stays canceled.
LEMMA StaysCanceled ==
  ASSUME HandInv, ctx["read"].cancel, Next \/ UNCHANGED vars
  PROVE  ctx'["read"].cancel
  <1>1. ctx \in [Direction -> ContextType(Coroutine)]
    BY DEF HandInv, Types
  <1>2. ASSUME NEW c \in Direction, NEW r \in Coroutine, LockContext(c, r) PROVE ctx'["read"].cancel
    <2>1. /\ \A d \in Direction : d # c => ctx'[d] = ctx[d]
          /\ ctx'[c].cancel = ctx[c].cancel
      BY <1>1, <1>2, LockStep
    <2> QED
      BY <2>1, Names
  <1>3. CASE Start \/ ReadCreated \/ StopWatch \/ NextRead
    <2>1. UNCHANGED ctx \/ \E c \in Direction, r \in Coroutine : LockContext(c, r)
      BY <1>3, Names DEF Start, ReadCreated, StopWatch, NextRead, Await
    <2> QED
      BY <1>2, <2>1
  <1>4. CASE CancelWritten
    <2>1. CASE ctx' = [ctx EXCEPT !["read"].cancel = TRUE, !["write"].resumer = <<"stop">>]
      <3>1. ctx'["read"] = [ctx["read"] EXCEPT !.cancel = TRUE]
        BY <1>1, <2>1, Names
      <3>2. ctx["read"] \in ContextType(Coroutine)
        BY <1>1, Names
      <3> QED
        BY <3>1, <3>2 DEF ContextType
    <2>2. CASE UNCHANGED ctx
      BY <2>2
    <2> QED
      BY <1>4, <2>1, <2>2 DEF CancelWritten
  <1>5. CASE OnDone
    BY <1>1, <1>5, Names, CancelStep DEF OnDone
  <1>6. CASE \E c \in Direction : ResumeContext(c) /\ UNCHANGED <<userVars, streamVars, serverVars>>
    <2>1. PICK c \in Direction : ResumeContext(c)
      BY <1>6
    <2>2. (\A d \in Direction : d # c => ctx'[d] = ctx[d]) /\ ctx'[c].cancel = ctx[c].cancel
      BY <2>1, ResumeChanges
    <2> QED
      BY <2>2, Names
  <1>7. CASE UNCHANGED ctx
    BY <1>7
  <1> QED
    BY <1>3, <1>4, <1>5, <1>6, <1>7
       DEF Next, User, Loop, Grpc, Started, Stopped, HandOver, TestCanceled, Deliver, Change, OnWriteDone, OnReadDone,
           Serve, Break, vars, contextVars

\* The steps of StopWatch.
LEMMA StoppingStop ==
  ASSUME HandInv, Stopping, StopWatch \/ CancelWritten \/ Stopped
  PROVE  Stopping'
  <1>1. /\ pc \in [Coroutine -> {"idle", "writing", "reading", "started", "failed", "ready", "again",
                              "ended", "closing", "stopped", "lost"}]
        /\ ctx \in [Direction -> ContextType(Coroutine)] /\ watch_id \in Int
    BY DEF HandInv, Types
  <1>2. UNCHANGED watch_id
    BY DEF StopWatch, CancelWritten, Stopped
  <1>3. ASSUME pc'["stop"] = "closing" \/ (pc'["stop"] = "stopped" /\ watch_id' > 0)
        PROVE  ctx'["read"].cancel
    <2>1. CASE StopWatch
      BY <1>1, <1>2, <1>3, <2>1, Names DEF StopWatch, StopReturns, Await, Begin, Leave
    <2>2. CASE CancelWritten
      BY <1>1, <1>3, <2>2, Names DEF CancelWritten, StopReturns, Leave, ContextType
    <2>3. CASE Stopped
      BY <2>3 DEF Stopped, Awake, Stopping
    <2> QED
      BY <2>1, <2>2, <2>3
  <1> QED
    BY <1>3 DEF Stopping

\* Every step keeps what StopWatch promises.
LEMMA StoppingNext ==
  ASSUME HandInv, Stopping, Next \/ UNCHANGED vars
  PROVE  Stopping'
  <1>1. pc \in [Coroutine -> {"idle", "writing", "reading", "started", "failed", "ready", "again",
                              "ended", "closing", "stopped", "lost"}]
    BY DEF HandInv, Types
  <1>2. ctx["read"].cancel => ctx'["read"].cancel
    BY StaysCanceled
  <1>3. CASE Start \/ ReadCreated \/ Started
    <2>1. pc["start"] \in {"idle", "writing", "reading"}
      BY <1>3 DEF Start, ReadCreated, Started, Awake
    <2>2. pc["stop"] = "idle"
      BY <2>1 DEF HandInv, Order
    <2>3. pc'["stop"] = "idle"
      BY <1>1, <1>3, <2>2, Names DEF Start, ReadCreated, Started, Await, Begin, Leave
    <2> QED
      BY <2>3 DEF Stopping
  <1>4. CASE StopWatch \/ CancelWritten \/ Stopped
    BY <1>4, StoppingStop
  <1>5. CASE NextRead \/ HandOver \/ TestCanceled
    <2>1. pc'["stop"] = pc["stop"] /\ UNCHANGED watch_id
      BY <1>1, <1>5, Names DEF NextRead, HandOver, TestCanceled, Await, Begin, Leave
    <2> QED
      BY <1>2, <2>1 DEF Stopping
  <1>6. CASE \/ \E v \in 1 .. MaxChanges : Deliver(v)
             \/ Change \/ Grpc \/ Serve \/ Break \/ UNCHANGED vars
    <2>1. UNCHANGED <<pc, watch_id>>
      BY <1>6 DEF Deliver, Change, Grpc, OnWriteDone, OnReadDone, OnDone, Serve, Break, vars, userVars
    <2> QED
      BY <1>2, <2>1 DEF Stopping
  <1> QED
    BY <1>3, <1>4, <1>5, <1>6 DEF Next, User, Loop

\* The invariant holds of every behaviour.
LEMMA WatchInvariant == Spec => []WatchInv
  <1>1. Init => WatchInv
    <2> SUFFICES ASSUME Init PROVE WatchInv
      OBVIOUS
    <2>1. Writes
      BY DEF Init, Writes
    <2>2. FirstResponse
      BY Names DEF Init, FirstResponse, OnTheWay, Arrived, Creating, Response
    <2>3. Done = {} /\ Pending = {} /\ deliveries = {} /\ Len(handled) = 0 /\ seen = {}
      BY DEF Init, Done, Pending, ToSet
    <2>4. Cardinality(Done) = Len(handled)
      BY <2>3, FS_EmptySet
    <2>5. Changes
      BY <2>3, <2>4, Names DEF Init, Changes, Sent, Kept, Unread, Response
    <2>6. Stopping
      BY Names DEF Init, Stopping
    <2> QED
      BY <2>1, <2>2, <2>5, <2>6, HandInit DEF WatchInv
  <1>2. WatchInv /\ [Next]_vars => WatchInv'
    BY HandNext, WritesKept, FirstNext, ChangesNext, StoppingNext DEF WatchInv
  <1> QED
    BY <1>1, <1>2, PTL DEF Spec

\* When Start goes on after a successful read, the response says that the watch
\* was created, which CHECK(response.created()) demands (watch_context.cc:36).
THEOREM FirstResponseIsCreated == Spec => FirstResponseCreates
  <1>1. ASSUME WatchInv, Started, ctx["read"].success
        PROVE  response.kind = "created"
    <2>1. pc["start"] = "reading" /\ Resume("start") /\ WaitsOn("read", "start")
      BY <1>1 DEF Started, Awake, WaitsOn
    <2>2. ~Outstanding("read") /\ ctx["read"].success = thread["read"].ok
      BY <1>1, <2>1, Names, ResumedAfter DEF WatchInv
    <2> QED
      BY <1>1, <2>1, <2>2 DEF WatchInv, FirstResponse, Arrived, Outstanding
  <1>2. WatchInv => [Started /\ ctx["read"].success => response.kind = "created"]_vars
    BY <1>1
  <1> QED
    BY <1>2, WatchInvariant, PTL DEF FirstResponseCreates

\* Every change read off the stream is with handler_, with a coroutine of its
\* own or in the loop's response, and in one of them only (watch_context.cc:52-71).
THEOREM ChangesHandledOnce == Spec => []EveryChangeHandledOnce
  <1>1. WatchInv => EveryChangeHandledOnce
    <2> SUFFICES ASSUME WatchInv PROVE EveryChangeHandledOnce
      OBVIOUS
    <2> DEFINE unread == IF pc["loop"] = "reading" /\ "read" \notin ops THEN response.changes ELSE {}
    <2>1. Kept
      BY DEF WatchInv, Changes
    <2>2. seen = Done \cup Pending \cup unread
      <3>1. CASE Unread
        BY <2>1, <3>1 DEF Kept, Unread
      <3>2. CASE ~Unread
        BY <2>1, <3>2 DEF Kept
      <3> QED
        BY <3>1, <3>2
    <2> QED
      BY <2>1, <2>2 DEF EveryChangeHandledOnce, Kept, Done, Pending
  <1> QED
    BY <1>1, WatchInvariant, PTL

\* Once StopWatch has returned true for a watch with an id above 0, read_ctx_ is
\* canceled, and a step of the loop that tests it ends the loop
\* (watch_context.cc:71, 92): the safety half of StoppedLoopEnds.
THEOREM StoppedLoopDoesNotRead ==
  Spec => [][pc["stop"] = "stopped" /\ watch_id > 0 /\ TestCanceled => pc'["loop"] = "ended"]_vars
  <1>1. ASSUME WatchInv, pc["stop"] = "stopped", watch_id > 0, TestCanceled
        PROVE  pc'["loop"] = "ended"
    <2>1. ctx["read"].cancel /\ pc \in [Coroutine -> {"idle", "writing", "reading", "started", "failed",
                                        "ready", "again", "ended", "closing", "stopped", "lost"}]
      BY <1>1 DEF WatchInv, Stopping, HandInv, Types
    <2> QED
      BY <1>1, <2>1, Names DEF TestCanceled, Leave
  <1>2. WatchInv => [pc["stop"] = "stopped" /\ watch_id > 0 /\ TestCanceled => pc'["loop"] = "ended"]_vars
    BY <1>1
  <1> QED
    BY <1>2, WatchInvariant, PTL

----------------------------------------------------------------------------
(* What the coroutines wait for.                                           *)

\* A gRPC thread is in ResumeContext of direction d and has yet to call the resumer.
WillResume(d) == thread[d].at \in {"success", "done", "lock", "resume"}

\* A coroutine that yielded is resumed, or gRPC is not through with the call and
\* the operation it waits for, or the gRPC thread that completes it, is still to
\* resume it, also when several coroutines take turns on one context
\* (watch_context.cc:18-49, call_context.cc:8-24).  Only a coroutine that starts
\* an operation after OnDone is lost.
NoWakeUpLost ==
  /\ \A d \in Direction : \A r \in Coroutine :
       WaitsOn(d, r) => Posted(r) \/ (~onDone /\ (Outstanding(d) \/ WillResume(d)))
  /\ \A r \in Coroutine : pc[r] = "lost" => onDone

\* A coroutine r that goes on, or starts an operation and waits for it.
LEMMA OwedMove ==
  ASSUME NoWakeUpLost, NEW r \in Coroutine, thread' = thread, onDone' = onDone, ops \subseteq ops',
         \A x \in Coroutine : x # r /\ Posted(x) => Posted(x)',
         \A d \in Direction : \A x \in Coroutine : x # r /\ WaitsOn(d, x)' => WaitsOn(d, x),
         \A d \in Direction : WaitsOn(d, r)' => Outstanding(d)' /\ ~onDone,
         \A x \in Coroutine : pc'[x] = "lost" => pc[x] = "lost" \/ onDone
  PROVE  NoWakeUpLost'
  <1>1. \A d \in Direction : (Outstanding(d) => Outstanding(d)') /\ (WillResume(d) => WillResume(d)')
    BY DEF Outstanding, WillResume
  <1> QED
    BY <1>1 DEF NoWakeUpLost

\* A coroutine r that starts op of direction e, or is lost.
LEMMA OwedBegin ==
  ASSUME HandInv, NoWakeUpLost, NEW r \in Coroutine, NEW e \in Direction, NEW op, NEW place,
         Begin(r, op, place), thread' = thread, onDone' = onDone,
         \A x \in Coroutine : x # r /\ Posted(x) => Posted(x)',
         <<r, place, e>> \in {<<"start", "writing", "write">>, <<"start", "reading", "read">>,
                              <<"loop", "reading", "read">>, <<"stop", "writing", "write">>,
                              <<"stop", "closing", "write">>},
         op \in IF e = "read" THEN {"read"} ELSE WriteOp
  PROVE  NoWakeUpLost'
  <1> USE Names
  <1>1. pc \in [Coroutine -> {"idle", "writing", "reading", "started", "failed", "ready", "again",
                              "ended", "closing", "stopped", "lost"}]
    BY DEF HandInv, Types
  <1>2. CASE onDone
    <2>1. ops' = ops /\ pc' = [pc EXCEPT ![r] = "lost"]
      BY <1>2 DEF Begin, Leave
    <2>2. /\ \A d \in Direction : \A x \in Coroutine : x # r /\ WaitsOn(d, x)' => WaitsOn(d, x)
          /\ \A d \in Direction : ~WaitsOn(d, r)'
      BY <1>1, <2>1 DEF WaitsOn
    <2> QED
      BY <1>1, <1>2, <2>1, <2>2, OwedMove
  <1>3. CASE ~onDone
    <2>1. ops' = ops \cup {op} /\ pc' = [pc EXCEPT ![r] = place]
      BY <1>3 DEF Begin, Leave
    <2>2. /\ \A d \in Direction : \A x \in Coroutine : x # r /\ WaitsOn(d, x)' => WaitsOn(d, x)
          /\ \A d \in Direction : WaitsOn(d, r)' => d = e
          /\ \A x \in Coroutine : pc'[x] = "lost" => pc[x] = "lost"
      <3>1. /\ \A x \in Coroutine : x # r => pc'[x] = pc[x]
            /\ pc'[r] = place
        BY <1>1, <2>1
      <3>2. \A d \in Direction : \A x \in Coroutine : x # r /\ WaitsOn(d, x)' => WaitsOn(d, x)
        BY <3>1 DEF WaitsOn
      <3>3. place # "lost" /\ \A d \in Direction : WaitsOn(d, r)' => d = e
        BY <3>1 DEF WaitsOn
      <3> QED
        BY <3>1, <3>2, <3>3
    <2>3. Outstanding(e)'
      BY <2>1 DEF Outstanding, WriteOp, Direction
    <2> QED
      BY <1>3, <2>1, <2>2, <2>3, OwedMove
  <1> QED
    BY <1>2, <1>3

\* A coroutine r that leaves for a place where it waits for nothing.
LEMMA OwedLeave ==
  ASSUME HandInv, NoWakeUpLost, NEW r \in Coroutine, NEW place, Leave(r, place), thread' = thread,
         onDone' = onDone, ops' = ops,
         \A x \in Coroutine : x # r /\ Posted(x) => Posted(x)',
         place \in {"started", "failed", "ready", "again", "ended", "stopped"}
  PROVE  NoWakeUpLost'
  <1> USE Names
  <1>1. /\ \A x \in Coroutine : x # r => pc'[x] = pc[x]
        /\ pc'[r] = place
    BY DEF HandInv, Types, Leave
  <1>2. /\ \A d \in Direction : \A x \in Coroutine : x # r /\ WaitsOn(d, x)' => WaitsOn(d, x)
        /\ \A d \in Direction : ~WaitsOn(d, r)'
        /\ \A x \in Coroutine : pc'[x] = "lost" => pc[x] = "lost"
    BY <1>1 DEF WaitsOn
  <1> QED
    BY <1>2, OwedMove

\* Watch, StopWatch and the loop begin to wait, or leave.
LEMMA OwedAwait ==
  ASSUME HandInv, NoWakeUpLost, Start \/ StopWatch \/ NextRead \/ TestCanceled
  PROVE  NoWakeUpLost'
  <1> USE Names
  <1>1. thread' = thread /\ onDone' = onDone /\ \A x \in Coroutine : Posted(x) => Posted(x)'
    BY DEF Start, StopWatch, NextRead, TestCanceled, contextVars, streamVars, Posted
  <1>2. CASE Start
    <2>1. Begin("start", "create", "writing") /\ "create" \in WriteOp
      BY <1>2 DEF Start, Await, WriteOp
    <2> QED
      BY <1>1, <2>1, OwedBegin
  <1>3. CASE StopWatch
    <2>1. \/ Leave("stop", "stopped") /\ ops' = ops
          \/ Begin("stop", "cancel", "writing") /\ "cancel" \in WriteOp
      BY <1>3 DEF StopWatch, StopReturns, Await, WriteOp
    <2> QED
      BY <1>1, <2>1, OwedBegin, OwedLeave
  <1>4. CASE NextRead
    <2>1. Begin("loop", "read", "reading")
      BY <1>4 DEF NextRead, Await
    <2> QED
      BY <1>1, <2>1, OwedBegin
  <1>5. CASE TestCanceled
    <2>1. (Leave("loop", "ended") \/ Leave("loop", "ready")) /\ ops' = ops
      BY <1>5 DEF TestCanceled, streamVars
    <2> QED
      BY <1>1, <2>1, OwedLeave
  <1> QED
    BY <1>2, <1>3, <1>4, <1>5

\* A coroutine that was resumed goes on.
LEMMA OwedAwake ==
  ASSUME HandInv, NoWakeUpLost, ReadCreated \/ Started \/ CancelWritten \/ Stopped \/ HandOver
  PROVE  NoWakeUpLost'
  <1> USE Names
  <1>1. ASSUME NEW r \in Coroutine, Resume(r) PROVE \A x \in Coroutine : x # r /\ Posted(x) => Posted(x)'
    BY <1>1, ResumeOnce DEF HandInv, Types
  <1>2. thread' = thread /\ onDone' = onDone
    BY DEF ReadCreated, Started, CancelWritten, Stopped, HandOver, streamVars
  <1>3. CASE ReadCreated
    <2>1. /\ Resume("start")
          /\ Begin("start", "read", "reading") \/ (Leave("start", "failed") /\ ops' = ops)
      BY <1>3 DEF ReadCreated, Awake, Await
    <2> QED
      BY <1>1, <1>2, <2>1, OwedBegin, OwedLeave
  <1>4. CASE Started
    <2>1. /\ Resume("start") /\ ops' = ops
          /\ \/ pc' = [pc EXCEPT !["start"] = "started", !["loop"] = "ready"]
             \/ pc' = [pc EXCEPT !["start"] = "failed", !["loop"] = "ready"]
             \/ pc' = [pc EXCEPT !["start"] = "failed"]
      BY <1>4 DEF Started, Awake, Leave, streamVars
    <2>2. /\ pc'["start"] \in {"started", "failed"} /\ pc'["loop"] \in {pc["loop"], "ready"}
          /\ pc'["stop"] = pc["stop"]
      BY <2>1 DEF HandInv, Types
    <2>3. /\ \A d \in Direction : \A x \in Coroutine : x # "start" /\ WaitsOn(d, x)' => WaitsOn(d, x)
          /\ \A d \in Direction : ~WaitsOn(d, "start")'
          /\ \A x \in Coroutine : pc'[x] = "lost" => pc[x] = "lost"
      BY <2>2 DEF WaitsOn, Coroutine
    <2> QED
      BY <1>1, <1>2, <2>1, <2>3, OwedMove
  <1>5. CASE CancelWritten \/ Stopped
    <2>1. /\ Resume("stop")
          /\ \/ Begin("stop", "writesdone", "closing") /\ "writesdone" \in WriteOp
             \/ (Leave("stop", "failed") \/ Leave("stop", "stopped")) /\ ops' = ops
      BY <1>5 DEF CancelWritten, Stopped, StopReturns, Awake, streamVars, WriteOp
    <2> QED
      BY <1>1, <1>2, <2>1, OwedBegin, OwedLeave
  <1>6. CASE HandOver
    <2>1. Resume("loop") /\ ops' = ops /\ (Leave("loop", "again") \/ Leave("loop", "ended"))
      BY <1>6 DEF HandOver, Awake, streamVars
    <2> QED
      BY <1>1, <1>2, <2>1, OwedLeave
  <1> QED
    BY <1>3, <1>4, <1>5, <1>6

\* An operation of direction c completes: its thread enters ResumeContext.
LEMMA OwedComplete ==
  ASSUME HandInv, NoWakeUpLost, OnReadDone \/ \E op \in WriteOp : OnWriteDone(op)
  PROVE  NoWakeUpLost'
  <1>1. thread \in [Direction -> ThreadType]
    BY DEF HandInv, Types
  <1>2. UNCHANGED <<pc, posted, onDone>>
    BY DEF OnReadDone, OnWriteDone, userVars
  <1>3. ASSUME NEW c \in Direction, NEW ok, CallResumeContext(c, ok),
               \A d \in Direction : d # c /\ Outstanding(d) => Outstanding(d)'
        PROVE  NoWakeUpLost'
    <2>1. thread'[c].at = "success" /\ \A d \in Direction : d # c => thread'[d] = thread[d]
      BY <1>1, <1>3 DEF CallResumeContext
    <2>2. WillResume(c)' /\ \A d \in Direction : d # c /\ WillResume(d) => WillResume(d)'
      BY <2>1 DEF WillResume
    <2>3. \A d \in Direction : \A r \in Coroutine : WaitsOn(d, r)' => WaitsOn(d, r)
      BY <1>2 DEF WaitsOn
    <2>4. \A r \in Coroutine : Posted(r) => Posted(r)'
      BY <1>2 DEF Posted
    <2> QED
      BY <1>2, <1>3, <2>2, <2>3, <2>4 DEF NoWakeUpLost
  <1>4. CASE OnReadDone
    <2>1. PICK ok \in BOOLEAN : CallResumeContext("read", ok)
      BY <1>4 DEF OnReadDone
    <2>2. \A d \in Direction : d # "read" /\ Outstanding(d) => Outstanding(d)'
      BY <1>4 DEF OnReadDone, Outstanding, WriteOp
    <2> QED
      BY <1>3, <2>1, <2>2, Names
  <1>5. CASE \E op \in WriteOp : OnWriteDone(op)
    <2>1. PICK op \in WriteOp : OnWriteDone(op)
      BY <1>5
    <2>2. \A d \in Direction : d # "write" /\ Outstanding(d) => Outstanding(d)'
      BY <2>1 DEF OnWriteDone, Outstanding, WriteOp, Direction
    <2> QED
      BY <1>3, <2>1, <2>2, Names DEF OnWriteDone
  <1> QED
    BY <1>4, <1>5

\* A step of ResumeContext: the resumer it calls is that of the coroutine that waits.
LEMMA OwedResume ==
  ASSUME HandInv, NoWakeUpLost, NEW c \in Direction, ResumeContext(c), UNCHANGED <<userVars, streamVars, serverVars>>
  PROVE  NoWakeUpLost'
  <1>1. UNCHANGED <<pc, ops, onDone>>
    BY DEF userVars, streamVars
  <1>2. /\ ctx \in [Direction -> ContextType(Coroutine)] /\ thread \in [Direction -> ThreadType]
        /\ posted \in Seq(Coroutine)
    BY DEF HandInv, Types
  <1>3. /\ \A d \in Direction : d # c => thread'[d] = thread[d]
        /\ thread[c].at # "out" /\ thread'[c].at = NextPlace(thread[c].at)
        /\ posted' = IF thread[c].at = "resume" THEN posted \o ctx[c].resumer ELSE posted
    BY ResumeChanges
  <1>4. ctx[c].resumer \in Seq(Coroutine)
    BY <1>2, ResumerIsSequence
  <1>5. \A r \in Coroutine : Posted(r) => Posted(r)'
    <2>1. CASE thread[c].at = "resume"
      <3>1. posted' = posted \o ctx[c].resumer
        BY <1>3, <2>1
      <3>2. /\ Len(posted) \in Nat /\ Len(posted') \in Nat /\ Len(posted) <= Len(posted')
            /\ \A i \in 1 .. Len(posted) : posted'[i] = posted[i]
        BY <1>2, <1>4, <3>1, ConcatProperties, LenProperties
      <3>3. \A i \in 1 .. Len(posted) : i \in 1 .. Len(posted')
        BY <3>2
      <3> QED
        BY <3>2, <3>3 DEF Posted
    <2>2. CASE thread[c].at # "resume"
      BY <1>3, <2>2 DEF Posted
    <2> QED
      BY <2>1, <2>2
  <1>6. ASSUME thread[c].at = "resume", NEW r \in Coroutine, WaitsOn(c, r) PROVE Posted(r)'
    <2>1. ctx[c].resumer = <<r>>
      BY <1>6 DEF HandInv, Handing
    <2>2. posted' = posted \o <<r>>
      BY <1>3, <1>6, <2>1
    <2>3. CASE Posted(r)
      BY <1>5, <2>3
    <2>4. CASE ~Posted(r)
      BY <1>2, <2>2, <2>4, PostOnce DEF HandInv
    <2> QED
      BY <2>3, <2>4
  <1>7. thread[c].at \in {"success", "done", "lock"} => WillResume(c)'
    BY <1>3 DEF WillResume, NextPlace
  <1>8. /\ \A d \in Direction : d # c => (WillResume(d)' <=> WillResume(d))
        /\ \A d \in Direction : Outstanding(d)' <=> Outstanding(d)
        /\ \A d \in Direction : \A r \in Coroutine : WaitsOn(d, r)' <=> WaitsOn(d, r)
    BY <1>1, <1>3 DEF WillResume, Outstanding, WaitsOn
  <1>9. WillResume(c) => WillResume(c)' \/ thread[c].at = "resume"
    BY <1>7 DEF WillResume
  <1>10. ASSUME NEW d \in Direction, NEW r \in Coroutine, WaitsOn(d, r)'
         PROVE  Posted(r)' \/ (~onDone' /\ (Outstanding(d)' \/ WillResume(d)'))
    <2>1. WaitsOn(d, r) /\ (Posted(r) \/ (~onDone /\ (Outstanding(d) \/ WillResume(d))))
      BY <1>8, <1>10 DEF NoWakeUpLost
    <2> QED
      BY <1>1, <1>5, <1>6, <1>8, <1>9, <2>1
  <1>11. \A r \in Coroutine : pc'[r] = "lost" => onDone'
    BY <1>1 DEF NoWakeUpLost
  <1> QED
    BY <1>10, <1>11 DEF NoWakeUpLost

\* OnDone comes when nothing is outstanding: those who wait are resumed already.
LEMMA OwedOnDone == ASSUME NoWakeUpLost, OnDone PROVE NoWakeUpLost'
  <1>1. /\ UNCHANGED <<posted, pc>> /\ onDone' = TRUE
        /\ ops = {} /\ \A c \in Direction : thread[c].at = "out"
    BY DEF OnDone, userVars
  <1>2. \A d \in Direction : ~Outstanding(d) /\ ~WillResume(d)
    BY <1>1 DEF Outstanding, WillResume
  <1>3. /\ \A d \in Direction : \A r \in Coroutine : WaitsOn(d, r)' => WaitsOn(d, r)
        /\ \A r \in Coroutine : Posted(r) => Posted(r)'
    BY <1>1 DEF WaitsOn, Posted
  <1> QED
    BY <1>1, <1>2, <1>3 DEF NoWakeUpLost

\* No coroutine of a watch sleeps through the end of the operation it waits for,
\* unless it started the operation on a call gRPC was through with: the safety
\* half of StoppedLoopEnds, for Start, the change loop and StopWatch.
THEOREM WaitsAreOwed == Spec => []NoWakeUpLost
  <1>1. Init => NoWakeUpLost
    BY Names DEF Init, NoWakeUpLost, WaitsOn
  <1>2. HandInv /\ NoWakeUpLost /\ [Next]_vars => NoWakeUpLost'
    <2> SUFFICES ASSUME HandInv, NoWakeUpLost, [Next]_vars PROVE NoWakeUpLost'
      OBVIOUS
    <2>1. CASE (\E v \in 1 .. MaxChanges : Deliver(v)) \/ Change \/ Serve \/ Break \/ UNCHANGED vars
      <3>1. UNCHANGED <<thread, posted, pc, ops, onDone>>
        BY <2>1 DEF Deliver, Change, Serve, Break, vars, contextVars, userVars, streamVars
      <3> QED
        BY <3>1 DEF NoWakeUpLost, WaitsOn, Posted, Outstanding, WillResume
    <2> QED
      BY <2>1, OwedAwait, OwedAwake, OwedComplete, OwedResume, OwedOnDone
         DEF Next, User, Loop, Grpc, WriteOp
  <1> QED
    BY <1>1, <1>2, HandInvariant, PTL DEF Spec
=============================================================================
