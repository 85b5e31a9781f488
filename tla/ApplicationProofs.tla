------------------------- MODULE ApplicationProofs -------------------------
(***************************************************************************)
(* Proofs about Application, for any number of tasks and of spurious       *)
(* wake-ups and whether or not the loop runs what is posted after its end. *)
(***************************************************************************)
EXTENDS Application, FiniteSetTheorems, TLAPS

\* The WaitGroup counts the posted tasks, every item the coroutine has passed
\* is posted or came back, every failure is recorded, and a coroutine that
\* notified has passed all items and left none behind.
Tally(ph) ==
  /\ IsFiniteSet(jobs[ph]) /\ co[ph].wg = Cardinality(jobs[ph])
  /\ \A i \in jobs[ph] : i < co[ph].next
  /\ \A i \in 1 .. (co[ph].next - 1) :
       i \in jobs[ph] \/ \E b \in BOOLEAN : <<i, b>> \in results[ph]
  /\ \A i \in Nat : <<i, FALSE>> \in results[ph] => i \in failed_tasks[ph]
  /\ co[ph].pc \in {"notified", "ended"} => co[ph].next > Len(Items(ph)) /\ jobs[ph] = {}

\* How far the coroutines are, by what Run is doing.
Progress ==
  /\ run = "setup" => phase = "boot" /\ ~started /\ \A ph \in Phase : co[ph].pc = "none"
  /\ phase = "boot" => co["clean"].pc = "none"
  /\ phase = "clean" \/ run = "serving" => co["boot"].pc = "ended"
  /\ success => co["boot"].pc = "ended" /\ failed_tasks["boot"] = {}
  /\ run = "woken" /\ spurious = 0 => co[phase].pc \in {"notified", "ended"}
  /\ run = "serving" => success

\* The type of a coroutine's record in TypeOK.
CoType == [pc : {"none", "running", "notified", "ended"}, next : Nat \ {0}, wg : Nat]

IInv ==
  /\ TypeOK
  /\ \A ph \in Phase : Tally(ph)
  /\ Progress
  /\ OnStartAfterAllPrepared

\* Initially nothing is posted and nothing came back.
LEMMA InitInv == Init => IInv
<1> SUFFICES ASSUME Init PROVE IInv
  OBVIOUS
<1>1. TypeOK
  <2>1. on_start \in Seq(ExcRunType) /\ on_finish \in Seq(ExcRunType)
    BY DEF Init
  <2>2. co \in [Phase -> CoType]
    BY DEF Init, CoType
  <2> QED
    BY <2>1, <2>2 DEF Init, TypeOK, Phase, CoType
<1>2. \A ph \in Phase : Tally(ph)
  <2> SUFFICES ASSUME NEW ph \in Phase PROVE Tally(ph)
    OBVIOUS
  <2>1. jobs[ph] = {} /\ co[ph] = [pc |-> "none", next |-> 1, wg |-> 0] /\ results[ph] = {}
    BY DEF Init
  <2>2. IsFiniteSet(jobs[ph]) /\ Cardinality(jobs[ph]) = 0
    BY <2>1, FS_EmptySet
  <2> QED
    BY <2>1, <2>2 DEF Tally
<1>3. Progress /\ OnStartAfterAllPrepared
  BY DEF Init, Progress, OnStartAfterAllPrepared, Phase
<1> QED
  BY <1>1, <1>2, <1>3 DEF IInv

\* A coroutine that notified has all its tasks back.
LEMMA NotifiedReturned ==
  ASSUME NEW ph \in Phase, TypeOK, Tally(ph), co[ph].pc \in {"notified", "ended"}
  PROVE  AllReturned(ph)
<1> SUFFICES ASSUME NEW i \in DOMAIN Items(ph)
             PROVE  \E b \in BOOLEAN : <<i, b>> \in results[ph]
  BY DEF AllReturned
<1>1. Items(ph) \in Seq(ExcRunType) /\ co[ph].next \in Nat
  BY DEF TypeOK, Items, Phase
<1>2. i \in 1 .. Len(Items(ph)) /\ Len(Items(ph)) \in Nat
  BY <1>1
<1>3. co[ph].next > Len(Items(ph)) /\ jobs[ph] = {}
  BY DEF Tally
<1>4. i \in 1 .. (co[ph].next - 1)
  BY <1>1, <1>2, <1>3
<1> QED
  BY <1>3, <1>4 DEF Tally

\* The boot coroutine ended without a failure: all prepare tasks said true.
LEMMA SuccessPrepared ==
  ASSUME TypeOK, Tally("boot"), Progress, success
  PROVE  AllPrepared
<1>1. co["boot"].pc = "ended" /\ failed_tasks["boot"] = {} /\ "boot" \in Phase
  BY DEF Progress, Phase
<1>2. AllReturned("boot")
  BY <1>1, NotifiedReturned
<1> SUFFICES ASSUME NEW i \in DOMAIN on_start PROVE <<i, TRUE>> \in results["boot"]
  BY DEF AllPrepared
<1>3. i \in Nat
  BY DEF TypeOK
<1>4. PICK b \in BOOLEAN : <<i, b>> \in results["boot"]
  BY <1>2 DEF AllReturned, Items
<1>5. b # FALSE
  BY <1>1, <1>3, <1>4 DEF Tally
<1> QED
  BY <1>4, <1>5

\* Registering a task: no coroutine exists yet.
LEMMA SetupInv == IInv /\ (Prepare \/ Cleanup) => IInv'
<1> SUFFICES ASSUME IInv, Prepare \/ Cleanup PROVE IInv'
  OBVIOUS
<1> USE DEF IInv
<1>1. TypeOK'
  <2>1. on_start' \in Seq(ExcRunType) /\ on_finish' \in Seq(ExcRunType)
    <3>1. on_start \in Seq(ExcRunType) /\ on_finish \in Seq(ExcRunType)
      BY DEF TypeOK
    <3>2. ASSUME NEW s \in Seq(ExcRunType), NEW t \in ExcRunType
          PROVE  Append(s, t) \in Seq(ExcRunType)
      OBVIOUS
    <3>3. CASE Prepare
      <4>1. PICK t \in ExcRunType : on_start' = Append(on_start, t)
        BY <3>3 DEF Prepare
      <4> QED
        BY <3>1, <3>2, <3>3, <4>1 DEF Prepare
    <3>4. CASE Cleanup
      <4>1. PICK t \in ExcRunType : on_finish' = Append(on_finish, t)
        BY <3>4 DEF Cleanup
      <4> QED
        BY <3>1, <3>2, <3>4, <4>1 DEF Cleanup
    <3> QED
      BY <3>3, <3>4
  <2> QED
    BY <2>1 DEF TypeOK, Prepare, Cleanup, mainVars, loopVars
<1>2. UNCHANGED <<mainVars, loopVars, success, loop>> /\ run = "setup"
  BY DEF Prepare, Cleanup
<1>3. ASSUME NEW ph \in Phase PROVE Tally(ph)'
  <2>1. co[ph].pc = "none"
    BY <1>2 DEF Progress
  <2> QED
    BY <1>2, <2>1 DEF Tally, mainVars, loopVars
<1>4. Progress' /\ OnStartAfterAllPrepared'
  BY <1>2 DEF Progress, OnStartAfterAllPrepared, mainVars, loopVars
<1> QED
  BY <1>1, <1>3, <1>4

\* Posting a coroutine changes neither what was tallied nor its items.
LEMMA PostInv == IInv /\ (Start \/ WaitLoopEnd) => IInv'
<1> SUFFICES ASSUME IInv, Start \/ WaitLoopEnd PROVE IInv'
  OBVIOUS
<1> USE DEF IInv
<1> DEFINE ph0 == IF run = "setup" THEN "boot" ELSE "clean"
<1>1. /\ ph0 \in Phase /\ PostCoroutine(ph0)
      /\ UNCHANGED <<taskVars, spurious, started, jobs, failed_tasks, results>>
  BY DEF Start, WaitLoopEnd, Phase
<1>2. TypeOK'
  <2>1. loop' \in {"new", "running", "ended"}
    BY DEF Start, WaitLoopEnd, TypeOK
  <2>2. co' \in [Phase -> CoType]
    <3> HIDE DEF ph0
    <3>1. co' = [co EXCEPT ![ph0].pc = "running"] /\ co \in [Phase -> CoType]
      BY <1>1 DEF PostCoroutine, TypeOK, CoType
    <3> QED
      BY <1>1, <3>1 DEF CoType
  <2>3. run' = "hold" /\ phase' \in Phase /\ success' = FALSE
    BY <1>1 DEF PostCoroutine
  <2> QED
    BY <1>1, <2>1, <2>2, <2>3 DEF TypeOK, CoType, taskVars
<1>3. ASSUME NEW ph \in Phase PROVE Tally(ph)'
  <2>1. /\ co'[ph].next = co[ph].next /\ co'[ph].wg = co[ph].wg
        /\ co'[ph].pc = IF ph = ph0 THEN "running" ELSE co[ph].pc
    BY <1>1 DEF PostCoroutine, TypeOK
  <2>2. Items(ph)' = Items(ph)
    BY <1>1 DEF Items, taskVars
  <2> QED
    BY <1>1, <2>1, <2>2 DEF Tally
<1>4. Progress'
  <2>1. CASE run = "setup"
    BY <1>1, <2>1 DEF Progress, PostCoroutine, TypeOK, Phase
  <2>2. CASE run # "setup"
    BY <1>1, <2>2 DEF Progress, PostCoroutine, TypeOK, Phase, WaitLoopEnd, Start
  <2> QED
    BY <2>1, <2>2
<1>5. OnStartAfterAllPrepared'
  BY <1>1 DEF OnStartAfterAllPrepared, AllPrepared, taskVars
<1> QED
  BY <1>2, <1>3, <1>4, <1>5

\* Steps of Run that leave the loop thread alone.
LEMMA MainInv ==
  IInv /\ (BeginWait \/ TimeOut \/ SpuriousWakeUp \/ LeaveBoot \/ LeaveClean \/ QuitLoop) => IInv'
<1> SUFFICES ASSUME IInv,
                    BeginWait \/ TimeOut \/ SpuriousWakeUp \/ LeaveBoot \/ LeaveClean \/ QuitLoop
             PROVE  IInv'
  OBVIOUS
<1> USE DEF IInv, BeginWait, TimeOut, SpuriousWakeUp, LeaveBoot, LeaveClean, QuitLoop, mainVars
<1>1. UNCHANGED <<taskVars, loopVars, success, phase>>
  OBVIOUS
<1>2. TypeOK'
  BY <1>1 DEF TypeOK, taskVars, loopVars
<1>3. ASSUME NEW ph \in Phase PROVE Tally(ph)'
  BY <1>1 DEF Tally, Items, taskVars, loopVars
<1>4. Progress'
  BY <1>1 DEF Progress, loopVars, TypeOK
<1>5. OnStartAfterAllPrepared'
  <2>1. CASE LeaveBoot
    <3>1. success => AllPrepared
      BY SuccessPrepared DEF Phase
    <3> QED
      BY <1>1, <2>1, <3>1 DEF OnStartAfterAllPrepared, AllPrepared, taskVars, loopVars
  <2>2. CASE ~LeaveBoot
    <3>1. UNCHANGED started
      BY <2>2
    <3> QED
      BY <1>1, <3>1 DEF OnStartAfterAllPrepared, AllPrepared, taskVars, loopVars
  <2> QED
    BY <2>1, <2>2
<1> QED
  BY <1>2, <1>3, <1>4, <1>5

\* A sequence task came back.
LEMMA SequenceInv == ASSUME NEW p \in Phase PROVE IInv /\ RunSequenceTask(p) => IInv'
<1> SUFFICES ASSUME IInv, RunSequenceTask(p) PROVE IInv'
  OBVIOUS
<1> USE DEF IInv
<1> DEFINE i == co[p].next
<1>1. PICK ok \in BOOLEAN : Returns(p, i, ok)
  BY DEF RunSequenceTask
<1>2. /\ co[p].pc = "running" /\ i \in Nat \ {0}
      /\ co' = [co EXCEPT ![p].next = i + 1]
      /\ UNCHANGED <<taskVars, mainVars, jobs, success, loop>>
  BY DEF RunSequenceTask, TypeOK
<1>3. TypeOK'
  <2>1. co' \in [Phase -> CoType]
    <3>1. i + 1 \in Nat \ {0}
      BY <1>2
    <3>2. co \in [Phase -> CoType] /\ co[p] \in CoType
      BY DEF TypeOK, CoType
    <3>3. [co[p] EXCEPT !.next = i + 1] \in CoType
      BY <3>1, <3>2 DEF CoType
    <3> HIDE DEF i, IInv
    <3> QED
      BY <1>2, <3>2, <3>3
  <2>2. results' \in [Phase -> SUBSET (Nat \X BOOLEAN)]
    BY <1>1, <1>2 DEF TypeOK, Returns
  <2>3. failed_tasks' \in [Phase -> SUBSET Nat]
    BY <1>1, <1>2 DEF TypeOK, Returns
  <2> QED
    BY <1>2, <2>1, <2>2, <2>3 DEF TypeOK, CoType, taskVars, mainVars
<1>4. ASSUME NEW ph \in Phase PROVE Tally(ph)'
  <2>1. CASE ph # p
    BY <1>1, <1>2, <2>1 DEF Tally, Returns, TypeOK, Items, taskVars
  <2>2. CASE ph = p
    <3>1. /\ co'[p].next = i + 1 /\ co'[p].wg = co[p].wg /\ co'[p].pc = "running"
          /\ jobs'[p] = jobs[p]
      BY <1>2 DEF TypeOK
    <3>2. /\ results'[p] = results[p] \cup {<<i, ok>>}
          /\ failed_tasks'[p] = IF ok THEN failed_tasks[p] ELSE failed_tasks[p] \cup {i}
      BY <1>1 DEF Returns, TypeOK
    <3>3. \A j \in jobs'[p] : j < co'[p].next
      <4>1. \A j \in jobs[p] : j \in Nat /\ j < i
        BY DEF Tally, TypeOK
      <4> QED
        BY <1>2, <3>1, <4>1
    <3>4. \A j \in 1 .. (co'[p].next - 1) :
            j \in jobs'[p] \/ \E b \in BOOLEAN : <<j, b>> \in results'[p]
      <4> SUFFICES ASSUME NEW j \in 1 .. (co'[p].next - 1)
                   PROVE  j \in jobs'[p] \/ \E b \in BOOLEAN : <<j, b>> \in results'[p]
        OBVIOUS
      <4>1. CASE j = i
        BY <3>2, <4>1
      <4>2. CASE j # i
        <5>1. j \in 1 .. (co[p].next - 1)
          BY <1>2, <3>1, <4>2
        <5> QED
          BY <3>1, <3>2, <5>1 DEF Tally
      <4> QED
        BY <4>1, <4>2
    <3>5. \A j \in Nat : <<j, FALSE>> \in results'[p] => j \in failed_tasks'[p]
      BY <3>2 DEF Tally
    <3> QED
      BY <2>2, <3>1, <3>3, <3>4, <3>5 DEF Tally
  <2> QED
    BY <2>1, <2>2
<1>5. Progress'
  BY <1>1, <1>2 DEF Progress, Returns, TypeOK, mainVars, Phase
<1>6. OnStartAfterAllPrepared'
  BY <1>1, <1>2 DEF OnStartAfterAllPrepared, AllPrepared, Returns, TypeOK, taskVars, mainVars, Phase
<1> QED
  BY <1>3, <1>4, <1>5, <1>6

\* An asynchronous task was posted and counted.
LEMMA PostAsyncInv == ASSUME NEW p \in Phase PROVE IInv /\ PostAsyncTask(p) => IInv'
<1> SUFFICES ASSUME IInv, PostAsyncTask(p) PROVE IInv'
  OBVIOUS
<1> USE DEF IInv
<1> DEFINE i == co[p].next
<1>1. /\ co[p].pc = "running" /\ i \in Nat \ {0} /\ co[p].wg \in Nat
      /\ co' = [co EXCEPT ![p].next = i + 1, ![p].wg = @ + 1]
      /\ jobs' = [jobs EXCEPT ![p] = @ \cup {i}]
      /\ UNCHANGED <<taskVars, mainVars, failed_tasks, results, success, loop>>
  BY DEF PostAsyncTask, TypeOK
<1>2. TypeOK'
  <2>1. co' \in [Phase -> CoType]
    <3>1. i + 1 \in Nat \ {0} /\ co[p].wg + 1 \in Nat
      BY <1>1
    <3> QED
      BY <1>1, <3>1 DEF TypeOK, CoType
  <2>2. jobs' \in [Phase -> SUBSET Nat]
    BY <1>1 DEF TypeOK
  <2> QED
    BY <1>1, <2>1, <2>2 DEF TypeOK, CoType, taskVars, mainVars
<1>3. ASSUME NEW ph \in Phase PROVE Tally(ph)'
  <2>1. CASE ph # p
    BY <1>1, <2>1 DEF Tally, TypeOK, Items, taskVars
  <2>2. CASE ph = p
    <3>1. /\ co'[p].next = i + 1 /\ co'[p].wg = co[p].wg + 1 /\ co'[p].pc = "running"
          /\ jobs'[p] = jobs[p] \cup {i}
      BY <1>1 DEF TypeOK
    <3>2. IsFiniteSet(jobs[p]) /\ co[p].wg = Cardinality(jobs[p])
      BY DEF Tally
    <3>3. \A j \in jobs[p] : j \in Nat /\ j < i
      BY DEF Tally, TypeOK
    <3>4. i \notin jobs[p]
      BY <1>1, <3>3
    <3>5. /\ IsFiniteSet(jobs[p] \cup {i})
          /\ Cardinality(jobs[p] \cup {i}) = Cardinality(jobs[p]) + 1
      <4> HIDE DEF i
      <4> QED
        BY <3>2, <3>4, FS_AddElement
    <3>6. \A j \in jobs'[p] : j < co'[p].next
      BY <1>1, <3>1, <3>3
    <3>7. \A j \in 1 .. (co'[p].next - 1) :
            j \in jobs'[p] \/ \E b \in BOOLEAN : <<j, b>> \in results'[p]
      <4> SUFFICES ASSUME NEW j \in 1 .. (co'[p].next - 1), j # i
                   PROVE  j \in jobs'[p] \/ \E b \in BOOLEAN : <<j, b>> \in results'[p]
        BY <3>1
      <4>1. j \in 1 .. (co[p].next - 1)
        BY <1>1, <3>1
      <4> QED
        BY <1>1, <3>1, <4>1 DEF Tally
    <3> QED
      BY <1>1, <2>2, <3>1, <3>2, <3>5, <3>6, <3>7 DEF Tally
  <2> QED
    BY <2>1, <2>2
<1>4. Progress'
  BY <1>1 DEF Progress, TypeOK, mainVars, Phase
<1>5. OnStartAfterAllPrepared'
  BY <1>1 DEF OnStartAfterAllPrepared, AllPrepared, taskVars, mainVars
<1> QED
  BY <1>2, <1>3, <1>4, <1>5

\* An asynchronous task came back and was counted down.
LEMMA AsyncInv == ASSUME NEW p \in Phase PROVE IInv /\ RunAsyncTask(p) => IInv'
<1> SUFFICES ASSUME IInv, RunAsyncTask(p) PROVE IInv'
  OBVIOUS
<1> USE DEF IInv
<1>1. PICK i \in jobs[p], ok \in BOOLEAN :
        /\ Returns(p, i, ok)
        /\ jobs' = [jobs EXCEPT ![p] = @ \ {i}]
        /\ co' = [co EXCEPT ![p].wg = @ - 1]
  BY DEF RunAsyncTask
<1>2. UNCHANGED <<taskVars, mainVars, success, loop>> /\ i \in Nat
  BY <1>1 DEF RunAsyncTask, TypeOK
<1>3. IsFiniteSet(jobs[p]) /\ co[p].wg = Cardinality(jobs[p]) /\ co[p].wg \in Nat
  BY DEF Tally, TypeOK
<1>4. /\ IsFiniteSet(jobs[p] \ {i})
      /\ Cardinality(jobs[p] \ {i}) = Cardinality(jobs[p]) - 1
      /\ Cardinality(jobs[p] \ {i}) \in Nat
  BY <1>1, <1>3, FS_RemoveElement, FS_CardinalityType
<1>5. co[p].wg - 1 \in Nat
  BY <1>3, <1>4
<1>6. co[p].pc \notin {"notified", "ended"}
  BY <1>1 DEF Tally
<1>7. TypeOK'
  <2>1. co' \in [Phase -> CoType]
    BY <1>1, <1>5 DEF TypeOK, CoType
  <2>2. jobs' \in [Phase -> SUBSET Nat]
    BY <1>1 DEF TypeOK
  <2>3. results' \in [Phase -> SUBSET (Nat \X BOOLEAN)]
    BY <1>1, <1>2 DEF TypeOK, Returns
  <2>4. failed_tasks' \in [Phase -> SUBSET Nat]
    BY <1>1, <1>2 DEF TypeOK, Returns
  <2> QED
    BY <1>2, <2>1, <2>2, <2>3, <2>4 DEF TypeOK, CoType, taskVars, mainVars
<1>8. ASSUME NEW ph \in Phase PROVE Tally(ph)'
  <2>1. CASE ph # p
    BY <1>1, <1>2, <2>1 DEF Tally, Returns, TypeOK, Items, taskVars
  <2>2. CASE ph = p
    <3>1. /\ co'[p].next = co[p].next /\ co'[p].wg = co[p].wg - 1 /\ co'[p].pc = co[p].pc
          /\ jobs'[p] = jobs[p] \ {i}
      BY <1>1 DEF TypeOK
    <3>2. /\ results'[p] = results[p] \cup {<<i, ok>>}
          /\ failed_tasks'[p] = IF ok THEN failed_tasks[p] ELSE failed_tasks[p] \cup {i}
      BY <1>1 DEF Returns, TypeOK
    <3>3. \A j \in 1 .. (co'[p].next - 1) :
            j \in jobs'[p] \/ \E b \in BOOLEAN : <<j, b>> \in results'[p]
      BY <3>1, <3>2 DEF Tally
    <3>4. \A j \in Nat : <<j, FALSE>> \in results'[p] => j \in failed_tasks'[p]
      BY <3>2 DEF Tally
    <3> QED
      BY <1>3, <1>4, <1>6, <2>2, <3>1, <3>3, <3>4 DEF Tally
  <2> QED
    BY <2>1, <2>2
<1>9. Progress'
  BY <1>1, <1>2, <1>6 DEF Progress, Returns, TypeOK, mainVars, Phase
<1>10. OnStartAfterAllPrepared'
  BY <1>1, <1>2 DEF OnStartAfterAllPrepared, AllPrepared, Returns, TypeOK, taskVars, mainVars, Phase
<1> QED
  BY <1>7, <1>8, <1>9, <1>10

\* The coroutine notifies: its WaitGroup is 0, so nothing is left behind.
LEMMA NotifyInv == ASSUME NEW p \in Phase PROVE IInv /\ WaitAndNotify(p) => IInv'
<1> SUFFICES ASSUME IInv, WaitAndNotify(p) PROVE IInv'
  OBVIOUS
<1> USE DEF IInv
<1>1. /\ co[p].pc = "running" /\ co[p].next > Len(Items(p)) /\ co[p].wg = 0
      /\ co' = [co EXCEPT ![p].pc = "notified"]
      /\ run' = IF run = "wait" THEN "woken" ELSE run
      /\ UNCHANGED <<taskVars, phase, spurious, started, jobs, failed_tasks, results,
                     success, loop>>
  BY DEF WaitAndNotify
<1>2. jobs[p] = {}
  BY <1>1, FS_EmptySet DEF Tally
<1>3. TypeOK'
  <2>1. co \in [Phase -> CoType] /\ co[p] \in CoType
    BY DEF TypeOK, CoType
  <2>2. [co[p] EXCEPT !.pc = "notified"] \in CoType
    BY <2>1 DEF CoType
  <2>3. co' \in [Phase -> CoType]
    BY <1>1, <2>1, <2>2
  <2>4. run' \in {"setup", "hold", "wait", "woken", "serving", "returned"}
    BY <1>1 DEF TypeOK
  <2> QED
    BY <1>1, <2>3, <2>4 DEF TypeOK, CoType, taskVars
<1>4. ASSUME NEW ph \in Phase PROVE Tally(ph)'
  <2>1. co \in [Phase -> CoType]
    BY DEF TypeOK, CoType
  <2>2. co'[ph] = IF ph = p THEN [co[p] EXCEPT !.pc = "notified"] ELSE co[ph]
    BY <1>1, <2>1
  <2>3. CASE ph = p
    <3>1. /\ co'[ph].wg = co[ph].wg /\ co'[ph].next = co[ph].next /\ co'[ph].pc = "notified"
          /\ co[ph].pc = "running" /\ co[ph].wg = 0 /\ co[ph].next > Len(Items(ph))
      BY <1>1, <2>1, <2>2, <2>3 DEF CoType
    <3>2. /\ Items(ph)' = Items(ph) /\ jobs' = jobs /\ failed_tasks' = failed_tasks
          /\ results' = results
      BY <1>1 DEF Items, taskVars
    <3>3. Tally(ph)
      OBVIOUS
    <3> HIDE DEF IInv
    <3> QED
      BY <1>2, <2>3, <3>1, <3>2, <3>3 DEF Tally
  <2>4. CASE ph # p
    BY <1>1, <2>2, <2>4 DEF Tally, Items, taskVars
  <2> QED
    BY <2>3, <2>4
<1>5. Progress'
  <2>1. phase = p
    BY <1>1 DEF Progress, Phase, TypeOK
  <2> QED
    BY <1>1, <2>1 DEF Progress, TypeOK, Phase
<1>6. OnStartAfterAllPrepared'
  BY <1>1 DEF OnStartAfterAllPrepared, AllPrepared, taskVars
<1> QED
  BY <1>3, <1>4, <1>5, <1>6

\* The coroutine returns, and the one of the boot phase assigns success.
LEMMA ReturnInv == ASSUME NEW p \in Phase PROVE IInv /\ Return(p) => IInv'
<1> SUFFICES ASSUME IInv, Return(p) PROVE IInv'
  OBVIOUS
<1> USE DEF IInv
<1>1. /\ co[p].pc = "notified"
      /\ co' = [co EXCEPT ![p].pc = "ended"]
      /\ success' = IF p = "boot" THEN failed_tasks[p] = {} ELSE success
      /\ UNCHANGED <<taskVars, mainVars, jobs, failed_tasks, results, loop>>
  BY DEF Return
<1>2. success' \in BOOLEAN
  <2>1. CASE p = "boot"
    <3>1. success' = (failed_tasks[p] = {})
      BY <1>1, <2>1
    <3> QED
      BY <3>1
  <2>2. CASE p # "boot"
    <3>1. success' = success
      BY <1>1, <2>2
    <3> QED
      BY <3>1 DEF TypeOK
  <2> QED
    BY <2>1, <2>2
<1>3. TypeOK'
  BY <1>1, <1>2 DEF TypeOK, taskVars, mainVars
<1>4. ASSUME NEW ph \in Phase PROVE Tally(ph)'
  BY <1>1 DEF Tally, TypeOK, Items, taskVars
<1>5. Progress'
  <2>1. CASE p = "boot"
    BY <1>1, <2>1 DEF Progress, TypeOK, Phase, mainVars
  <2>2. CASE p = "clean"
    BY <1>1, <2>2 DEF Progress, TypeOK, Phase, mainVars
  <2> QED
    BY <2>1, <2>2 DEF Phase
<1>6. OnStartAfterAllPrepared'
  BY <1>1 DEF OnStartAfterAllPrepared, AllPrepared, taskVars, mainVars
<1> QED
  BY <1>3, <1>4, <1>5, <1>6

\* Every step keeps the inductive invariant.
LEMMA NextInv == IInv /\ [Next]_vars => IInv'
<1> SUFFICES ASSUME IInv, [Next]_vars PROVE IInv'
  OBVIOUS
<1>1. CASE MainThread \/ QuitLoop
  BY <1>1, SetupInv, PostInv, MainInv DEF MainThread
<1>2. CASE LoopThread
  BY <1>2, SequenceInv, PostAsyncInv, AsyncInv, NotifyInv, ReturnInv DEF LoopThread
<1>3. CASE UNCHANGED vars
  <2> USE <1>3 DEF vars, taskVars, mainVars, loopVars, IInv
  <2>1. TypeOK'
    BY DEF TypeOK
  <2>2. ASSUME NEW ph \in Phase PROVE Tally(ph)'
    BY DEF Tally, Items
  <2>3. Progress' /\ OnStartAfterAllPrepared'
    BY DEF Progress, OnStartAfterAllPrepared, AllPrepared
  <2> QED
    BY <2>1, <2>2, <2>3
<1> QED
  BY <1>1, <1>2, <1>3 DEF Next

----------------------------------------------------------------------------
(* One result per task, and what Run makes of the results.                 *)

\* A task came back once at most, after the coroutine passed it and while it is
\* not posted; the failures noted are those of tasks that came back with false.
RunOnce(ph) ==
  /\ \A i \in Nat, b \in BOOLEAN : <<i, b>> \in results[ph] =>
       /\ <<i, ~b>> \notin results[ph]
       /\ i \in DOMAIN Items(ph) /\ i \notin jobs[ph] /\ i < co[ph].next
  /\ \A i \in failed_tasks[ph] : <<i, FALSE>> \in results[ph]
  /\ \A i \in jobs[ph] : i \in DOMAIN Items(ph)

\* Run has called OnStart if it is serving or cleaning up; when it returned without,
\* the coroutine had ended, and a coroutine that ended has said how it went.
Answered ==
  /\ run = "serving" \/ phase = "clean" => started
  /\ phase = "boot" /\ co["boot"].pc = "ended" => (success <=> failed_tasks["boot"] = {})
  /\ phase = "boot" /\ run = "returned" => co["boot"].pc = "ended" /\ (success => started)

\* A phase whose tasks do not move; the list it walks may grow.
LEMMA OnceSame ==
  ASSUME NEW ph \in Phase, RunOnce(ph), results'[ph] = results[ph], jobs'[ph] = jobs[ph],
         failed_tasks'[ph] = failed_tasks[ph], co'[ph].next = co[ph].next,
         DOMAIN Items(ph) \subseteq DOMAIN Items(ph)'
  PROVE  RunOnce(ph)'
BY DEF RunOnce

\* Task i of phase ph, which has not come back, comes back with ok.
LEMMA OnceReturns ==
  ASSUME NEW ph \in Phase, TypeOK, RunOnce(ph), NEW i \in Nat, NEW ok \in BOOLEAN, Returns(ph, i, ok),
         \A b \in BOOLEAN : <<i, b>> \notin results[ph],
         i \in DOMAIN Items(ph), DOMAIN Items(ph)' = DOMAIN Items(ph),
         i \notin jobs'[ph], jobs'[ph] \subseteq jobs[ph],
         co'[ph].next \in Nat, co[ph].next <= co'[ph].next, i < co'[ph].next
  PROVE  RunOnce(ph)'
<1>1. /\ results'[ph] = results[ph] \cup {<<i, ok>>}
      /\ failed_tasks'[ph] = IF ok THEN failed_tasks[ph] ELSE failed_tasks[ph] \cup {i}
  BY DEF Returns, TypeOK
<1>2. co[ph].next \in Nat
  BY DEF TypeOK
<1>3. ASSUME NEW j \in Nat, NEW b \in BOOLEAN, <<j, b>> \in results'[ph]
      PROVE  /\ <<j, ~b>> \notin results'[ph]
             /\ j \in DOMAIN Items(ph)' /\ j \notin jobs'[ph] /\ j < co'[ph].next
  <2>1. CASE j = i
    <3>1. <<j, b>> = <<i, ok>> /\ b = ok
      BY <1>1, <1>3, <2>1
    <3>2. <<j, ~b>> \notin results[ph] /\ <<j, ~b>> # <<i, ok>>
      BY <2>1, <3>1
    <3> QED
      BY <1>1, <2>1, <3>2
  <2>2. CASE j # i
    <3>1. <<j, b>> \in results[ph] /\ <<j, b>> # <<i, ok>> /\ <<j, ~b>> # <<i, ok>>
      BY <1>1, <1>3, <2>2
    <3>2. /\ <<j, ~b>> \notin results[ph]
          /\ j \in DOMAIN Items(ph) /\ j \notin jobs[ph] /\ j < co[ph].next
      BY <3>1 DEF RunOnce
    <3>3. j < co'[ph].next
      BY <1>2, <3>2
    <3> QED
      BY <1>1, <3>1, <3>2, <3>3
  <2> QED
    BY <2>1, <2>2
<1>4. \A j \in failed_tasks'[ph] : <<j, FALSE>> \in results'[ph]
  <2>1. \A j \in failed_tasks[ph] : <<j, FALSE>> \in results[ph]
    BY DEF RunOnce
  <2>2. CASE ok
    BY <1>1, <2>1, <2>2
  <2>3. CASE ~ok
    <3>1. ok = FALSE
      BY <2>3
    <3> QED
      BY <1>1, <2>1, <3>1
  <2> QED
    BY <2>2, <2>3
<1>5. \A j \in jobs'[ph] : j \in DOMAIN Items(ph)'
  BY DEF RunOnce
<1> QED
  BY <1>3, <1>4, <1>5 DEF RunOnce

\* A sequence task is run when the coroutine is at it.
LEMMA OnceSequence ==
  ASSUME IInv, \A ph \in Phase : RunOnce(ph), NEW p \in Phase, RunSequenceTask(p), NEW ph \in Phase
  PROVE  RunOnce(ph)'
<1> DEFINE i == co[p].next
<1>1. PICK ok \in BOOLEAN : Returns(p, i, ok)
  BY DEF RunSequenceTask
<1>2. /\ i \in DOMAIN Items(p) /\ co' = [co EXCEPT ![p].next = i + 1]
      /\ UNCHANGED <<on_start, on_finish, jobs>>
  BY DEF RunSequenceTask, taskVars
<1>3. TypeOK /\ Tally(p) /\ RunOnce(p) /\ i \in Nat /\ Items(ph)' = Items(ph)
  BY <1>2 DEF IInv, TypeOK, Items
<1>4. CASE ph = p
  <2>1. co'[p].next = i + 1
    BY <1>2, <1>3 DEF TypeOK
  <2>2. i \notin jobs[p]
    BY <1>3 DEF Tally
  <2>3. ASSUME NEW b \in BOOLEAN PROVE <<i, b>> \notin results[p]
    <3>1. <<i, b>> \in results[p] => i < co[p].next
      BY <1>3 DEF RunOnce
    <3> QED
      BY <1>3, <3>1
  <2>4. i < i + 1 /\ i <= i + 1 /\ i + 1 \in Nat
    BY <1>3
  <2>5. /\ co'[p].next \in Nat /\ i <= co'[p].next /\ i < co'[p].next
        /\ i \notin jobs'[p] /\ jobs'[p] \subseteq jobs[p]
    BY <1>2, <2>1, <2>2, <2>4
  <2>6. DOMAIN Items(p)' = DOMAIN Items(p)
    BY <1>3, <1>4
  <2>7. co[p].next <= co'[p].next
    BY <2>5
  <2> HIDE DEF i
  <2> QED
    BY <1>1, <1>2, <1>3, <1>4, <2>3, <2>5, <2>6, <2>7, OnceReturns
<1>5. CASE ph # p
  <2>1. /\ co'[ph] = co[ph] /\ results'[ph] = results[ph] /\ failed_tasks'[ph] = failed_tasks[ph]
        /\ jobs'[ph] = jobs[ph]
    BY <1>1, <1>2, <1>3, <1>5 DEF TypeOK, Returns
  <2> QED
    BY <1>3, <2>1, OnceSame
<1> QED
  BY <1>4, <1>5

\* A task is posted when the coroutine is at it: it was neither posted nor run.
LEMMA OncePost ==
  ASSUME IInv, \A ph \in Phase : RunOnce(ph), NEW p \in Phase, PostAsyncTask(p), NEW ph \in Phase
  PROVE  RunOnce(ph)'
<1> DEFINE i == co[p].next
<1>1. /\ i \in DOMAIN Items(p) /\ co' = [co EXCEPT ![p].next = i + 1, ![p].wg = @ + 1]
      /\ jobs' = [jobs EXCEPT ![p] = @ \cup {i}]
      /\ UNCHANGED <<on_start, on_finish, failed_tasks, results>>
  BY DEF PostAsyncTask, taskVars
<1>2. TypeOK /\ Tally(p) /\ RunOnce(p) /\ i \in Nat /\ Items(ph)' = Items(ph)
  BY <1>1 DEF IInv, TypeOK, Items
<1>3. CASE ph = p
  <2>1. co'[p].next = i + 1 /\ jobs'[p] = jobs[p] \cup {i}
    BY <1>1, <1>2 DEF TypeOK
  <2>2. \A j \in Nat, b \in BOOLEAN : <<j, b>> \in results[p] =>
          /\ <<j, ~b>> \notin results[p]
          /\ j \in DOMAIN Items(p) /\ j \notin jobs[p] /\ j < i
    BY <1>2 DEF RunOnce
  <2>3. \A j \in Nat, b \in BOOLEAN : <<j, b>> \in results'[p] =>
          /\ <<j, ~b>> \notin results'[p]
          /\ j \in DOMAIN Items(p) /\ j \notin jobs'[p] /\ j < co'[p].next
    <3> HIDE DEF i
    <3> QED
      BY <1>1, <1>2, <2>1, <2>2
  <2>4. \A j \in jobs'[p] : j \in DOMAIN Items(p)
    BY <1>1, <1>2, <2>1 DEF RunOnce
  <2>5. \A j \in failed_tasks'[p] : <<j, FALSE>> \in results'[p]
    BY <1>1, <1>2 DEF RunOnce
  <2> HIDE DEF i
  <2> QED
    BY <1>2, <1>3, <2>3, <2>4, <2>5 DEF RunOnce
<1>4. CASE ph # p
  <2>1. co'[ph] = co[ph] /\ jobs'[ph] = jobs[ph]
    BY <1>1, <1>2, <1>4 DEF TypeOK
  <2> QED
    BY <1>1, <1>2, <2>1, OnceSame
<1> QED
  BY <1>3, <1>4

\* A task that is run is no longer posted.
LEMMA OnceAsync ==
  ASSUME IInv, \A ph \in Phase : RunOnce(ph), NEW p \in Phase, RunAsyncTask(p), NEW ph \in Phase
  PROVE  RunOnce(ph)'
<1>1. PICK i \in jobs[p], ok \in BOOLEAN :
        /\ Returns(p, i, ok)
        /\ jobs' = [jobs EXCEPT ![p] = @ \ {i}]
        /\ co' = [co EXCEPT ![p].wg = @ - 1]
  BY DEF RunAsyncTask
<1>2. UNCHANGED <<on_start, on_finish>>
  BY DEF RunAsyncTask, taskVars
<1>3. TypeOK /\ Tally(p) /\ RunOnce(p) /\ i \in Nat /\ Items(ph)' = Items(ph)
  BY <1>1, <1>2 DEF IInv, TypeOK, Items
<1>4. CASE ph = p
  <2>1. co'[p].next = co[p].next /\ co[p].next \in Nat /\ jobs'[p] = jobs[p] \ {i}
    BY <1>1, <1>3 DEF TypeOK
  <2>2. i \in DOMAIN Items(p) /\ \A b \in BOOLEAN : <<i, b>> \notin results[p]
    BY <1>1, <1>3 DEF RunOnce
  <2>3. i < co[p].next
    BY <1>1, <1>3 DEF Tally
  <2>4. /\ co'[p].next \in Nat /\ co[p].next <= co'[p].next /\ i < co'[p].next
        /\ i \notin jobs'[p] /\ jobs'[p] \subseteq jobs[p]
    BY <2>1, <2>3
  <2>5. DOMAIN Items(p)' = DOMAIN Items(p)
    BY <1>3, <1>4
  <2> QED
    BY <1>1, <1>3, <1>4, <2>2, <2>4, <2>5, OnceReturns
<1>5. CASE ph # p
  <2>1. /\ co'[ph] = co[ph] /\ results'[ph] = results[ph] /\ failed_tasks'[ph] = failed_tasks[ph]
        /\ jobs'[ph] = jobs[ph]
    BY <1>1, <1>3, <1>5 DEF TypeOK, Returns
  <2> QED
    BY <1>3, <2>1, OnceSame
<1> QED
  BY <1>4, <1>5

\* The other steps move no task.
LEMMA OnceRest ==
  ASSUME IInv, \A ph \in Phase : RunOnce(ph), NEW ph \in Phase,
         \/ Prepare \/ Cleanup \/ Start \/ WaitLoopEnd
         \/ BeginWait \/ TimeOut \/ SpuriousWakeUp \/ LeaveBoot \/ LeaveClean \/ QuitLoop
         \/ UNCHANGED vars \/ \E p \in Phase : WaitAndNotify(p) \/ Return(p)
  PROVE  RunOnce(ph)'
<1>1. UNCHANGED <<jobs, failed_tasks, results>>
  BY DEF Prepare, Cleanup, Start, WaitLoopEnd, BeginWait, TimeOut, SpuriousWakeUp, LeaveBoot, LeaveClean,
         QuitLoop, vars, loopVars, WaitAndNotify, Return
<1>2. TypeOK /\ RunOnce(ph)
  BY DEF IInv
<1>3. \/ UNCHANGED co
      \/ \E p \in Phase, s \in {"running", "notified", "ended"} : co' = [co EXCEPT ![p].pc = s]
  BY DEF Prepare, Cleanup, Start, WaitLoopEnd, BeginWait, TimeOut, SpuriousWakeUp, LeaveBoot, LeaveClean,
         QuitLoop, vars, loopVars, WaitAndNotify, Return, PostCoroutine, Phase
<1>4. co'[ph].next = co[ph].next
  <2>1. ASSUME NEW p \in Phase, NEW s, co' = [co EXCEPT ![p].pc = s]
        PROVE  co'[ph].next = co[ph].next
    BY <1>2, <2>1 DEF TypeOK
  <2> QED
    BY <1>3, <2>1
<1>5. \/ UNCHANGED on_start
      \/ \E x \in ExcRunType : on_start' = Append(on_start, x)
  BY DEF Prepare, Cleanup, Start, WaitLoopEnd, BeginWait, TimeOut, SpuriousWakeUp, LeaveBoot, LeaveClean,
         QuitLoop, vars, taskVars, WaitAndNotify, Return
<1>6. \/ UNCHANGED on_finish
      \/ \E x \in ExcRunType : on_finish' = Append(on_finish, x)
  BY DEF Prepare, Cleanup, Start, WaitLoopEnd, BeginWait, TimeOut, SpuriousWakeUp, LeaveBoot, LeaveClean,
         QuitLoop, vars, taskVars, WaitAndNotify, Return
<1>7. DOMAIN on_start \subseteq DOMAIN on_start' /\ DOMAIN on_finish \subseteq DOMAIN on_finish'
  BY <1>2, <1>5, <1>6 DEF TypeOK
<1>8. DOMAIN Items(ph) \subseteq DOMAIN Items(ph)'
  BY <1>7 DEF Items
<1> QED
  BY <1>1, <1>2, <1>4, <1>8, OnceSame

\* Every step keeps RunOnce.
LEMMA OnceStep == IInv /\ (\A ph \in Phase : RunOnce(ph)) /\ [Next]_vars => (\A ph \in Phase : RunOnce(ph))'
<1> SUFFICES ASSUME IInv, \A p \in Phase : RunOnce(p), [Next]_vars, NEW ph \in Phase
             PROVE  RunOnce(ph)'
  OBVIOUS
<1>1. CASE MainThread \/ QuitLoop \/ UNCHANGED vars
  BY <1>1, OnceRest DEF MainThread
<1>2. CASE LoopThread
  BY <1>2, OnceSequence, OncePost, OnceAsync, OnceRest DEF LoopThread
<1> QED
  BY <1>1, <1>2 DEF Next

----------------------------------------------------------------------------
(* The theorems.                                                           *)

\* The inductive invariant holds throughout.
THEOREM Invariance == Spec => []IInv
BY InitInv, NextInv, PTL DEF Spec

\* Every variable of Application keeps its type.
THEOREM TypeCorrect == Spec => []TypeOK
<1>1. IInv => TypeOK
  BY DEF IInv
<1> QED
  BY <1>1, Invariance, PTL

\* OnStart is called only after every prepare task came back with true,
\* whatever the order of the tasks and the wake-ups of Run.
THEOREM StartIsPrepared == Spec => []OnStartAfterAllPrepared
<1>1. IInv => OnStartAfterAllPrepared
  BY DEF IInv
<1> QED
  BY <1>1, Invariance, PTL

\* No asynchronous task is left when the frame it writes to goes away.
THEOREM FramesAreSafe == Spec => []FrameOutlivesTasks
<1>1. IInv => FrameOutlivesTasks
  BY DEF IInv, FrameOutlivesTasks, Tally
<1> QED
  BY <1>1, Invariance, PTL

\* A Run that was notified, and not woken spuriously, finds its phase complete.
THEOREM NotifiedIsComplete == Spec => []WokenAfterAllReturned
<1>1. IInv => WokenAfterAllReturned
  <2> SUFFICES ASSUME IInv, spurious = 0, run = "woken" PROVE AllReturned(phase)
    BY DEF WokenAfterAllReturned
  <2>1. phase \in Phase /\ TypeOK /\ Tally(phase) /\ co[phase].pc \in {"notified", "ended"}
    BY DEF IInv, TypeOK, Progress
  <2> QED
    BY <2>1, NotifiedReturned
<1> QED
  BY <1>1, Invariance, PTL
\* A registered task, sequence or asynchronous, is run once at most in its phase,
\* whatever the order in which the tasks come back: it has one result, it is
\* never posted again, and failed_tasks_ notes only failures that happened
\* (application.cc:94-124, :140-169).
THEOREM TasksRunOnce == Spec => [](\A ph \in Phase : RunOnce(ph))
<1>1. Init => \A ph \in Phase : RunOnce(ph)
  BY DEF Init, RunOnce, Phase
<1> QED
  BY <1>1, OnceStep, Invariance, PTL DEF Spec

\* app_context.h:20 is kept by every execution in which Run reads success after
\* the coroutine assigned it (application.cc:48, :58): then Run does not return
\* without OnStart when all prepare tasks came back with true.  The early read
\* is the only way to break the promise.
THEOREM LateReadKeepsPromise ==
  Spec /\ [][LeaveBoot => co["boot"].pc = "ended"]_vars => []PreparedMeansStarted
<1>1. Init => Answered
  BY DEF Init, Answered, Phase
<1>2. IInv /\ Answered /\ [Next]_vars /\ [LeaveBoot => co["boot"].pc = "ended"]_vars => Answered'
  <2> SUFFICES ASSUME IInv, Answered, [Next]_vars, [LeaveBoot => co["boot"].pc = "ended"]_vars
               PROVE  Answered'
    OBVIOUS
  <2>1. TypeOK /\ Tally("boot") /\ Tally("clean") /\ Progress /\ "boot" \in Phase /\ "clean" \in Phase
    BY DEF IInv, Phase
  <2>2. CASE Prepare \/ Cleanup \/ BeginWait \/ TimeOut \/ SpuriousWakeUp \/ LeaveClean \/ QuitLoop
    BY <2>1, <2>2 DEF Answered, Prepare, Cleanup, BeginWait, TimeOut, SpuriousWakeUp, LeaveClean, QuitLoop,
                      mainVars, loopVars, Progress
  <2>3. CASE LeaveBoot
    <3>1. UNCHANGED <<phase, co, failed_tasks, success>> /\ phase = "boot" /\ started' = success
      BY <2>3 DEF LeaveBoot, loopVars
    <3>2. co["boot"].pc = "ended"
      <4>1. run' # run
        BY <2>3 DEF LeaveBoot
      <4> QED
        BY <2>3, <4>1 DEF vars, mainVars
    <3>3. run' = "serving" => started'
      BY <2>3 DEF LeaveBoot
    <3> QED
      BY <3>1, <3>2, <3>3 DEF Answered
  <2>4. CASE Start
    <3>1. run' = "hold" /\ phase' = "boot" /\ co'["boot"].pc = "running"
      BY <2>1, <2>4 DEF Start, PostCoroutine, TypeOK
    <3> QED
      BY <3>1 DEF Answered
  <2>5. CASE WaitLoopEnd
    <3>1. run = "serving" /\ phase' = "clean" /\ run' = "hold" /\ UNCHANGED started
      BY <2>5 DEF WaitLoopEnd, PostCoroutine
    <3> QED
      BY <3>1 DEF Answered
  <2>6. ASSUME NEW p \in Phase, RunSequenceTask(p) \/ PostAsyncTask(p) \/ RunAsyncTask(p)
        PROVE  Answered'
    <3>1. UNCHANGED <<run, phase, started, success>>
      BY <2>6 DEF RunSequenceTask, PostAsyncTask, RunAsyncTask, mainVars
    <3>2. co'["boot"].pc = co["boot"].pc
      <4>1. CASE RunSequenceTask(p)
        BY <2>1, <4>1 DEF TypeOK, RunSequenceTask
      <4>2. CASE PostAsyncTask(p)
        BY <2>1, <4>2 DEF TypeOK, PostAsyncTask
      <4>3. CASE RunAsyncTask(p)
        BY <2>1, <4>3 DEF TypeOK, RunAsyncTask
      <4> QED
        BY <2>6, <4>1, <4>2, <4>3
    <3>3. p = "boot" => co["boot"].pc # "ended" \/ UNCHANGED failed_tasks
      BY <2>1, <2>6 DEF RunSequenceTask, PostAsyncTask, RunAsyncTask, Tally
    <3>4. p # "boot" => failed_tasks'["boot"] = failed_tasks["boot"]
      BY <2>1, <2>6 DEF RunSequenceTask, PostAsyncTask, RunAsyncTask, Returns, TypeOK
    <3>5. co["boot"].pc = "ended" => failed_tasks'["boot"] = failed_tasks["boot"]
      BY <3>3, <3>4
    <3> QED
      BY <3>1, <3>2, <3>5 DEF Answered
  <2>7. ASSUME NEW p \in Phase, WaitAndNotify(p) PROVE Answered'
    <3>1. /\ UNCHANGED <<phase, started, failed_tasks, success>>
          /\ run' = IF run = "wait" THEN "woken" ELSE run
          /\ co[p].pc = "running" /\ co' = [co EXCEPT ![p].pc = "notified"]
      BY <2>7 DEF WaitAndNotify
    <3>2. co'["boot"].pc = "ended" <=> co["boot"].pc = "ended"
      BY <2>1, <3>1 DEF TypeOK
    <3> QED
      BY <3>1, <3>2 DEF Answered
  <2>8. ASSUME NEW p \in Phase, Return(p) PROVE Answered'
    <3>1. /\ UNCHANGED <<run, phase, started, failed_tasks>>
          /\ co[p].pc = "notified" /\ co' = [co EXCEPT ![p].pc = "ended"]
          /\ success' = IF p = "boot" THEN failed_tasks[p] = {} ELSE success
      BY <2>8 DEF Return, mainVars
    <3>2. CASE p = "boot"
      <4>1. co["boot"].pc # "ended" /\ (success' <=> failed_tasks["boot"] = {})
        BY <3>1, <3>2
      <4>2. ~(phase = "boot" /\ run = "returned")
        BY <4>1 DEF Answered
      <4> QED
        BY <3>1, <4>1, <4>2 DEF Answered
    <3>3. CASE p # "boot"
      <4>1. co'["boot"].pc = co["boot"].pc /\ (success' <=> success)
        BY <2>1, <3>1, <3>3 DEF TypeOK
      <4>2. UNCHANGED <<run, phase, started, failed_tasks>>
        BY <3>1
      <4> QED
        BY <4>1, <4>2 DEF Answered
    <3> QED
      BY <3>2, <3>3
  <2>9. CASE UNCHANGED vars
    BY <2>9 DEF Answered, vars, mainVars, loopVars
  <2> QED
    BY <2>2, <2>3, <2>4, <2>5, <2>6, <2>7, <2>8, <2>9 DEF Next, MainThread, LoopThread
<1>3. IInv /\ Answered /\ (\A ph \in Phase : RunOnce(ph)) => PreparedMeansStarted
  <2> SUFFICES ASSUME TypeOK, Answered, RunOnce("boot"), AllPrepared, run = "returned"
               PROVE  started
    BY DEF PreparedMeansStarted, IInv, Phase
  <2>1. CASE phase = "clean"
    BY <2>1 DEF Answered
  <2>2. CASE phase = "boot"
    <3>1. ASSUME NEW i \in failed_tasks["boot"] PROVE FALSE
      <4>1. i \in Nat /\ <<i, FALSE>> \in results["boot"]
        BY <3>1 DEF TypeOK, RunOnce, Phase
      <4>2. <<i, ~FALSE>> \notin results["boot"] /\ i \in DOMAIN on_start
        BY <4>1 DEF RunOnce, Items
      <4>3. <<i, TRUE>> \in results["boot"]
        BY <4>2 DEF AllPrepared
      <4> QED
        BY <4>2, <4>3
    <3>2. failed_tasks["boot"] = {}
      BY <3>1
    <3> QED
      BY <2>2, <3>2 DEF Answered
  <2> QED
    BY <2>1, <2>2 DEF TypeOK, Phase
<1> QED
  BY <1>1, <1>2, <1>3, Invariance, TasksRunOnce, PTL DEF Spec
=============================================================================
