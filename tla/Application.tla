---------------------------- MODULE Application ----------------------------
(***************************************************************************)
(* content/shell: lt::Application runs the prepare tasks on its message    *)
(* loop, serves until the loop ends, and then runs the cleanup tasks.      *)
(*                                                                         *)
(* Two threads take part.  The caller of Run posts a coroutine to the loop *)
(* and waits for it on cv_, by time-outs and without a predicate.  The     *)
(* loop thread runs that coroutine and the asynchronous tasks it posts.    *)
(***************************************************************************)
EXTENDS Integers, Sequences, FiniteSets

CONSTANTS
  MaxTasks,       \* bound on the tasks registered per phase
  MaxSpurious,    \* bound on the spurious wake-ups of cv_
  RunsAfterEnd    \* does the loop still run what is posted after its end?

ASSUME MaxTasksAssumption == MaxTasks \in Nat
ASSUME MaxSpuriousAssumption == MaxSpurious \in Nat
ASSUME RunsAfterEndAssumption == RunsAfterEnd \in BOOLEAN

Phase == {"boot", "clean"}
ExcRunType == {"kSequenceType", "kAsyncRunType", "kAsyncCoroType"}

VARIABLES
  on_start, on_finish,   \* the registered tasks, by their exc_type
  run,                   \* where the thread that calls Run is
  phase,                 \* whose coroutine it waits for
  success,               \* the local of Run that the boot coroutine assigns
  loop,                  \* the message loop main_
  co,                    \* per phase: the coroutine, its next item, its WaitGroup
  jobs,                  \* per phase: posted asynchronous tasks that have not run
  failed_tasks,          \* per phase: the local of RunBootupTask / RunCleanupTask
  spurious,              \* spurious wake-ups so far
  \* history: what each task returned; whether OnStart was called
  results, started

taskVars == <<on_start, on_finish>>
mainVars == <<run, phase, spurious, started>>
loopVars == <<co, jobs, failed_tasks, results>>
vars == <<taskVars, mainVars, loopVars, success, loop>>

Items(ph) == IF ph = "boot" THEN on_start ELSE on_finish

\* Every task of a phase came back; every prepare task came back with true.
AllReturned(ph) == \A i \in DOMAIN Items(ph) : \E b \in BOOLEAN : <<i, b>> \in results[ph]
AllPrepared == \A i \in DOMAIN on_start : <<i, TRUE>> \in results["boot"]

----------------------------------------------------------------------------
(* The caller of Run.                                                      *)

Init ==
  /\ on_start = <<>> /\ on_finish = <<>>
  /\ run = "setup" /\ phase = "boot" /\ spurious = 0 /\ started = FALSE
  /\ success = FALSE
  /\ loop = "new"
  /\ co = [ph \in Phase |-> [pc |-> "none", next |-> 1, wg |-> 0]]
  /\ jobs = [ph \in Phase |-> {}]
  /\ failed_tasks = [ph \in Phase |-> {}]
  /\ results = [ph \in Phase |-> {}]

Prepare ==
  /\ run = "setup" /\ Len(on_start) < MaxTasks
  /\ \E t \in ExcRunType : on_start' = Append(on_start, t)
  /\ UNCHANGED <<on_finish, mainVars, loopVars, success, loop>>

Cleanup ==
  /\ run = "setup" /\ Len(on_finish) < MaxTasks
  /\ \E t \in ExcRunType : on_finish' = Append(on_finish, t)
  /\ UNCHANGED <<on_start, mainVars, loopVars, success, loop>>

\* CO_GO &main_: the coroutine of ph is posted, and Run goes on to wait.
PostCoroutine(ph) ==
  /\ co' = [co EXCEPT ![ph].pc = "running"]
  /\ run' = "hold" /\ phase' = ph
  /\ success' = FALSE

Start ==
  /\ run = "setup"
  /\ loop' = "running"
  /\ PostCoroutine("boot")
  /\ UNCHANGED <<taskVars, spurious, started, jobs, failed_tasks, results>>

\* wait_for: between two rounds the thread prints a dot and no notification
\* reaches it.
BeginWait ==
  /\ run = "hold"
  /\ run' = "wait"
  /\ UNCHANGED <<taskVars, phase, spurious, started, loopVars, success, loop>>

TimeOut ==
  /\ run = "wait"
  /\ run' = "hold"
  /\ UNCHANGED <<taskVars, phase, spurious, started, loopVars, success, loop>>

\* The condition variable may wake its waiter without a notification.
SpuriousWakeUp ==
  /\ run = "wait" /\ spurious < MaxSpurious
  /\ run' = "woken" /\ spurious' = spurious + 1
  /\ UNCHANGED <<taskVars, phase, started, loopVars, success, loop>>

LeaveBoot ==
  /\ run = "woken" /\ phase = "boot"
  /\ started' = success
  /\ run' = IF success THEN "serving" ELSE "returned"
  /\ UNCHANGED <<taskVars, phase, spurious, loopVars, success, loop>>

\* The loop is ended by the application's own code, while it is serving.
QuitLoop ==
  /\ run = "serving" /\ loop = "running"
  /\ loop' = "ended"
  /\ UNCHANGED <<taskVars, mainVars, loopVars, success>>

WaitLoopEnd ==
  /\ run = "serving" /\ loop = "ended"
  /\ PostCoroutine("clean")
  /\ UNCHANGED <<taskVars, spurious, started, jobs, failed_tasks, results, loop>>

LeaveClean ==
  /\ run = "woken" /\ phase = "clean"
  /\ run' = "returned"
  /\ UNCHANGED <<taskVars, phase, spurious, started, loopVars, success, loop>>

----------------------------------------------------------------------------
(* The loop thread: RunBootupTask and RunCleanupTask, which differ only in *)
(* the list they walk and in what becomes of their result.                 *)

LoopRuns == loop = "running" \/ (loop = "ended" /\ RunsAfterEnd)

\* Task i returned ok.
Returns(ph, i, ok) ==
  /\ results' = [results EXCEPT ![ph] = @ \cup {<<i, ok>>}]
  /\ failed_tasks' = [failed_tasks EXCEPT ![ph] = IF ok THEN @ ELSE @ \cup {i}]

RunSequenceTask(ph) ==
  LET i == co[ph].next IN
  /\ LoopRuns /\ co[ph].pc = "running"
  /\ i \in DOMAIN Items(ph) /\ Items(ph)[i] = "kSequenceType"
  /\ \E ok \in BOOLEAN : Returns(ph, i, ok)
  /\ co' = [co EXCEPT ![ph].next = i + 1]
  /\ UNCHANGED <<taskVars, mainVars, jobs, success, loop>>

\* Mutant: wg->Add(1) is forgotten.
PostWithoutAdd(ph) ==
  LET i == co[ph].next IN
  /\ LoopRuns /\ co[ph].pc = "running"
  /\ i \in DOMAIN Items(ph) /\ Items(ph)[i] # "kSequenceType"
  /\ co' = [co EXCEPT ![ph].next = i + 1]
  /\ jobs' = [jobs EXCEPT ![ph] = @ \cup {i}]
  /\ UNCHANGED <<taskVars, mainVars, failed_tasks, results, success, loop>>

PostAsyncTask(ph) ==
  LET i == co[ph].next IN
  /\ LoopRuns /\ co[ph].pc = "running"
  /\ i \in DOMAIN Items(ph) /\ Items(ph)[i] # "kSequenceType"
  /\ co' = [co EXCEPT ![ph].next = i + 1, ![ph].wg = @ + 1]
  /\ jobs' = [jobs EXCEPT ![ph] = @ \cup {i}]
  /\ UNCHANGED <<taskVars, mainVars, failed_tasks, results, success, loop>>

\* Mutant: a failed task leaves before wg->Done().
DoneOnlyIfOk(ph) ==
  /\ LoopRuns
  /\ \E i \in jobs[ph], ok \in BOOLEAN :
       /\ Returns(ph, i, ok)
       /\ jobs' = [jobs EXCEPT ![ph] = @ \ {i}]
       /\ co' = [co EXCEPT ![ph].wg = IF ok THEN @ - 1 ELSE @]
  /\ UNCHANGED <<taskVars, mainVars, success, loop>>

\* async_run_fn, as a closure or as a coroutine of its own.  Coroutines may
\* yield inside their task, so they end in any order.
RunAsyncTask(ph) ==
  /\ LoopRuns
  /\ \E i \in jobs[ph], ok \in BOOLEAN :
       /\ Returns(ph, i, ok)
       /\ jobs' = [jobs EXCEPT ![ph] = @ \ {i}]
       /\ co' = [co EXCEPT ![ph].wg = @ - 1]
  /\ UNCHANGED <<taskVars, mainVars, success, loop>>

\* Mutant: the coroutine does not wait for the asynchronous tasks.
NotifyWithoutWait(ph) ==
  /\ LoopRuns /\ co[ph].pc = "running"
  /\ co[ph].next > Len(Items(ph))
  /\ co' = [co EXCEPT ![ph].pc = "notified"]
  /\ run' = IF run = "wait" THEN "woken" ELSE run
  /\ UNCHANGED <<taskVars, phase, spurious, started, jobs, failed_tasks, results,
                 success, loop>>

\* wg->Wait(); cv_.notify_all(), which only a thread in wait_for notices.
WaitAndNotify(ph) ==
  /\ LoopRuns /\ co[ph].pc = "running"
  /\ co[ph].next > Len(Items(ph)) /\ co[ph].wg = 0
  /\ co' = [co EXCEPT ![ph].pc = "notified"]
  /\ run' = IF run = "wait" THEN "woken" ELSE run
  /\ UNCHANGED <<taskVars, phase, spurious, started, jobs, failed_tasks, results,
                 success, loop>>

\* The coroutine returns; only the one of the boot phase keeps the result.
Return(ph) ==
  /\ LoopRuns /\ co[ph].pc = "notified"
  /\ co' = [co EXCEPT ![ph].pc = "ended"]
  /\ success' = IF ph = "boot" THEN failed_tasks[ph] = {} ELSE success
  /\ UNCHANGED <<taskVars, mainVars, jobs, failed_tasks, results, loop>>

----------------------------------------------------------------------------
MainThread ==
  \/ Prepare \/ Cleanup \/ Start
  \/ BeginWait \/ TimeOut \/ SpuriousWakeUp
  \/ LeaveBoot \/ WaitLoopEnd \/ LeaveClean

LoopThread ==
  \E ph \in Phase :
    \/ RunSequenceTask(ph) \/ PostAsyncTask(ph) \/ RunAsyncTask(ph)
    \/ WaitAndNotify(ph) \/ Return(ph)

Next == MainThread \/ LoopThread \/ QuitLoop

Spec == Init /\ [][Next]_vars

\* Both threads go on, and every task comes back; nobody has to call Run or to
\* end the loop.
Fairness ==
  /\ WF_vars(LoopThread)
  /\ WF_vars(BeginWait) /\ WF_vars(TimeOut)
  /\ WF_vars(LeaveBoot \/ WaitLoopEnd \/ LeaveClean)

FairSpec == Spec /\ Fairness

----------------------------------------------------------------------------
(* Properties                                                              *)

\* Type invariant of the state of Run and of the two coroutines.
TypeOK ==
  /\ on_start \in Seq(ExcRunType) /\ on_finish \in Seq(ExcRunType)
  /\ run \in {"setup", "hold", "wait", "woken", "serving", "returned"}
  /\ phase \in Phase
  /\ success \in BOOLEAN /\ started \in BOOLEAN
  /\ loop \in {"new", "running", "ended"}
  /\ co \in [Phase -> [pc : {"none", "running", "notified", "ended"},
                       next : Nat \ {0}, wg : Nat]]
  /\ jobs \in [Phase -> SUBSET Nat]
  /\ failed_tasks \in [Phase -> SUBSET Nat]
  /\ results \in [Phase -> SUBSET (Nat \X BOOLEAN)]
  /\ spurious \in Nat

\* OnStart (application.cc:65) is called only when every prepare task, of any
\* kind, has come back with true: also if Run woke up early or spuriously.
OnStartAfterAllPrepared == started => AllPrepared

\* The asynchronous tasks write to failed_tasks_ of the coroutine's frame
\* (application.cc:155): none is left when the frame goes away.
FrameOutlivesTasks ==
  \A ph \in Phase : co[ph].pc \in {"notified", "ended"} => jobs[ph] = {}

\* Without spurious wake-ups, Run leaves a wait only after every task of the
\* phase it waits for came back; the other phase shares cv_ and cannot end it.
WokenAfterAllReturned ==
  spurious = 0 /\ run = "woken" => AllReturned(phase)

\* The boot phase runs to its end however its tasks come out
\* (application.cc:134), unless Run was woken spuriously and returned before it,
\* which ends the program.  The clean phase is left out: its coroutine is posted
\* to a loop that has ended (application.cc:67-73), and nothing here says that
\* such a loop runs it.
BootCompletes == co["boot"].pc = "running" ~> co["boot"].pc = "ended" \/ run = "returned"

\* What app_context.h:20 says of OnStart, "when all prepare task finish
\* successed": Run does not return without it if all of them did.
PreparedMeansStarted == AllPrepared /\ run = "returned" => started

\* The same comment as a promise: once all prepare tasks finished, Run leaves
\* its wait (application.cc:53) and goes on to OnStart.
PreparedLeavesWait ==
  co["boot"].pc = "ended" ~> (phase = "clean" \/ run \notin {"hold", "wait"})
=============================================================================
