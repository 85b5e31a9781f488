# Verification of ltapp

ltapp is a small C++ framework on top of the message loop and the coroutines of
ltio: an asynchronous MySQL client (`integration/async_mysql`), an etcd v3
client (`content/etcdv3`) and an application shell (`content/shell`).  This
directory holds TLA+ models of it, the TLC configurations that check them and
the TLAPS proofs.

    tlc -config MCMysqlAsyncConnect_safety.cfg MCMysqlAsyncConnect
    tlapm MysqlAsyncConnectProofs.tla

`PROJECT.json` lists the runs, the source lines behind every definition, the
hazards of the code and the theorems.

## Inventory

| Component | State | Operations | What is hard about it | What makes it correct |
|---|---|---|---|---|
| `MysqlAsyncConnect` | `current_state_`, `ready_`, `schedule_close_`, `in_process_query_`, `query_list_`, `last_selected_db_`, the MariaDB handle, socket event and timer | `Connect`, `SyncConnect`, `StartQuery`, `Close`, `SyncClose`, `HandleState` (17 states), event and timer handlers, 60 s check, destructor | non-blocking calls suspended and resumed by events or time-outs; a close while busy; the owner thread and the loop thread; raw pointers in posted closures | every session is answered once, in order and truthfully; library calls pair up; nothing refers to a dead object |
| `QuerySession` | database, statement, code, rows | `UseDB`, `Query`, `Then`, `SetCode`, `OnQueryDone` | written by the connection until its callback runs | final when the callback runs |
| `MysqlAsyncClientImpl` | connections, `use_index_` | `InitWithOption`, `PendingQuery`, `Close` | picks a connection from any thread; `use_index_` is not initialised | a session is answered once or refused; a ready connection is found |
| `CallContext` | `success_`, `done_`, `mu_`, `resumer_`, `cancel_` | `LockContext`, `ResumeContext`, `Cancel`, `Reset` | hands a result from a gRPC thread to a coroutine that is free to destroy it | no resumption lost, none doubled |
| `EtcdClientV3` | the stubs | `Put`, `Range`, `LeaseGrant`, `TimeToAlive`, `LeaseKeepalive` | each call's context is on the caller's stack | a call returns its own outcome; a prefix selects the keys that have it |
| `KeepAliveContext` | one bidirectional stream, one `CallContext` | `Start`, `Wait`, `Cancel`, reactor callbacks, delayed writes | callbacks, loop and waiter on three threads; several resumptions of one context | driven by one thing at a time; the waiter comes back; `Cancel` ends the stream |
| `WatchContext`, `EtcdWatcher` | one stream, a read and a write context, `watch_id_` | `Start`, `watch_change_loop`, `StopWatch`, callbacks | events delivered by coroutines of their own; stop races with reads | `Start` reads its own answer; every change handled once; a stopped loop ends; no operation outlives the context |
| `Application` (shell) | task lists, loop, mutex and condition variable | `Prepare`, `Cleanup`, `Run`, `RunBootupTask`, `RunCleanupTask` | two threads, a condition variable without a predicate, locals captured by reference | OnStart exactly when all prepare tasks succeeded; the boot ends whatever its tasks return |
| `examples/async_mysql/mysql_async_offcial.cc` | a list of queries, `num_active_connections`, a `state_data` per connection | `add_query`, `main`, `state_machine_handler` (12 states) | several connections share the list and the counter that ends the loop | every query run once, in order; the loop ends when all is done |
| `examples/lt_app`, `fw_app`, `main.cc` | - | - | register tasks with `Application`; a sampling toy | - |
| legacy `content/application.*`, `config`, `registry` | - | - | not in the build, or stubs | - |

`PendingQuery` posts `StartQuery` to a connection's loop, the loop calls the
connection back for tasks, socket events and timers, and the connection calls
the session's callback.  The etcd calls start an RPC from a coroutine and yield;
gRPC completes it on a thread of its own, which posts the coroutine's
resumption to its loop.  `Run` posts a coroutine to its loop and waits for it.

## Plan

Modelled and checked: `QueryContract` and `MysqlAsyncConnect`; `Application`;
`CallContext` with the three modules that extend it (`EtcdClientV3`, which also
extends `PrefixRange`, `KeepAliveContext` and `WatchContext`);
`MysqlClientPool` over connections that behave as `QueryContract` says; and
`AsyncQueries`.  Proved: what the section on proofs lists.

Every invariant and action property that a passing run checks is a theorem, and
so is the refinement.  For two of the four violation runs a theorem names the
condition under which the refuted claim holds.  For four of the eight liveness
properties the half that is a safety property is a theorem as well.

Left, all of it proofs:

1. the pool over the connections it abstracts: that a connection of
   `MysqlClientPool` takes steps that `QueryContract` allows.  The pool keeps no
   history of a connection, so this needs history variables;
2. the safety half of `EveryQueryAnswered` and `BusyCloseCompletes`: what is
   still going to move a connection that waits;
3. shorter proofs of the connection, whose layers repeat one case per action.

## MysqlAsyncConnect

`HandleState` is a loop around a switch.  Each case is an action (`ConnectStart`
... `FetchRowEnd`); `on_stack` says that the loop is running, and while it is no
other entry point of the message loop runs, but the owner thread does.
`go_next_state` either goes on in the next state or arms the event and the timer
and returns.  The entry points between two runs are `RunHandleState`,
`RunStartQuery`, `RunSyncClose`, `RunClean` (posted closures, a FIFO `tasks`),
`OnWaitEventInvoked`, `OnTimeOut`, `do_connection_check` and `Close`.  The owner
thread does `Connect` or `SyncConnect`, `PendingQuery`, `PoolClose` and
`Release`.  `started` and `finished` are history variables: sessions that
reached `StartQuery`, and sessions whose callback ran.

What is outside the repository is modelled from how it is used:

* A MariaDB `*_start` or `*_cont` call suspends with a wait status, succeeds, or
  fails with an error that is or is not one of the four fatal ones; resumed by
  the timer it fails, because `InitConnection` sets the library's time-outs.  A
  failed `select_db` leaves the database as it was.
* The pump may report any set of `PumpEvents` while the event is installed,
  whatever directions are armed.
* The owner connects once.  `SyncConnect` failing ends the program.  It hands
  over no session after `Close`, and calls `Close` before it drops the pool, as
  `examples/async_mysql/asyncmysql_test.cc:71` does.  `BareRelease` lifts the
  last condition for the run of the contract, but only while the loop has
  nothing of the connection to run: the guards `~on_stack` and `tasks = <<>>` of
  `ReleaseUnclosed` are the model's.  `~MysqlAsyncClientImpl`
  (`mysql_client_impl.cc:10`) tests nothing, and a closure that is pending then
  refers to a dead object.
* The uninitialised member `err_no_` holds a value of `ErrNo`.

`QueryContract` is what a user of a session relies on: sessions are accepted in
some order, and answered from the front, each once, with one code that does not
change; a close answers all that are pending in order.

| Run | Shows |
|---|---|
| `con_safety` | the CHECKs of the state machine, order and finality of the answers, pairing of library calls, arming of waits, database cache, readiness and lifetime, with `err_no_` = 0 |
| `con_contract` | the connection implements `QueryContract`, also with a garbage `err_no_`, and without `Close` if the loop has no closure of the connection left; every session that reaches an open connection is answered; a close asked for while busy completes, unless the connection is destroyed first |
| `con_errno` | **violation**: with `err_no_` # 0, `QUERY_WAIT` answers a session with code 0 while its query is suspended (`mysql_async_con.cc:292` tests the member, the call wrote the local) |

Bounds: two sessions (one in process and one behind it, or one queued behind a
close), two databases (a switch and a switch back; the connection's default is
one of them), results of at most one row (none, one, an error after one), two
wait statuses (with and without a timer) in `con_safety`, where sessions are
symmetric.  `con_contract` checks a refinement and liveness: it uses no
symmetry, one database, one wait status and no rows.  Every action of the module
fires in these runs.

Fairness (`Fairness` in the module): `HandleState` runs on; the loop runs every
task, which needs strong fairness because tasks are enabled only between two
runs of `HandleState`; a timer that stays attached fires; and a call that is
resumed for ever completes, since replies are finite.  No socket event is ever
promised: `con_contract` rests on the timer, and therefore takes waits that
carry one.  A close could be put off for ever by sessions that keep arriving;
with finitely many sessions that does not show.

What one may be surprised by: `Close` tests for `QUERY_START`, a state in which
the connection never rests, so an idle connection told to close stays open until
its next session or event, and `BusyCloseCompletes` is about a busy one only.

## Application

`run` is where the caller of `Run` is: before a wait (`hold`), inside `wait_for`
(`wait`), out of it (`woken`), serving or returned.  `co` holds the two
coroutines; `RunBootupTask` and `RunCleanupTask` are the same code and share
their actions.  Asynchronous tasks end in any order, because coroutines may
yield inside their task.  A notification reaches `Run` only inside `wait_for`.

| Run | Shows |
|---|---|
| `app_safety` | OnStart only after all prepare tasks returned true; no task outlives the frame it writes to; a notified `Run` finds its phase complete; the boot phase runs to its end whatever its tasks return, unless `Run` gave it up first |
| `app_early_exit` | **violation**: the notification (`application.cc:175`) precedes the assignment of `success` (`:48`), so `Run` may report a failure and return although all tasks succeeded; the coroutine then assigns to a local of a function that has returned |
| `app_lost_notify` | **violation**: a notification sent outside `wait_for` is lost and `Run` polls for ever |

Bounds: every list of up to two prepare and two cleanup tasks of all three kinds
(the proofs lift this bound), one spurious wake-up.  Fairness: both threads go
on and every task returns; nobody has to call `Run` or end the loop.

The application ends its loop while it serves.  The cleanup coroutine is posted
to the loop after that end.  Whether the loop then still runs it is the
library's business, so it is a constant (`RunsAfterEnd`).  The runs take TRUE,
which has all behaviours of FALSE and lets the invariants reach the cleanup;
with FALSE no cleanup task ever runs and `Run` does not return from its second
wait.  `BootCompletes`, the one liveness property of `app_safety`, is therefore
about the boot alone.  It ends when `Run` returns: `Run` may give up early
(`app_early_exit`), and its caller then ends the program with the loop.

## CallContext

A context hands the outcome of an operation from a gRPC thread to a coroutine.
The module has the steps of both and no specification of its own: the three etcd
modules extend it.  `LockContext` sets the resumer in a critical section;
`ResumeContext` is one step per access (`success_`, `done_`, the lock, the
resumer, the unlock), so that a coroutine may run between any two.  A
resumption is posted to the coroutine's loop and takes effect once the
coroutine has yielded, which is what the comment in `keepalive_ctx.cc:45`
relies on.

`done_` is stored before the lock is taken.  A `LockContext` in between returns
true although the resumer it has just set is still going to be called, against
the comment "return true when resume has been called" (`call_context.h:47`).
Only `Wait` of `KeepAliveContext` looks at the result, and in the model the late
resumption stays in `posted` after `Wait` has returned.

## EtcdClientV3

One coroutine makes unary calls in a row, each with a context of its own.
`Begin` builds the request, `LockFirst`, `StartCall`, `Yield` and `Return` are
the steps of the coroutine; `Complete`, `Callback` and `ResumeContext` are those
of the gRPC thread.  `PrefixRange` computes the end of a range with the
arithmetic of a signed `char`, and says what etcd selects between a key and an
end; `EtcdWatcher::Watch` computes the end in the same way.

| Run | Shows |
|---|---|
| `etcd_calls` | a coroutine is resumed once and by its own call; `Put` tells its outcome and a failed `Range` or `LeaseGrant` returns no data; when the coroutine destroys a context its gRPC thread has nothing left to do with it but to unlock `mu_`; `Range` with a prefix asks for the keys that have it; a completed call returns |

That last unlock may touch a dead stack frame: `ResumeContext` calls the resumer
before it unlocks.  A prefix that ends in 0xff misses keys, because the sum
wraps to 0 and is not carried; it never selects a foreign one.
`CompletedCallReturns` leaves out `TimeToAlive`, which never calls
`LockContext`: nothing resumes it, and it never returns (theorem
`TimeToAliveStays`).

Bounds: three calls, so that a late step of the first may meet the other two;
four byte values, of which two are negative as a `char`, and keys of up to two
of them, so that some extend others.  Fairness: the loop and the gRPC threads go
on; no reply is promised, since the calls have no deadline.

## KeepAliveContext

The owner starts the stream, may cancel it and may wait for its end.  The
stream goes round: a write, its answer, and a task that writes again after an
interval (`timer`).  gRPC runs the reactions of one stream one after the other
here, because each of them starts one operation; it knows nothing of the
delayed task.  `OnReadDone` is two steps, since `ResumeContext` runs in the
middle of it.

| Run | Shows |
|---|---|
| `keepalive` | the stream is driven by one thing at a time (the request and the response are shared by all), and while the RPC goes on never by none; it is left alone once half-closed; `Wait` returns only from a stream that failed or ended; a coroutine that yields in `Wait` is resumed once the RPC is over; `Cancel` ends the stream whenever it comes |

The state space is small and needs no bounds.  Fairness: the loop runs the
delayed task, gRPC completes what was started, and the server ends a stream the
client has half-closed.  `OneDriver` stops at `OnDone`: after a failed read
`OnReadDone` schedules one more write, and this write may come when gRPC is
through with the call (`late`).  Nothing in the code prevents that.

The owner of the model keeps its context.  `TestKeepAlive` drops it as soon as
`Wait` has returned (`test_client.cc:102-104`), and gRPC holds no reference: the
part of `OnReadDone` after `ResumeContext` (`keepalive_ctx.cc:64-71`) and
`OnDone`, which is still to come, may then run in an object that is gone.  This
is not modelled.

## WatchContext

The coroutine that starts the watch, the change loop, the coroutine that stops
it and one delivery coroutine per response run in any order.  A coroutine locks
a context, starts an operation and yields in one step, because a resumption
posted earlier takes effect only afterwards; the loop's test of `Canceled()` is
a step of its own.  A response carries one change or several, and its delivery
coroutine hands them over one by one.  The stream has two directions (`up`,
`down`) and may break at any time, losing what is on its way; changes of keys
are made through calls of their own and travel apart from it.  `OnDone` comes
when the RPC is over and nothing is outstanding.  A coroutine may start an
operation after it, which nothing completes: it is `lost`, with the reference it
holds.  `seen` and `handled` are history variables.

| Run | Shows |
|---|---|
| `watch` | the first response `Start` reads is the answer to its own request; every change that was read is handed to the handler once, from a copy of its response; when the last reference to the context goes, no operation is outstanding; the change loop of a stopped watch ends if it is in its read or before its test |

What the model also shows, and no property excludes:

* A change made after `StopWatch` returned may still be delivered.  `StopWatch`
  waits until its two requests are written, not until etcd has answered them,
  and a response that a read brings is handed over before the loop tests
  `Canceled()`.  `examples/etcdclient/test_client.cc:51` calls such a node
  "should_not_be_watched_change_node".  The loop starts no read after the test,
  but all the changes of the last response are delivered.
* A `StopWatch` called when gRPC is through with the call, because the
  connection broke, never returns (`watch_context.cc:89`), and the loop is lost
  in the same way when `OnDone` comes between its test and its read
  (`:71`, `:53`).  `StoppedLoopEnds` is therefore about a loop that is in its
  read or has yet to make the test.
* Deliveries come in any order.
* A watch with id 0 is accepted by `Start` and not canceled by `StopWatch`, so
  `StoppedLoopEnds` asks for a positive id (`Watch(key, ...)` requests id 1, a
  request of the caller's own may not).
* The loop is started before the id is tested, so that for a refused watch it
  waits for a response that need not come.

Bounds: three changes, so that one response may carry two and another follow it
(or one each come before, during and after the stop), the ids -1 (refused), 0
and 1.  Fairness: coroutines and gRPC's threads go on, and etcd
takes what was sent; nobody has to stop the watch or to change a key.

## MysqlClientPool

Threads call `PendingQuery`; `get_client` increments the shared `use_index_` and
reads it again (two steps, other threads come in between), takes the remainder
in `size_t` and looks at one connection.  A ready one gets a `StartQuery` task,
otherwise the session's callback is posted to the caller's own loop.  The
connections are abstract: they answer their oldest session, answer all when
they close, and change readiness at any time.  `use_index_` starts from any
value, since nothing initialises it.

| Run | Shows |
|---|---|
| `pool` | a session is with one thread, one task, one connection or answered, never in two places; it gets its callback, or its connection closed after it was found ready; from any `use_index_`, also across its wrap, 2 * Count - 1 calls reach every connection |
| `pool_refused` | **violation**: the loop of `get_client` ends after one round because `con` is never null (`mysql_client_impl.cc:54`), so a session is refused while another connection is ready |

Bounds: three connections, because the wrap of the index skips one only when
their number does not divide 2^w; two threads and two sessions; an `int` of
eight values (`IntHalf` = 4), so that it wraps, and a `size_t` that is four times
as large (`SizeWraps`).  Fairness: threads and
the loop go on, and an open connection answers, which is `EveryQueryAnswered` of
`MysqlAsyncConnect`.  The property names the one way to lose a callback:
`StartQuery` does not look whether the connection closed meanwhile, and leaves
the session in a list nobody looks at until the connection is released.

## AsyncQueries

The third-party sample from which `MysqlAsyncConnect` was derived, with its own
sharing: one list of queries and one counter of active connections.  `main` runs
state 0 of each connection itself and then dispatches events; a handler runs
until it waits or is done.  A query is its index in the list.  `event_dispatch`
forgets an `event_loopbreak` that came before it, as libevent 2 does on entering
its loop; `main` calls it once, after connections may already have finished.  At
least one connection is assumed: with `-n 0`, which the program accepts
(`mysql_async_offcial.cc:90-92`), nobody takes a query, and `event_dispatch` has
no event to wait for and returns.

| Run | Shows |
|---|---|
| `queries` | the connections take every query once and in order; `event_dispatch` returns only when all queries are done and all connections closed, also when some finish before others were started |

Bounds: three connections and up to four queries, results of up to one row.
`add_query` means to remove a trailing newline but tests the terminator
(`mysql_async_offcial.cc:321`), so lines of the query file keep it; texts are
not modelled.

## Proofs

Eight modules hold the proofs.  Each extends the module it is about, and has one
lemma per action under an invariant that is inductive.  The properties
themselves are not: they speak of a state someone can observe, and the invariant
has to say how far every actor is when that state is reached.

| Module | Theorem | Property | Rests on |
|---|---|---|---|
| `MysqlAsyncConnectProofs` | `TypeCorrect`, `InOrder`, `NoCheckFails`, `NothingLeftBehind` | `TypeOK`, `AnsweredInOrder`, `ChecksHold`, `NothingRefersToDestroyed` | `IInv` |
| | `OneOperation`, `WaitIsArmed`, `ReadyIsOpen`, `IdleHasNoBacklog`, `SessionsRunInTheirDB`, `AnswersStay` | `OperationMatchesState`, `ArmedIffWaiting`, `ReadyMeansOpen`, `NoIdleBacklog`, `RunsInItsDB`, `AnswersAreFinal` | `ConnInv` |
| | `CodeZeroIsComplete` | `CodeZeroMeansEOF`, with `ErrNo = {0}` as hypothesis | `ConnInv` |
| | `Refinement` | `ImplementsContract` | `ConnInv` |
| `MysqlClientPoolProofs` | `TypeCorrect`, `SessionHasOnePlace`, `RetriesReachAll` | `TypeOK`, `SessionInOnePlace`, `RetriesReachEveryConnection` | `PoolInv` |
| | `NoSessionIsLost` | an action property, the safety half of `SubmittedIsAnswered` | `PoolInv` |
| `EtcdClientV3Proofs` | `AsksForPrefix` | `PrefixIsExact` | `EndOfKey` |
| | `TypeCorrect`, `ResumedOnlyByOwnCall`, `OutcomeIsReturned`, `LateTouchOnlyUnlocks` | `TypeOK`, `ResumedByOwnCall`, `ReturnsOutcome`, `LateTouchIsUnlock` | `HandInv` |
| | `CallMissesNothing` | the safety half of `CompletedCallReturns` | `HandInv`, `Owed` |
| | `TimeToAliveStays` | `TimeToAlive` returns to nobody | `HandInv`, `Owed` |
| `KeepAliveContextProofs` | `DrivenByOne`, `HalfClosedIsQuiet`, `WaitHasCause` | `OneDriver`, `QuietAfterWritesDone`, `WaitReturnsForCause` | `StreamInv` |
| | `WaitMissesNothing` | the safety half of `WaitIsResumed` | `StreamInv`, `Waking` |
| `WatchContextProofs` | `NothingOutlivesContext`, `ChangesHandledOnce`, `FirstResponseIsCreated` | `NoOperationOutlivesContext`, `EveryChangeHandledOnce`, `FirstResponseCreates` | `WatchInv` |
| | `StoppedLoopDoesNotRead` | the loop of a stopped watch leaves at its test and starts no further read | `WatchInv` |
| | `WaitsAreOwed` | the safety half of `StoppedLoopEnds` | `HandInv` |
| `ApplicationProofs` | `TypeCorrect`, `StartIsPrepared`, `FramesAreSafe`, `NotifiedIsComplete` | `TypeOK`, `OnStartAfterAllPrepared`, `FrameOutlivesTasks`, `WokenAfterAllReturned` | `IInv` |
| | `TasksRunOnce` | a task has one result and is never posted again | `IInv`, `RunOnce` |
| | `LateReadKeepsPromise` | `PreparedMeansStarted`, if `success` is read after it was assigned | `IInv`, `RunOnce`, `Answered` |
| `AsyncQueriesProofs` | `QueriesInOrder`, `ExitAfterAllDone` | `TakenInOrder`, `ExitMeansAllDone` | `LoopInv` |

`CallContextProofs` has no theorem of its own: its lemmas say what `LockContext`,
`Cancel` and one step of `ResumeContext` do to a context, and the three etcd
modules cite them.

**The connection.**  `IInv == TypeOK /\ Control /\ Lifetime /\ AnsweredInOrder`.
`Control` ties the state to `in_process_query_`, the result and the timer (a
timer is attached only while the event is installed, without which `clean_up`
could not be shown to detach it).  `Lifetime` says which tasks may be queued in
each phase of the owner: a `StartQuery` behind a `SyncClose` would reach a dead
object, and the invariant excludes it because no session is handed over after
`Close`.  `ConnInv` adds layers, each inductive together with those before it:
`Waiting` (a wait state is armed, nothing is while `HandleState` runs, and the
closure that `Connect` posts is the only one of its kind), `Linked` (which states have an open handle, and behind what
sessions queue), `Selected` (the cached database is the selected one or is not
trusted), `Once` (no session is started twice, so that an answered one is never
in process again), and `Counted` (a session that was not answered yet has no
code, and the one in process has the rows that were fetched for it).  `ArmedIffWaiting` and
`RunsInItsDB` are about a connection that is not destroyed: a destructor run by
a bare release leaves the members as they are.  `CodeZeroIsComplete` has
`ErrNo = {0}` as its hypothesis, because without it the claim is false
(`con_errno`); all other theorems hold for any content of `err_no_`.

**The contract.**  The mapping is the identity on `started` and `finished`.
`RunStartQuery` is `Accept`, `DoneCurrentQuery` is `Finish`, `clean_up` and the
destructor are `Abort`, and every other step leaves both alone.  What makes the
steps match is `AnsweredInOrder` (the session in process and the list behind it
are what is pending) and `Once`.

**The pool.**  `PoolInv` says of each session that it is held by a thread, queued
as a task, waiting at a connection, refused to a caller's loop or told, in one
of these places only (`Apart`) and there once (`Single`).  What each action does
to the places also gives `NoSessionIsLost`: a session never leaves a place but
for the next one on its way to the callback.  `SessionInOnePlace`
counts places; the invariant does without numbers, and `AtMostOne` turns it into
the sum at the end.  Moving a session is a step on a family of queues
(`JoinQueue`, `LeaveQueue`, `EmptyQueue`, the same for connections and for
callers).  `ReachAll` is arithmetic.  A negative index is huge as a `size_t`, so
remainders of consecutive indices are consecutive except at two points, the wrap
of `int` and the step from -1 to 0.  If the first Count calls meet neither, they
reach all connections.  Otherwise the Count calls from the first such point on
do: the two points are `IntHalf` calls apart, and Count is an `int`
(`CountAssumption`), so these calls meet no other (`SmoothRun`).  The widths are parameters (`IntHalf`,
half the values of `int`; `SizeWraps`, how often `int` fits `size_t`).

**The etcd calls.**  `HandInv` follows one call from the request to the return:
what the gRPC thread of the current call has done (`CallInv`, `Current`), that a
posted resumption is the current call's own (`Hand`), and that nothing but an
unlock is left of the earlier ones.  `Owed` adds that the thread of a call which
was answered posts the resumption, and that nobody does for a call without a
resumer.  A coroutine that waits is therefore owed its resumption in every state
(`NoWakeUpLost`), also when the answer overtook its `CO_YIELD`; and
`TimeToAlive`, whose context has no resumer, never returns.  `AsksForPrefix` is about data: `NextByte`
says what adding one to a signed char and narrowing the sum gives as a byte (the
two ways of wrapping, at the largest char and at the last byte);
`EndDiffersInLast`, that the end differs from the key in the last byte alone;
`LessPointwise` and `PrefixPointwise` restate order and prefix position by
position; then `BetweenHasPrefix` shows that what lies between a key and its end
starts with the key, and `PrefixIsBetween` the converse.  It holds for any even
number of byte values and any length of keys.

**The streams.**  `StreamInv` of the lease names the one thing that drives the
stream in each phase (`Driven`) and what a half-closed stream has left
(`HalfClosed`).  `WatchInv` has four parts over the hand-over of its two
contexts (`HandInv`): `Writes`, which coroutine each write belongs to;
`FirstResponse`, that the request to create the watch and its answer go before
all others on a stream that may break, so that `Start` reads its own answer;
`Changes`, that the responses on their way and the deliveries carry disjoint sets
of changes, so that a change that was read is in one place; and `Stopping`, that
`read_ctx_` is canceled from the moment the cancel request was written.  Both
have a `NoWakeUpLost` too.  A coroutine of the watch that waits for a read or a
write has a resumption posted, or gRPC is not through with the call and the
operation is outstanding or a thread on the way to resume it; only after
`OnDone` is a coroutine lost.  A coroutine that yielded in `Wait`
of the lease has one of the last two once `done_` is set or gRPC is through with
the call: `Waking` says that the resumer is set before `done_` is read, and
`done_` before the resumer is called.  `WatchIdsAssumption` says that ids are integers, as they are in
the protocol.

**The application and the sample.**  The invariant of `Application` adds that the
WaitGroup equals the number of posted tasks (`Tally`), so that 0 means none is
left, and that the coroutine of the phase `Run` waits for is the only one that
can notify (`Progress`); lists of tasks have any length and spurious wake-ups
any number.  `RunOnce` says that a task that came back lies behind the coroutine
and is not posted, so it cannot come back again with another result; that is
what makes an empty `failed_tasks_` mean the same as `AllPrepared`.
`LateReadKeepsPromise` is about the executions in which `Run` leaves its first
wait only after the coroutine has ended.  The code does not ensure this
(`app_early_exit`); the theorem says that nothing else is missing.  `LoopInv` of `AsyncQueries` says that `num_active_connections` is
the number of connections that are not done, and that a connection gives up only
on an empty list.

The proofs assume what the modules' ASSUMEs state.  Two theorems have a
hypothesis of their own, each the negation of the cause of a violation run:
`ErrNo = {0}` (`CodeZeroIsComplete`) and a late `LeaveBoot`
(`LateReadKeepsPromise`).  Only model-checked are the liveness
properties (`EveryQueryAnswered`, `BusyCloseCompletes`, `BootCompletes`,
`CompletedCallReturns`, `WaitIsResumed`, `CanceledStreamEnds`, `StoppedLoopEnds`
and `SubmittedIsAnswered`), which need fairness and are outside of the prover's
reach.  The theorems called safety halves above say that what fairness needs in
order to make progress is always there; that it is then used is TLC's part.
`PreparedLeavesWait`, which `app_lost_notify` refutes, is a liveness property
too and has no theorem.

## Not modelled

* The content of results (values, headers, affected rows), the texts of queries,
  and log output.
* `mysql_ping` of the 60 s check reading into a suspended call's reply (the
  bytes of the connection are not modelled), and the errno it leaves in the
  handle: every call but a fetch that ends with EOF writes it again, and after
  such a fetch a failed ping would be told as the code of the session
  (`mysql_async_con.cc:327`).
* A pool dropped without `Close` while a closure of one of its connections is
  pending or runs, and a `KeepAliveContext` dropped after `Wait`: what follows
  happens in a dead object.
* A key of length 0 with `with_prefix`, and a pool of 0 connections: both are
  undefined behaviour in the first statement, and assumptions of the modules
  exclude them.  The sample with 0 connections does nothing and is excluded too.
* `CallContext::Reset`, which nobody calls; a second `Start` of a
  `KeepAliveContext`, which nobody does; `EtcdClientV3::Initilize`, which builds
  stubs.
* What the tasks of an application do.  `examples/lt_app` is one to look at: its
  boot goes on after the configuration failed to load, and the next task runs
  `CHECK(root)` on an empty document (`app_context_impl.cc:37`).
* The gRPC server of `examples/lt_app`, which prepares calls and polls no queue;
  `examples/main.cc`, a toy that counts requests in an array of atomics.
* The legacy application, `ConfigManager` and `EtcdRegistry`: stubs, or not part
  of the build, without a state that a property could be about.
* Generated protocol code.
