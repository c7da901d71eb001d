# miniq in TLA+

miniq is a single-host task queue: producers call a decorated function's
`.delay()` or `.schedule()`, worker processes claim, execute and settle the
tasks, callers wait on an `AsyncResult`, and an operator replays dead letters
and purges old entries. This directory holds its specification, the TLC runs
that check it on small instances, and theorems proved with TLAPS. Source paths
below are relative to `src/src/miniq/`.

## 1. The system

| Part | State it keeps | Operations | What makes it correct |
|---|---|---|---|
| Task (`task.py`) | status, retries, time stamps, error | `mark_running`, `mark_success`, `mark_failed`, `mark_pending` | no trace of an earlier attempt or life survives in a finished task |
| SQLite queue (`queue/sqlite.py`, `_sqlite.py`) | table `tasks` | `enqueue`, `dequeue` = try, reclaim, try; `ack`, `nack`, `size` | claims are exclusive while unexpired, every claim can expire, no task is lost, retries are counted |
| In-memory queue (`queue/memory.py`) | deque of pending tasks, dict of claims, condition variable | the same | the same, with one Task object shared by the queue and every holder |
| Result backends (`results.py`) | table `task_results`, or a dict of Task objects | `store`, `get`, `wait` | a finished task has its result, and the right one |
| Worker (`worker.py`) | the Task object it holds, a stop flag | `run_once`, `_handle_failure`, `_dead_letter`, `run`, `stop` | store before settle, retries within the budget, dead letters for a reason only |
| Worker pool (`pool.py`) | processes, a started flag | `start`, `stop` (SIGTERM, wait, SIGKILL) | no process is left behind, a stop takes effect |
| Retry policies (`retry.py`) | parameters only | `next_delay` | delays are non-negative, monotone, capped |
| CLI (`cli.py`) | none of its own, writes the database | `worker`, `status`, `dlq list`, `dlq replay`, `purge` | maintenance never disturbs a task that is not finished |
| App (`app.py`) | queue, result backend | `delay`, `schedule`, `task` | the handle names the task that was enqueued |
| AsyncResult (`task.py`) | task id | `get` | answers with the outcome of the task, and eventually |
| Registry, serializers, exceptions | function table; none; none | `register`, `lookup`; `serialize`, `deserialize` | - |

**Interaction.** Producers, workers and the CLI share nothing but the database
file; each has its own connection, and SQLite serialises their write
transactions. `SQLiteQueue` and `SQLiteResultBackend` use separate
transactions, so the result of a task and its row never change together. In the
in-memory deployment threads share the queue, the result dict *and the Task
objects themselves*.

**What is hard.** A claim is only a deadline in the table: nothing tells a slow
worker from a dead one, `ack` and `nack` address a row by id alone, and the
clock is read before the lock is held. Workers die between any two
transactions. Replay and purge run beside working workers. In memory, a late
thread and the next one change the same Task object, the stored result is that
object too, and two condition variables must wake the right sleepers. At
shutdown, signal handlers interrupt the very thread that they want to stop, and
`threading.Event` takes a lock that is not reentrant. `PROJECT.json` lists the
hazards line by line; the properties below are aimed at them.

## 2. Modules

| Module | Models | Notes |
|---|---|---|
| `Task` | `task.py` | statuses, the Task object, `mark_*`; the fields fixed at creation (`max_retries`, `priority`, `created_at`) are constants |
| `SQLiteQueue` | `queue/sqlite.py` | the table and one operator per SQL statement; clock readings are parameters |
| `ResultStore` | `results.py` (SQLite) | the `task_results` table and `store` |
| `RetryPolicy` | `retry.py` | the policies as records, `next_delay` as the set of its answers: a delay, `NULL` to decline, `PolicyError` for an exception |
| `Worker` | `worker.py` | what a worker decides about the object it holds |
| `Cli` | `cli.py` | `dlq replay` and `purge`, one transaction each |
| `MiniqSQLite` | the deployment | composes the above: worker processes, producers, operator, crashes, restarts, clock; `Spec` and `LiveSpec` |
| `DeliveryContract` | `queue/base.py` | the abstract specification: phases, holders and retries, no clock and no table |
| `MiniqSQLiteProps` | - | the properties and the refinement mapping |
| `MCMiniqSQLite` | - | values of the constants for TLC |
| `MiniqSQLite_proofs` | - | theorems |
| `MiniqSQLite_refinement` | - | the proof that the deployment implements the contract |
| `MiniqSQLiteCallers` | `AsyncResult.get`, `SQLiteResultBackend.wait` | callers that poll, composed with the whole SQLite deployment |
| `InMemoryQueue` | `queue/memory.py` | the bodies of the queue's methods, on Task objects that are shared |
| `InMemoryResults` | `results.py` (memory) | entries that are references to the live objects, and the sleeping callers |
| `MiniqMemory` | the one-process deployment | worker threads, producers and callers over the two; `Spec` and `LiveSpec` |
| `MiniqMemoryProps` | - | its properties and its refinement mapping to the same `DeliveryContract` |
| `WorkerPool` | `pool.py`, `cmd_worker` of `cli.py`, `run` and `stop` of `worker.py` | start, stop, signals and the worker processes, with its properties |
| `MCMiniqMemory`, `MCMiniqSQLiteCallers` | - | values of the constants for TLC |
| `MiniqMemory_proofs`, `WorkerPool_proofs` | - | theorems about the one-process deployment and the pool |
| `MiniqSQLite_results` | - | theorems that relate the two tables |
| `MiniqSQLiteCallers_proofs` | - | the theorem about callers of the SQLite deployment |
| `MiniqMemory_refinement` | - | the one-process deployment with threads in time: its contract, its answers, its backoff |
| `MiniqMemory_wakeups` | - | the theorem about `notify` in the in-memory queue |

**State and code.** `tasks[t]` is the row with primary key `t`, or `NULL`;
`results[t]` likewise in `task_results`. For each worker process, `pc` says
where it is in `run_once`, `seen` is the value of `now = time.time()` between
its reading and the transaction that uses it, `copy` is the Task object
`dequeue` returned. `lease` is an auxiliary variable: the deadline written at
the claim that produced the copy. The code does not keep it; the properties and
the in-time assumption need it. `crashes` only bounds the crashes.

**Actions.** Every SQLite transaction is one action, because SQLite serialises
writers (`BEGIN IMMEDIATE` in `_try_claim`; the others are single statements).
`dequeue` is `ReadClock`, `Claim` / `ClaimNothing` / `ClaimBusy`, `ReadClock`,
`Reclaim`, `ReadClock`, `Claim` / ...; `ClaimBusy` is the `OperationalError`
that `_try_claim` swallows. After a claim come `LookupFails`, `Returns` or
`Raises`; then `Requeue`, or `Store` (or, where what the task returns may be beyond
the serializer, `StoreRaises`: the `SerializationError` nobody catches, which ends
the process) and `Settle`
(`ack`, or `nack(requeue=False)`). `PolicyRaises` is an exception out of
`next_delay`, which nobody catches either: `factor ** (attempt - 1)` overflows a
float before `min` caps it (attempt 1025 with factor 2), and a policy of the user
may raise what it likes. `Crash` is SIGKILL, a power cut, or an
`OperationalError` out of a transaction without a handler: in each case the
process ends and its claim stays in the table. Exceptions of task functions
that are not `Exception` (`SystemExit`) are crashes too. `Start` is a supervisor
starting the worker again; the pool itself never does.

**Time.** The clock is discrete, shared and monotone; a step back of the wall
clock is not modelled. `Tick` is enabled only while some comparison with the clock
can still change: a row waits for its release or for the end of its claim
(`DeadlinePending`), or a finished row or a result is too young for one of the purges
(`RetentionPending`). No transaction waits for the lock longer than
`MaxLag` (`PRAGMA busy_timeout=5000`, after which `ClaimBusy` happens).
With `Timely = TRUE` the clock does not pass the deadline of a claim whose
worker is alive. That is what `cli.py` asks of its user: the visibility timeout
"must exceed your longest task's runtime". With `Timely = FALSE` a worker may be
arbitrarily late.

**Abstractions.** Arguments, values, error texts, `started_at` and `func_path`
are read by no decision and left out; an error is known by who wrote it. The
rows of a database file that two miniq versions share, failing deserialization
of rows and disk errors other than a lost process are out of scope.

**In memory.** `obj[t]` is the one Task object of `t`; `queued[t]` counts its
places in the deque, `claimed[t]` is its entry in `_claimed`, `sleeping` and
`waiting` are the threads in `_not_empty.wait()` and the callers in
`_available.wait()`. Stamps are kept as the time left until them, down to 0: the
code only compares stamps with the clock, and so a behaviour needs no last
instant. One action is one critical section, with an exception: `dequeue` is
`Reclaim` and then `Claim`, `GiveUp` or `Wait` under one hold of the lock
(`LockFree` keeps the others out). Between critical sections a thread reads and
writes the object it holds, without a lock, one action per reading or writing:
`Raises` compares the counter and asks the policy, `CountRetry` increments it
later, and `Postpone` writes `available_at` later still, after the call of `time.time()`.
The increment itself is one step: CPython switches threads at calls and jumps only. `Die` and `PolicyRaises` end a thread, and nothing starts it
again. A caller is `Get`, then `Found`, `LosePatience` or `Await` under the lock
of the backend, then one action per reading of `task.status` in
`AsyncResult.get`, without it. Over SQLite the row that a poll finds becomes a
Task of the caller's own, so that the poll and the readings are one action,
`Find`.

**The pool.** `pc` follows the main thread of `miniq worker`; `child[p]`,
`stop_flag[p]` and `handler[p]` are a worker process, its flag and its signal
handler. `extra` counts the tasks begun with the flag set; the code does not keep
it. `start` can raise after any number of spawns (`SpawnFails`), outside of the
`try` of `cmd_worker`. Ctrl-C reaches the whole process group, SIGTERM the
command only. A process that has not installed its handlers dies of a signal; after that a
handler that is interrupted by the next signal inside `Event.set` never returns
("stuck"), and so does a handler of the command that interrupts the main thread inside
`Event.wait` before it sleeps. The command's handler is two steps for the same
reason: `handle_signal` enters `Event.set`, where the next signal would be stuck, and
`SetEvent` leaves it with the flag written. Of a worker's loop only the reading of the flag,
`dequeue` and the task are kept; what a worker does with its task when it dies
is `Crash` of `MiniqSQLite`.

## 3. Properties and runs

Safety of the SQLite deployment:

* `TypeOK`: types, plus: a worker holds a copy exactly while it works on a
  task, and whatever it is about to store or settle is finished.
* `ClaimHasDeadline`: running rows and only they carry `claimed_until`. A
  running row without it is skipped by `_reclaim_expired` for ever.
* `RetriesWithinLimit`: no row and no Task object exceeds `max_retries`, even
  when several executions of one task write their counters back by id.
* `PollsRespectClaims` (action): an unexpired claim goes back to pending only
  through the `nack` of a worker that holds the task.
* `SettledHasResult`: a finished task has a stored result (without purges).
* `ResultMatchesRow`: the row and the result of a finished task agree on
  status, error and finish time.
* `ExclusiveClaims`: two live workers never hold the same task.
* `DeadLettersAreFinal`: a dead letter has spent its retries, or was declined
  by the policy, or met a worker that does not know its function.
* `ActiveRowsClean`: a pending or running row carries neither error nor finish
  time. Nothing in claim, reclaim or requeue clears them, and `_row_to_task`
  would hand them to the next attempt.
* `RefinesContract`: the deployment implements `DeliveryContract`: only the
  holder completes, releases or buries a task, timeouts take back only what no
  live worker holds, a retry counts exactly one, a finished task stays finished
  until it is replayed (dead letters only) or purged.

With its callers: `CallersServed`, whoever asks is answered; `AnswersStand`, no
later execution contradicts an answer, unless a worker crashed between `store`
and `ack`. Liveness: `EveryTaskSettles`, every enqueued task is eventually
finished for good.

The one-process deployment, with threads that may be late:

* `NoTaskLost`: a task that was enqueued is in the deque, or has a claim that can
  expire, or has a result, although `ack` and `nack` pop claims by id.
* `NoLostWakeup`: where nothing is delayed, while a thread sleeps the entries of the
  deque never outnumber the threads on their way to look. `notify` wakes one thread,
  which may find nothing left, or whose own time-out may already have passed. With
  delays it would be false: a scheduled task ripens without a notify, and the
  thread woken for another task may take it. That task is then left to
  the sleeper's time-out; `EveryTaskSettles` is checked with delays.
* `RetriesOvershoot`: two threads compare the shared counter before either
  increments it, so `max_retries` can be exceeded, but by one per other thread only.
  The documents promise `RetriesRespected`, which is violated (`memory_overshoot`).
* `NoSleepOnAnswer`: a caller sleeps beside its answer only while the `store` that
  wakes it is under way.

and with threads that settle in time:

* `AnswersStand`, `CallersServed`, `EveryTaskSettles` as above; the last as long
  as one thread is alive.
* `GetAnswers`: a caller that `wait` lets go never finds the task unfinished in one of
  the readings that follow without a lock (with late threads it does).
* `BackoffAsDocumented` (action): the n-th retry waits `base * factor ** (n - 1)`,
  capped, within the jitter, told by doubling: the worker asks the policy with
  `retries + 1` and increments the counter steps later.
* `RefinesContract`: the same contract as for SQLite.

The pool:

* `NobodyLeftBehind`: the command has ended only when its worker processes have.
* `OneMoreTask`: a worker that was told to stop begins one more task at most
  (`dequeue` does not look at the flag).
* `OnlyStragglersKilled`: SIGKILL strikes only after the whole time-out.
* `StopReturns` (liveness): with tasks that never end and stuck handlers too.

| Run | Instance | Shows |
|---|---|---|
| `sqlite_late` | 1 task with a retry, 2 workers (symmetric), `VT` 2, lag 1, late workers, values that the serializer may refuse, a policy that may raise, a crash, replays, clock to 5 | `TypeOK`, `ClaimHasDeadline`, `RetriesWithinLimit`, `SettledHasResult`, `PollsRespectClaims` |
| `sqlite_timely` | 2 tasks (one urgent; the other with 2 retries, its module unknown to one worker), 2 workers, `VT` 2, a policy that may decline, a crash, clock to 3 | `ExclusiveClaims`, `DeadLettersAreFinal`, `RefinesContract` |
| `sqlite_retention` | 1 task, immediate or scheduled, 2 workers, `VT` 3, replays, purges of age `VT`, a crash, clock to 6 | `ResultMatchesRow`, `ActiveRowsClean`, `RefinesContract` |
| `sqlite_liveness` | 1 task, 2 workers, a caller, `VT` 2, lag 1, a crash; the clock never reaches its bound of 30 | `EveryTaskSettles`, `CallersServed`, `AnswersStand` under `CallersSpec` |
| `memory_late` | 2 tasks (one with a retry, the other with an unknown function), 2 threads (symmetric), 2 callers (one with a timeout), `VT` 1, late threads, a policy that may decline or raise, a death | `TypeOK`, `NoTaskLost`, `NoLostWakeup`, `RetriesOvershoot`, `NoSleepOnAnswer` |
| `memory_timely` | 2 tasks (one urgent, with 2 retries; immediate or scheduled), 2 threads, a caller, `VT` 2, jittered exponential backoff, a death, `LiveSpec` | `RefinesContract`, `BackoffAsDocumented`, `AnswersStand`, `GetAnswers`, `EveryTaskSettles`, `CallersServed` |
| `pool_shutdown` | 3 worker processes, shutdown timeout 2, SIGTERM and 2 Ctrl-C at any time, spawns that may fail, `LiveSpec` | `TypeOK`, `NobodyLeftBehind`, `OneMoreTask`, `OnlyStragglersKilled`, `StopReturns` |
| `stale_nack` | 1 task, 2 workers, late | `ClaimWindowRespected` is violated |
| `expired_passed_over` | 2 tasks, 2 workers, a crash | `ExpiredIsClaimable` is violated |
| `purge_takes_result` | 1 task, purges of age 0 | `SettledHasResult` is violated |
| `memory_late_get` | 1 task, 2 threads, late, a caller | `GetAnswers` is violated |
| `memory_overshoot` | 1 task with a retry, 2 threads, late, a caller | `RetriesRespected` is violated |

**Why the bounds are enough.** Late settlement needs an expired claim, a second claim,
and a settlement by each holder: two workers, one task and four clock units with `VT` 2
(`sqlite_late` has five, so a third claim fits). Two tasks matter for order among tasks
and for a worker that moves from one to the next, which `sqlite_timely` covers together
with a crash, a reclaim and a second execution within three units. A purge needs an
entry that is `VT` units old, and `Tick` goes on until the youngest one is: in the six
units of `sqlite_retention` a task that finishes by 3 can be purged, also one that was
scheduled, retried or replayed before. One crash is enough to abandon a claim; the other
worker, or the restarted one, recovers it.

In memory, two threads are a late holder and the next one; their object, their
claim and their counter meet in every order, and with two tasks a woken thread can
find the task that it was woken for taken. Two callers of one task tell `notify`
from `notify_all`, and one of them may time out. Time runs without a bound in
these two runs. One death leaves a thread alive; in `memory_late`, where a policy
may raise, all threads may die, and the run does not check for deadlock. Three
processes make the pool's loops have a middle; a shutdown timeout of 2 can pass
before, between and after the joins; two Ctrl-C and the SIGTERM of `stop` are the
three signals that can meet in one handler. The command is meant to end: no
deadlock check there either.

**Retention.** `ResultMatchesRow` holds with purges because `--older-than` is at least
the visibility timeout there: a live worker acks within that time of its `store`. With
`--older-than 0`, the default, `purge_takes_result` breaks it. A task finishes before
its result is stored, so that a purge may take a finished row and leave its result, but
never the result alone; a cutoff that were sharp for one table and not for the other
would break that, as the run's mutant does. The pair of runs gives the rule: never purge
entries younger than the visibility timeout while workers run.

**Fairness (`LiveSpec`).** Weak fairness of each process's own steps (the
operating system runs it), of `Start` (a supervisor restarts it) and of `Tick`
(time passes); strong fairness of `Claim` (a lock asked for again and again,
held only for short transactions, is granted some time). Nothing is assumed of
producers, crashes, `ClaimBusy` or the operator. `MaxLag` must be positive: if
no time could pass while some worker is between its clock reading and its
transaction, two pollers could stop the clock by taking turns. `CallersSpec` adds
weak fairness of a caller's poll; its time-out is never forced, so that the answer
of a caller without one comes from the workers.

In memory: strong fairness of the steps of each thread (a lock asked for again and
again is granted), weak fairness of callers and of time; nothing of producers,
deaths or new calls. For the pool: weak fairness of the main thread, of time and of
the steps of a worker process that its task does not keep from running. Nothing is
assumed of tasks (`Finish`, `Unwind`), of signal handlers (`SetFlag`; they run only when the
task returns to the interpreter) or of signals.

**Disagreements between code and documents** are recorded as findings in `PROJECT.json`,
each with the run that shows it: the late `nack` that releases another worker's live
claim, the expired claim that waits behind every pending task, the purge that deletes a
result before its task is finished, in memory the claim that expires between `store` and
`ack` and turns the stored object back to pending while a caller reads it, so that `get`
ends in a `RuntimeError`, and in memory too the counter that two late threads drive
beyond `max_retries`. One more needs no run, since a single step shows it: `dlq replay`
leaves `task_results` alone (`cli.py:150`), so that a pending task answers with its old
failure, where `results.py:45-46` promises `None`.

Found on the way, without a document that says otherwise: `miniq worker` can hang for
good when its signal comes in the instant between `Event.wait` taking its lock and
sleeping, or when a second signal interrupts its handler inside `Event.set` (`pc =
"stuck"`); a worker process hangs until SIGKILL when a second signal interrupts its
handler inside `Event.set`.

## 4. Proofs

The theorems hold for all sets of tasks, workers, threads and callers and all
values of the other constants, under the hypotheses that the tables name. They
rest on the named `ASSUME`s of the modules (types of the constants, `NULL` is none of
the values it stands beside), which TLC evaluates in every run. Three hypotheses
come back:

* in time, SQLite (`InTime`): `Timely` and `MaxLag < VT`; live workers settle
  before their claim expires, and nobody waits a visibility timeout for the lock;
* in time, memory (`ThreadsInTime`): `Timely` and `VT > 0`;
* finite: the sets that the statement counts are finite.

### The SQLite deployment

`MiniqSQLite_proofs`, `MiniqSQLite_refinement`, `MiniqSQLite_results`,
`MiniqSQLiteCallers_proofs`:

| Theorem | Proves | Hypotheses |
|---|---|---|
| `TypeCorrect` | `TypeOK` | - |
| `DeadlineCorrect` | `ClaimHasDeadline` | - |
| `RetriesCorrect` | `RetriesWithinLimit` | - |
| `PollsRespectful` | `PollsRespectClaims` | - |
| `ExclusiveCorrect` | `ExclusiveClaims` | in time |
| `RefinementCorrect` | `RefinesContract` | in time |
| `CleanCorrect` | `ActiveRowsClean` | in time |
| `DeadLettersCorrect` | `DeadLettersAreFinal` | in time |
| `SettledHasResultCorrect` | `SettledHasResult` | no purges |
| `ResultMatchesCorrect` | `ResultMatchesRow` | in time, no purge of what is younger than `VT` |
| `AnswersStandCorrect` | `AnswersStand` | in time, no purges, no replays |

**The pivot** is `RowSteps`: whatever the step, a row is left alone,
inserted, replayed, purged, claimed, reclaimed, or written by a worker that
holds its task. It needs `TypeOK` and `SubmittedRows` (rows exist for submitted
tasks only, so an insert never overwrites). `CopySteps` is its counterpart for
the Task objects and `ResultSteps` the one for the results. With them,
`ClaimHasDeadline`, `RetriesWithinLimit` and the body of `PollsRespectClaims` are
one case analysis each.

**Exclusive claims.** `ExclusiveClaims` is not inductive. The invariant is
`LeaseInv`: clock readings in use are not in the future and at most `MaxLag` old
(`FreshReadings`), the task a live worker holds is running in the table with the
very deadline of that worker, and that deadline is ahead (`HoldersOwnRows`), and
claims are exclusive. A reclaim with an old reading cannot expire such a row, a
claim takes pending rows only, and a settlement or requeue of the task comes from
its only holder; `MaxLag < VT` makes a new claim start unexpired. Everything that
assumes in-time workers builds on `LeaseInv`.

**The contract.** The refinement adds `CopiesAgree`: the counter of a Task object
is the one of its row while the task executes, and one more, within the budget,
once the retry is decided. A requeue is then a `Retry` of the contract, a reclaim
an `Expire` of tasks nobody holds, and the holder of a task (`HolderOf`, a
`CHOOSE`) is the only candidate. There is one lemma per action (`ClaimMaps`,
`RequeueMaps`, ...); clock, polls that fail, executions and stores are stutters.
Without the in-time assumption the refinement is false, as `stale_nack` shows.

**The two tables.** `ActiveRowsClean` is inductive beside `LeaseInv`: a row becomes
active from an active one, or by an insert or a replay, which wipe it; a
settlement never meets a row that another holder has put back.
`SettledHasResult` needs no timing: `StoredFirst` says that whoever is about to
settle has stored, and results do not go away. `DeadInv` carries the reason of a
final failure from the Task object (`CopiesFinal`) into the row.
`ResultMatchesRow` needs three more parts (`MatchInv`): a settler's object is what
the result store holds for its task (`SettlersStored`), work and results are no
older than the lease that is still running, counted back by `VT` (`RecentWork`),
and results follow finish times (`StoredAfterFinish`). That is what makes
a purge of an age below `VT`, and only such a purge, dangerous, as
`purge_takes_result` shows.

**Callers.** `AnswersStand` follows from `FirstResultIsLast`: while no worker crashed,
a task with a result is settled or about to be, by its only holder, so that nobody
executes it again and its result is never overwritten. A replay does
execute it again, hence the hypothesis.

### In memory

`MiniqMemory_proofs`, `MiniqMemory_wakeups`, `MiniqMemory_refinement`:

| Theorem | Proves | Hypotheses |
|---|---|---|
| `MemoryTypeCorrect` | `TypeOK` | - |
| `MemoryLosesNothing` | `NoTaskLost` | - |
| `MemoryWakesCallers` | `NoSleepOnAnswer` | - |
| `MemoryRetriesBounded` | `RetriesOvershoot` | finite |
| `MemoryWakesThreads` | `NoLostWakeup` | finite |
| `MemoryAnswersStand` | `AnswersStand` | in time |
| `MemoryGetAnswers` | `GetAnswers` | in time |
| `MemoryRefinementCorrect` | `RefinesContract` | in time |
| `BackoffCorrect` | `BackoffAsDocumented` | in time, an exponential policy with jitter, the laws of `^` |

**Late threads.** `NoTaskLost` becomes inductive with `StoredBeforeSettled`: the
claim that a settlement pops may be another thread's, but the result of the task is
stored by then, and results do not go away. `NoSleepOnAnswer` is inductive beside
`TypeOK`: only a `mark_*` finishes an object, its thread is then at its `store`, and
every `store` wakes all callers. For the counter, `OvershootInv` adds to it the threads
that have compared it and not yet incremented it (`Deciders`): that sum grows only
by a thread that has just seen `retries < max_retries`, and there are no more
such threads than threads.

**Wakeups.** The model adds up the deque with a fold. `SumIsCount` shows that the sum
is the cardinality of the set of entries, by taking a smallest set for which
it would not be (finite subsets are well founded); `SumOfAppend` is what an `enqueue`
or a requeue does to it. `NoLostWakeup` is then inductive with
`RipeAtOnce`: where nothing is delayed, whatever is in the deque can be claimed. So
a thread goes to sleep at an empty deque only; an entry that is added brings a
woken thread with it, unless nobody sleeps; and a thread that looks takes an entry away.

**Threads in time.** `ClaimsInv` is what `LeaseInv` is for SQLite: the claim of a live
holder is in `_claimed` with time left, a task is in the deque once at most and then
not claimed, and two threads never hold one task. A finished task is then out
of the deque, with a claim that only the thread which stores and settles it can pop
(`FinishedOut`): no step changes its status any more (`OutcomeKept`), and what a caller has read
of the object without a lock still stands (`ReadsStand`); `AnswersStand` and
`GetAnswers` follow. With late threads `GetAnswers` fails (`memory_late_get`).

For the refinement `BudgetKept` follows the shared counter through
`_handle_failure`, from the comparison to the increment, the delay and the requeue:
from the increment on, the counter in the object is one ahead of the contract's, and the
mapping counts a retry when the task is put back. There is a lemma per
step again; claims of dead threads are what the contract's `Expire` takes back.

**Backoff.** `CounterSteps` shows that a counter changes only by the increment of the one
holder, to the attempt that the policy was asked with, and `RetryingSteps` that a
thread gets to the delay by that increment only; nobody else has the task
in between. `BudgetKept` says that the delay at hand is one of the policy's for that
attempt. The rest is arithmetic: `FollowsUnique` shows that the doubling of
`DocumentedDelay` has one solution at most, `CappedStep` that the capped power is one,
and `JitterNear` bounds the jitter. The provers have no theory of `^`, so
`DocumentedPolicy` lists its two laws, `a ^ 0 = 1` and
`a ^ (n + 1) = a * a ^ n`, among its conjuncts (`PowerLaws`); TLC evaluates them for
small numbers in the runs in memory.

### The pool

| Theorem (`WorkerPool_proofs`) | Proves |
|---|---|
| `PoolTypeCorrect` | `TypeOK` |
| `PoolLeavesNobody` | `NobodyLeftBehind` |
| `PoolStopsWorkers` | `OneMoreTask` |
| `PoolIsPatient` | `OnlyStragglersKilled` |

The four invariants are proved together (`PoolInv`), with what the loops of `start`
and `stop` have done up to `i` (`NotYetSpawned`, `LoopsOfStop`) and where a worker can
be after its last task (`LastTask`). No hypothesis beyond the module's own.

### What the properties do not cover

The properties that assume workers in time (`RefinesContract`, `ActiveRowsClean`,
`ResultMatchesRow`, `DeadLettersAreFinal`, `ExclusiveClaims`) say nothing of late ones:
what a late `nack` does to the counter, the error and the finish time of a row that is
not its own any more is a consequence of `stale_nack`, and `RetriesWithinLimit` bounds
the value of the counter only, not the number of executions. `EveryTaskSettles` over
SQLite is checked with one task, so that the starvation that `expired_passed_over` begins
is not in it.

### Model-checked only

Liveness: `EveryTaskSettles`, `CallersServed`, `StopReturns`. Fairness and `ENABLED`
are out of the prover's reach. Every invariant and every other action property
of the passing runs is a theorem, some of them under
hypotheses that the runs also satisfy: `sqlite_timely` and `sqlite_retention` have
`MaxLag < VT` and purge nothing younger than `VT`, `sqlite_liveness` has neither
purges nor replays, `memory_timely` has `VT` 2.

## 5. Plan

Done: both deployments with their callers, the retry policies, the pool with its
command, the abstract contract refined by both deployments, and the theorems
above. Next:

1. Safety consequences of the contract itself, proved once on `DeliveryContract`
   and inherited by both deployments through the refinements.
2. Backoff over SQLite, along the lines of `BackoffCorrect`.

**Not modelled.**

* `status` and `dlq list` of the CLI only read the database.
* The decorator, registration of functions and task modules: they run at import
  time, before any worker starts; `Registered` is their result.
* JSON encoding is the standard library's; what matters is whether it refuses a value.
* `exceptions.py` and `__init__.py`: class declarations and re-exports.
* The order of the deque among tasks that tie on priority and on `created_at`.
* A jittered policy around a jittered policy.
* A `KeyboardInterrupt` at an arbitrary instruction of a program that embeds
  `WorkerPool` without the handlers of `cmd_worker`, and logging calls that a
  signal handler re-enters.
