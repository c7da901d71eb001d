---------------------------- MODULE MiniqSQLite -----------------------------
(***************************************************************************)
(* A miniq deployment on one SQLite file: producers enqueue, the worker    *)
(* processes of the pool claim, execute, store and settle, an operator     *)
(* replays and purges, and processes crash and are started again.          *)
(*                                                                         *)
(* One action is one SQLite transaction, or one step of a process between  *)
(* two transactions.  The wall clock is shared, moves by Tick, and is read *)
(* before the lock a transaction waits for, so a reading may be stale when *)
(* it is used.  Time is not spent by the actions themselves.               *)
(***************************************************************************)
EXTENDS Cli, Worker

CONSTANTS
  Workers,           \* worker processes
  Registered,        \* Registered[w]: tasks whose function w has imported
  Unserializable,    \* tasks whose return values the serializer may refuse
  VT,                \* visibility_timeout
  MaxLag,            \* longest wait for the database lock (busy_timeout)
  ScheduleDelays,    \* countdowns of schedule(); NULL for delay()
  PurgeAges,         \* values of --older-than; {} if nobody purges
  Replays,           \* TRUE if the operator replays dead letters
  Timely,            \* TRUE if a live worker settles before its claim expires
  MaxCrashes,        \* bound on the crashes of a behaviour
  MaxTime            \* bound on the clock

ASSUME DeploymentAssumption ==
  /\ NULL \notin TaskIds \cup Workers
  /\ Registered \in [Workers -> SUBSET TaskIds]
  /\ VT \in Nat /\ MaxLag \in Nat
  /\ ScheduleDelays \subseteq Times \cup {NULL}
  /\ PurgeAges \subseteq Nat
  /\ Replays \in BOOLEAN /\ Timely \in BOOLEAN
  /\ MaxCrashes \in Nat /\ MaxTime \in Nat

VARIABLES
  now,        \* the wall clock
  submitted,  \* tasks whose enqueue has returned a handle
  pc,         \* where each worker process is
  seen,       \* the clock reading of a poll under way, NULL between polls
  copy,       \* the Task object a worker holds, NULL if none
  lease,      \* when the claim that produced it expires (not kept by the code)
  crashes     \* crashes so far

worker_vars == <<pc, seen, copy, lease>>
vars == <<tasks, results, now, submitted, worker_vars, crashes>>

\* dequeue: try_claim, reclaim_expired, try_claim; then the holder's steps.
Polling  == {"claim1", "reclaim", "claim2"}
Claiming == {"claim1", "claim2"}
Holding  == {"execute", "store", "settle", "requeue"}

Live(w)     == pc[w] \in Holding
Holds(w, t) == Live(w) /\ copy[w].id = t

Init ==
  /\ QueueInit
  /\ ResultsInit
  /\ now = 0
  /\ submitted = {}
  /\ pc = [w \in Workers |-> "claim1"]
  /\ seen = [w \in Workers |-> NULL]
  /\ copy = [w \in Workers |-> NULL]
  /\ lease = [w \in Workers |-> NULL]
  /\ crashes = 0

-----------------------------------------------------------------------------
(* Producers.                                                              *)

\* _enqueue: a fresh uuid, the INSERT, then the handle.
Enqueue(t) ==
  /\ t \notin submitted
  /\ submitted' = submitted \cup {t}
  /\ \E d \in ScheduleDelays : enqueue(t, IF d = NULL THEN NULL ELSE now + d)
  /\ UNCHANGED <<results, now, worker_vars, crashes>>

-----------------------------------------------------------------------------
(* dequeue, as a worker process runs it.                                   *)

AfterFailedClaim(w) == IF pc[w] = "claim1" THEN "reclaim" ELSE "claim1"

\* now = time.time(), ahead of the lock.
ReadClock(w) ==
  /\ pc[w] \in Polling
  /\ seen[w] = NULL
  /\ seen' = [seen EXCEPT ![w] = now]
  /\ UNCHANGED <<tasks, results, now, submitted, pc, copy, lease, crashes>>

Claim(w) ==
  /\ pc[w] \in Claiming
  /\ seen[w] # NULL
  /\ \E t \in FirstInLine(seen[w]) :
       /\ claim_row(t, seen[w] + VT)
       /\ copy' = [copy EXCEPT ![w] = row_to_task(t)]
  /\ lease' = [lease EXCEPT ![w] = seen[w] + VT]
  /\ seen' = [seen EXCEPT ![w] = NULL]
  /\ pc' = [pc EXCEPT ![w] = "execute"]
  /\ UNCHANGED <<results, now, submitted, crashes>>

ClaimNothing(w) ==
  /\ pc[w] \in Claiming
  /\ seen[w] # NULL
  /\ FirstInLine(seen[w]) = {}
  /\ seen' = [seen EXCEPT ![w] = NULL]
  /\ pc' = [pc EXCEPT ![w] = AfterFailedClaim(w)]
  /\ UNCHANGED <<tasks, results, now, submitted, copy, lease, crashes>>

\* OperationalError: another connection kept the lock past the busy timeout.
ClaimBusy(w) ==
  /\ pc[w] \in Claiming
  /\ seen[w] # NULL
  /\ seen' = [seen EXCEPT ![w] = NULL]
  /\ pc' = [pc EXCEPT ![w] = AfterFailedClaim(w)]
  /\ UNCHANGED <<tasks, results, now, submitted, copy, lease, crashes>>

Reclaim(w) ==
  /\ pc[w] = "reclaim"
  /\ seen[w] # NULL
  /\ reclaim_expired(seen[w])
  /\ seen' = [seen EXCEPT ![w] = NULL]
  /\ pc' = [pc EXCEPT ![w] = "claim2"]
  /\ UNCHANGED <<results, now, submitted, copy, lease, crashes>>

-----------------------------------------------------------------------------
(* run_once, after a successful dequeue.                                   *)

Release(w) ==
  /\ copy' = [copy EXCEPT ![w] = NULL]
  /\ lease' = [lease EXCEPT ![w] = NULL]

\* TaskNotRegistered: straight to _dead_letter, no retry.
LookupFails(w) ==
  /\ pc[w] = "execute"
  /\ copy[w].id \notin Registered[w]
  /\ copy' = [copy EXCEPT ![w] = mark_failed(@, "not_registered", now)]
  /\ pc' = [pc EXCEPT ![w] = "store"]
  /\ UNCHANGED <<tasks, results, now, submitted, seen, lease, crashes>>

Returns(w) ==
  /\ pc[w] = "execute"
  /\ copy[w].id \in Registered[w]
  /\ copy' = [copy EXCEPT ![w] = mark_success(@, now)]
  /\ pc' = [pc EXCEPT ![w] = "store"]
  /\ UNCHANGED <<tasks, results, now, submitted, seen, lease, crashes>>

\* _handle_failure: a retry if the budget and the policy allow it, or the DLQ.
Raises(w) ==
  /\ pc[w] = "execute"
  /\ copy[w].id \in Registered[w]
  /\ \E delay \in next_delays(copy[w]) \ {PolicyError} :
       IF delay # NULL
       THEN /\ copy' = [copy EXCEPT ![w] = retried(@, delay, now)]
            /\ pc' = [pc EXCEPT ![w] = "requeue"]
       ELSE /\ copy' = [copy EXCEPT ![w] = mark_failed(@, "raised", now)]
            /\ pc' = [pc EXCEPT ![w] = "store"]
  /\ UNCHANGED <<tasks, results, now, submitted, seen, lease, crashes>>

\* An exception out of next_delay is caught by nobody either.
PolicyRaises(w) ==
  /\ pc[w] = "execute"
  /\ copy[w].id \in Registered[w]
  /\ PolicyError \in next_delays(copy[w])
  /\ pc' = [pc EXCEPT ![w] = "down"]
  /\ Release(w)
  /\ UNCHANGED <<tasks, results, now, submitted, seen, crashes>>

\* nack(requeue=True).
Requeue(w) ==
  /\ pc[w] = "requeue"
  /\ nack(copy[w], TRUE)
  /\ pc' = [pc EXCEPT ![w] = "claim1"]
  /\ Release(w)
  /\ UNCHANGED <<results, now, submitted, seen, crashes>>

\* stored_at is read once the object is marked and before the lock is held.
StampsOf(c) == {at \in c.finished_at..now : now <= at + MaxLag}

Store(w) ==
  /\ pc[w] = "store"
  /\ \E at \in StampsOf(copy[w]) : store(copy[w], at)
  /\ pc' = [pc EXCEPT ![w] = "settle"]
  /\ UNCHANGED <<tasks, now, submitted, seen, copy, lease, crashes>>

\* What a task returns decides whether store can write it.
MayRefuse(c) == c.status = "success" /\ c.id \in Unserializable

\* SerializationError is caught by nobody: it ends the worker process.
StoreRaises(w) ==
  /\ pc[w] = "store"
  /\ MayRefuse(copy[w])
  /\ pc' = [pc EXCEPT ![w] = "down"]
  /\ Release(w)
  /\ UNCHANGED <<tasks, results, now, submitted, seen, crashes>>

\* ack of a success, nack(requeue=False) of a dead letter.
Settle(w) ==
  /\ pc[w] = "settle"
  /\ IF copy[w].status = "success" THEN ack(copy[w]) ELSE nack(copy[w], FALSE)
  /\ pc' = [pc EXCEPT ![w] = "claim1"]
  /\ Release(w)
  /\ UNCHANGED <<results, now, submitted, seen, crashes>>

-----------------------------------------------------------------------------
(* Processes, the operator, the clock.                                     *)

\* SIGKILL, a power cut, or an OperationalError out of a transaction that
\* nothing guards: the process is gone and its claim stays in the table.
Crash(w) ==
  /\ crashes < MaxCrashes
  /\ pc[w] # "down"
  /\ crashes' = crashes + 1
  /\ pc' = [pc EXCEPT ![w] = "down"]
  /\ seen' = [seen EXCEPT ![w] = NULL]
  /\ Release(w)
  /\ UNCHANGED <<tasks, results, now, submitted>>

\* The pool starts no replacement itself; whoever runs it starts it again.
Start(w) ==
  /\ pc[w] = "down"
  /\ pc' = [pc EXCEPT ![w] = "claim1"]
  /\ UNCHANGED <<tasks, results, now, submitted, seen, copy, lease, crashes>>

Replay(t) ==
  /\ Replays
  /\ cmd_dlq_replay(t)
  /\ UNCHANGED <<now, submitted, worker_vars, crashes>>

Purge ==
  /\ \E age \in PurgeAges, include_failed \in BOOLEAN :
       cmd_purge(now - age, include_failed)
  /\ UNCHANGED <<now, submitted, worker_vars, crashes>>

\* A row waits for its release or for the end of its claim.
DeadlinePending ==
  \E t \in TaskIds :
    \/ InStatus(t, {"pending"}) /\ tasks[t].available_at # NULL
                                /\ tasks[t].available_at > now
    \/ InStatus(t, {"running"}) /\ tasks[t].claimed_until # NULL
                                /\ tasks[t].claimed_until > now

\* A finished row or a result is too young for some purge.
RetentionPending ==
  \E t \in TaskIds, age \in PurgeAges :
    \/ Settled(t) /\ tasks[t].finished_at # NULL /\ tasks[t].finished_at > now - age
    \/ HasResult(t) /\ results[t].stored_at > now - age

\* The clock runs on while some comparison with it can still come out differently.

Tick ==
  /\ now < MaxTime
  /\ DeadlinePending \/ RetentionPending
  /\ \A w \in Workers : seen[w] # NULL => now < seen[w] + MaxLag
  /\ Timely => \A w \in Workers : Live(w) => now + 1 < lease[w]
  /\ now' = now + 1
  /\ UNCHANGED <<tasks, results, submitted, worker_vars, crashes>>

-----------------------------------------------------------------------------
Step(w) ==
  \/ ReadClock(w) \/ Claim(w) \/ ClaimNothing(w) \/ Reclaim(w)
  \/ LookupFails(w) \/ Returns(w) \/ Raises(w) \/ PolicyRaises(w) \/ Requeue(w)
  \/ Store(w) \/ StoreRaises(w) \/ Settle(w)

Next ==
  \/ \E t \in TaskIds : Enqueue(t) \/ Replay(t)
  \/ \E w \in Workers : Step(w) \/ ClaimBusy(w) \/ Crash(w) \/ Start(w)
  \/ Purge
  \/ Tick

Spec == Init /\ [][Next]_vars

\* Nothing makes a producer enqueue, a process crash, an operator act or the
\* database refuse a lock.  A process that can run does; a lock that is asked
\* for again and again is granted some time; a dead process is started again;
\* and time passes.
Fairness ==
  /\ \A w \in Workers : /\ WF_vars(Step(w))
                        /\ SF_vars(Claim(w))
                        /\ WF_vars(Start(w))
  /\ WF_vars(Tick)

LiveSpec == Spec /\ Fairness
=============================================================================
