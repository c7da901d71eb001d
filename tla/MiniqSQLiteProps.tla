-------------------------- MODULE MiniqSQLiteProps --------------------------
(***************************************************************************)
(* The properties of the SQLite deployment, and the refinement mapping to  *)
(* the delivery contract.                                                  *)
(***************************************************************************)
EXTENDS MiniqSQLite

Finished(c) == c.status \in Terminal /\ c.finished_at # NULL

\* Every variable holds what the tables' schema and the Task object allow; a
\* worker holds a copy and a lease exactly while it works on a task, and what it is
\* about to store or settle is a finished one.
TypeOK ==
  /\ QueueTypeOK
  /\ ResultsTypeOK
  /\ now \in Times
  /\ submitted \subseteq TaskIds
  /\ pc \in [Workers -> Polling \cup Holding \cup {"down"}]
  /\ seen \in [Workers -> MaybeTime]
  /\ copy \in [Workers -> TaskCopy \cup {NULL}]
  /\ lease \in [Workers -> MaybeTime]
  /\ crashes \in Nat
  /\ \A w \in Workers : /\ Live(w) <=> copy[w] # NULL
                        /\ Live(w) <=> lease[w] # NULL
                        /\ seen[w] # NULL => pc[w] \in Polling
                        /\ pc[w] \in {"store", "settle"} => Finished(copy[w])

\* The claimed_until column is set exactly on RUNNING rows.  A RUNNING row
\* without it would never be reclaimed (_reclaim_expired skips NULL), a
\* PENDING row with it would carry the deadline of a dead claim.  Every
\* writer of the table (claim, reclaim, ack, nack, replay) must agree, in
\* any order, the late ones included.
ClaimHasDeadline ==
  \A t \in TaskIds :
    HasRow(t) => (tasks[t].status = "running" <=> tasks[t].claimed_until # NULL)

\* No row and no Task object ever shows more retries than max_retries, even
\* when an expired claim is executed twice and both executions fail: the
\* counter is copied, incremented and written back by id.
RetriesWithinLimit ==
  /\ \A t \in TaskIds :
       HasRow(t) => tasks[t].retries = 0 \/ tasks[t].retries <= MaxRetries[t]
  /\ \A w \in Workers :
       Live(w) => \/ copy[w].retries = 0
                  \/ copy[w].retries <= MaxRetries[copy[w].id]

\* A finished task always has a stored result: store comes before ack and
\* before nack(requeue=False), so whoever waits on the AsyncResult is served.
SettledHasResult ==
  \A t \in TaskIds : Settled(t) => HasResult(t)

\* A finished row and the stored result tell the same story (status, error,
\* finish time): 'miniq status' and AsyncResult.get agree.  Two tables are
\* written in two transactions, with crashes and re-executions in between.
ResultMatchesRow ==
  \A t \in TaskIds : Settled(t) =>
    /\ HasResult(t)
    /\ results[t].status = tasks[t].status
    /\ results[t].error = tasks[t].error
    /\ results[t].finished_at = tasks[t].finished_at

\* No two live workers work on the same task at the same time.
ExclusiveClaims ==
  \A v, w \in Workers :
    v # w /\ Live(v) /\ Live(w) => copy[v].id # copy[w].id

\* A task that waits or runs carries no trace of an earlier life: no error
\* and no finish time.  requeue, reclaim and claim leave both columns alone,
\* and _row_to_task copies them into the next Task object, so a success would
\* be stored with the error of a failure.
ActiveRowsClean ==
  \A t \in TaskIds :
    Active(t) => tasks[t].error = NULL /\ tasks[t].finished_at = NULL

\* A task is in the dead-letter queue only when its retries are spent, the
\* policy could decline the next one, or its function is unknown to a worker.
DeadLettersAreFinal ==
  \A t \in TaskIds : InStatus(t, {"failed"}) =>
    \/ tasks[t].retries >= MaxRetries[t]
    \/ NULL \in Delays(tasks[t].retries + 1)
    \/ /\ tasks[t].error = "not_registered"
       /\ \E w \in Workers : t \notin Registered[w]

-----------------------------------------------------------------------------
Unexpired(t) ==
  InStatus(t, {"running"}) /\ tasks[t].claimed_until # NULL
                           /\ tasks[t].claimed_until > now

\* Whatever the delays of the clock readings, a claim that has not expired
\* goes back to PENDING only through the nack of a worker that holds the task:
\* no poll of another worker takes it away.
PollsRespectClaims ==
  [][\A t \in TaskIds :
       Unexpired(t) /\ InStatus(t, {"pending"})'
         => \E w \in Workers : pc[w] = "requeue" /\ Holds(w, t)]_vars

-----------------------------------------------------------------------------
(* The refinement mapping.                                                 *)

PhaseOf(t) ==
  IF ~HasRow(t) THEN IF t \in submitted THEN "purged" ELSE "absent"
  ELSE IF tasks[t].status = "pending" THEN "queued"
  ELSE IF tasks[t].status = "running" THEN "claimed"
  ELSE IF tasks[t].status = "success" THEN "done" ELSE "dead"

HolderOf(t) ==
  IF \E w \in Workers : Holds(w, t)
  THEN CHOOSE w \in Workers : Holds(w, t)
  ELSE NULL

TriesOf(t) == IF HasRow(t) THEN tasks[t].retries ELSE 0

Contract == INSTANCE DeliveryContract WITH
  NoWorker <- NULL,
  Budget   <- MaxRetries,
  phase    <- [t \in TaskIds |-> PhaseOf(t)],
  holder   <- [t \in TaskIds |-> HolderOf(t)],
  tries    <- [t \in TaskIds |-> TriesOf(t)]

\* When live workers settle in time, the deployment implements the
\* concurrency contract of the queue interface.
RefinesContract == Contract!Spec

-----------------------------------------------------------------------------
\* When live workers settle in time, every enqueued task ends up finished,
\* whatever fails, is retried or crashes on the way, and stays finished.
EveryTaskSettles ==
  \A t \in TaskIds : t \in submitted ~> [](Settled(t))

-----------------------------------------------------------------------------
(* What the documentation says and the code does not do.                   *)

\* queue/base.py:10: a claimed task is not visible to another worker until
\* its holder acks or nacks it or its visibility timeout expires.  So two
\* live workers never hold the same task inside both their windows.
ClaimWindowRespected ==
  \A v, w \in Workers : \A t \in TaskIds :
    v # w /\ Holds(v, t) /\ Holds(w, t) => lease[v] <= now \/ lease[w] <= now

\* README.md:145: an expired claim "becomes claimable again on the next
\* dequeue call".  So a claim never passes over an expired task that comes
\* first by priority and age.
ExpiredIsClaimable ==
  [][\A w \in Workers : ~Live(w) /\ Live(w)' =>
       \A u \in TaskIds : Expired(u, seen[w]) => ~Outranks(u, copy'[w].id)]_vars
=============================================================================
