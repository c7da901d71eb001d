------------------------- MODULE MiniqSQLite_proofs -------------------------
(***************************************************************************)
(* Proofs about the SQLite deployment, for every set of tasks and workers, *)
(* every timeout, retry policy, priority and bound.                        *)
(***************************************************************************)
EXTENDS MiniqSQLiteProps, TLAPS

-----------------------------------------------------------------------------
(* Typing of the operators the actions are built from.                     *)

\* The UPDATEs of ack and nack produce rows, whatever the Task object holds.
LEMMA UpdatedRowType ==
  ASSUME NEW r \in Row, NEW c \in TaskCopy
  PROVE  settled_row(r, c) \in Row /\ requeued_row(r, c) \in Row
BY DEF settled_row, requeued_row, Row, TaskCopy, TaskStatus, MaybeTime

\* ack and nack keep the table well typed.
LEMMA SettlementType ==
  ASSUME QueueTypeOK, NEW c \in TaskCopy, NEW requeue \in BOOLEAN,
         ack(c) \/ nack(c, requeue)
  PROVE  QueueTypeOK'
<1>1. c.id \in TaskIds
  BY DEF TaskCopy
<1>2. CASE ~HasRow(c.id)
  BY <1>2 DEF ack, nack, update_row, QueueTypeOK
<1>3. CASE HasRow(c.id)
  <2>1. tasks[c.id] \in Row
    BY <1>1, <1>3 DEF HasRow, QueueTypeOK
  <2>2. settled_row(tasks[c.id], c) \in Row /\ requeued_row(tasks[c.id], c) \in Row
    BY <2>1, UpdatedRowType
  <2> QED
    BY <1>1, <1>3, <2>2 DEF ack, nack, update_row, QueueTypeOK
<1> QED
  BY <1>2, <1>3

\* A claim produces a row and a Task object.
LEMMA ClaimType ==
  ASSUME QueueTypeOK, NEW time \in Times, NEW t \in FirstInLine(time),
         NEW until \in Times, claim_row(t, until)
  PROVE  QueueTypeOK' /\ row_to_task(t) \in TaskCopy
<1>1. t \in TaskIds /\ HasRow(t)
  BY DEF FirstInLine, Claimable, InStatus
<1>2. tasks[t] \in Row
  BY <1>1 DEF HasRow, QueueTypeOK
<1>3. row_to_task(t) \in TaskCopy
  BY <1>1, <1>2 DEF row_to_task, Row, TaskCopy, TaskStatus
<1>4. [tasks[t] EXCEPT !.status = "running", !.claimed_until = until] \in Row
  BY <1>2 DEF Row, TaskStatus, MaybeTime
<1>5. QueueTypeOK'
  BY <1>1, <1>4 DEF claim_row, QueueTypeOK
<1> QED
  BY <1>3, <1>5

\* Reclaiming turns rows into rows.
LEMMA ReclaimType ==
  ASSUME QueueTypeOK, NEW time \in Times, reclaim_expired(time)
  PROVE  QueueTypeOK'
<1>1. ASSUME NEW t \in TaskIds, Expired(t, time)
      PROVE  reclaimed_row(tasks[t]) \in Row
  <2>1. tasks[t] \in Row
    BY <1>1 DEF Expired, InStatus, HasRow, QueueTypeOK
  <2> QED
    BY <2>1 DEF reclaimed_row, Row, TaskStatus, MaybeTime
<1> QED
  BY <1>1 DEF reclaim_expired, QueueTypeOK

\* What mark_success, mark_failed and the retry branch make of a Task object.
LEMMA MarkedCopyType ==
  ASSUME NEW c \in TaskCopy, NEW time \in Times, NEW delay \in Times
  PROVE  /\ mark_success(c, time) \in TaskCopy
         /\ \A e \in Errors : mark_failed(c, e, time) \in TaskCopy
         /\ retried(c, delay, time) \in TaskCopy
<1>1. mark_success(c, time) \in TaskCopy
  BY DEF mark_success, TaskCopy, TaskStatus, MaybeTime
<1>2. ASSUME NEW e \in Errors PROVE mark_failed(c, e, time) \in TaskCopy
  BY DEF mark_failed, TaskCopy, TaskStatus, MaybeTime, MaybeError
<1>3. retried(c, delay, time) \in TaskCopy
  <2>1. c.retries + 1 \in Nat
    BY DEF TaskCopy
  <2>2. time + delay \in MaybeTime
    BY DEF MaybeTime, Times
  <2> QED
    BY <2>1, <2>2 DEF retried, counted, postponed, TaskCopy
<1> QED
  BY <1>1, <1>2, <1>3

\* store writes a result row.
LEMMA StoreType ==
  ASSUME ResultsTypeOK, NEW c \in TaskCopy, NEW time \in Times, store(c, time)
  PROVE  ResultsTypeOK'
<1>1. ResultOf(c, time) \in Result
  BY DEF ResultOf, Result, TaskCopy
<1> QED
  BY <1>1 DEF store, ResultsTypeOK, TaskCopy

\* Replay and purge keep both tables well typed.
LEMMA CliType ==
  ASSUME QueueTypeOK, ResultsTypeOK
  PROVE  /\ \A t \in TaskIds : cmd_dlq_replay(t) => QueueTypeOK' /\ ResultsTypeOK'
         /\ \A cutoff, include_failed :
              cmd_purge(cutoff, include_failed) => QueueTypeOK' /\ ResultsTypeOK'
<1>1. ASSUME NEW t \in TaskIds, cmd_dlq_replay(t)
      PROVE  QueueTypeOK' /\ ResultsTypeOK'
  <2>1. replayed_row \in Row
    BY DEF replayed_row, Row, TaskStatus, MaybeTime, MaybeError
  <2> QED
    BY <1>1, <2>1 DEF cmd_dlq_replay, QueueTypeOK, ResultsTypeOK
<1>2. ASSUME NEW cutoff, NEW include_failed, cmd_purge(cutoff, include_failed)
      PROVE  QueueTypeOK' /\ ResultsTypeOK'
  BY <1>2 DEF cmd_purge, QueueTypeOK, ResultsTypeOK
<1> QED
  BY <1>1, <1>2

\* enqueue inserts a row.
LEMMA EnqueueType ==
  ASSUME QueueTypeOK, NEW t \in TaskIds, NEW available \in MaybeTime,
         enqueue(t, available)
  PROVE  QueueTypeOK'
<1>1. [status |-> "pending", retries |-> 0, available_at |-> available,
       claimed_until |-> NULL, finished_at |-> NULL, error |-> NULL] \in Row
  BY DEF Row, TaskStatus, MaybeTime, MaybeError
<1> QED
  BY <1>1 DEF enqueue, QueueTypeOK

-----------------------------------------------------------------------------
(* Type correctness.                                                       *)

\* The part of TypeOK that a worker's own variables make up.
WorkersTypeOK ==
  /\ pc \in [Workers -> Polling \cup Holding \cup {"down"}]
  /\ seen \in [Workers -> MaybeTime]
  /\ copy \in [Workers -> TaskCopy \cup {NULL}]
  /\ lease \in [Workers -> MaybeTime]
  /\ \A w \in Workers : /\ Live(w) <=> copy[w] # NULL
                        /\ Live(w) <=> lease[w] # NULL
                        /\ seen[w] # NULL => pc[w] \in Polling
                        /\ pc[w] \in {"store", "settle"} => Finished(copy[w])

\* A worker that holds a task holds a Task object and a deadline.
LEMMA HolderType ==
  ASSUME TypeOK, NEW w \in Workers, Live(w)
  PROVE  copy[w] \in TaskCopy /\ copy[w].id \in TaskIds /\ lease[w] \in Times
BY DEF TypeOK, TaskCopy, MaybeTime

\* What a worker is about to store carries its finish time.
LEMMA FinishedWhenStored ==
  ASSUME TypeOK, NEW w \in Workers, pc[w] = "store"
  PROVE  copy[w].finished_at \in Times
<1>1. copy[w] \in TaskCopy /\ copy[w].finished_at # NULL
  BY HolderType DEF TypeOK, Live, Holding, Finished
<1> QED
  BY <1>1 DEF TaskCopy, MaybeTime

\* A retry policy answers with a delay or declines, unless it raises.
LEMMA DelaysGiven ==
  ASSUME NEW c \in TaskCopy
  PROVE  next_delays(c) \ {PolicyError} \subseteq Times \cup {NULL}
<1>1. CASE MayRetry(c)
  <2>1. c.id \in TaskIds /\ c.retries + 1 \in 1..MaxRetries[c.id]
    BY <1>1, TaskAssumption DEF MayRetry, TaskCopy
  <2> QED
    BY <1>1, <2>1, DelaysAssumption DEF next_delays
<1>2. CASE ~MayRetry(c)
  BY <1>2 DEF next_delays
<1> QED
  BY <1>1, <1>2

\* The initial state is well typed.
LEMMA TypeInit == Init => TypeOK
<1> SUFFICES ASSUME Init PROVE TypeOK
  OBVIOUS
<1>1. QueueTypeOK /\ ResultsTypeOK
  BY DEF Init, QueueInit, ResultsInit, QueueTypeOK, ResultsTypeOK
<1>2. WorkersTypeOK
  BY DEF Init, WorkersTypeOK, Live, Polling, Holding, MaybeTime
<1> QED
  BY <1>1, <1>2 DEF Init, TypeOK, WorkersTypeOK, Times

\* Every step keeps the types.
LEMMA TypeStep == TypeOK /\ [Next]_vars => TypeOK'
<1> SUFFICES ASSUME TypeOK, [Next]_vars PROVE TypeOK'
  OBVIOUS
<1> USE DEF worker_vars
<1>1. ASSUME NEW t \in TaskIds, Enqueue(t) PROVE TypeOK'
  <2>1. PICK d \in ScheduleDelays : enqueue(t, IF d = NULL THEN NULL ELSE now + d)
    BY <1>1 DEF Enqueue
  <2>2. (IF d = NULL THEN NULL ELSE now + d) \in MaybeTime
    BY DeploymentAssumption DEF TypeOK, MaybeTime, Times
  <2>3. QueueTypeOK'
    BY <2>1, <2>2, EnqueueType DEF TypeOK
  <2> QED
    BY <1>1, <2>3 DEF Enqueue, TypeOK, ResultsTypeOK, Live
<1>2. ASSUME NEW w \in Workers, ReadClock(w) PROVE TypeOK'
  BY <1>2 DEF ReadClock, TypeOK, QueueTypeOK, ResultsTypeOK, Live, MaybeTime
<1>3. ASSUME NEW w \in Workers, Claim(w) PROVE TypeOK'
  <2>1. PICK t \in FirstInLine(seen[w]) :
          /\ claim_row(t, seen[w] + VT)
          /\ copy' = [copy EXCEPT ![w] = row_to_task(t)]
    BY <1>3 DEF Claim
  <2>2. seen[w] \in Times /\ seen[w] + VT \in Times
    BY <1>3, DeploymentAssumption DEF Claim, TypeOK, MaybeTime, Times
  <2>3. QueueTypeOK' /\ row_to_task(t) \in TaskCopy
    BY <2>1, <2>2, ClaimType DEF TypeOK
  <2>4. NULL # seen[w] + VT /\ NULL # row_to_task(t)
    BY <2>2, <2>3, TaskAssumption, CopyAssumption DEF Times
  <2>5. WorkersTypeOK'
    BY <1>3, <2>1, <2>2, <2>3, <2>4
       DEF Claim, Claiming, TypeOK, WorkersTypeOK, Live, Polling, Holding, MaybeTime
  <2> QED
    BY <1>3, <2>3, <2>5 DEF Claim, TypeOK, WorkersTypeOK, ResultsTypeOK
<1>4. ASSUME NEW w \in Workers, ClaimNothing(w) \/ ClaimBusy(w) PROVE TypeOK'
  <2>1. WorkersTypeOK'
    BY <1>4 DEF ClaimNothing, ClaimBusy, Claiming, AfterFailedClaim, TypeOK,
                WorkersTypeOK, Live, Polling, Holding, MaybeTime
  <2> QED
    BY <1>4, <2>1 DEF ClaimNothing, ClaimBusy, TypeOK, WorkersTypeOK,
                      QueueTypeOK, ResultsTypeOK
<1>5. ASSUME NEW w \in Workers, Reclaim(w) PROVE TypeOK'
  <2>1. seen[w] \in Times
    BY <1>5 DEF Reclaim, TypeOK, MaybeTime
  <2>2. QueueTypeOK'
    BY <1>5, <2>1, ReclaimType DEF Reclaim, TypeOK
  <2>3. WorkersTypeOK'
    BY <1>5 DEF Reclaim, TypeOK, WorkersTypeOK, Live, Polling, Holding, MaybeTime
  <2> QED
    BY <1>5, <2>2, <2>3 DEF Reclaim, TypeOK, WorkersTypeOK, ResultsTypeOK
<1>6. ASSUME NEW w \in Workers, LookupFails(w) \/ Returns(w) \/ Raises(w)
      PROVE  TypeOK'
  <2>1. Live(w) /\ pc[w] = "execute"
    BY <1>6 DEF LookupFails, Returns, Raises, Live, Holding
  <2>2. copy[w] \in TaskCopy
    BY <2>1, HolderType
  <2>3. /\ copy' \in [Workers -> TaskCopy \cup {NULL}]
        /\ copy'[w] # NULL
        /\ \A v \in Workers \ {w} : copy'[v] = copy[v]
        /\ pc'[w] = "store" => Finished(copy'[w])
        /\ pc'[w] \in {"store", "requeue"}
    <3>1. CASE LookupFails(w)
      <4>1. mark_failed(copy[w], "not_registered", now) \in TaskCopy
        BY <2>2, MarkedCopyType DEF Errors, TypeOK, Times
      <4>2. Finished(mark_failed(copy[w], "not_registered", now))
        BY <2>2, TaskAssumption DEF Finished, mark_failed, Terminal, TaskCopy, TypeOK, Times
      <4> QED
        BY <3>1, <4>1, <4>2, CopyAssumption DEF LookupFails, TypeOK
    <3>2. CASE Returns(w)
      <4>1. mark_success(copy[w], now) \in TaskCopy
        BY <2>2, MarkedCopyType DEF TypeOK, Times
      <4>2. Finished(mark_success(copy[w], now))
        BY <2>2, TaskAssumption DEF Finished, mark_success, Terminal, TaskCopy, TypeOK, Times
      <4> QED
        BY <3>2, <4>1, <4>2, CopyAssumption DEF Returns, TypeOK
    <3>3. CASE Raises(w)
      <4>1. PICK delay \in next_delays(copy[w]) \ {PolicyError} :
              IF delay # NULL
              THEN /\ copy' = [copy EXCEPT ![w] = retried(@, delay, now)]
                   /\ pc' = [pc EXCEPT ![w] = "requeue"]
              ELSE /\ copy' = [copy EXCEPT ![w] = mark_failed(@, "raised", now)]
                   /\ pc' = [pc EXCEPT ![w] = "store"]
        BY <3>3 DEF Raises
      <4>2. delay \in Times \cup {NULL}
        BY <2>2, DelaysGiven
      <4>3. CASE delay = NULL
        <5>1. mark_failed(copy[w], "raised", now) \in TaskCopy
          BY <2>2, MarkedCopyType DEF Errors, TypeOK, Times
        <5>2. Finished(mark_failed(copy[w], "raised", now))
          BY <2>2, TaskAssumption DEF Finished, mark_failed, Terminal, TaskCopy, TypeOK, Times
        <5> QED
          BY <4>1, <4>3, <5>1, <5>2, CopyAssumption DEF TypeOK
      <4>4. CASE delay # NULL
        <5>1. retried(copy[w], delay, now) \in TaskCopy
          BY <2>2, <4>2, <4>4, MarkedCopyType DEF TypeOK
        <5> QED
          BY <4>1, <4>4, <5>1, CopyAssumption DEF TypeOK
      <4> QED
        BY <4>3, <4>4
    <3> QED
      BY <1>6, <3>1, <3>2, <3>3
  <2>4. pc' \in [Workers -> Polling \cup Holding \cup {"down"}]
    BY <1>6 DEF LookupFails, Returns, Raises, TypeOK, Holding
  <2>5. pc'[w] \in Holding /\ pc'[w] # "settle" /\ \A v \in Workers \ {w} : pc'[v] = pc[v]
    BY <1>6 DEF LookupFails, Returns, Raises, TypeOK, Holding
  <2>6. seen' = seen /\ lease' = lease
    BY <1>6 DEF LookupFails, Returns, Raises
  <2>7. seen[w] = NULL
    BY <2>1 DEF TypeOK, Polling
  <2>8. WorkersTypeOK'
    <3>1. ASSUME NEW v \in Workers
          PROVE /\ Live(v)' <=> copy'[v] # NULL
                /\ Live(v)' <=> lease'[v] # NULL
                /\ seen'[v] # NULL => pc'[v] \in Polling
                /\ pc'[v] \in {"store", "settle"} => Finished(copy'[v])
      BY <2>1, <2>3, <2>5, <2>6, <2>7 DEF TypeOK, Live
    <3> QED
      BY <2>3, <2>4, <2>6, <3>1 DEF TypeOK, WorkersTypeOK
  <2> QED
    BY <1>6, <2>8 DEF LookupFails, Returns, Raises, TypeOK, WorkersTypeOK,
                      QueueTypeOK, ResultsTypeOK
<1>7. ASSUME NEW w \in Workers, Requeue(w) \/ Settle(w) PROVE TypeOK'
  <2>1. Live(w) /\ pc[w] \in {"requeue", "settle"}
    BY <1>7 DEF Requeue, Settle, Live, Holding
  <2>2. copy[w] \in TaskCopy
    BY <2>1, HolderType
  <2>3. QueueTypeOK'
    BY <1>7, <2>2, SettlementType DEF Requeue, Settle, TypeOK
  <2>4. WorkersTypeOK'
    BY <1>7 DEF Requeue, Settle, Release, TypeOK, WorkersTypeOK, Live, Polling,
                Holding, MaybeTime
  <2> QED
    BY <1>7, <2>3, <2>4 DEF Requeue, Settle, TypeOK, WorkersTypeOK, ResultsTypeOK
<1>8. ASSUME NEW w \in Workers, Store(w) PROVE TypeOK'
  <2>1. Live(w)
    BY <1>8 DEF Store, Live, Holding
  <2>2. PICK at \in StampsOf(copy[w]) : store(copy[w], at)
    BY <1>8 DEF Store
  <2>3. copy[w] \in TaskCopy
    BY <2>1, HolderType
  <2>4. at \in Times
    <3>1. pc[w] = "store"
      BY <1>8 DEF Store
    <3>2. copy[w].finished_at \in Nat
      BY <3>1, FinishedWhenStored DEF Times
    <3> QED
      BY <2>2, <3>2 DEF StampsOf, Times, TypeOK
  <2>5. ResultsTypeOK'
    BY <2>2, <2>3, <2>4, StoreType DEF TypeOK
  <2>6. WorkersTypeOK'
    BY <1>8 DEF Store, TypeOK, WorkersTypeOK, Live, Polling, Holding
  <2> QED
    BY <1>8, <2>5, <2>6 DEF Store, TypeOK, WorkersTypeOK, QueueTypeOK
<1>9. ASSUME NEW w \in Workers, StoreRaises(w) \/ PolicyRaises(w) \/ Crash(w) \/ Start(w) PROVE TypeOK'
  <2>1. WorkersTypeOK'
    BY <1>9 DEF StoreRaises, PolicyRaises, Crash, Start, Release, TypeOK, WorkersTypeOK, Live,
                Polling, Holding, MaybeTime
  <2>2. crashes' \in Nat
    BY <1>9 DEF StoreRaises, PolicyRaises, Crash, Start, TypeOK
  <2> QED
    BY <1>9, <2>1, <2>2 DEF StoreRaises, PolicyRaises, Crash, Start, TypeOK, WorkersTypeOK,
                            QueueTypeOK, ResultsTypeOK
<1>10. ASSUME (\E t \in TaskIds : Replay(t)) \/ Purge PROVE TypeOK'
  <2>1. QueueTypeOK' /\ ResultsTypeOK'
    BY <1>10, CliType DEF Replay, Purge, TypeOK
  <2> QED
    BY <1>10, <2>1 DEF Replay, Purge, TypeOK, Live
<1>11. CASE Tick
  BY <1>11 DEF Tick, TypeOK, QueueTypeOK, ResultsTypeOK, Live, Times
<1>12. CASE UNCHANGED vars
  BY <1>12 DEF vars, TypeOK, QueueTypeOK, ResultsTypeOK, Live
<1> QED
  BY <1>1, <1>2, <1>3, <1>4, <1>5, <1>6, <1>7, <1>8, <1>9, <1>10, <1>11, <1>12
     DEF Next, Step

\* TypeOK holds in every reachable state of every deployment.
THEOREM TypeCorrect == Spec => []TypeOK
BY TypeInit, TypeStep, PTL DEF Spec

-----------------------------------------------------------------------------
(* What a step may do to one row of the table.                             *)

FreshRow(r) ==
  /\ r \in Row
  /\ r.status = "pending" /\ r.retries = 0 /\ r.claimed_until = NULL
  /\ r.error = NULL /\ r.finished_at = NULL

ClaimedBy(w, t) ==
  /\ Claim(w)
  /\ InStatus(t, {"pending"})
  /\ copy' = [copy EXCEPT ![w] = row_to_task(t)]
  /\ tasks'[t] = [tasks[t] EXCEPT !.status = "running", !.claimed_until = seen[w] + VT]

ReclaimedBy(w, t) ==
  /\ Reclaim(w)
  /\ Expired(t, seen[w])
  /\ tasks'[t] = reclaimed_row(tasks[t])

RequeuedBy(w, t) ==
  /\ Requeue(w)
  /\ Holds(w, t) /\ HasRow(t)
  /\ tasks'[t] = requeued_row(tasks[t], copy[w])

SettledBy(w, t) ==
  /\ Settle(w)
  /\ Holds(w, t) /\ HasRow(t) /\ Finished(copy[w])
  /\ tasks'[t] = settled_row(tasks[t], copy[w])

RowStep(t) ==
  \/ tasks'[t] = tasks[t]
  \/ tasks'[t] = NULL /\ Settled(t) /\ Purge
  \/ /\ FreshRow(tasks'[t]) /\ t \in submitted'
     /\ HasRow(t) => Settled(t) /\ Replay(t)
  \/ \E w \in Workers : \/ ClaimedBy(w, t) \/ ReclaimedBy(w, t)
                        \/ RequeuedBy(w, t) \/ SettledBy(w, t)

\* A row without an INSERT before it exists for submitted tasks only.
SubmittedRows == \A t \in TaskIds : HasRow(t) => t \in submitted

\* A row is left alone, inserted, replayed, purged, claimed, reclaimed, or
\* written by a worker that holds its task; nothing else happens to it.
LEMMA RowSteps ==
  ASSUME TypeOK, SubmittedRows, [Next]_vars, NEW t \in TaskIds
  PROVE  RowStep(t)
<1> USE DEF worker_vars
<1>1. ASSUME NEW u \in TaskIds, Enqueue(u) PROVE RowStep(t)
  <2>1. PICK d \in ScheduleDelays : enqueue(u, IF d = NULL THEN NULL ELSE now + d)
    BY <1>1 DEF Enqueue
  <2>2. (IF d = NULL THEN NULL ELSE now + d) \in MaybeTime
    BY DeploymentAssumption DEF TypeOK, MaybeTime, Times
  <2>3. CASE t = u
    <3>1. ~HasRow(t)
      BY <1>1, <2>3 DEF Enqueue, SubmittedRows
    <3>2. FreshRow(tasks'[t])
      BY <2>1, <2>2, <2>3 DEF enqueue, FreshRow, Row, TaskStatus, MaybeTime,
                              MaybeError, TypeOK, QueueTypeOK
    <3> QED
      BY <1>1, <2>3, <3>1, <3>2 DEF RowStep, Enqueue
  <2>4. CASE t # u
    BY <2>1, <2>4 DEF enqueue, RowStep, TypeOK, QueueTypeOK
  <2> QED
    BY <2>3, <2>4
<1>2. ASSUME NEW w \in Workers, Claim(w) PROVE RowStep(t)
  <2>1. PICK u \in FirstInLine(seen[w]) :
          /\ claim_row(u, seen[w] + VT)
          /\ copy' = [copy EXCEPT ![w] = row_to_task(u)]
    BY <1>2 DEF Claim
  <2>2. u \in TaskIds /\ InStatus(u, {"pending"})
    BY DEF FirstInLine, Claimable
  <2>3. CASE t = u
    BY <1>2, <2>1, <2>2, <2>3 DEF claim_row, ClaimedBy, RowStep, TypeOK, QueueTypeOK
  <2>4. CASE t # u
    BY <2>1, <2>4 DEF claim_row, RowStep, TypeOK, QueueTypeOK
  <2> QED
    BY <2>3, <2>4
<1>3. ASSUME NEW w \in Workers, Reclaim(w) PROVE RowStep(t)
  BY <1>3 DEF Reclaim, reclaim_expired, ReclaimedBy, RowStep
<1>4. ASSUME NEW w \in Workers, Requeue(w) PROVE RowStep(t)
  <2>1. Live(w)
    BY <1>4 DEF Requeue, Live, Holding
  <2>2. CASE copy[w].id = t /\ HasRow(t)
    BY <1>4, <2>1, <2>2 DEF Requeue, nack, update_row, RequeuedBy, RowStep, Holds,
                            TypeOK, QueueTypeOK
  <2>3. CASE ~(copy[w].id = t /\ HasRow(t))
    BY <1>4, <2>3 DEF Requeue, nack, update_row, RowStep, TypeOK, QueueTypeOK
  <2> QED
    BY <2>2, <2>3
<1>5. ASSUME NEW w \in Workers, Settle(w) PROVE RowStep(t)
  <2>1. Live(w) /\ Finished(copy[w])
    BY <1>5 DEF Settle, Live, Holding, TypeOK
  <2>2. CASE copy[w].id = t /\ HasRow(t)
    BY <1>5, <2>1, <2>2 DEF Settle, ack, nack, update_row, SettledBy, RowStep,
                            Holds, TypeOK, QueueTypeOK
  <2>3. CASE ~(copy[w].id = t /\ HasRow(t))
    BY <1>5, <2>3 DEF Settle, ack, nack, update_row, RowStep, TypeOK, QueueTypeOK
  <2> QED
    BY <2>2, <2>3
<1>6. ASSUME NEW u \in TaskIds, Replay(u) PROVE RowStep(t)
  <2>1. CASE t = u
    <3>1. FreshRow(tasks'[t])
      BY <1>6, <2>1 DEF Replay, cmd_dlq_replay, replayed_row, FreshRow, Row,
           TaskStatus, MaybeTime, MaybeError, TypeOK, QueueTypeOK
    <3>2. Settled(t)
      BY <1>6, <2>1 DEF Replay, cmd_dlq_replay, Replayable, Settled, Terminal, InStatus
    <3>3. t \in submitted'
      BY <1>6, <3>2 DEF Replay, SubmittedRows, Settled, InStatus
    <3> QED
      BY <1>6, <2>1, <3>1, <3>2, <3>3 DEF RowStep
  <2>2. CASE t # u
    BY <1>6, <2>2 DEF Replay, cmd_dlq_replay, RowStep, TypeOK, QueueTypeOK
  <2> QED
    BY <2>1, <2>2
<1>7. CASE Purge
  BY <1>7 DEF Purge, cmd_purge, PurgedStatuses, TaskPurged, Settled, Terminal,
              InStatus, RowStep
<1>8. CASE UNCHANGED tasks
  BY <1>8 DEF RowStep
<1>9. ASSUME NEW w \in Workers,
             \/ ReadClock(w) \/ ClaimNothing(w) \/ ClaimBusy(w) \/ LookupFails(w)
             \/ Returns(w) \/ Raises(w) \/ Store(w) \/ StoreRaises(w) \/ PolicyRaises(w)
             \/ Crash(w) \/ Start(w)
      PROVE  UNCHANGED tasks
  BY <1>9 DEF ReadClock, ClaimNothing, ClaimBusy, LookupFails, Returns, Raises,
              Store, StoreRaises, PolicyRaises, Crash, Start
<1>10. Tick \/ UNCHANGED vars => UNCHANGED tasks
  BY DEF Tick, vars
<1> QED
  BY <1>1, <1>2, <1>3, <1>4, <1>5, <1>6, <1>7, <1>8, <1>9, <1>10 DEF Next, Step

\* A worker holds a task after a step because it held it before, or claimed it.
LEMMA CopySteps ==
  ASSUME TypeOK, [Next]_vars, NEW w \in Workers, Live(w)'
  PROVE  \/ Claim(w)
         \/ /\ Live(w) /\ lease'[w] = lease[w] /\ copy'[w].id = copy[w].id
            /\ \/ copy'[w] = copy[w] /\ pc'[w] \in {pc[w], "settle"}
               \/ LookupFails(w) \/ Returns(w) \/ Raises(w)
<1> USE DEF worker_vars
<1>1. CASE UNCHANGED <<pc, copy, lease>>
  BY <1>1 DEF Live
<1>2. ASSUME NEW v \in Workers, v # w,
             Step(v) \/ ClaimBusy(v) \/ Crash(v) \/ Start(v)
      PROVE  pc'[w] = pc[w] /\ copy'[w] = copy[w] /\ lease'[w] = lease[w]
  BY <1>2 DEF Step, ReadClock, Claim, ClaimNothing, ClaimBusy, Reclaim, LookupFails,
              Returns, Raises, Requeue, Store, StoreRaises, PolicyRaises, Settle, Crash, Start,
              Release, TypeOK
<1>3. CASE \/ ReadClock(w) \/ ClaimNothing(w) \/ ClaimBusy(w) \/ Reclaim(w)
           \/ Requeue(w) \/ StoreRaises(w) \/ PolicyRaises(w) \/ Settle(w) \/ Crash(w) \/ Start(w)
  <2>1. pc'[w] \notin Holding
    BY <1>3 DEF ReadClock, ClaimNothing, ClaimBusy, Reclaim, Requeue, StoreRaises, PolicyRaises,
                Settle, Crash, Start, Polling, Holding, AfterFailedClaim, TypeOK
  <2> QED
    BY <2>1 DEF Live
<1>4. CASE Store(w)
  BY <1>4 DEF Store, Live, Holding
<1>5. CASE LookupFails(w) \/ Returns(w) \/ Raises(w)
  <2>1. Live(w) /\ lease' = lease
    BY <1>5 DEF LookupFails, Returns, Raises, Live, Holding
  <2>2. copy[w] \in TaskCopy
    BY <2>1, HolderType
  <2>3. PICK c : /\ copy'[w] = c
                 /\ \/ \E e, time : c = mark_failed(copy[w], e, time)
                    \/ \E time : c = mark_success(copy[w], time)
                    \/ \E delay, time : c = retried(copy[w], delay, time)
    BY <1>5 DEF LookupFails, Returns, Raises, TypeOK
  <2>4. copy'[w].id = copy[w].id
    BY <2>2, <2>3 DEF mark_failed, mark_success, retried, counted, postponed, TaskCopy
  <2> QED
    BY <1>5, <2>1, <2>4
<1>6. \/ UNCHANGED <<pc, copy, lease>>
      \/ \E v \in Workers : Step(v) \/ ClaimBusy(v) \/ Crash(v) \/ Start(v)
  BY DEF Next, Enqueue, Replay, Purge, Tick, vars
<1> QED
  BY <1>1, <1>2, <1>3, <1>4, <1>5, <1>6 DEF Step, Live

\* At first there are no rows.
LEMMA SubmittedInit == Init => SubmittedRows
BY DEF Init, QueueInit, HasRow, SubmittedRows

\* Rows are created by enqueue, and only re-created by replay.
LEMMA SubmittedStep == TypeOK /\ SubmittedRows /\ [Next]_vars => SubmittedRows'
<1> SUFFICES ASSUME TypeOK, SubmittedRows, [Next]_vars,
                    NEW t \in TaskIds, HasRow(t)'
             PROVE  t \in submitted'
  BY DEF SubmittedRows
<1>1. submitted \subseteq submitted'
  BY DEF Next, Step, vars, worker_vars, Enqueue, Replay, ReadClock, Claim, ClaimNothing,
         ClaimBusy, Reclaim, LookupFails, Returns, Raises, Requeue, Store,
         StoreRaises, PolicyRaises, Settle, Crash, Start, Purge, Tick
<1>2. CASE HasRow(t)
  BY <1>1, <1>2 DEF SubmittedRows
<1>3. CASE ~HasRow(t)
  BY <1>3, RowSteps DEF RowStep, HasRow, ClaimedBy, ReclaimedBy, RequeuedBy, SettledBy,
                        InStatus, Expired, Settled
<1> QED
  BY <1>2, <1>3

-----------------------------------------------------------------------------
(* A deadline on every claim, and on nothing else.                         *)

DeadlineSet(r) == r.status = "running" <=> r.claimed_until # NULL

\* At first no row carries a deadline.
LEMMA DeadlineInit == Init => ClaimHasDeadline
BY DEF Init, QueueInit, HasRow, ClaimHasDeadline

\* Whoever writes a row sets status and deadline together.
LEMMA DeadlineStep ==
  TypeOK /\ SubmittedRows /\ ClaimHasDeadline /\ [Next]_vars => ClaimHasDeadline'
<1> SUFFICES ASSUME TypeOK, SubmittedRows, ClaimHasDeadline, [Next]_vars,
                    NEW t \in TaskIds, HasRow(t)'
             PROVE  DeadlineSet(tasks'[t])
  BY DEF ClaimHasDeadline, DeadlineSet, HasRow
<1>1. RowStep(t)
  BY RowSteps
<1>2. ASSUME tasks'[t] = tasks[t] PROVE DeadlineSet(tasks'[t])
  BY <1>2 DEF ClaimHasDeadline, DeadlineSet, HasRow
<1>3. ASSUME FreshRow(tasks'[t]) PROVE DeadlineSet(tasks'[t])
  BY <1>3 DEF FreshRow, DeadlineSet
<1>4. ASSUME NEW w \in Workers, ClaimedBy(w, t) PROVE DeadlineSet(tasks'[t])
  <2>1. tasks[t] \in Row
    BY <1>4 DEF ClaimedBy, InStatus, HasRow, TypeOK, QueueTypeOK
  <2>2. seen[w] + VT # NULL
    BY <1>4, TaskAssumption, DeploymentAssumption
       DEF ClaimedBy, Claim, TypeOK, MaybeTime, Times
  <2> QED
    BY <1>4, <2>1, <2>2 DEF ClaimedBy, DeadlineSet, Row
<1>5. ASSUME NEW w \in Workers,
             ReclaimedBy(w, t) \/ RequeuedBy(w, t) \/ SettledBy(w, t)
      PROVE  DeadlineSet(tasks'[t])
  <2>1. tasks[t] \in Row
    BY <1>5 DEF ReclaimedBy, RequeuedBy, SettledBy, Expired, InStatus, HasRow,
                TypeOK, QueueTypeOK
  <2> QED
    BY <1>5, <2>1 DEF ReclaimedBy, RequeuedBy, SettledBy, reclaimed_row,
       requeued_row, settled_row, Finished, Terminal, DeadlineSet, Row
<1> QED
  BY <1>1, <1>2, <1>3, <1>4, <1>5 DEF RowStep, HasRow

\* Every running row can be reclaimed, and no other row carries a deadline.
THEOREM DeadlineCorrect == Spec => []ClaimHasDeadline
<1>1. Init => TypeOK /\ SubmittedRows /\ ClaimHasDeadline
  BY TypeInit, SubmittedInit, DeadlineInit
<1>2. TypeOK /\ SubmittedRows /\ ClaimHasDeadline /\ [Next]_vars
        => TypeOK' /\ SubmittedRows' /\ ClaimHasDeadline'
  BY TypeStep, SubmittedStep, DeadlineStep
<1> QED
  BY <1>1, <1>2, PTL DEF Spec

-----------------------------------------------------------------------------
(* The retry budget.                                                       *)

WithinBudget(n, t) == n = 0 \/ n <= MaxRetries[t]

\* At first nothing counts retries.
LEMMA RetriesInit == Init => RetriesWithinLimit
BY DEF Init, QueueInit, HasRow, Live, Holding, RetriesWithinLimit

\* The branch of _handle_failure that retries stays within the budget.
LEMMA RetryWithinBudget ==
  ASSUME NEW c \in TaskCopy, NEW delay \in next_delays(c), delay # NULL, NEW time
  PROVE  WithinBudget(retried(c, delay, time).retries, c.id)
BY TaskAssumption DEF next_delays, MayRetry, retried, counted, postponed, TaskCopy, WithinBudget

\* Counters move by the guarded increment of _handle_failure, or start again at 0.
LEMMA RetriesStep ==
  TypeOK /\ SubmittedRows /\ RetriesWithinLimit /\ [Next]_vars
    => RetriesWithinLimit'
<1> SUFFICES ASSUME TypeOK, SubmittedRows, RetriesWithinLimit, [Next]_vars
             PROVE  RetriesWithinLimit'
  OBVIOUS
<1>1. ASSUME NEW t \in TaskIds, HasRow(t)'
      PROVE  WithinBudget(tasks'[t].retries, t)
  <2>1. RowStep(t)
    BY RowSteps
  <2>2. HasRow(t) => tasks[t] \in Row /\ WithinBudget(tasks[t].retries, t)
    BY DEF HasRow, TypeOK, QueueTypeOK, RetriesWithinLimit, WithinBudget
  <2>3. ASSUME tasks'[t] = tasks[t] \/ FreshRow(tasks'[t])
        PROVE  WithinBudget(tasks'[t].retries, t)
    BY <1>1, <2>2, <2>3 DEF HasRow, FreshRow, WithinBudget
  <2>4. ASSUME NEW w \in Workers,
               ClaimedBy(w, t) \/ ReclaimedBy(w, t) \/ SettledBy(w, t)
        PROVE  WithinBudget(tasks'[t].retries, t)
    <3>1. HasRow(t)
      BY <2>4 DEF ClaimedBy, ReclaimedBy, SettledBy, Expired, InStatus
    <3> QED
      BY <2>2, <2>4, <3>1 DEF ClaimedBy, ReclaimedBy, SettledBy, reclaimed_row,
                              settled_row, Row
  <2>5. ASSUME NEW w \in Workers, RequeuedBy(w, t)
        PROVE  WithinBudget(tasks'[t].retries, t)
    <3>1. WithinBudget(copy[w].retries, t)
      BY <2>5 DEF RequeuedBy, Holds, RetriesWithinLimit, WithinBudget
    <3> QED
      BY <2>2, <2>5, <3>1 DEF RequeuedBy, requeued_row, Row
  <2> QED
    BY <1>1, <2>1, <2>3, <2>4, <2>5 DEF RowStep, HasRow
<1>2. ASSUME NEW w \in Workers, Live(w)'
      PROVE  WithinBudget(copy'[w].retries, copy'[w].id)
  <2>1. CASE Live(w) /\ copy'[w] = copy[w]
    BY <2>1 DEF RetriesWithinLimit, WithinBudget
  <2>2. CASE Claim(w)
    <3>1. PICK t \in TaskIds : HasRow(t) /\ copy'[w] = row_to_task(t)
      BY <2>2 DEF Claim, FirstInLine, Claimable, InStatus, TypeOK
    <3> QED
      BY <3>1 DEF row_to_task, RetriesWithinLimit, WithinBudget
  <2>3. CASE LookupFails(w) \/ Returns(w) \/ Raises(w)
    <3>1. Live(w)
      BY <2>3 DEF LookupFails, Returns, Raises, Live, Holding
    <3>2. copy[w] \in TaskCopy /\ WithinBudget(copy[w].retries, copy[w].id)
      BY <3>1, HolderType DEF RetriesWithinLimit, WithinBudget
    <3>3. CASE LookupFails(w) \/ Returns(w)
      <4>1. \/ copy'[w] = mark_failed(copy[w], "not_registered", now)
            \/ copy'[w] = mark_success(copy[w], now)
        BY <3>3 DEF LookupFails, Returns, TypeOK
      <4> QED
        BY <3>2, <4>1 DEF mark_failed, mark_success, TaskCopy
    <3>4. CASE Raises(w)
      <4>1. PICK delay \in next_delays(copy[w]) \ {PolicyError} :
              copy'[w] = IF delay # NULL THEN retried(copy[w], delay, now)
                                         ELSE mark_failed(copy[w], "raised", now)
        BY <3>4 DEF Raises, TypeOK
      <4>2. CASE delay = NULL
        BY <3>2, <4>1, <4>2 DEF mark_failed, TaskCopy
      <4>3. CASE delay # NULL
        <5>1. WithinBudget(retried(copy[w], delay, now).retries, copy[w].id)
          BY <3>2, <4>3, RetryWithinBudget
        <5> QED
          BY <3>2, <4>1, <4>3, <5>1 DEF retried, counted, postponed, TaskCopy
      <4> QED
        BY <4>2, <4>3
    <3> QED
      BY <2>3, <3>3, <3>4
  <2> QED
    BY <1>2, <2>1, <2>2, <2>3, CopySteps
<1> QED
  BY <1>1, <1>2 DEF RetriesWithinLimit, WithinBudget

\* No row and no Task object exceeds its budget, late workers included.
THEOREM RetriesCorrect == Spec => []RetriesWithinLimit
<1>1. Init => TypeOK /\ SubmittedRows /\ RetriesWithinLimit
  BY TypeInit, SubmittedInit, RetriesInit
<1>2. TypeOK /\ SubmittedRows /\ RetriesWithinLimit /\ [Next]_vars
        => TypeOK' /\ SubmittedRows' /\ RetriesWithinLimit'
  BY TypeStep, SubmittedStep, RetriesStep
<1> QED
  BY <1>1, <1>2, PTL DEF Spec

-----------------------------------------------------------------------------
(* Exclusive claims, when live workers settle in time.                     *)

\* The two assumptions on the deployment: a live worker settles before its
\* visibility timeout ends, and the database lock is never awaited that long.
InTime == Timely /\ MaxLag < VT

\* A clock reading in use is not in the future, and not older than MaxLag.
FreshReadings ==
  \A w \in Workers : seen[w] # NULL => seen[w] <= now /\ now <= seen[w] + MaxLag

\* The claim a worker believes to hold is the one in the table, unexpired.
HoldersOwnRows ==
  \A w \in Workers : \A t \in TaskIds : Holds(w, t) =>
    /\ InStatus(t, {"running"})
    /\ tasks[t].claimed_until = lease[w]
    /\ now < lease[w]

LeaseInv == FreshReadings /\ HoldersOwnRows /\ ExclusiveClaims

\* At first nobody polls and nobody holds a task.
LEMMA LeaseInit == Init => LeaseInv
BY DEF Init, Live, Holds, Holding, LeaseInv, FreshReadings, HoldersOwnRows,
       ExclusiveClaims

\* The clock moves by Tick alone, within its guards.
LEMMA ClockSteps ==
  ASSUME [Next]_vars
  PROVE  \/ now' = now
         \/ /\ now' = now + 1
            /\ \A w \in Workers : seen[w] # NULL => now < seen[w] + MaxLag
            /\ Timely => \A w \in Workers : Live(w) => now + 1 < lease[w]
            /\ UNCHANGED <<tasks, seen, pc, copy, lease>>
BY DEF Next, Step, vars, worker_vars, Enqueue, Replay, ReadClock, Claim, ClaimNothing,
       ClaimBusy, Reclaim, LookupFails, Returns, Raises, Requeue, Store,
       StoreRaises, PolicyRaises, Settle, Crash, Start, Purge, Tick

\* A reading is made now, kept, or dropped.
LEMMA ReadingSteps ==
  ASSUME TypeOK, [Next]_vars, NEW w \in Workers
  PROVE  seen'[w] = seen[w] \/ seen'[w] = NULL \/ (seen'[w] = now /\ now' = now)
BY DEF Next, Step, vars, worker_vars, Enqueue, Replay, ReadClock, Claim, ClaimNothing,
       ClaimBusy, Reclaim, LookupFails, Returns, Raises, Requeue, Store,
       StoreRaises, PolicyRaises, Settle, Crash, Start, Purge, Tick, TypeOK

\* A reading is of the present, and ages by Tick up to MaxLag only.
LEMMA ReadingsStep ==
  ASSUME TypeOK, FreshReadings, [Next]_vars
  PROVE  FreshReadings'
<1> SUFFICES ASSUME NEW w \in Workers, seen'[w] # NULL
             PROVE  seen'[w] <= now' /\ now' <= seen'[w] + MaxLag
  BY DEF FreshReadings
<1>1. CASE seen'[w] = now /\ now' = now
  BY <1>1, DeploymentAssumption DEF TypeOK, Times
<1>2. CASE seen'[w] = seen[w]
  <2>1. /\ seen[w] \in Nat /\ now \in Nat /\ MaxLag \in Nat
        /\ seen[w] <= now /\ now <= seen[w] + MaxLag
    BY <1>2, DeploymentAssumption DEF TypeOK, MaybeTime, Times, FreshReadings
  <2>2. now' = now \/ (now' = now + 1 /\ now < seen[w] + MaxLag)
    BY <1>2, ClockSteps
  <2> QED
    BY <1>2, <2>1, <2>2
<1> QED
  BY <1>1, <1>2, ReadingSteps

\* A claim starts unexpired: the reading it is made with is recent enough.
LEMMA ClaimUnexpired ==
  ASSUME TypeOK, FreshReadings, InTime, NEW w \in Workers, Claim(w)
  PROVE  now < lease'[w]
<1>1. seen[w] \in Nat /\ now \in Nat /\ now <= seen[w] + MaxLag
  BY DEF Claim, TypeOK, MaybeTime, Times, FreshReadings
<1>2. lease'[w] = seen[w] + VT
  BY DEF Claim, TypeOK
<1> QED
  BY <1>1, <1>2, DeploymentAssumption DEF InTime

\* Nobody but its holder writes the row of a task that a live worker holds.
LEMMA HeldRowKept ==
  ASSUME TypeOK, SubmittedRows, LeaseInv, [Next]_vars,
         NEW w \in Workers, NEW t \in TaskIds, Holds(w, t), Live(w)'
  PROVE  tasks'[t] = tasks[t]
<1>1. /\ Live(w) /\ InStatus(t, {"running"})
      /\ tasks[t].claimed_until = lease[w] /\ now < lease[w]
  BY DEF Holds, LeaseInv, HoldersOwnRows
<1>2. ASSUME NEW v \in Workers PROVE ~ClaimedBy(v, t)
  BY <1>1 DEF ClaimedBy, InStatus
<1>3. ASSUME NEW v \in Workers, ReclaimedBy(v, t) PROVE FALSE
  <2>1. seen[v] \in Nat /\ seen[v] <= now
    BY <1>3 DEF ReclaimedBy, Reclaim, TypeOK, MaybeTime, Times, LeaseInv, FreshReadings
  <2>2. lease[w] \in Nat /\ now \in Nat
    BY <1>1, HolderType DEF TypeOK, Times
  <2> QED
    BY <1>1, <1>3, <2>1, <2>2 DEF ReclaimedBy, Expired
<1>4. ASSUME NEW v \in Workers, RequeuedBy(v, t) \/ SettledBy(v, t) PROVE FALSE
  <2>1. v = w
    BY <1>4 DEF RequeuedBy, SettledBy, Holds, LeaseInv, ExclusiveClaims
  <2>2. ~Live(w)'
    BY <1>4, <2>1 DEF RequeuedBy, SettledBy, Requeue, Settle, Live, Holding, TypeOK
  <2> QED
    BY <2>2
<1> QED
  BY <1>1, <1>2, <1>3, <1>4, RowSteps DEF RowStep, Settled, Terminal, InStatus

\* A holder keeps its running row and its unexpired deadline.
LEMMA HoldersStep ==
  ASSUME TypeOK, SubmittedRows, LeaseInv, InTime, [Next]_vars,
         NEW w \in Workers, NEW t \in TaskIds, Holds(w, t)'
  PROVE  /\ InStatus(t, {"running"})'
         /\ tasks'[t].claimed_until = lease'[w]
         /\ now' < lease'[w]
<1>1. CASE Claim(w)
  <2>1. PICK u \in FirstInLine(seen[w]) :
          /\ claim_row(u, seen[w] + VT)
          /\ copy' = [copy EXCEPT ![w] = row_to_task(u)]
    BY <1>1 DEF Claim
  <2>2. u = t
    BY <2>1 DEF row_to_task, Holds, TypeOK
  <2>3. tasks[t] \in Row
    BY <2>2 DEF FirstInLine, Claimable, InStatus, HasRow, TypeOK, QueueTypeOK
  <2>4. /\ tasks'[t].status = "running" /\ tasks'[t].claimed_until = seen[w] + VT
        /\ tasks'[t] \in Row
    <3>1. seen[w] + VT \in MaybeTime
      BY <1>1, DeploymentAssumption DEF Claim, TypeOK, MaybeTime, Times
    <3> QED
      BY <2>1, <2>2, <2>3, <3>1 DEF claim_row, Row, TaskStatus, TypeOK, QueueTypeOK
  <2>5. lease'[w] = seen[w] + VT /\ now' = now
    BY <1>1 DEF Claim, TypeOK
  <2> QED
    BY <1>1, <2>4, <2>5, ClaimUnexpired, RowAssumption DEF LeaseInv, InStatus, HasRow
<1>2. CASE Live(w) /\ lease'[w] = lease[w] /\ copy'[w].id = copy[w].id
  <2>1. /\ Holds(w, t) /\ InStatus(t, {"running"})
        /\ tasks[t].claimed_until = lease[w] /\ now < lease[w]
    BY <1>2 DEF Holds, LeaseInv, HoldersOwnRows
  <2>2. now' < lease'[w]
    BY <1>2, <2>1, ClockSteps DEF InTime
  <2>3. tasks'[t] = tasks[t]
    BY <1>2, HeldRowKept DEF Holds
  <2> QED
    BY <1>2, <2>1, <2>2, <2>3 DEF InStatus, HasRow
<1> QED
  BY <1>1, <1>2, CopySteps DEF Holds

\* The task a worker claims is held by no other live worker.
LEMMA ClaimsAreOfUnheld ==
  ASSUME TypeOK, LeaseInv, NEW v \in Workers, NEW w \in Workers, v # w,
         Claim(w), Live(v)
  PROVE  copy[v].id # copy'[w].id
<1>1. PICK t \in FirstInLine(seen[w]) : copy' = [copy EXCEPT ![w] = row_to_task(t)]
  BY DEF Claim
<1>2. InStatus(t, {"pending"}) /\ copy'[w].id = t /\ t \in TaskIds
  BY <1>1 DEF FirstInLine, Claimable, row_to_task, TypeOK
<1>3. ~Holds(v, t)
  BY <1>2 DEF LeaseInv, HoldersOwnRows, InStatus
<1> QED
  BY <1>2, <1>3 DEF Holds

\* A step makes nobody the second holder of a task.
LEMMA ExclusiveStep ==
  ASSUME TypeOK, LeaseInv, [Next]_vars
  PROVE  ExclusiveClaims'
<1> SUFFICES ASSUME NEW v \in Workers, NEW w \in Workers, v # w, Live(v)', Live(w)'
             PROVE  copy'[v].id # copy'[w].id
  BY DEF ExclusiveClaims
<1>1. CASE Claim(v) /\ Claim(w)
  BY <1>1 DEF Claim, TypeOK
<1>2. CASE Claim(w) /\ ~Claim(v)
  <2>1. Live(v) /\ copy'[v].id = copy[v].id
    BY <1>2, CopySteps
  <2> QED
    BY <1>2, <2>1, ClaimsAreOfUnheld
<1>3. CASE Claim(v) /\ ~Claim(w)
  <2>1. Live(w) /\ copy'[w].id = copy[w].id
    BY <1>3, CopySteps
  <2> QED
    BY <1>3, <2>1, ClaimsAreOfUnheld
<1>4. CASE ~Claim(v) /\ ~Claim(w)
  <2>1. /\ Live(v) /\ copy'[v].id = copy[v].id
        /\ Live(w) /\ copy'[w].id = copy[w].id
    BY <1>4, CopySteps
  <2> QED
    BY <2>1 DEF LeaseInv, ExclusiveClaims
<1> QED
  BY <1>1, <1>2, <1>3, <1>4

\* The three parts of LeaseInv are inductive together.
LEMMA LeaseStep ==
  InTime /\ TypeOK /\ SubmittedRows /\ LeaseInv /\ [Next]_vars => LeaseInv'
<1> SUFFICES ASSUME InTime, TypeOK, SubmittedRows, LeaseInv, [Next]_vars
             PROVE  LeaseInv'
  OBVIOUS
<1>1. FreshReadings'
  BY ReadingsStep DEF LeaseInv
<1>2. HoldersOwnRows'
  BY HoldersStep DEF HoldersOwnRows
<1>3. ExclusiveClaims'
  BY ExclusiveStep
<1> QED
  BY <1>1, <1>2, <1>3 DEF LeaseInv

\* If live workers settle before their claims expire, and no transaction waits
\* for the lock as long as the visibility timeout, then no two live workers
\* ever hold the same task, whatever crashes, is replayed or purged.
THEOREM ExclusiveCorrect ==
  ASSUME InTime
  PROVE  Spec => []ExclusiveClaims
<1>1. Init => TypeOK /\ SubmittedRows /\ LeaseInv
  BY TypeInit, SubmittedInit, LeaseInit
<1>2. TypeOK /\ SubmittedRows /\ LeaseInv /\ [Next]_vars
        => TypeOK' /\ SubmittedRows' /\ LeaseInv'
  BY TypeStep, SubmittedStep, LeaseStep
<1>3. LeaseInv => ExclusiveClaims
  BY DEF LeaseInv
<1> QED
  BY <1>1, <1>2, <1>3, PTL DEF Spec

-----------------------------------------------------------------------------
(* No poll takes an unexpired claim away, however late its clock reading.  *)

\* The body of PollsRespectClaims.
RespectsClaims ==
  \A t \in TaskIds :
    Unexpired(t) /\ InStatus(t, {"pending"})'
      => \E w \in Workers : pc[w] = "requeue" /\ Holds(w, t)

\* At first no reading is in use.
LEMMA FreshInit == Init => FreshReadings
BY DEF Init, FreshReadings

\* Every step satisfies the body of PollsRespectClaims.
LEMMA ClaimsRespected ==
  TypeOK /\ SubmittedRows /\ FreshReadings /\ [Next]_vars => RespectsClaims
<1> SUFFICES ASSUME TypeOK, SubmittedRows, FreshReadings, [Next]_vars,
                    NEW t \in TaskIds, Unexpired(t), InStatus(t, {"pending"})'
             PROVE  \E w \in Workers : pc[w] = "requeue" /\ Holds(w, t)
  BY DEF RespectsClaims
<1>1. tasks[t] \in Row
  BY DEF Unexpired, InStatus, HasRow, TypeOK, QueueTypeOK
<1>2. tasks'[t] # tasks[t] /\ tasks'[t] # NULL /\ ~Settled(t) /\ HasRow(t)
  BY DEF Unexpired, InStatus, HasRow, Settled, Terminal
<1>3. PICK w \in Workers : \/ ClaimedBy(w, t) \/ ReclaimedBy(w, t)
                           \/ RequeuedBy(w, t) \/ SettledBy(w, t)
  BY <1>2, RowSteps DEF RowStep
<1>4. ~ClaimedBy(w, t)
  BY DEF ClaimedBy, Unexpired, InStatus
<1>5. ASSUME ReclaimedBy(w, t) PROVE FALSE
  <2>1. seen[w] \in Nat /\ now \in Nat /\ seen[w] <= now
    BY <1>5 DEF ReclaimedBy, Reclaim, FreshReadings, TypeOK, MaybeTime, Times
  <2>2. tasks[t].claimed_until \in Nat
    BY <1>1 DEF Unexpired, Row, MaybeTime, Times
  <2> QED
    BY <1>5, <2>1, <2>2 DEF ReclaimedBy, Expired, Unexpired
<1>6. ASSUME SettledBy(w, t) PROVE FALSE
  BY <1>1, <1>6 DEF SettledBy, settled_row, Row, Finished, Terminal, InStatus
<1> QED
  BY <1>3, <1>4, <1>5, <1>6 DEF RequeuedBy, Requeue

\* Whatever the lag of the clock readings, a claim that has not expired goes
\* back to PENDING only through the nack of a worker that holds the task.
THEOREM PollsRespectful == Spec => PollsRespectClaims
<1>1. Init => TypeOK /\ SubmittedRows /\ FreshReadings
  BY TypeInit, SubmittedInit, FreshInit
<1>2. TypeOK /\ SubmittedRows /\ FreshReadings /\ [Next]_vars
        => TypeOK' /\ SubmittedRows' /\ FreshReadings'
  BY TypeStep, SubmittedStep, ReadingsStep
<1>3. TypeOK /\ SubmittedRows /\ FreshReadings /\ [Next]_vars => [RespectsClaims]_vars
  BY ClaimsRespected
<1>4. Spec => [][RespectsClaims]_vars
  BY <1>1, <1>2, <1>3, PTL DEF Spec
<1> QED
  BY <1>4 DEF PollsRespectClaims, RespectsClaims
=============================================================================
