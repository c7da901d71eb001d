------------------------ MODULE MiniqSQLite_results -------------------------
(***************************************************************************)
(* What the two tables say about each other, for every deployment: no      *)
(* trace of an earlier life in an active row, a result for every settled   *)
(* row, the same outcome in both tables, and dead letters that are final.  *)
(***************************************************************************)
EXTENDS MiniqSQLite_proofs

-----------------------------------------------------------------------------
(* Active rows are clean, when live workers settle in time.                *)

\* At first there are no rows.
LEMMA CleanInit == Init => ActiveRowsClean
BY DEF Init, QueueInit, Active, InStatus, HasRow, ActiveRowsClean

\* Whoever makes a row pending or running found it clean, or wipes it.
LEMMA CleanStep ==
  TypeOK /\ SubmittedRows /\ LeaseInv /\ ActiveRowsClean /\ [Next]_vars
    => ActiveRowsClean'
<1> SUFFICES ASSUME TypeOK, SubmittedRows, LeaseInv, ActiveRowsClean, [Next]_vars,
                    NEW t \in TaskIds, Active(t)'
             PROVE  tasks'[t].error = NULL /\ tasks'[t].finished_at = NULL
  BY DEF ActiveRowsClean
<1>1. Active(t) => /\ tasks[t] \in Row
                   /\ tasks[t].error = NULL /\ tasks[t].finished_at = NULL
  BY DEF ActiveRowsClean, Active, InStatus, HasRow, TypeOK, QueueTypeOK
<1>2. CASE tasks'[t] = tasks[t]
  BY <1>1, <1>2 DEF Active, InStatus, HasRow
<1>3. CASE FreshRow(tasks'[t])
  BY <1>3 DEF FreshRow
<1>4. ASSUME NEW w \in Workers, ClaimedBy(w, t) \/ ReclaimedBy(w, t)
      PROVE  tasks'[t].error = NULL /\ tasks'[t].finished_at = NULL
  <2>1. Active(t)
    BY <1>4 DEF ClaimedBy, ReclaimedBy, Expired, Active, InStatus
  <2> QED
    BY <1>1, <1>4, <2>1 DEF ClaimedBy, ReclaimedBy, reclaimed_row, Row
<1>5. ASSUME NEW w \in Workers, RequeuedBy(w, t)
      PROVE  tasks'[t].error = NULL /\ tasks'[t].finished_at = NULL
  <2>1. Active(t)
    BY <1>5 DEF RequeuedBy, LeaseInv, HoldersOwnRows, Active, InStatus
  <2> QED
    BY <1>1, <1>5, <2>1 DEF RequeuedBy, requeued_row, Row
<1>6. ASSUME NEW w \in Workers, SettledBy(w, t) PROVE FALSE
  <2>1. tasks[t] \in Row
    BY <1>6 DEF SettledBy, HasRow, TypeOK, QueueTypeOK
  <2> QED
    BY <1>6, <2>1 DEF SettledBy, settled_row, Row, Finished, Terminal, Active, InStatus
<1>7. tasks'[t] # NULL
  BY DEF Active, InStatus, HasRow
<1> QED
  BY <1>2, <1>3, <1>4, <1>5, <1>6, <1>7, RowSteps DEF RowStep

\* A waiting or running task shows no error and no finish time, whatever was
\* replayed, purged, reclaimed or requeued before, if live workers settle in time.
THEOREM CleanCorrect ==
  ASSUME InTime
  PROVE  Spec => []ActiveRowsClean
<1>1. Init => TypeOK /\ SubmittedRows /\ LeaseInv /\ ActiveRowsClean
  BY TypeInit, SubmittedInit, LeaseInit, CleanInit
<1>2. TypeOK /\ SubmittedRows /\ LeaseInv /\ ActiveRowsClean /\ [Next]_vars
        => TypeOK' /\ SubmittedRows' /\ LeaseInv' /\ ActiveRowsClean'
  BY TypeStep, SubmittedStep, LeaseStep, CleanStep
<1> QED
  BY <1>1, <1>2, PTL DEF Spec

-----------------------------------------------------------------------------
(* What a step may do to one stored result.                                *)

StoredBy(w, t) ==
  /\ Store(w)
  /\ Holds(w, t)
  /\ \E at \in StampsOf(copy[w]) : results'[t] = ResultOf(copy[w], at)

ResultPurge(t) ==
  /\ Purge
  /\ results'[t] = NULL
  /\ \E age \in PurgeAges, include_failed \in BOOLEAN :
       LET S == PurgedStatuses(include_failed)
       IN  /\ ResultPurged(t, S, now - age)
           /\ TaskPurged(t, S, now - age) => tasks'[t] = NULL

ResultStep(t) ==
  \/ results'[t] = results[t]
  \/ \E w \in Workers : StoredBy(w, t)
  \/ ResultPurge(t)

\* A result is left alone, stored by a worker that holds its task, or purged.
LEMMA ResultSteps ==
  ASSUME TypeOK, [Next]_vars, NEW t \in TaskIds
  PROVE  ResultStep(t)
<1>1. ASSUME NEW w \in Workers, Store(w) PROVE ResultStep(t)
  <2>1. PICK at \in StampsOf(copy[w]) : store(copy[w], at)
    BY <1>1 DEF Store
  <2>2. Live(w)
    BY <1>1 DEF Store, Live, Holding
  <2>3. CASE copy[w].id = t
    <3>1. results'[t] = ResultOf(copy[w], at)
      BY <2>1, <2>3 DEF store, TypeOK, ResultsTypeOK
    <3> QED
      BY <1>1, <2>2, <2>3, <3>1 DEF ResultStep, StoredBy, Holds
  <2>4. CASE copy[w].id # t
    BY <2>1, <2>4 DEF store, ResultStep, TypeOK, ResultsTypeOK
  <2> QED
    BY <2>3, <2>4
<1>2. ASSUME Purge PROVE ResultStep(t)
  <2>1. PICK age \in PurgeAges, include_failed \in BOOLEAN :
          cmd_purge(now - age, include_failed)
    BY <1>2 DEF Purge
  <2> DEFINE S == PurgedStatuses(include_failed)
  <2>2. CASE ResultPurged(t, S, now - age)
    <3>1. results'[t] = NULL
      BY <2>1, <2>2 DEF cmd_purge
    <3>2. TaskPurged(t, S, now - age) => tasks'[t] = NULL
      BY <2>1 DEF cmd_purge
    <3> QED
      BY <1>2, <2>2, <3>1, <3>2 DEF ResultStep, ResultPurge
  <2>3. CASE ~ResultPurged(t, S, now - age)
    BY <2>1, <2>3 DEF cmd_purge, ResultStep
  <2> QED
    BY <2>2, <2>3
<1>3. (\A w \in Workers : ~Store(w)) /\ ~Purge => results' = results
  BY DEF Next, Step, vars, worker_vars, Enqueue, Replay, cmd_dlq_replay, ReadClock, Claim,
         ClaimNothing, ClaimBusy, Reclaim, LookupFails, Returns, Raises, Requeue,
         StoreRaises, PolicyRaises, Settle, Crash, Start, Tick
<1> QED
  BY <1>1, <1>2, <1>3 DEF ResultStep

\* A worker that is about to settle has just stored, or was about to before.
LEMMA SettlerSteps ==
  ASSUME TypeOK, [Next]_vars, NEW w \in Workers, pc'[w] = "settle"
  PROVE  \/ Store(w)
         \/ pc[w] = "settle" /\ copy'[w] = copy[w] /\ lease'[w] = lease[w]
<1>1. CASE UNCHANGED <<pc, copy, lease>>
  BY <1>1
<1>2. ASSUME NEW v \in Workers, v # w,
             Step(v) \/ ClaimBusy(v) \/ Crash(v) \/ Start(v)
      PROVE  pc'[w] = pc[w] /\ copy'[w] = copy[w] /\ lease'[w] = lease[w]
  BY <1>2 DEF Step, ReadClock, Claim, ClaimNothing, ClaimBusy, Reclaim, LookupFails,
              Returns, Raises, Requeue, Store, StoreRaises, PolicyRaises, Settle, Crash,
              Start, Release, TypeOK
<1>3. ASSUME Step(w) \/ ClaimBusy(w) \/ Crash(w) \/ Start(w)
      PROVE  Store(w) \/ UNCHANGED <<pc, copy, lease>>
  BY <1>3 DEF Step, ReadClock, Claim, ClaimNothing, ClaimBusy, Reclaim, LookupFails,
              Returns, Raises, Requeue, StoreRaises, PolicyRaises, Settle, Crash,
              Start, AfterFailedClaim, TypeOK
<1>4. \/ UNCHANGED <<pc, copy, lease>>
      \/ \E v \in Workers : Step(v) \/ ClaimBusy(v) \/ Crash(v) \/ Start(v)
  BY DEF Next, Enqueue, Replay, Purge, Tick, vars, worker_vars
<1> QED
  BY <1>1, <1>2, <1>3, <1>4

\* A row is settled because it was, and nobody wrote it, or its holder settles it.
LEMMA SettledSteps ==
  ASSUME TypeOK, SubmittedRows, [Next]_vars, NEW t \in TaskIds, Settled(t)'
  PROVE  \/ Settled(t) /\ tasks'[t] = tasks[t]
         \/ \E w \in Workers : SettledBy(w, t)
<1>1. tasks'[t] # NULL /\ tasks'[t].status \in Terminal
  BY DEF Settled, InStatus, HasRow
<1>2. ~FreshRow(tasks'[t])
  BY <1>1 DEF FreshRow, Terminal
<1>3. ASSUME NEW w \in Workers,
             ClaimedBy(w, t) \/ ReclaimedBy(w, t) \/ RequeuedBy(w, t)
      PROVE  FALSE
  <2>1. tasks[t] \in Row
    BY <1>3 DEF ClaimedBy, ReclaimedBy, RequeuedBy, Expired, InStatus, HasRow,
                TypeOK, QueueTypeOK
  <2>2. tasks'[t].status \in {"pending", "running"}
    BY <1>3, <2>1 DEF ClaimedBy, ReclaimedBy, RequeuedBy, reclaimed_row,
                      requeued_row, Row
  <2> QED
    BY <1>1, <2>2 DEF Terminal
<1>4. tasks'[t] = tasks[t] => Settled(t)
  BY <1>1 DEF Settled, InStatus, HasRow
<1> QED
  BY <1>1, <1>2, <1>3, <1>4, RowSteps DEF RowStep

\* The holder of the task stores the result that the step leaves behind.
LEMMA StoreWrites ==
  ASSUME TypeOK, NEW w \in Workers, Store(w)
  PROVE  /\ pc[w] = "store" /\ Holds(w, copy[w].id)
         /\ copy[w] \in TaskCopy /\ copy[w].id \in TaskIds
         /\ UNCHANGED <<tasks, now, copy, lease, crashes>>
         /\ \E at \in Times : /\ results'[copy[w].id] = ResultOf(copy[w], at)
                             /\ copy[w].finished_at \in Times
                             /\ copy[w].finished_at <= at
<1>1. pc[w] = "store" /\ Live(w)
  BY DEF Store, Live, Holding
<1>2. copy[w] \in TaskCopy /\ copy[w].id \in TaskIds
  BY <1>1, HolderType
<1>3. copy[w].finished_at \in Nat
  BY <1>1, FinishedWhenStored DEF Times
<1>4. PICK at \in StampsOf(copy[w]) : store(copy[w], at)
  BY DEF Store
<1>5. at \in Nat /\ copy[w].finished_at <= at
  BY <1>3, <1>4 DEF StampsOf, TypeOK, Times
<1>6. results'[copy[w].id] = ResultOf(copy[w], at)
  BY <1>2, <1>4 DEF store, TypeOK, ResultsTypeOK
<1> QED
  BY <1>1, <1>2, <1>3, <1>5, <1>6 DEF Holds, Store, Times

\* What store writes is a row of task_results.
LEMMA StoredResult ==
  ASSUME NEW c \in TaskCopy, NEW at \in Times
  PROVE  ResultOf(c, at) \in Result /\ ResultOf(c, at) # NULL
BY ResultAssumption DEF ResultOf, Result, TaskCopy

-----------------------------------------------------------------------------
(* A settled row has a result, as long as nobody purges.                   *)

StoredFirst == \A w \in Workers : pc[w] = "settle" => HasResult(copy[w].id)

\* At first nothing is settled and nobody settles.
LEMMA StoredInit == Init => StoredFirst /\ SettledHasResult
BY DEF Init, QueueInit, Settled, InStatus, HasRow, StoredFirst, SettledHasResult

\* Only a purge deletes a result.
LEMMA ResultsStay ==
  ASSUME TypeOK, [Next]_vars, PurgeAges = {}, NEW t \in TaskIds, HasResult(t)
  PROVE  HasResult(t)'
<1>1. ~Purge
  BY DEF Purge
<1>2. ASSUME NEW w \in Workers, StoredBy(w, t) PROVE HasResult(t)'
  <2>1. copy[w] \in TaskCopy /\ copy[w].id = t
    BY <1>2, StoreWrites DEF StoredBy, Holds
  <2>2. PICK at \in Times : results'[t] = ResultOf(copy[w], at)
    BY <1>2, <2>1, StoreWrites DEF StoredBy
  <2> QED
    BY <2>1, <2>2, StoredResult DEF HasResult
<1> QED
  BY <1>1, <1>2, ResultSteps DEF ResultStep, ResultPurge, HasResult

\* A row is settled by a worker that has stored the result before.
LEMMA StoredStep ==
  PurgeAges = {} /\ TypeOK /\ SubmittedRows /\ StoredFirst /\ SettledHasResult
    /\ [Next]_vars => StoredFirst' /\ SettledHasResult'
<1> SUFFICES ASSUME PurgeAges = {}, TypeOK, SubmittedRows, StoredFirst,
                    SettledHasResult, [Next]_vars
             PROVE  StoredFirst' /\ SettledHasResult'
  OBVIOUS
<1>1. ASSUME NEW w \in Workers, pc'[w] = "settle"
      PROVE  HasResult(copy[w].id)' /\ copy'[w] = copy[w]
  <2>1. CASE Store(w)
    <3>1. PICK at \in Times : results'[copy[w].id] = ResultOf(copy[w], at)
      BY <2>1, StoreWrites
    <3> QED
      BY <2>1, <3>1, StoreWrites, StoredResult DEF HasResult
  <2>2. CASE pc[w] = "settle" /\ copy'[w] = copy[w]
    <3>1. copy[w].id \in TaskIds
      BY <2>2, HolderType DEF Live, Holding
    <3> QED
      BY <2>2, <3>1, ResultsStay DEF StoredFirst
  <2> QED
    BY <1>1, <2>1, <2>2, SettlerSteps
<1>2. ASSUME NEW t \in TaskIds, Settled(t)' PROVE HasResult(t)'
  <2>1. HasResult(t)
    <3>1. CASE Settled(t)
      BY <3>1 DEF SettledHasResult
    <3>2. ASSUME NEW w \in Workers, SettledBy(w, t) PROVE HasResult(t)
      BY <3>2 DEF SettledBy, Settle, Holds, StoredFirst
    <3> QED
      BY <1>2, <3>1, <3>2, SettledSteps
  <2> QED
    BY <2>1, ResultsStay
<1> QED
  BY <1>1, <1>2 DEF StoredFirst, SettledHasResult, HasResult

\* As long as nobody purges, every finished task has a stored result, late workers,
\* crashes, refused return values and replays included.
THEOREM SettledHasResultCorrect ==
  ASSUME PurgeAges = {}
  PROVE  Spec => []SettledHasResult
<1>1. Init => TypeOK /\ SubmittedRows /\ StoredFirst /\ SettledHasResult
  BY TypeInit, SubmittedInit, StoredInit
<1>2. TypeOK /\ SubmittedRows /\ StoredFirst /\ SettledHasResult /\ [Next]_vars
        => TypeOK' /\ SubmittedRows' /\ StoredFirst' /\ SettledHasResult'
  BY TypeStep, SubmittedStep, StoredStep
<1> QED
  BY <1>1, <1>2, PTL DEF Spec

-----------------------------------------------------------------------------
(* What a worker has decided when it is done with a task.                  *)

FinalFailure(n, e, t) ==
  \/ n >= MaxRetries[t]
  \/ NULL \in Delays(n + 1)
  \/ e = "not_registered" /\ \E w \in Workers : t \notin Registered[w]

\* run_once goes on to the result store with a task that it has just marked, and
\* that it gives up only when no retry is left.
LEMMA Decisions ==
  ASSUME TypeOK, NEW w \in Workers, LookupFails(w) \/ Returns(w) \/ Raises(w),
         pc'[w] = "store"
  PROVE  /\ copy'[w].finished_at = now
         /\ copy'[w].retries = copy[w].retries
         /\ copy'[w].status = "failed"
              => FinalFailure(copy[w].retries, copy'[w].error, copy[w].id)
<1>1. Live(w)
  BY DEF LookupFails, Returns, Raises, Live, Holding
<1>2. copy[w] \in TaskCopy /\ copy[w].id \in TaskIds
  BY <1>1, HolderType
<1>3. CASE LookupFails(w)
  <2>1. copy'[w] = mark_failed(copy[w], "not_registered", now)
    BY <1>3 DEF LookupFails, TypeOK
  <2>2. /\ copy'[w].finished_at = now
        /\ copy'[w].retries = copy[w].retries
        /\ copy'[w].error = "not_registered"
    BY <1>2, <2>1 DEF mark_failed, TaskCopy
  <2>3. copy[w].id \notin Registered[w]
    BY <1>3 DEF LookupFails
  <2> QED
    BY <2>2, <2>3 DEF FinalFailure
<1>4. CASE Returns(w)
  <2>1. copy'[w] = mark_success(copy[w], now)
    BY <1>4 DEF Returns, TypeOK
  <2>2. /\ copy'[w].finished_at = now
        /\ copy'[w].retries = copy[w].retries
        /\ copy'[w].status = "success"
    BY <1>2, <2>1 DEF mark_success, TaskCopy
  <2> QED
    BY <2>2
<1>5. CASE Raises(w)
  <2>1. NULL \in next_delays(copy[w])
        /\ copy'[w] = mark_failed(copy[w], "raised", now)
    BY <1>5 DEF Raises, TypeOK
  <2>2. /\ copy'[w].finished_at = now
        /\ copy'[w].retries = copy[w].retries
        /\ copy'[w].error = "raised"
    BY <1>2, <2>1 DEF mark_failed, TaskCopy
  <2>3. copy[w].retries >= MaxRetries[copy[w].id] \/ NULL \in Delays(copy[w].retries + 1)
    <3>1. copy[w].retries \in Nat /\ MaxRetries[copy[w].id] \in Int
      BY <1>2, TaskAssumption DEF TaskCopy
    <3> QED
      BY <2>1, <3>1 DEF next_delays, MayRetry
  <2> QED
    BY <2>2, <2>3 DEF FinalFailure
<1> QED
  BY <1>3, <1>4, <1>5

\* A worker about to store or settle has marked its copy in this step, or had before.
LEMMA MarkedSteps ==
  ASSUME TypeOK, [Next]_vars, NEW w \in Workers, pc'[w] \in {"store", "settle"}
  PROVE  /\ Live(w) /\ lease'[w] = lease[w] /\ copy'[w].id = copy[w].id
         /\ \/ pc[w] \in {"store", "settle"} /\ copy'[w] = copy[w]
            \/ /\ pc[w] = "execute" /\ pc'[w] = "store"
               /\ LookupFails(w) \/ Returns(w) \/ Raises(w)
<1>1. Live(w)' /\ ~Claim(w)
  BY DEF Live, Holding, Claim, TypeOK
<1>2. /\ Live(w) /\ lease'[w] = lease[w] /\ copy'[w].id = copy[w].id
      /\ \/ copy'[w] = copy[w] /\ pc'[w] \in {pc[w], "settle"}
         \/ LookupFails(w) \/ Returns(w) \/ Raises(w)
  BY <1>1, CopySteps
<1>3. CASE LookupFails(w) \/ Returns(w) \/ Raises(w)
  <2>1. pc[w] = "execute" /\ pc'[w] = "store"
    BY <1>3 DEF LookupFails, Returns, Raises, TypeOK
  <2> QED
    BY <1>2, <1>3, <2>1
<1>4. CASE copy'[w] = copy[w] /\ pc'[w] \in {pc[w], "settle"}
  <2>1. pc[w] \in {"store", "settle"}
    BY <1>4, SettlerSteps DEF Store
  <2> QED
    BY <1>2, <1>4, <2>1
<1> QED
  BY <1>2, <1>3, <1>4

-----------------------------------------------------------------------------
(* Dead letters are final, when live workers settle in time.               *)

\* The counter of a Task object is that of its row until the retry is counted, and
\* one that failed has no retry left.
CopiesFinal ==
  \A w \in Workers : \A t \in TaskIds : Holds(w, t) =>
    /\ pc[w] \in {"execute", "store", "settle"} => copy[w].retries = tasks[t].retries
    /\ pc[w] \in {"store", "settle"} /\ copy[w].status = "failed"
         => FinalFailure(copy[w].retries, copy[w].error, t)

DeadInv == CopiesFinal /\ DeadLettersAreFinal

\* At first nothing failed and nobody holds a task.
LEMMA DeadInit == Init => DeadInv
BY DEF Init, QueueInit, InStatus, HasRow, Holds, Live, Holding, CopiesFinal,
       DeadLettersAreFinal, DeadInv

\* The claim hands the counter of the row out.
LEMMA ClaimCopies ==
  ASSUME TypeOK, NEW w \in Workers, NEW t \in TaskIds, Claim(w), Holds(w, t)'
  PROVE  pc'[w] = "execute" /\ copy'[w].retries = tasks'[t].retries
<1>1. PICK u \in FirstInLine(seen[w]) :
        /\ claim_row(u, seen[w] + VT)
        /\ copy' = [copy EXCEPT ![w] = row_to_task(u)]
  BY DEF Claim
<1>2. u = t
  BY <1>1 DEF row_to_task, Holds, TypeOK
<1>3. tasks[t] \in Row
  BY <1>2 DEF FirstInLine, Claimable, InStatus, HasRow, TypeOK, QueueTypeOK
<1>4. tasks'[t].retries = tasks[t].retries
  BY <1>1, <1>2, <1>3 DEF claim_row, Row, TypeOK, QueueTypeOK
<1>5. copy'[w].retries = tasks[t].retries
  BY <1>1, <1>2 DEF row_to_task, TypeOK
<1>6. pc'[w] = "execute"
  BY DEF Claim, TypeOK
<1> QED
  BY <1>4, <1>5, <1>6

\* The row of a held task stays, so the decision stays final until it is settled.
LEMMA CopiesFinalStep ==
  ASSUME TypeOK, SubmittedRows, LeaseInv, CopiesFinal, [Next]_vars
  PROVE  CopiesFinal'
<1> SUFFICES ASSUME NEW w \in Workers, NEW t \in TaskIds, Holds(w, t)',
                    pc'[w] \in {"execute", "store", "settle"}
             PROVE  /\ copy'[w].retries = tasks'[t].retries
                    /\ pc'[w] \in {"store", "settle"} /\ copy'[w].status = "failed"
                         => FinalFailure(copy'[w].retries, copy'[w].error, t)
  BY DEF CopiesFinal, FinalFailure
<1>1. CASE Claim(w)
  BY <1>1, ClaimCopies
<1>2. CASE pc'[w] = "execute" /\ ~Claim(w)
  <2>1. Live(w) /\ copy'[w] = copy[w] /\ pc[w] = "execute"
    BY <1>2, CopySteps DEF Holds, LookupFails, Returns, Raises, TypeOK
  <2>2. Holds(w, t) /\ Live(w)'
    BY <2>1 DEF Holds
  <2>3. tasks'[t] = tasks[t]
    BY <2>2, HeldRowKept
  <2> QED
    BY <1>2, <2>1, <2>2, <2>3 DEF CopiesFinal
<1>3. CASE pc'[w] \in {"store", "settle"}
  <2>1. Live(w) /\ copy'[w].id = copy[w].id /\ copy[w].id = t
    BY <1>3, MarkedSteps DEF Holds
  <2>2. Holds(w, t) /\ Live(w)'
    BY <2>1 DEF Holds
  <2>3. tasks'[t] = tasks[t]
    BY <2>2, HeldRowKept
  <2>4. CASE pc[w] \in {"store", "settle"} /\ copy'[w] = copy[w]
    BY <2>2, <2>3, <2>4 DEF CopiesFinal
  <2>5. CASE /\ pc[w] = "execute" /\ pc'[w] = "store"
             /\ LookupFails(w) \/ Returns(w) \/ Raises(w)
    <3>1. copy[w].retries = tasks[t].retries
      BY <2>2, <2>5 DEF CopiesFinal
    <3> QED
      BY <2>1, <2>3, <2>5, <3>1, Decisions
  <2> QED
    BY <1>3, <2>4, <2>5, MarkedSteps
<1> QED
  BY <1>1, <1>2, <1>3

\* A row fails by the settlement of a worker whose decision was final.
LEMMA DeadStep ==
  TypeOK /\ SubmittedRows /\ LeaseInv /\ DeadInv /\ [Next]_vars => DeadInv'
<1> SUFFICES ASSUME TypeOK, SubmittedRows, LeaseInv, DeadInv, [Next]_vars
             PROVE  DeadInv'
  OBVIOUS
<1>1. CopiesFinal'
  BY CopiesFinalStep DEF DeadInv
<1>2. ASSUME NEW t \in TaskIds, InStatus(t, {"failed"})'
      PROVE  FinalFailure(tasks'[t].retries, tasks'[t].error, t)
  <2>1. CASE Settled(t) /\ tasks'[t] = tasks[t]
    <3>1. InStatus(t, {"failed"})
      BY <1>2, <2>1 DEF InStatus, HasRow
    <3> QED
      BY <2>1, <3>1 DEF DeadInv, DeadLettersAreFinal, FinalFailure
  <2>2. ASSUME NEW w \in Workers, SettledBy(w, t)
        PROVE  FinalFailure(tasks'[t].retries, tasks'[t].error, t)
    <3>1. tasks[t] \in Row /\ copy[w] \in TaskCopy
      BY <2>2, HolderType DEF SettledBy, Holds, HasRow, TypeOK, QueueTypeOK
    <3>2. /\ tasks'[t].status = copy[w].status
          /\ tasks'[t].error = copy[w].error
          /\ tasks'[t].retries = tasks[t].retries
      BY <2>2, <3>1 DEF SettledBy, settled_row, Row
    <3>3. Holds(w, t) /\ pc[w] = "settle" /\ copy[w].status = "failed"
      BY <1>2, <2>2, <3>2 DEF SettledBy, Settle, InStatus
    <3> QED
      BY <3>2, <3>3 DEF DeadInv, CopiesFinal
  <2>3. Settled(t)'
    BY <1>2 DEF Settled, InStatus, Terminal
  <2> QED
    BY <2>1, <2>2, <2>3, SettledSteps
<1> QED
  BY <1>1, <1>2 DEF DeadInv, DeadLettersAreFinal, FinalFailure

\* The dead-letter queue holds only tasks whose retries are spent, or declined by
\* the policy, or whose function a worker lacks, if live workers settle in time.
THEOREM DeadLettersCorrect ==
  ASSUME InTime
  PROVE  Spec => []DeadLettersAreFinal
<1>1. Init => TypeOK /\ SubmittedRows /\ LeaseInv /\ DeadInv
  BY TypeInit, SubmittedInit, LeaseInit, DeadInit
<1>2. TypeOK /\ SubmittedRows /\ LeaseInv /\ DeadInv /\ [Next]_vars
        => TypeOK' /\ SubmittedRows' /\ LeaseInv' /\ DeadInv'
  BY TypeStep, SubmittedStep, LeaseStep, DeadStep
<1>3. DeadInv => DeadLettersAreFinal
  BY DEF DeadInv
<1> QED
  BY <1>1, <1>2, <1>3, PTL DEF Spec

-----------------------------------------------------------------------------
(* Row and result tell the same story.                                     *)

Agree(r, c) == r.status = c.status /\ r.error = c.error /\ r.finished_at = c.finished_at

\* A task is finished within the visibility timeout, counted back from its deadline.
RecentWork ==
  \A w \in Workers : Live(w) =>
    /\ lease[w] <= now + VT
    /\ pc[w] \in {"store", "settle"} => lease[w] <= copy[w].finished_at + VT

\* A result is stored after the task has finished.
StoredAfterFinish ==
  \A t \in TaskIds : HasResult(t) =>
    results[t].finished_at \in Times /\ results[t].finished_at <= results[t].stored_at

\* What a worker is about to settle is what the result store holds, and it was stored
\* within the visibility timeout too.
SettlersStored ==
  \A w \in Workers : \A t \in TaskIds : Holds(w, t) /\ pc[w] = "settle" =>
    /\ HasResult(t)
    /\ Agree(results[t], copy[w])
    /\ lease[w] <= results[t].stored_at + VT

MatchInv == RecentWork /\ StoredAfterFinish /\ SettlersStored /\ ResultMatchesRow

\* At first there is neither a row nor a result.
LEMMA MatchInit == Init => MatchInv
BY DEF Init, QueueInit, ResultsInit, Settled, InStatus, HasRow, HasResult, Holds, Live,
       Holding, MatchInv, RecentWork, StoredAfterFinish, SettlersStored, ResultMatchesRow

\* Deadlines are set at the claim, finish times later.
LEMMA RecentStep ==
  ASSUME TypeOK, FreshReadings, RecentWork, [Next]_vars
  PROVE  RecentWork'
<1> SUFFICES ASSUME NEW w \in Workers, Live(w)'
             PROVE  /\ lease'[w] <= now' + VT
                    /\ pc'[w] \in {"store", "settle"}
                         => lease'[w] <= copy'[w].finished_at + VT
  BY DEF RecentWork
<1>1. now \in Nat /\ VT \in Nat /\ now <= now'
  BY ClockSteps, DeploymentAssumption DEF TypeOK, Times
<1>2. lease'[w] <= now' + VT
  <2>1. CASE Claim(w)
    <3>1. seen[w] \in Nat /\ seen[w] <= now
      BY <2>1 DEF Claim, TypeOK, MaybeTime, Times, FreshReadings
    <3>2. lease'[w] = seen[w] + VT /\ now' = now
      BY <2>1 DEF Claim, TypeOK
    <3> QED
      BY <1>1, <3>1, <3>2
  <2>2. CASE Live(w) /\ lease'[w] = lease[w]
    <3>1. lease[w] \in Nat /\ lease[w] <= now + VT
      BY <2>2, HolderType DEF RecentWork, Times
    <3>2. now' \in Nat
      BY <1>1, ClockSteps
    <3> QED
      BY <1>1, <2>2, <3>1, <3>2
  <2> QED
    BY <2>1, <2>2, CopySteps
<1>3. ASSUME pc'[w] \in {"store", "settle"}
      PROVE  lease'[w] <= copy'[w].finished_at + VT
  <2>1. Live(w) /\ lease'[w] = lease[w]
    BY <1>3, MarkedSteps
  <2>2. CASE pc[w] \in {"store", "settle"} /\ copy'[w] = copy[w]
    BY <2>1, <2>2 DEF RecentWork
  <2>3. CASE pc'[w] = "store" /\ (LookupFails(w) \/ Returns(w) \/ Raises(w))
    <3>1. copy'[w].finished_at = now
      BY <2>3, Decisions
    <3>2. lease[w] <= now + VT
      BY <2>1 DEF RecentWork
    <3> QED
      BY <2>1, <3>1, <3>2
  <2> QED
    BY <1>3, <2>2, <2>3, MarkedSteps
<1> QED
  BY <1>2, <1>3

\* What is stored has finished before.
LEMMA StoredAfterFinishStep ==
  ASSUME TypeOK, StoredAfterFinish, [Next]_vars
  PROVE  StoredAfterFinish'
<1> SUFFICES ASSUME NEW t \in TaskIds, HasResult(t)'
             PROVE  /\ results'[t].finished_at \in Times
                    /\ results'[t].finished_at <= results'[t].stored_at
  BY DEF StoredAfterFinish
<1>1. ASSUME NEW w \in Workers, StoredBy(w, t)
      PROVE  /\ results'[t].finished_at \in Times
             /\ results'[t].finished_at <= results'[t].stored_at
  <2>1. PICK at \in Times : /\ results'[copy[w].id] = ResultOf(copy[w], at)
                            /\ copy[w].finished_at \in Times
                            /\ copy[w].finished_at <= at
    BY <1>1, StoreWrites DEF StoredBy
  <2>2. copy[w].id = t
    BY <1>1 DEF StoredBy, Holds
  <2> QED
    BY <2>1, <2>2 DEF ResultOf
<1>2. CASE results'[t] = results[t]
  BY <1>2 DEF StoredAfterFinish, HasResult
<1> QED
  BY <1>1, <1>2, ResultSteps DEF ResultStep, ResultPurge, HasResult

\* No result that a live worker has stored is old enough to be purged.
PurgesSpareLive == \A age \in PurgeAges : VT <= age

\* A purge spares the results of this visibility timeout, and only the holder of a
\* task stores one for it.
LEMMA SettlersStoredStep ==
  ASSUME PurgesSpareLive, TypeOK, SubmittedRows, LeaseInv, MatchInv, [Next]_vars
  PROVE  SettlersStored'
<1> SUFFICES ASSUME NEW w \in Workers, NEW t \in TaskIds, Holds(w, t)',
                    pc'[w] = "settle"
             PROVE  /\ HasResult(t)'
                    /\ Agree(results'[t], copy'[w])
                    /\ lease'[w] <= results'[t].stored_at + VT
  BY DEF SettlersStored, Agree
<1>1. CASE Store(w)
  <2>1. copy'[w] = copy[w] /\ lease'[w] = lease[w] /\ copy[w].id = t
        /\ pc[w] = "store" /\ Live(w) /\ copy[w] \in TaskCopy
    BY <1>1, StoreWrites DEF Holds
  <2>2. PICK at \in Times : /\ results'[t] = ResultOf(copy[w], at)
                            /\ copy[w].finished_at \in Times
                            /\ copy[w].finished_at <= at
    BY <1>1, <2>1, StoreWrites
  <2>3. HasResult(t)'
    BY <2>1, <2>2, StoredResult DEF HasResult
  <2>4. Agree(results'[t], copy'[w])
    BY <2>1, <2>2 DEF Agree, ResultOf
  <2>5. lease[w] <= copy[w].finished_at + VT
    BY <2>1 DEF MatchInv, RecentWork
  <2>6. lease[w] \in Nat /\ copy[w].finished_at \in Nat /\ at \in Nat /\ VT \in Nat
    BY <2>1, <2>2, HolderType, DeploymentAssumption DEF Times
  <2>7. results'[t].stored_at = at
    BY <2>2 DEF ResultOf
  <2> QED
    BY <2>1, <2>2, <2>3, <2>4, <2>5, <2>6, <2>7
<1>2. CASE pc[w] = "settle" /\ copy'[w] = copy[w] /\ lease'[w] = lease[w]
  <2>1. Live(w) /\ Holds(w, t)
    BY <1>2 DEF Live, Holding, Holds
  <2>2. /\ HasResult(t) /\ Agree(results[t], copy[w])
        /\ lease[w] <= results[t].stored_at + VT
    BY <1>2, <2>1 DEF MatchInv, SettlersStored
  <2>3. ASSUME NEW v \in Workers, StoredBy(v, t) PROVE FALSE
    <3>1. v = w
      BY <2>1, <2>3 DEF StoredBy, Holds, LeaseInv, ExclusiveClaims
    <3> QED
      BY <1>2, <2>3, <3>1 DEF StoredBy, Store
  <2>4. ASSUME ResultPurge(t) PROVE FALSE
    <3>1. PICK age \in PurgeAges : results[t].stored_at <= now - age
      BY <2>4 DEF ResultPurge, ResultPurged
    <3>2. age \in Nat /\ VT \in Nat /\ VT <= age
      BY DeploymentAssumption DEF PurgesSpareLive
    <3>3. now \in Nat /\ lease[w] \in Nat /\ now < lease[w]
      BY <2>1, HolderType DEF LeaseInv, HoldersOwnRows, TypeOK, Times
    <3>4. results[t].stored_at \in Nat
      BY <2>2 DEF HasResult, TypeOK, ResultsTypeOK, Result, Times
    <3> QED
      BY <2>2, <3>1, <3>2, <3>3, <3>4
  <2>5. results'[t] = results[t]
    BY <2>3, <2>4, ResultSteps DEF ResultStep
  <2> QED
    BY <1>2, <2>2, <2>5 DEF HasResult
<1> QED
  BY <1>1, <1>2, SettlerSteps

\* A row gets the outcome that was stored; from then on nobody stores for it, and a
\* purge that deletes the result deletes the row, which finished before.
LEMMA ResultMatchesStep ==
  ASSUME TypeOK, SubmittedRows, LeaseInv, MatchInv, [Next]_vars
  PROVE  ResultMatchesRow'
<1> SUFFICES ASSUME NEW t \in TaskIds, Settled(t)'
             PROVE  HasResult(t)' /\ Agree(results'[t], tasks'[t])
  BY DEF ResultMatchesRow, Agree
<1>1. ASSUME NEW w \in Workers, SettledBy(w, t)
      PROVE  HasResult(t)' /\ Agree(results'[t], tasks'[t])
  <2>1. Holds(w, t) /\ pc[w] = "settle" /\ results' = results
    BY <1>1 DEF SettledBy, Settle
  <2>2. HasResult(t) /\ Agree(results[t], copy[w])
    BY <2>1 DEF MatchInv, SettlersStored
  <2>3. tasks[t] \in Row
    BY <1>1 DEF SettledBy, HasRow, TypeOK, QueueTypeOK
  <2>4. /\ tasks'[t].status = copy[w].status
        /\ tasks'[t].error = copy[w].error
        /\ tasks'[t].finished_at = copy[w].finished_at
    BY <1>1, <2>3 DEF SettledBy, settled_row, Row
  <2> QED
    BY <2>1, <2>2, <2>4 DEF Agree, HasResult
<1>2. CASE Settled(t) /\ tasks'[t] = tasks[t]
  <2>1. HasResult(t) /\ Agree(results[t], tasks[t])
    BY <1>2 DEF MatchInv, ResultMatchesRow, Agree
  <2>2. ASSUME NEW w \in Workers, StoredBy(w, t) PROVE FALSE
    BY <1>2, <2>2 DEF StoredBy, LeaseInv, HoldersOwnRows, Settled, Terminal, InStatus
  <2>3. ASSUME ResultPurge(t) PROVE FALSE
    <3>1. PICK age \in PurgeAges, include_failed \in BOOLEAN :
            /\ ResultPurged(t, PurgedStatuses(include_failed), now - age)
            /\ TaskPurged(t, PurgedStatuses(include_failed), now - age)
                 => tasks'[t] = NULL
      BY <2>3 DEF ResultPurge
    <3>2. InStatus(t, PurgedStatuses(include_failed))
      BY <1>2, <2>1, <3>1 DEF ResultPurged, Agree, Settled, InStatus
    <3>3. tasks[t].finished_at \in Nat /\ tasks[t].finished_at <= results[t].stored_at
      BY <2>1 DEF MatchInv, StoredAfterFinish, Agree, Times
    <3>4. results[t].stored_at \in Nat /\ results[t].stored_at <= now - age
      BY <2>1, <3>1 DEF ResultPurged, HasResult, TypeOK, ResultsTypeOK, Result, Times
    <3>5. now - age \in Int
      BY DeploymentAssumption DEF TypeOK, Times
    <3>6. tasks[t].finished_at # NULL /\ tasks[t].finished_at <= now - age
      BY <3>3, <3>4, <3>5, TaskAssumption
    <3> QED
      BY <1>2, <3>1, <3>2, <3>6 DEF TaskPurged, Settled, InStatus, HasRow
  <2>4. results'[t] = results[t]
    BY <2>2, <2>3, ResultSteps DEF ResultStep
  <2> QED
    BY <1>2, <2>1, <2>4 DEF HasResult
<1> QED
  BY <1>1, <1>2, SettledSteps

\* The four parts of MatchInv are inductive together.
LEMMA MatchStep ==
  PurgesSpareLive /\ TypeOK /\ SubmittedRows /\ LeaseInv /\ MatchInv /\ [Next]_vars
    => MatchInv'
<1> SUFFICES ASSUME PurgesSpareLive, TypeOK, SubmittedRows, LeaseInv, MatchInv,
                    [Next]_vars
             PROVE  MatchInv'
  OBVIOUS
<1>1. RecentWork' /\ StoredAfterFinish'
  BY RecentStep, StoredAfterFinishStep DEF LeaseInv, MatchInv
<1>2. SettlersStored' /\ ResultMatchesRow'
  BY SettlersStoredStep, ResultMatchesStep
<1> QED
  BY <1>1, <1>2 DEF MatchInv

\* If live workers settle in time, and no purge is set to delete what is younger than
\* the visibility timeout, a settled row and its stored result agree on the outcome,
\* whatever crashes between the two transactions, is executed again or is replayed.
THEOREM ResultMatchesCorrect ==
  ASSUME InTime, PurgesSpareLive
  PROVE  Spec => []ResultMatchesRow
<1>1. Init => TypeOK /\ SubmittedRows /\ LeaseInv /\ MatchInv
  BY TypeInit, SubmittedInit, LeaseInit, MatchInit
<1>2. TypeOK /\ SubmittedRows /\ LeaseInv /\ MatchInv /\ [Next]_vars
        => TypeOK' /\ SubmittedRows' /\ LeaseInv' /\ MatchInv'
  BY TypeStep, SubmittedStep, LeaseStep, MatchStep
<1>3. MatchInv => ResultMatchesRow
  BY DEF MatchInv
<1> QED
  BY <1>1, <1>2, <1>3, PTL DEF Spec
=============================================================================
