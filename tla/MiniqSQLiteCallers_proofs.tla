--------------------- MODULE MiniqSQLiteCallers_proofs ----------------------
(***************************************************************************)
(* An answer that a caller of AsyncResult.get received stands, for every   *)
(* set of callers, workers and tasks, under the conditions that            *)
(* AnswersStand needs: live workers settle in time, none has crashed, and  *)
(* no operator deletes results or sends dead letters through once more.    *)
(***************************************************************************)
EXTENDS MiniqSQLiteCallers, MiniqSQLite_results

Undisturbed == InTime /\ PurgeAges = {} /\ ~Replays

-----------------------------------------------------------------------------
(* The deployment: the first result of a task is its last.                 *)

AboutToSettle(t) == \E w \in Workers : Holds(w, t) /\ pc[w] = "settle"

\* As long as no worker crashed, a task with a result is settled or about to be.
FirstResultIsLast ==
  crashes = 0 => \A t \in TaskIds : HasResult(t) => Settled(t) \/ AboutToSettle(t)

\* At first there are no results.
LEMMA FirstResultInit == Init => FirstResultIsLast
BY DEF Init, ResultsInit, HasResult, FirstResultIsLast

\* Nothing resets the count of crashes.
LEMMA CrashSteps ==
  ASSUME TypeOK, [Next]_vars, crashes' = 0
  PROVE  crashes = 0 /\ \A w \in Workers : ~Crash(w)
<1>1. crashes' = crashes \/ crashes' = crashes + 1
  BY DEF Next, Step, vars, worker_vars, Enqueue, Replay, ReadClock, Claim,
         ClaimNothing, ClaimBusy, Reclaim, LookupFails, Returns, Raises, Requeue, Store,
         StoreRaises, PolicyRaises, Settle, Crash, Start, Purge, Tick
<1>2. crashes \in Nat
  BY DEF TypeOK
<1> QED
  BY <1>1, <1>2 DEF Crash

\* Without purges and replays, and with nobody late, a settled row is never written.
LEMMA SettledStays ==
  ASSUME Undisturbed, TypeOK, SubmittedRows, LeaseInv, [Next]_vars,
         NEW t \in TaskIds, Settled(t)
  PROVE  Settled(t)'
<1>1. HasRow(t) /\ ~InStatus(t, {"pending", "running"})
  BY DEF Settled, InStatus, Terminal
<1>2. ~Purge /\ ~Replay(t)
  BY DEF Undisturbed, Purge, Replay
<1>3. ASSUME NEW w \in Workers PROVE ~Holds(w, t)
  BY <1>1 DEF LeaseInv, HoldersOwnRows, InStatus
<1>4. ASSUME NEW w \in Workers PROVE ~ClaimedBy(w, t) /\ ~ReclaimedBy(w, t)
  BY <1>1 DEF ClaimedBy, ReclaimedBy, Expired, InStatus
<1>5. tasks'[t] = tasks[t]
  BY <1>1, <1>2, <1>3, <1>4, RowSteps DEF RowStep, RequeuedBy, SettledBy
<1> QED
  BY <1>5 DEF Settled, InStatus, HasRow

\* A worker that is about to settle a task does, unless it crashes.
LEMMA AboutToSettleSteps ==
  ASSUME Undisturbed, TypeOK, SubmittedRows, LeaseInv, [Next]_vars, crashes' = 0,
         NEW t \in TaskIds, AboutToSettle(t)
  PROVE  Settled(t)' \/ AboutToSettle(t)'
<1>1. PICK w \in Workers : Holds(w, t) /\ pc[w] = "settle"
  BY DEF AboutToSettle
<1>2. CASE Settle(w)
  <2>1. HasRow(t) /\ tasks[t] \in Row /\ copy[w] \in TaskCopy /\ copy[w].id = t
    BY <1>1, HolderType DEF LeaseInv, HoldersOwnRows, Holds, InStatus, HasRow,
                            TypeOK, QueueTypeOK
  <2>2. Finished(copy[w])
    BY <1>1 DEF TypeOK
  <2>3. tasks'[t] = settled_row(tasks[t], copy[w])
    BY <1>2, <2>1 DEF Settle, ack, nack, update_row, TypeOK, QueueTypeOK
  <2>4. tasks'[t] \in Row /\ tasks'[t].status \in Terminal
    BY <2>1, <2>2, <2>3, UpdatedRowType DEF settled_row, Row, Finished
  <2> QED
    BY <2>4, RowAssumption DEF Settled, InStatus, HasRow
<1>3. CASE ~Settle(w)
  <2>1. pc'[w] = "settle" /\ copy'[w] = copy[w]
    <3>1. ASSUME NEW v \in Workers, v # w,
                 Step(v) \/ ClaimBusy(v) \/ Crash(v) \/ Start(v)
          PROVE  pc'[w] = pc[w] /\ copy'[w] = copy[w]
      BY <3>1 DEF Step, ReadClock, Claim, ClaimNothing, ClaimBusy, Reclaim, LookupFails,
                  Returns, Raises, Requeue, Store, StoreRaises, PolicyRaises, Settle,
                  Crash, Start, Release, TypeOK
    <3>2. ~Step(w) /\ ~ClaimBusy(w) /\ ~Crash(w) /\ ~Start(w)
      BY <1>1, <1>3, CrashSteps
         DEF Step, ReadClock, Claim, Claiming, Polling, ClaimNothing, ClaimBusy, Reclaim,
             LookupFails, Returns, Raises, Requeue, Store, StoreRaises, PolicyRaises, Start
    <3>3. \/ UNCHANGED <<pc, copy>>
          \/ \E v \in Workers : Step(v) \/ ClaimBusy(v) \/ Crash(v) \/ Start(v)
      BY DEF Next, Enqueue, Replay, Purge, Tick, vars, worker_vars
    <3> QED
      BY <1>1, <3>1, <3>2, <3>3
  <2> QED
    BY <1>1, <2>1 DEF AboutToSettle, Holds, Live, Holding
<1> QED
  BY <1>2, <1>3

\* Who stores a result goes on to settle the task.
LEMMA FirstResultStep ==
  ASSUME Undisturbed, TypeOK, SubmittedRows, LeaseInv, FirstResultIsLast, [Next]_vars
  PROVE  FirstResultIsLast'
<1> SUFFICES ASSUME crashes' = 0, NEW t \in TaskIds, HasResult(t)'
             PROVE  Settled(t)' \/ AboutToSettle(t)'
  BY DEF FirstResultIsLast
<1>1. crashes = 0
  BY CrashSteps
<1>2. CASE HasResult(t)
  BY <1>1, <1>2, SettledStays, AboutToSettleSteps DEF FirstResultIsLast
<1>3. CASE ~HasResult(t)
  <2>1. PICK w \in Workers : StoredBy(w, t)
    BY <1>3, ResultSteps DEF ResultStep, ResultPurge, HasResult
  <2>2. pc'[w] = "settle" /\ copy' = copy
    BY <2>1 DEF StoredBy, Store, TypeOK
  <2> QED
    BY <2>1, <2>2 DEF StoredBy, AboutToSettle, Holds, Live, Holding
<1> QED
  BY <1>2, <1>3

\* Hence a result that exists is not replaced.
LEMMA ResultKept ==
  ASSUME Undisturbed, TypeOK, LeaseInv, FirstResultIsLast, [Next]_vars,
         crashes' = 0, NEW t \in TaskIds, HasResult(t)
  PROVE  results'[t] = results[t]
<1>1. ASSUME NEW w \in Workers, StoredBy(w, t) PROVE FALSE
  <2>1. Holds(w, t) /\ pc[w] = "store"
    BY <1>1 DEF StoredBy, Store
  <2>2. ~Settled(t)
    BY <2>1 DEF LeaseInv, HoldersOwnRows, Settled, Terminal, InStatus
  <2>3. PICK v \in Workers : Holds(v, t) /\ pc[v] = "settle"
    BY <2>2, CrashSteps DEF FirstResultIsLast, AboutToSettle
  <2>4. v = w
    BY <2>1, <2>3 DEF Holds, LeaseInv, ExclusiveClaims
  <2> QED
    BY <2>1, <2>3, <2>4
<1>2. ~Purge
  BY DEF Undisturbed, Purge
<1> QED
  BY <1>1, <1>2, ResultSteps DEF ResultStep, ResultPurge

-----------------------------------------------------------------------------
(* The callers.                                                            *)

AnswersTypeOK == DOMAIN answer = Callers

AnswersInv == AnswersTypeOK /\ AnswersStand

\* At first nobody has an answer.
LEMMA AnswersInit == CallersInit => AnswersInv
<1> SUFFICES ASSUME CallersInit PROVE AnswersInv
  OBVIOUS
<1>1. NULL \notin Terminal
  BY CopyAssumption DEF Terminal, TaskStatus
<1>2. \A c \in Callers : answer[c] \notin Terminal
  BY <1>1 DEF CallersInit
<1> QED
  BY <1>2 DEF CallersInit, AnswersTypeOK, AnswersStand, AnswersInv

\* A caller copies the status of the result, which stays.
LEMMA AnswersStep ==
  Undisturbed /\ TypeOK /\ SubmittedRows /\ LeaseInv /\ FirstResultIsLast
    /\ AnswersInv /\ [CallersNext]_all_vars => AnswersInv'
<1> SUFFICES ASSUME Undisturbed, TypeOK, SubmittedRows, LeaseInv, FirstResultIsLast,
                    AnswersInv, [CallersNext]_all_vars
             PROVE  AnswersInv'
  OBVIOUS
<1>1. CASE [Next]_vars /\ UNCHANGED answer
  <2>1. ASSUME NEW c \in Callers, crashes' = 0, answer[c] \in Terminal
        PROVE  results'[AwaitOf[c]] # NULL /\ results'[AwaitOf[c]].status = answer[c]
    <3>1. crashes = 0
      BY <1>1, <2>1, CrashSteps
    <3>2. HasResult(AwaitOf[c]) /\ results[AwaitOf[c]].status = answer[c]
      BY <2>1, <3>1 DEF AnswersInv, AnswersStand, HasResult
    <3>3. results'[AwaitOf[c]] = results[AwaitOf[c]]
      BY <1>1, <2>1, <3>2, ResultKept, CallerAssumption
    <3> QED
      BY <3>2, <3>3 DEF HasResult
  <2> QED
    BY <1>1, <2>1 DEF AnswersInv, AnswersTypeOK, AnswersStand
<1>2. ASSUME NEW c \in Callers, Find(c), UNCHANGED vars PROVE AnswersInv'
  BY <1>2 DEF Find, Answerable, HasResult, vars, AnswersInv, AnswersTypeOK, AnswersStand
<1>3. ASSUME NEW c \in Callers, LosePatience(c), UNCHANGED vars PROVE AnswersInv'
  BY <1>3 DEF LosePatience, vars, Terminal, AnswersInv, AnswersTypeOK, AnswersStand
<1>4. \/ [Next]_vars /\ UNCHANGED answer
      \/ \E c \in Callers : (Find(c) \/ LosePatience(c)) /\ UNCHANGED vars
  BY DEF CallersNext, Get, all_vars, caller_vars
<1> QED
  BY <1>1, <1>2, <1>3, <1>4

\* When live workers settle in time and nobody purges or replays, what a caller was
\* answered remains the stored outcome until a worker process crashes.
THEOREM AnswersStandCorrect ==
  ASSUME Undisturbed
  PROVE  CallersSpec => []AnswersStand
<1> DEFINE CallersInv == /\ TypeOK /\ SubmittedRows /\ LeaseInv
                         /\ FirstResultIsLast /\ AnswersInv
<1>1. Init /\ CallersInit => CallersInv
  BY TypeInit, SubmittedInit, LeaseInit, FirstResultInit, AnswersInit
<1>2. CallersInv /\ [CallersNext]_all_vars => CallersInv'
  <2> SUFFICES ASSUME CallersInv, [CallersNext]_all_vars PROVE CallersInv'
    OBVIOUS
  <2>1. [Next]_vars
    BY DEF CallersNext, all_vars
  <2>2. TypeOK' /\ SubmittedRows' /\ LeaseInv'
    BY <2>1, TypeStep, SubmittedStep, LeaseStep DEF Undisturbed
  <2>3. FirstResultIsLast'
    BY <2>1, FirstResultStep
  <2>4. AnswersInv'
    BY AnswersStep
  <2> QED
    BY <2>2, <2>3, <2>4
<1>3. CallersInv => AnswersStand
  BY DEF AnswersInv
<1>4. CallersSpec => Init /\ CallersInit /\ [][CallersNext]_all_vars
  BY PTL DEF CallersSpec
<1> HIDE DEF CallersInv
<1> QED
  BY <1>1, <1>2, <1>3, <1>4, PTL
=============================================================================
