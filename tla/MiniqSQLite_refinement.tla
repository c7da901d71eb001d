----------------------- MODULE MiniqSQLite_refinement -----------------------
(***************************************************************************)
(* The SQLite deployment implements the contract of queue/base.py when     *)
(* live workers settle in time: every step of the deployment is a step of  *)
(* DeliveryContract under the mapping of MiniqSQLiteProps, or leaves its   *)
(* variables alone.                                                        *)
(***************************************************************************)
EXTENDS MiniqSQLite_proofs

-----------------------------------------------------------------------------
(* The retries a worker counted are those of the row, or one more.         *)

CopiesAgree ==
  \A w \in Workers : \A t \in TaskIds : Holds(w, t) =>
    /\ pc[w] = "execute" => copy[w].retries = tasks[t].retries
    /\ pc[w] = "requeue" => /\ copy[w].retries = tasks[t].retries + 1
                            /\ tasks[t].retries < MaxRetries[t]

\* At first nobody holds a task.
LEMMA CopiesInit == Init => CopiesAgree
BY DEF Init, Live, Holds, Holding, CopiesAgree

\* The counter of a Task object follows its row until the requeue writes it back.
LEMMA CopiesStep ==
  ASSUME TypeOK, SubmittedRows, LeaseInv, CopiesAgree, [Next]_vars
  PROVE  CopiesAgree'
<1> SUFFICES ASSUME NEW w \in Workers, NEW t \in TaskIds, Holds(w, t)'
             PROVE  /\ pc'[w] = "execute" => copy'[w].retries = tasks'[t].retries
                    /\ pc'[w] = "requeue" => /\ copy'[w].retries = tasks'[t].retries + 1
                                             /\ tasks'[t].retries < MaxRetries[t]
  BY DEF CopiesAgree
<1>1. CASE Claim(w)
  <2>1. PICK u \in FirstInLine(seen[w]) :
          /\ claim_row(u, seen[w] + VT)
          /\ copy' = [copy EXCEPT ![w] = row_to_task(u)]
    BY <1>1 DEF Claim
  <2>2. u = t
    BY <2>1 DEF row_to_task, Holds, TypeOK
  <2>3. tasks[t] \in Row
    BY <2>2 DEF FirstInLine, Claimable, InStatus, HasRow, TypeOK, QueueTypeOK
  <2>4. tasks'[t].retries = tasks[t].retries
    BY <2>1, <2>2, <2>3 DEF claim_row, Row, TypeOK, QueueTypeOK
  <2>5. copy'[w].retries = tasks[t].retries
    BY <2>1, <2>2 DEF row_to_task, TypeOK
  <2>6. pc'[w] = "execute"
    BY <1>1 DEF Claim, TypeOK
  <2> QED
    BY <2>4, <2>5, <2>6
<1>2. CASE ~Claim(w)
  <2>1. /\ Live(w) /\ copy'[w].id = copy[w].id
        /\ \/ copy'[w] = copy[w] /\ pc'[w] \in {pc[w], "settle"}
           \/ LookupFails(w) \/ Returns(w) \/ Raises(w)
    BY <1>2, CopySteps DEF Holds
  <2>2. Holds(w, t) /\ Live(w)'
    BY <2>1 DEF Holds
  <2>3. tasks'[t] = tasks[t]
    BY <2>2, HeldRowKept
  <2>4. CASE copy'[w] = copy[w] /\ pc'[w] \in {pc[w], "settle"}
    BY <2>2, <2>3, <2>4 DEF CopiesAgree
  <2>5. CASE LookupFails(w) \/ Returns(w)
    BY <2>5 DEF LookupFails, Returns, TypeOK
  <2>6. CASE Raises(w)
    <3>1. copy[w] \in TaskCopy
      BY <2>1, HolderType
    <3>2. copy[w].retries = tasks[t].retries /\ copy[w].id = t
      BY <2>2, <2>6 DEF Raises, CopiesAgree, Holds
    <3>3. PICK delay \in next_delays(copy[w]) :
            \/ /\ delay # NULL
               /\ copy' = [copy EXCEPT ![w] = retried(@, delay, now)]
            \/ pc' = [pc EXCEPT ![w] = "store"]
      BY <2>6 DEF Raises
    <3>4. CASE pc' = [pc EXCEPT ![w] = "store"]
      BY <3>4 DEF TypeOK
    <3>5. CASE delay # NULL /\ copy' = [copy EXCEPT ![w] = retried(@, delay, now)]
      <4>1. pc'[w] # "execute"
        BY <2>6 DEF Raises, TypeOK
      <4>2. copy[w].retries < MaxRetries[t]
        BY <3>2, <3>5 DEF next_delays, MayRetry
      <4>3. copy'[w].retries = copy[w].retries + 1
        BY <3>1, <3>5 DEF retried, counted, postponed, TaskCopy, TypeOK
      <4> QED
        BY <2>3, <3>2, <4>1, <4>2, <4>3
    <3> QED
      BY <3>3, <3>4, <3>5
  <2> QED
    BY <2>1, <2>4, <2>5, <2>6
<1> QED
  BY <1>1, <1>2

-----------------------------------------------------------------------------
(* The mapping, one task at a time.                                        *)

\* The mapped holder is the live worker that holds the task, if there is one.
LEMMA HolderIs ==
  ASSUME ExclusiveClaims, NEW w \in Workers, NEW t \in TaskIds, Holds(w, t)
  PROVE  HolderOf(t) = w
<1>1. \A v \in Workers : Holds(v, t) => v = w
  BY DEF Holds, ExclusiveClaims
<1> QED
  BY <1>1 DEF HolderOf

\* A task that no live worker holds has no mapped holder.
LEMMA HolderIsNobody ==
  ASSUME NEW t \in TaskIds, \A w \in Workers : ~Holds(w, t)
  PROVE  HolderOf(t) = NULL
BY DEF HolderOf

\* The mapped variables of task t do not change.
SameTask(t) ==
  /\ PhaseOf(t)' = PhaseOf(t)
  /\ HolderOf(t)' = HolderOf(t)
  /\ TriesOf(t)' = TriesOf(t)

\* The mapped holder of a task changes only if some worker takes or drops it.
LEMMA HolderKept ==
  ASSUME ExclusiveClaims, ExclusiveClaims', NEW t \in TaskIds,
         \A w \in Workers : Holds(w, t)' <=> Holds(w, t)
  PROVE  HolderOf(t)' = HolderOf(t)
<1>1. CASE \E w \in Workers : Holds(w, t)
  <2>1. PICK w \in Workers : Holds(w, t)
    BY <1>1
  <2>2. HolderOf(t) = w
    BY <2>1, HolderIs
  <2>3. \A v \in Workers : Holds(v, t)' => v = w
    BY <2>1 DEF Holds, ExclusiveClaims
  <2>4. Holds(w, t)'
    BY <2>1
  <2>5. HolderOf(t)' = w
    BY <2>3, <2>4 DEF HolderOf
  <2> QED
    BY <2>2, <2>5
<1>2. CASE \A w \in Workers : ~Holds(w, t)
  BY <1>2 DEF HolderOf
<1> QED
  BY <1>1, <1>2

\* The mapped phase and retries are functions of the row.
LEMMA RowKept ==
  ASSUME NEW t \in TaskIds, tasks'[t] = tasks[t], t \in submitted' <=> t \in submitted
  PROVE  PhaseOf(t)' = PhaseOf(t) /\ TriesOf(t)' = TriesOf(t)
BY DEF PhaseOf, TriesOf, HasRow

\* A task keeps its mapped state if its row and its holder stay.
LEMMA TaskKept ==
  ASSUME ExclusiveClaims, ExclusiveClaims', NEW t \in TaskIds,
         tasks'[t] = tasks[t], t \in submitted' <=> t \in submitted,
         \A w \in Workers : Holds(w, t)' <=> Holds(w, t)
  PROVE  SameTask(t)
BY HolderKept, RowKept DEF SameTask

\* A step that keeps every task is a stutter of the contract.
LEMMA Stutter ==
  ASSUME \A t \in TaskIds : SameTask(t)
  PROVE  UNCHANGED Contract!vars
BY DEF SameTask, Contract!vars

-----------------------------------------------------------------------------
(* The initial state.                                                      *)

\* The deployment starts where the contract does.
LEMMA ContractInit == Init => Contract!Init
<1> SUFFICES ASSUME Init PROVE Contract!Init
  OBVIOUS
<1>1. ASSUME NEW t \in TaskIds
      PROVE  PhaseOf(t) = "absent" /\ HolderOf(t) = NULL /\ TriesOf(t) = 0
  <2>1. ~HasRow(t) /\ t \notin submitted
    BY DEF Init, QueueInit, HasRow
  <2>2. HolderOf(t) = NULL
    BY HolderIsNobody DEF Init, Holds, Live, Holding
  <2> QED
    BY <2>1, <2>2 DEF PhaseOf, TriesOf
<1> QED
  BY <1>1 DEF Contract!Init

-----------------------------------------------------------------------------
(* The steps.                                                              *)

\* What the simulation relies on; ExclusiveClaims is part of LeaseInv.
MappingInv == TypeOK /\ SubmittedRows /\ LeaseInv /\ CopiesAgree

\* Before it is enqueued a task has no row, and so no holder.
LEMMA EnqueueMaps ==
  ASSUME MappingInv, ExclusiveClaims', NEW t \in TaskIds, Enqueue(t)
  PROVE  Contract!Submit(t)
<1>1. /\ t \notin submitted /\ submitted' = submitted \cup {t}
      /\ UNCHANGED <<pc, copy>>
  BY DEF Enqueue, worker_vars
<1>2. PICK d \in MaybeTime : enqueue(t, d)
  <2>1. PICK d \in ScheduleDelays : enqueue(t, IF d = NULL THEN NULL ELSE now + d)
    BY DEF Enqueue
  <2>2. (IF d = NULL THEN NULL ELSE now + d) \in MaybeTime
    BY DeploymentAssumption DEF MappingInv, TypeOK, MaybeTime, Times
  <2> QED
    BY <2>1, <2>2
<1>3. ~HasRow(t)
  BY <1>1 DEF MappingInv, SubmittedRows
<1>4. PhaseOf(t) = "absent" /\ TriesOf(t) = 0
  BY <1>1, <1>3 DEF PhaseOf, TriesOf
<1>5. /\ tasks'[t].status = "pending" /\ tasks'[t].retries = 0
      /\ tasks'[t] # NULL
  <2>1. tasks'[t] = [status |-> "pending", retries |-> 0, available_at |-> d,
           claimed_until |-> NULL, finished_at |-> NULL, error |-> NULL]
    BY <1>2 DEF enqueue, MappingInv, TypeOK, QueueTypeOK
  <2>2. tasks'[t] \in Row
    BY <2>1 DEF Row, TaskStatus, MaybeTime, MaybeError
  <2> QED
    BY <2>1, <2>2, RowAssumption
<1>6. PhaseOf(t)' = "queued" /\ TriesOf(t)' = 0
  BY <1>5 DEF PhaseOf, TriesOf, HasRow
<1>7. \A u \in TaskIds : HolderOf(u)' = HolderOf(u)
  BY <1>1, HolderKept DEF Holds, Live, MappingInv, LeaseInv
<1>8. ASSUME NEW u \in TaskIds, u # t
      PROVE  PhaseOf(u)' = PhaseOf(u) /\ TriesOf(u)' = TriesOf(u)
  <2>1. tasks'[u] = tasks[u]
    BY <1>2, <1>8 DEF enqueue, MappingInv, TypeOK, QueueTypeOK
  <2> QED
    BY <1>1, <1>8, <2>1, RowKept
<1> QED
  BY <1>4, <1>6, <1>7, <1>8 DEF Contract!Submit

\* A claim takes a pending task for a worker that held none.
LEMMA ClaimMaps ==
  ASSUME MappingInv, ExclusiveClaims', NEW w \in Workers, Claim(w)
  PROVE  \E t \in TaskIds : Contract!Claim(t, w)
<1>1. PICK t \in FirstInLine(seen[w]) :
        /\ claim_row(t, seen[w] + VT)
        /\ copy' = [copy EXCEPT ![w] = row_to_task(t)]
  BY DEF Claim
<1>2. t \in TaskIds /\ InStatus(t, {"pending"}) /\ tasks[t] \in Row
  BY DEF FirstInLine, Claimable, InStatus, HasRow, MappingInv, TypeOK, QueueTypeOK
<1>3. /\ pc' = [pc EXCEPT ![w] = "execute"] /\ submitted' = submitted
      /\ pc[w] \in Claiming
  BY DEF Claim
<1>4. ~Live(w) /\ \A v \in Workers : ~Holds(v, t)
  BY <1>2, <1>3 DEF Live, Holding, Claiming, MappingInv, LeaseInv, HoldersOwnRows, InStatus
<1>5. PhaseOf(t) = "queued"
  BY <1>2 DEF PhaseOf, InStatus
<1>6. \A u \in TaskIds : HolderOf(u) # w
  <2>1. ASSUME NEW u \in TaskIds PROVE HolderOf(u) # w
    <3>1. CASE \E v \in Workers : Holds(v, u)
      BY <1>4, <3>1, HolderIs DEF Holds, MappingInv, LeaseInv
    <3>2. CASE \A v \in Workers : ~Holds(v, u)
      BY <3>2, HolderIsNobody, DeploymentAssumption
    <3> QED
      BY <3>1, <3>2
  <2> QED
    BY <2>1
<1>7. PhaseOf(t)' = "claimed" /\ TriesOf(t)' = TriesOf(t)
  <2>1. tasks'[t] = [tasks[t] EXCEPT !.status = "running", !.claimed_until = seen[w] + VT]
    BY <1>1, <1>2 DEF claim_row, MappingInv, TypeOK, QueueTypeOK
  <2>2. seen[w] + VT \in MaybeTime
    BY DeploymentAssumption DEF Claim, MappingInv, TypeOK, MaybeTime, Times
  <2>3. tasks'[t] \in Row /\ tasks'[t].status = "running"
        /\ tasks'[t].retries = tasks[t].retries
    BY <1>2, <2>1, <2>2 DEF Row, TaskStatus
  <2> QED
    BY <1>2, <2>3, RowAssumption DEF PhaseOf, TriesOf, HasRow
<1>8. /\ Holds(w, t)'
      /\ \A v \in Workers \ {w} : \A u \in TaskIds : Holds(v, u)' <=> Holds(v, u)
      /\ \A u \in TaskIds : Holds(w, u)' => u = t
  BY <1>1, <1>3 DEF Holds, Live, Holding, row_to_task, MappingInv, TypeOK
<1>9. HolderOf(t)' = w
  <2>1. \A v \in Workers : Holds(v, t)' => v = w
    BY <1>8 DEF Holds, ExclusiveClaims
  <2> QED
    BY <1>8, <2>1 DEF HolderOf
<1>10. ASSUME NEW u \in TaskIds, u # t PROVE SameTask(u)
  <2>1. tasks'[u] = tasks[u]
    BY <1>1, <1>10 DEF claim_row, MappingInv, TypeOK, QueueTypeOK
  <2>2. \A v \in Workers : Holds(v, u)' <=> Holds(v, u)
    BY <1>4, <1>8, <1>10 DEF Holds
  <2> QED
    BY <1>3, <2>1, <2>2, TaskKept DEF MappingInv, LeaseInv
<1> QED
  BY <1>2, <1>5, <1>6, <1>7, <1>9, <1>10 DEF SameTask, Contract!Claim, Contract!Idle

\* Only claims whose workers are gone have expired.
LEMMA ReclaimMaps ==
  ASSUME MappingInv, ExclusiveClaims', NEW w \in Workers, Reclaim(w)
  PROVE  \E S \in SUBSET TaskIds : Contract!Expire(S)
<1> DEFINE S == {t \in TaskIds : Expired(t, seen[w])}
<1>1. /\ reclaim_expired(seen[w]) /\ submitted' = submitted /\ UNCHANGED copy
      /\ pc' = [pc EXCEPT ![w] = "claim2"] /\ pc[w] = "reclaim"
  BY DEF Reclaim
<1>2. seen[w] \in Nat /\ now \in Nat /\ seen[w] <= now
  BY DEF Reclaim, MappingInv, TypeOK, MaybeTime, Times, LeaseInv, FreshReadings
<1>3. \A v \in Workers : \A u \in TaskIds : Holds(v, u)' <=> Holds(v, u)
  BY <1>1 DEF Holds, Live, Holding, MappingInv, TypeOK
<1>4. ASSUME NEW t \in S
      PROVE  /\ PhaseOf(t) = "claimed" /\ HolderOf(t) = NULL
             /\ PhaseOf(t)' = "queued" /\ TriesOf(t)' = TriesOf(t)
  <2>1. /\ HasRow(t) /\ tasks[t] \in Row /\ tasks[t].status = "running"
        /\ tasks[t].claimed_until \in Nat /\ tasks[t].claimed_until <= seen[w]
    BY DEF Expired, InStatus, HasRow, MappingInv, TypeOK, QueueTypeOK, Row, MaybeTime, Times
  <2>2. ASSUME NEW v \in Workers, Holds(v, t) PROVE FALSE
    <3>1. tasks[t].claimed_until = lease[v] /\ now < lease[v]
      BY <2>2 DEF MappingInv, LeaseInv, HoldersOwnRows
    <3> QED
      BY <1>2, <2>1, <3>1
  <2>3. HolderOf(t) = NULL
    BY <2>2, HolderIsNobody
  <2>4. tasks'[t] = reclaimed_row(tasks[t])
    BY <1>1 DEF reclaim_expired
  <2>5. tasks'[t] \in Row /\ tasks'[t].status = "pending"
        /\ tasks'[t].retries = tasks[t].retries
    BY <2>1, <2>4 DEF reclaimed_row, Row, TaskStatus, MaybeTime
  <2> QED
    BY <2>1, <2>3, <2>5, RowAssumption DEF PhaseOf, TriesOf, HasRow
<1>5. ASSUME NEW t \in TaskIds \ S PROVE SameTask(t)
  <2>1. tasks'[t] = tasks[t]
    BY <1>1 DEF reclaim_expired
  <2> QED
    BY <1>1, <1>3, <2>1, TaskKept DEF MappingInv, LeaseInv
<1>6. \A t \in TaskIds : HolderOf(t)' = HolderOf(t)
  BY <1>3, HolderKept DEF MappingInv, LeaseInv
<1>7. Contract!Expire(S)
  BY <1>4, <1>5, <1>6 DEF SameTask, Contract!Expire
<1> QED
  BY <1>7

\* A worker that drops its task leaves it with no holder, and every other task
\* with the holder it had.
LEMMA Dropped ==
  ASSUME MappingInv, ExclusiveClaims', NEW w \in Workers, NEW t \in TaskIds,
         Holds(w, t), ~Live(w)',
         \A v \in Workers \ {w} : pc'[v] = pc[v] /\ copy'[v] = copy[v]
  PROVE  /\ HolderOf(t) = w /\ w # NULL /\ HolderOf(t)' = NULL
         /\ \A u \in TaskIds \ {t} : HolderOf(u)' = HolderOf(u)
<1>1. HolderOf(t) = w /\ w # NULL
  BY HolderIs, DeploymentAssumption DEF MappingInv, LeaseInv
<1>2. \A v \in Workers \ {w} : ~Holds(v, t)
  BY DEF Holds, MappingInv, LeaseInv, ExclusiveClaims
<1>3. \A v \in Workers : ~Holds(v, t)'
  BY <1>2 DEF Holds, Live
<1>4. HolderOf(t)' = NULL
  BY <1>3 DEF HolderOf
<1>5. ASSUME NEW u \in TaskIds \ {t} PROVE HolderOf(u)' = HolderOf(u)
  <2>1. \A v \in Workers : Holds(v, u)' <=> Holds(v, u)
    BY <1>5 DEF Holds, Live
  <2> QED
    BY <2>1, HolderKept DEF MappingInv, LeaseInv
<1> QED
  BY <1>1, <1>4, <1>5

\* A requeue is a retry: the claim is the holder's own, and the counter it
\* writes is the one of the row plus one.
LEMMA RequeueMaps ==
  ASSUME MappingInv, ExclusiveClaims', NEW w \in Workers, Requeue(w)
  PROVE  \E t \in TaskIds : Contract!Retry(t)
<1>1. /\ pc[w] = "requeue" /\ nack(copy[w], TRUE) /\ submitted' = submitted
      /\ pc' = [pc EXCEPT ![w] = "claim1"] /\ copy' = [copy EXCEPT ![w] = NULL]
  BY DEF Requeue, Release
<1>2. PICK t \in TaskIds :
        Live(w) /\ t = copy[w].id /\ Holds(w, t) /\ copy[w] \in TaskCopy
  BY <1>1, HolderType DEF Live, Holding, Holds, MappingInv
<1>3. /\ ~Live(w)'
      /\ \A v \in Workers \ {w} : pc'[v] = pc[v] /\ copy'[v] = copy[v]
  BY <1>1 DEF Live, Holding, MappingInv, TypeOK
<1>4. HasRow(t) /\ tasks[t] \in Row /\ tasks[t].status = "running"
  BY <1>2 DEF MappingInv, LeaseInv, HoldersOwnRows, InStatus, HasRow, TypeOK, QueueTypeOK
<1>5. copy[w].retries = tasks[t].retries + 1 /\ tasks[t].retries < MaxRetries[t]
  BY <1>1, <1>2 DEF MappingInv, CopiesAgree
<1>6. tasks' = [tasks EXCEPT ![t] = requeued_row(tasks[t], copy[w])]
  BY <1>1, <1>2, <1>4 DEF nack, update_row
<1>7. /\ tasks'[t] \in Row /\ tasks'[t].status = "pending"
      /\ tasks'[t].retries = tasks[t].retries + 1
  <2>1. tasks'[t] = requeued_row(tasks[t], copy[w])
    BY <1>2, <1>6 DEF MappingInv, TypeOK, QueueTypeOK
  <2> QED
    BY <1>2, <1>4, <1>5, <2>1, UpdatedRowType DEF requeued_row, Row
<1>8. PhaseOf(t) = "claimed" /\ TriesOf(t) = tasks[t].retries
  BY <1>4 DEF PhaseOf, TriesOf
<1>9. PhaseOf(t)' = "queued" /\ TriesOf(t)' = tasks[t].retries + 1
  BY <1>7, RowAssumption DEF PhaseOf, TriesOf, HasRow
<1>10. ASSUME NEW u \in TaskIds \ {t}
       PROVE  PhaseOf(u)' = PhaseOf(u) /\ TriesOf(u)' = TriesOf(u)
  <2>1. tasks'[u] = tasks[u]
    BY <1>6, <1>10 DEF MappingInv, TypeOK, QueueTypeOK
  <2> QED
    BY <1>1, <1>10, <2>1, RowKept
<1>11. /\ HolderOf(t) # NULL /\ HolderOf(t)' = NULL
       /\ \A u \in TaskIds \ {t} : HolderOf(u)' = HolderOf(u)
  BY <1>2, <1>3, Dropped
<1>12. Contract!Retry(t)
  BY <1>2, <1>5, <1>8, <1>9, <1>10, <1>11 DEF Contract!Retry, Contract!Leave
<1> QED
  BY <1>12

\* An ack completes and a final nack buries the task of the holder.
LEMMA SettleMaps ==
  ASSUME MappingInv, ExclusiveClaims', NEW w \in Workers, Settle(w)
  PROVE  \E t \in TaskIds : Contract!Complete(t) \/ Contract!Bury(t)
<1>1. /\ pc[w] = "settle" /\ submitted' = submitted
      /\ IF copy[w].status = "success" THEN ack(copy[w]) ELSE nack(copy[w], FALSE)
      /\ pc' = [pc EXCEPT ![w] = "claim1"] /\ copy' = [copy EXCEPT ![w] = NULL]
  BY DEF Settle, Release
<1>2. PICK t \in TaskIds :
      /\ Live(w) /\ t = copy[w].id /\ Holds(w, t) /\ copy[w] \in TaskCopy
      /\ copy[w].status \in {"success", "failed"}
  BY <1>1, HolderType DEF Live, Holding, Holds, MappingInv, TypeOK, Finished, Terminal
<1>3. /\ ~Live(w)'
      /\ \A v \in Workers \ {w} : pc'[v] = pc[v] /\ copy'[v] = copy[v]
  BY <1>1 DEF Live, Holding, MappingInv, TypeOK
<1>4. HasRow(t) /\ tasks[t] \in Row /\ tasks[t].status = "running"
  BY <1>2 DEF MappingInv, LeaseInv, HoldersOwnRows, InStatus, HasRow, TypeOK, QueueTypeOK
<1>5. tasks' = [tasks EXCEPT ![t] = settled_row(tasks[t], copy[w])]
  BY <1>1, <1>2, <1>4 DEF ack, nack, update_row
<1>6. /\ tasks'[t] \in Row /\ tasks'[t].status = copy[w].status
      /\ tasks'[t].retries = tasks[t].retries
  <2>1. tasks'[t] = settled_row(tasks[t], copy[w])
    BY <1>2, <1>5 DEF MappingInv, TypeOK, QueueTypeOK
  <2> QED
    BY <1>2, <1>4, <2>1, UpdatedRowType DEF settled_row, Row
<1>7. PhaseOf(t) = "claimed" /\ PhaseOf(t)' \in {"done", "dead"} /\ TriesOf(t)' = TriesOf(t)
  BY <1>2, <1>4, <1>6, RowAssumption DEF PhaseOf, TriesOf, HasRow
<1>8. ASSUME NEW u \in TaskIds \ {t}
      PROVE  PhaseOf(u)' = PhaseOf(u) /\ TriesOf(u)' = TriesOf(u)
  <2>1. tasks'[u] = tasks[u]
    BY <1>5, <1>8 DEF MappingInv, TypeOK, QueueTypeOK
  <2> QED
    BY <1>1, <1>8, <2>1, RowKept
<1>9. /\ HolderOf(t) # NULL /\ HolderOf(t)' = NULL
      /\ \A u \in TaskIds \ {t} : HolderOf(u)' = HolderOf(u)
  BY <1>2, <1>3, Dropped
<1>10. Contract!Complete(t) \/ Contract!Bury(t)
  BY <1>2, <1>7, <1>8, <1>9 DEF Contract!Complete, Contract!Bury, Contract!Leave
<1> QED
  BY <1>10

\* A process that goes down with a task abandons it; otherwise nothing happens.
LEMMA DownMaps ==
  ASSUME MappingInv, ExclusiveClaims', NEW w \in Workers, Crash(w) \/ StoreRaises(w) \/ PolicyRaises(w)
  PROVE  (\E t \in TaskIds : Contract!Abandon(t)) \/ UNCHANGED Contract!vars
<1>1. /\ tasks' = tasks /\ submitted' = submitted
      /\ pc' = [pc EXCEPT ![w] = "down"] /\ copy' = [copy EXCEPT ![w] = NULL]
  BY DEF Crash, StoreRaises, PolicyRaises, Release
<1>2. /\ ~Live(w)'
      /\ \A v \in Workers \ {w} : pc'[v] = pc[v] /\ copy'[v] = copy[v]
  BY <1>1 DEF Live, Holding, MappingInv, TypeOK
<1>3. \A u \in TaskIds : PhaseOf(u)' = PhaseOf(u) /\ TriesOf(u)' = TriesOf(u)
  BY <1>1, RowKept
<1>4. CASE Live(w)
  <2>1. PICK t \in TaskIds : Holds(w, t)
    BY <1>4, HolderType DEF Holds, MappingInv
  <2>2. /\ HolderOf(t) # NULL /\ HolderOf(t)' = NULL
        /\ \A u \in TaskIds \ {t} : HolderOf(u)' = HolderOf(u)
    BY <1>2, <2>1, Dropped
  <2>3. Contract!Abandon(t)
    <3>1. \A u \in TaskIds : HolderOf(u)' = IF u = t THEN NULL ELSE HolderOf(u)
      BY <2>1, <2>2
    <3> QED
      BY <1>3, <2>1, <2>2, <3>1 DEF Contract!Abandon
  <2> QED
    BY <2>3
<1>5. CASE ~Live(w)
  <2>1. \A v \in Workers : \A u \in TaskIds : Holds(v, u)' <=> Holds(v, u)
    BY <1>2, <1>5 DEF Holds, Live
  <2>2. \A u \in TaskIds : SameTask(u)
    BY <1>1, <2>1, TaskKept DEF MappingInv, LeaseInv
  <2> QED
    BY <2>2, Stutter
<1> QED
  BY <1>4, <1>5

\* A replay starts a dead letter anew.
LEMMA ReplayMaps ==
  ASSUME MappingInv, ExclusiveClaims', NEW t \in TaskIds, Replay(t)
  PROVE  Contract!Replay(t)
<1>1. /\ Replayable(t) /\ tasks' = [tasks EXCEPT ![t] = replayed_row]
      /\ UNCHANGED <<submitted, pc, copy>>
  BY DEF Replay, cmd_dlq_replay, worker_vars
<1>2. PhaseOf(t) = "dead"
  BY <1>1 DEF Replayable, InStatus, PhaseOf
<1>3. PhaseOf(t)' = "queued" /\ TriesOf(t)' = 0
  <2>1. tasks'[t] = replayed_row
    BY <1>1 DEF MappingInv, TypeOK, QueueTypeOK
  <2>2. replayed_row \in Row
    BY DEF replayed_row, Row, TaskStatus, MaybeTime, MaybeError
  <2>3. replayed_row.status = "pending" /\ replayed_row.retries = 0
    BY DEF replayed_row
  <2> QED
    BY <2>1, <2>2, <2>3, RowAssumption DEF PhaseOf, TriesOf, HasRow
<1>4. \A u \in TaskIds : HolderOf(u)' = HolderOf(u)
  BY <1>1, HolderKept DEF Holds, Live, MappingInv, LeaseInv
<1>5. ASSUME NEW u \in TaskIds, u # t
      PROVE  PhaseOf(u)' = PhaseOf(u) /\ TriesOf(u)' = TriesOf(u)
  BY <1>1, <1>5, RowKept DEF MappingInv, TypeOK, QueueTypeOK
<1> QED
  BY <1>2, <1>3, <1>4, <1>5 DEF Contract!Replay

\* A purge removes finished tasks only.
LEMMA PurgeMaps ==
  ASSUME MappingInv, ExclusiveClaims', Purge
  PROVE  \E S \in SUBSET TaskIds : Contract!Purge(S)
<1>1. PICK age \in PurgeAges, include_failed \in BOOLEAN :
        cmd_purge(now - age, include_failed)
  BY DEF Purge
<1> DEFINE S == {t \in TaskIds :
                   TaskPurged(t, PurgedStatuses(include_failed), now - age)}
<1>2. UNCHANGED <<submitted, pc, copy>>
  BY DEF Purge, worker_vars
<1>3. ASSUME NEW t \in S
      PROVE  /\ PhaseOf(t) \in {"done", "dead"}
             /\ PhaseOf(t)' = "purged" /\ TriesOf(t)' = 0
  <2>1. HasRow(t) /\ tasks[t].status \in {"success", "failed"}
    BY DEF TaskPurged, PurgedStatuses, InStatus
  <2>2. tasks'[t] = NULL
    BY <1>1 DEF cmd_purge
  <2>3. t \in submitted'
    BY <1>2, <2>1 DEF MappingInv, SubmittedRows
  <2> QED
    BY <2>1, <2>2, <2>3 DEF PhaseOf, TriesOf, HasRow
<1>4. ASSUME NEW t \in TaskIds \ S
      PROVE  PhaseOf(t)' = PhaseOf(t) /\ TriesOf(t)' = TriesOf(t)
  BY <1>1, <1>2, <1>4, RowKept DEF cmd_purge
<1>5. \A t \in TaskIds : HolderOf(t)' = HolderOf(t)
  BY <1>2, HolderKept DEF Holds, Live, MappingInv, LeaseInv
<1>6. Contract!Purge(S)
  BY <1>3, <1>4, <1>5 DEF Contract!Purge
<1> QED
  BY <1>6

\* Polls that fail, executions, stores, starts and the clock are invisible.
LEMMA OthersStutter ==
  ASSUME MappingInv, ExclusiveClaims',
         \/ Tick \/ UNCHANGED vars
         \/ \E w \in Workers : \/ ReadClock(w) \/ ClaimNothing(w) \/ ClaimBusy(w)
                               \/ LookupFails(w) \/ Returns(w) \/ Raises(w)
                               \/ Store(w) \/ Start(w)
  PROVE  UNCHANGED Contract!vars
<1>1. tasks' = tasks /\ submitted' = submitted
  BY DEF Tick, vars, ReadClock, ClaimNothing, ClaimBusy, LookupFails, Returns, Raises,
         Store, Start
<1>2. \A v \in Workers : \A u \in TaskIds : Holds(v, u)' <=> Holds(v, u)
  <2>1. CASE Tick \/ UNCHANGED vars
    BY <2>1 DEF Tick, vars, worker_vars, Holds, Live
  <2>2. ASSUME NEW w \in Workers,
               ReadClock(w) \/ ClaimNothing(w) \/ ClaimBusy(w) \/ Store(w) \/ Start(w)
        PROVE  \A v \in Workers : \A u \in TaskIds : Holds(v, u)' <=> Holds(v, u)
    BY <2>2 DEF ReadClock, ClaimNothing, ClaimBusy, Store, Start, AfterFailedClaim,
                Claiming, Polling, Holding, Holds, Live, MappingInv, TypeOK
  <2>3. ASSUME NEW w \in Workers, LookupFails(w) \/ Returns(w) \/ Raises(w)
        PROVE  \A v \in Workers : \A u \in TaskIds : Holds(v, u)' <=> Holds(v, u)
    <3>1. Live(w) /\ Live(w)'
      BY <2>3 DEF LookupFails, Returns, Raises, Live, Holding, MappingInv, TypeOK
    <3>2. copy'[w].id = copy[w].id
      BY <2>3, <3>1, CopySteps DEF MappingInv, Next, Step, Claim, Claiming, LookupFails,
                                   Returns, Raises
    <3>3. \A v \in Workers \ {w} : pc'[v] = pc[v] /\ copy'[v] = copy[v]
      BY <2>3 DEF LookupFails, Returns, Raises, MappingInv, TypeOK
    <3> QED
      BY <3>1, <3>2, <3>3 DEF Holds, Live
  <2> QED
    BY <2>1, <2>2, <2>3
<1>3. \A u \in TaskIds : SameTask(u)
  BY <1>1, <1>2, TaskKept DEF MappingInv, LeaseInv
<1> QED
  BY <1>3, Stutter

-----------------------------------------------------------------------------
(* The refinement.                                                         *)

\* Every step of the deployment is a step of the contract or a stutter.
LEMMA ContractStep ==
  ASSUME MappingInv, ExclusiveClaims', [Next]_vars
  PROVE  [Contract!Next]_(Contract!vars)
<1>1. ASSUME NEW t \in TaskIds, Enqueue(t) \/ Replay(t)
      PROVE  Contract!Next
  BY <1>1, EnqueueMaps, ReplayMaps DEF Contract!Next
<1>2. ASSUME NEW w \in Workers, Claim(w) \/ Reclaim(w) \/ Requeue(w) \/ Settle(w)
      PROVE  Contract!Next
  BY <1>2, ClaimMaps, ReclaimMaps, RequeueMaps, SettleMaps DEF Contract!Next
<1>3. ASSUME NEW w \in Workers, Crash(w) \/ StoreRaises(w) \/ PolicyRaises(w)
      PROVE  Contract!Next \/ UNCHANGED Contract!vars
  BY <1>3, DownMaps DEF Contract!Next
<1>4. CASE Purge
  BY <1>4, PurgeMaps DEF Contract!Next
<1>5. CASE \/ Tick \/ UNCHANGED vars
           \/ \E w \in Workers : \/ ReadClock(w) \/ ClaimNothing(w) \/ ClaimBusy(w)
                                 \/ LookupFails(w) \/ Returns(w) \/ Raises(w)
                                 \/ Store(w) \/ Start(w)
  BY <1>5, OthersStutter
<1> QED
  BY <1>1, <1>2, <1>3, <1>4, <1>5 DEF Next, Step

\* When live workers settle in time, the deployment implements the concurrency
\* contract of the queue interface, crashes, replays and purges included.
THEOREM RefinementCorrect ==
  ASSUME InTime
  PROVE  Spec => RefinesContract
<1>1. Init => MappingInv /\ Contract!Init
  BY TypeInit, SubmittedInit, LeaseInit, CopiesInit, ContractInit DEF MappingInv
<1>2. MappingInv /\ [Next]_vars => MappingInv'
  BY TypeStep, SubmittedStep, LeaseStep, CopiesStep DEF MappingInv
<1>3. MappingInv' => ExclusiveClaims'
  BY DEF MappingInv, LeaseInv
<1>4. MappingInv /\ MappingInv' /\ [Next]_vars => [Contract!Next]_(Contract!vars)
  BY <1>3, ContractStep
<1> QED
  BY <1>1, <1>2, <1>4, PTL DEF Spec, RefinesContract, Contract!Spec
=============================================================================
