------------------------- MODULE MiniqMemory_proofs -------------------------
(***************************************************************************)
(* Proofs about the one-process deployment, for any tasks, threads,        *)
(* callers and timeouts, whether or not threads settle in time.            *)
(***************************************************************************)
EXTENDS MiniqMemoryProps, FiniteSetTheorems, TLAPS

-----------------------------------------------------------------------------
(* The helpers.                                                            *)

LEMMA Marks ==
  ASSUME NEW c \in TaskCopy
  PROVE  mark_running(c) \in TaskCopy /\ mark_pending(c) \in TaskCopy
BY DEF TaskCopy, TaskStatus, mark_running, mark_pending

LEMMA Finishes ==
  ASSUME NEW c \in TaskCopy, NEW e \in Errors
  PROVE  mark_success(c, 0) \in TaskCopy /\ mark_failed(c, e, 0) \in TaskCopy
BY DEF TaskCopy, TaskStatus, MaybeError, MaybeTime, Times, mark_success, mark_failed

LEMMA Retries ==
  ASSUME NEW c \in TaskCopy, NEW d \in Times
  PROVE  counted(c) \in TaskCopy /\ postponed(c, d, 0) \in TaskCopy
<1>1. c.retries + 1 \in Nat /\ 0 + d \in MaybeTime
  BY DEF TaskCopy, MaybeTime, Times
<1> QED
  BY <1>1 DEF TaskCopy, counted, postponed

LEMMA Stamps ==
  ASSUME NEW c \in TaskCopy, NEW d \in MaybeTime
  PROVE  [c EXCEPT !.available_at = d] \in TaskCopy
BY DEF TaskCopy

\* The clock makes a stamp neither appear nor vanish.
LEMMA Elapses ==
  ASSUME NEW d \in MaybeTime
  PROVE  Elapse(d) \in MaybeTime /\ (Elapse(d) = NULL <=> d = NULL)
BY TaskAssumption DEF Elapse, MaybeTime, Times

\* What a thread may be told to wait, once exceptions are set aside.
LEMMA DelayTypes ==
  ASSUME NEW c \in TaskCopy, NEW d \in next_delays(c) \ {PolicyError}
  PROVE  d \in MaybeTime
<1>1. CASE ~MayRetry(c)
  BY <1>1 DEF next_delays, MaybeTime
<1>2. CASE MayRetry(c)
  <2>1. c.retries + 1 \in 1..MaxRetries[c.id] /\ c.id \in TaskIds
    BY <1>2, TaskAssumption DEF MayRetry, TaskCopy
  <2>2. Delays(c.retries + 1) \subseteq Times \cup {NULL, PolicyError}
    BY <2>1, DelaysAssumption
  <2> QED
    BY <1>2, <2>2 DEF next_delays, MaybeTime
<1> QED
  BY <1>1, <1>2

-----------------------------------------------------------------------------
(* Type correctness.  Critical sections first.                             *)

LEMMA ReclaimTypes ==
  ASSUME QueueTypeOK, \A t \in TaskIds : claimed[t] # NULL => Created(t), reclaim_expired
  PROVE  /\ QueueTypeOK'
         /\ \A t \in TaskIds : Created(t) => Created(t)'
         /\ \A t \in TaskIds : (queued[t] > 0 \/ claimed[t] # NULL)' =>
              queued[t] > 0 \/ claimed[t] # NULL
         /\ sleeping' \subseteq sleeping
<1>1. \A t \in TaskIds : Expired(t) => obj[t] \in TaskCopy
  BY DEF QueueTypeOK, Expired, Past, Created
<1>2. QueueTypeOK'
  BY <1>1, Marks DEF QueueTypeOK, reclaim_expired, MaybeTime
<1>3. \A t \in TaskIds : Created(t) => Created(t)'
  BY <1>1, Marks, CopyAssumption DEF reclaim_expired, Created
<1>4. \A t \in TaskIds : (queued[t] > 0 \/ claimed[t] # NULL)' =>
              queued[t] > 0 \/ claimed[t] # NULL
  BY DEF reclaim_expired, Expired, Past, QueueTypeOK
<1>5. sleeping' \subseteq sleeping
  BY DEF reclaim_expired, notify_all
<1> QED
  BY <1>2, <1>3, <1>4, <1>5

LEMMA TypeInit == Init => TypeOK
BY MemoryAssumption, TaskAssumption
DEF Init, QueueInit, ResultsInit, TypeOK, QueueTypeOK, MaybeTime, Times, Live, Holding,
    Created, Answers

LEMMA TypeNext == TypeOK /\ [Next]_vars => TypeOK'
<1> SUFFICES ASSUME TypeOK, [Next]_vars PROVE TypeOK'
  OBVIOUS
<1> USE MemoryAssumption, TaskAssumption, QueueAssumption
<1>1. ASSUME NEW t \in TaskIds, Enqueue(t) PROVE TypeOK'
  BY <1>1, CopyAssumption
  DEF Enqueue, enqueue, append, notify, TypeOK, QueueTypeOK, Created, Live, TaskCopy,
      TaskStatus, MaybeTime, MaybeError, Times, results_vars, worker_vars, caller_vars
<1>2. ASSUME NEW w \in Threads, Call(w) PROVE TypeOK'
  BY <1>2
  DEF Call, TypeOK, QueueTypeOK, Created, Live, Holding, MaybeTime, queue_vars,
      results_vars, caller_vars
<1>3. ASSUME NEW w \in Threads, Reclaim(w) PROVE TypeOK'
  BY <1>3, ReclaimTypes
  DEF Reclaim, TypeOK, QueueTypeOK, Created, Live, Holding, results_vars, caller_vars
<1>4. ASSUME NEW w \in Threads, Claim(w) PROVE TypeOK'
  BY <1>4, Marks, CopyAssumption
  DEF Claim, FirstInLine, Ready, claim, TypeOK, QueueTypeOK, Created, Live, Holding,
      MaybeTime, Times, results_vars, caller_vars
<1>5. ASSUME NEW w \in Threads, GiveUp(w) PROVE TypeOK'
  BY <1>5
  DEF GiveUp, TypeOK, QueueTypeOK, Created, Live, Holding, MaybeTime, queue_vars,
      results_vars, caller_vars
<1>6. ASSUME NEW w \in Threads, Wait(w) PROVE TypeOK'
  BY <1>6
  DEF Wait, TypeOK, QueueTypeOK, Created, Live, Holding, results_vars, caller_vars
<1>7. ASSUME NEW w \in Threads, TimeOut(w) PROVE TypeOK'
  BY <1>7
  DEF TimeOut, TypeOK, QueueTypeOK, Created, Live, results_vars, worker_vars, caller_vars
<1>8. ASSUME NEW w \in Threads, LookupFails(w) \/ Returns(w) \/ DeadLetter(w)
      PROVE  TypeOK'
  BY <1>8, Finishes, CopyAssumption
  DEF LookupFails, Returns, DeadLetter, Mark, TypeOK, QueueTypeOK, Created, Live,
      Holding, Errors, results_vars, caller_vars
<1>9. ASSUME NEW w \in Threads, Raises(w) PROVE TypeOK'
  BY <1>9, DelayTypes
  DEF Raises, TypeOK, QueueTypeOK, Created, Live, Holding, queue_vars, results_vars,
      caller_vars
<1>10. ASSUME NEW w \in Threads, PolicyRaises(w) \/ Die(w) PROVE TypeOK'
  BY <1>10
  DEF PolicyRaises, Die, Release, TypeOK, QueueTypeOK, Created, Live, Holding,
      MaybeTime, queue_vars, results_vars, caller_vars
<1>11. ASSUME NEW w \in Threads, CountRetry(w) \/ Postpone(w) PROVE TypeOK'
  <2>1. \A t \in TaskIds : Created(t) =>
          counted(obj[t]) \in TaskCopy /\ \A d \in Times : postponed(obj[t], d, 0) \in TaskCopy
    BY Retries, ZenonT(30) DEF TypeOK, QueueTypeOK, Created
  <2>2. CASE CountRetry(w)
    BY <2>1, <2>2, CopyAssumption
    DEF CountRetry, TypeOK, QueueTypeOK, Created, Live, Holding, MaybeTime,
        results_vars, caller_vars
  <2>3. CASE Postpone(w)
    BY <2>1, <2>3, CopyAssumption
    DEF Postpone, TypeOK, QueueTypeOK, Created, Live, Holding, MaybeTime,
        results_vars, caller_vars
  <2> QED
    BY <1>11, <2>2, <2>3
<1>12. ASSUME NEW w \in Threads, Requeue(w) PROVE TypeOK'
  BY <1>12, Marks, CopyAssumption
  DEF Requeue, Release, nack, append, notify, TypeOK, QueueTypeOK, Created, Live,
      Holding, MaybeTime, Times, results_vars, caller_vars
<1>13. ASSUME NEW w \in Threads, Store(w) PROVE TypeOK'
  BY <1>13
  DEF Store, store, TypeOK, QueueTypeOK, Created, Live, Holding, queue_vars, caller_vars
<1>14. ASSUME NEW w \in Threads, Settle(w) PROVE TypeOK'
  BY <1>14
  DEF Settle, Release, ack, nack, TypeOK, QueueTypeOK, Created, Live, Holding,
      MaybeTime, Times, results_vars, caller_vars
<1>15. ASSUME NEW c \in Callers, Get(c) \/ CallerStep(c) PROVE TypeOK'
  <2> DEFINE Place == Answers \cup {"idle", "look", "read1", "read2"}
  <2>1. /\ UNCHANGED <<queue_vars, stored, worker_vars>>
        /\ patience' \in [Callers -> MaybeTime]
    BY <1>15
    DEF Get, CallerStep, Found, LosePatience, Await, AwaitTimesOut, ReadSuccess, ReadFailed,
        Goto, TypeOK, MaybeTime, results_vars, worker_vars, caller_vars
  <2>2. CASE waiting' = waiting /\ c \notin waiting
              /\ \E place \in Place \ {"idle"} : cpc' = [cpc EXCEPT ![c] = place]
    <3>1. Created(AwaitOf[c])
      BY <1>15
      DEF Get, CallerStep, Found, LosePatience, Await, AwaitTimesOut, ReadSuccess,
          ReadFailed, Looking, TypeOK
    <3> QED
      BY <2>1, <2>2, <3>1
      DEF TypeOK, QueueTypeOK, Created, Live, queue_vars, worker_vars, Answers
  <2>3. CASE cpc' = cpc /\ cpc[c] = "look" /\ waiting' \subseteq waiting \cup {c}
    BY <2>1, <2>3 DEF TypeOK, QueueTypeOK, Created, Live, queue_vars, worker_vars
  <2>4. CASE Get(c)
    BY <2>2, <2>4 DEF Get, Goto, Answers, results_vars, TypeOK
  <2>5. CASE Found(c) \/ LosePatience(c)
    BY <2>2, <2>5 DEF Found, LosePatience, Looking, Goto, Answers, results_vars
  <2>6. CASE Await(c) \/ AwaitTimesOut(c)
    BY <2>3, <2>6 DEF Await, AwaitTimesOut, Looking, TypeOK, caller_vars
  <2>7. CASE ReadSuccess(c) \/ ReadFailed(c)
    BY <2>2, <2>7 DEF ReadSuccess, ReadFailed, Goto, Answers, results_vars, TypeOK
  <2> QED
    BY <1>15, <2>4, <2>5, <2>6, <2>7 DEF CallerStep
<1>16. CASE Tick
  <2>1. /\ claimed' \in [TaskIds -> MaybeTime]
        /\ until' \in [Threads -> MaybeTime]
        /\ patience' \in [Callers -> MaybeTime]
        /\ \A t \in TaskIds : claimed'[t] = NULL <=> claimed[t] = NULL
        /\ \A w \in Threads : until'[w] = NULL <=> until[w] = NULL
    BY <1>16, Elapses DEF Tick, TypeOK, QueueTypeOK
  <2>2. \A t \in TaskIds : Created(t) =>
          /\ obj[t] \in TaskCopy
          /\ Elapse(obj[t].available_at) \in MaybeTime
    BY Elapses DEF TypeOK, QueueTypeOK, Created, TaskCopy
  <2>3. \A t \in TaskIds : Created(t) =>
          [obj[t] EXCEPT !.available_at = Elapse(@)] \in TaskCopy
    BY <2>2, Stamps
  <2>4. obj' \in [TaskIds -> TaskCopy \cup {NULL}]
    BY <1>16, <2>3 DEF Tick
  <2>5. \A t \in TaskIds : Created(t)' <=> Created(t)
    BY <1>16, <2>3, CopyAssumption DEF Tick, Created
  <2> QED
    BY <1>16, <2>1, <2>4, <2>5 DEF Tick, TypeOK, QueueTypeOK, Live, results_vars
<1>17. CASE UNCHANGED vars
  BY <1>17
  DEF vars, TypeOK, QueueTypeOK, Created, Live, queue_vars, results_vars, worker_vars,
      caller_vars
<1> QED
  BY <1>1, <1>2, <1>3, <1>4, <1>5, <1>6, <1>7, <1>8, <1>9, <1>10, <1>11, <1>12, <1>13,
     <1>14, <1>15, <1>16, <1>17 DEF Next, Step

\* Type correctness: a thread has a task exactly while it works on one, and only
\* threads inside dequeue and callers inside wait sleep.
THEOREM MemoryTypeCorrect == Spec => []TypeOK
BY TypeInit, TypeNext, PTL DEF Spec

-----------------------------------------------------------------------------
(* No task is lost.  The claim that settle pops may be that of the next    *)
(* holder, and is not needed any more: the result is stored by then.       *)

StoredBeforeSettled == \A w \in Threads : pc[w] = "settle" => held[w] \in stored

LostInv == TypeOK /\ StoredBeforeSettled /\ NoTaskLost

LEMMA LostInit == Init => LostInv
<1>1. Init => TypeOK
  BY TypeInit
<1>2. Init => StoredBeforeSettled /\ NoTaskLost
  BY DEF Init, QueueInit, StoredBeforeSettled, NoTaskLost, Created
<1> QED
  BY <1>1, <1>2 DEF LostInv

\* Steps that move no task.
LEMMA LostFrame ==
  ASSUME LostInv, UNCHANGED <<queued, claimed, stored>>,
         \A t \in TaskIds : Created(t)' => Created(t),
         \A w \in Threads : pc'[w] = "settle" => pc[w] = "settle" /\ held'[w] = held[w]
  PROVE  (StoredBeforeSettled /\ NoTaskLost)'
BY DEF LostInv, StoredBeforeSettled, NoTaskLost

LEMMA LostNext == LostInv /\ [Next]_vars => LostInv'
<1> SUFFICES ASSUME LostInv, [Next]_vars PROVE (StoredBeforeSettled /\ NoTaskLost)'
  BY TypeNext DEF LostInv
<1> USE MemoryAssumption, TaskAssumption, QueueAssumption DEF LostInv
<1>1. ASSUME NEW t \in TaskIds, Enqueue(t) PROVE (StoredBeforeSettled /\ NoTaskLost)'
  BY <1>1 DEF Enqueue, enqueue, append, StoredBeforeSettled, NoTaskLost, Created, TypeOK,
              QueueTypeOK, results_vars, worker_vars
<1>2. ASSUME NEW w \in Threads, Reclaim(w) PROVE (StoredBeforeSettled /\ NoTaskLost)'
  BY <1>2 DEF Reclaim, reclaim_expired, Expired, Past, StoredBeforeSettled, NoTaskLost,
              Created, TypeOK, QueueTypeOK, results_vars
<1>3. ASSUME NEW w \in Threads, Claim(w) PROVE (StoredBeforeSettled /\ NoTaskLost)'
  BY <1>3 DEF Claim, FirstInLine, Ready, claim, StoredBeforeSettled, NoTaskLost, Created,
              TypeOK, QueueTypeOK, Times, results_vars
<1>4. ASSUME NEW w \in Threads, Requeue(w) PROVE (StoredBeforeSettled /\ NoTaskLost)'
  BY <1>4 DEF Requeue, Release, nack, append, Live, Holding, StoredBeforeSettled,
              NoTaskLost, Created, TypeOK, QueueTypeOK, results_vars
<1>5. ASSUME NEW w \in Threads, Store(w) PROVE (StoredBeforeSettled /\ NoTaskLost)'
  BY <1>5 DEF Store, store, StoredBeforeSettled, NoTaskLost, Created, TypeOK, QueueTypeOK,
              queue_vars
<1>6. ASSUME NEW w \in Threads, Settle(w) PROVE (StoredBeforeSettled /\ NoTaskLost)'
  BY <1>6 DEF Settle, Release, ack, nack, StoredBeforeSettled, NoTaskLost, Created, TypeOK,
              QueueTypeOK, results_vars
<1>7. CASE Tick
  <2>1. \A t \in TaskIds : claimed'[t] = NULL <=> claimed[t] = NULL
    BY <1>7, Elapses DEF Tick, TypeOK, QueueTypeOK
  <2>2. \A t \in TaskIds : Created(t)' => Created(t)
    BY <1>7 DEF Tick, Created
  <2> QED
    BY <1>7, <2>1, <2>2 DEF Tick, StoredBeforeSettled, NoTaskLost, results_vars
<1>8. ASSUME NEW w \in Threads,
             \/ Call(w) \/ GiveUp(w) \/ Wait(w) \/ TimeOut(w)
             \/ Raises(w) \/ PolicyRaises(w) \/ Die(w)
      PROVE  (StoredBeforeSettled /\ NoTaskLost)'
  <2>1. \A v \in Threads : pc'[v] = "settle" => pc[v] = "settle" /\ held'[v] = held[v]
    BY <1>8 DEF Call, GiveUp, Wait, TimeOut, Raises, PolicyRaises, Die, Release, TypeOK,
                worker_vars
  <2>2. UNCHANGED <<obj, queued, claimed, stored>>
    BY <1>8 DEF Call, GiveUp, Wait, TimeOut, Raises, PolicyRaises, Die, queue_vars,
                results_vars
  <2> QED
    BY <2>1, <2>2, LostFrame DEF Created
<1>9. ASSUME NEW w \in Threads,
             \/ LookupFails(w) \/ Returns(w) \/ DeadLetter(w)
             \/ CountRetry(w) \/ Postpone(w)
      PROVE  (StoredBeforeSettled /\ NoTaskLost)'
  <2>1. \A v \in Threads : pc'[v] = "settle" => pc[v] = "settle" /\ held'[v] = held[v]
    BY <1>9 DEF LookupFails, Returns, DeadLetter, CountRetry, Postpone, Mark, TypeOK
  <2>2. UNCHANGED <<queued, claimed, stored>>
    BY <1>9 DEF LookupFails, Returns, DeadLetter, CountRetry, Postpone, Mark, results_vars
  <2>3. \A t \in TaskIds : Created(t)' => Created(t)
    BY <1>9 DEF LookupFails, Returns, DeadLetter, CountRetry, Postpone, Mark, TypeOK, Live,
                Holding, Created, QueueTypeOK
  <2> QED
    BY <2>1, <2>2, <2>3, LostFrame
<1>10. CASE UNCHANGED <<queue_vars, stored, worker_vars>>
  BY <1>10, LostFrame DEF queue_vars, worker_vars, Created
<1>11. ASSUME NEW c \in Callers, Get(c) \/ CallerStep(c)
       PROVE  UNCHANGED <<queue_vars, stored, worker_vars>>
  BY <1>11 DEF Get, CallerStep, Found, LosePatience, Await, AwaitTimesOut, ReadSuccess,
               ReadFailed, Goto, results_vars
<1>12. UNCHANGED vars => UNCHANGED <<queue_vars, stored, worker_vars>>
  BY DEF vars, results_vars
<1> QED
  BY <1>1, <1>2, <1>3, <1>4, <1>5, <1>6, <1>7, <1>8, <1>9, <1>10, <1>11, <1>12
  DEF Next, Step

\* A task that was enqueued is in the deque, or has a claim that can expire, or has
\* a result, also when late threads pop the claims of others and threads die.
THEOREM MemoryLosesNothing == Spec => []NoTaskLost
<1>1. LostInv => NoTaskLost
  BY DEF LostInv
<1> QED
  BY <1>1, LostInit, LostNext, PTL DEF Spec

-----------------------------------------------------------------------------
(* Callers do not sleep beside their answer.                               *)

Ready_to_answer(t) == Answerable(t, obj[t])
Storing(t) == \E w \in Threads : pc[w] = "store" /\ held[w] = t

\* Steps that finish no task, put no caller to sleep and store nothing.
LEMMA SleepFrame ==
  ASSUME NoSleepOnAnswer, TypeOK,
         waiting' \subseteq waiting,
         \A t \in TaskIds : Ready_to_answer(t)' => Ready_to_answer(t),
         \A t \in TaskIds : Storing(t) => Storing(t)'
  PROVE  NoSleepOnAnswer'
BY MemoryAssumption DEF NoSleepOnAnswer, Ready_to_answer, Storing, TypeOK

\* What the queue does to an object finishes none.
LEMMA QueueFinishesNone ==
  ASSUME TypeOK,
         \/ \E t \in TaskIds, d \in ScheduleDelays : ~Created(t) /\ enqueue(t, d)
         \/ reclaim_expired
         \/ \E t \in TaskIds : Created(t) /\ (claim(t) \/ nack(t, TRUE)),
         UNCHANGED stored
  PROVE  \A t \in TaskIds : Ready_to_answer(t)' => Ready_to_answer(t)
<1>1. \A t \in TaskIds : Created(t) => obj[t] \in TaskCopy
  BY DEF TypeOK, QueueTypeOK, Created
<1>2. \A t \in TaskIds : obj'[t] = obj[t] \/ obj'[t].status \in {"pending", "running"}
  <2>1. CASE \E t \in TaskIds, d \in ScheduleDelays : ~Created(t) /\ enqueue(t, d)
    BY <2>1 DEF enqueue, TypeOK, QueueTypeOK
  <2>2. CASE reclaim_expired
    <3>1. \A t \in TaskIds : Expired(t) => obj[t] \in TaskCopy
      BY <1>1 DEF Expired, Past, TypeOK
    <3> QED
      BY <2>2, <3>1 DEF reclaim_expired, mark_pending, TaskCopy
  <2>3. CASE \E t \in TaskIds : Created(t) /\ (claim(t) \/ nack(t, TRUE))
    BY <2>3, <1>1 DEF claim, nack, mark_running, mark_pending, TypeOK, QueueTypeOK, TaskCopy
  <2> QED
    BY <2>1, <2>2, <2>3
<1> QED
  BY <1>2 DEF Ready_to_answer, Answerable, Terminal

LEMMA SleepNext == TypeOK /\ NoSleepOnAnswer /\ [Next]_vars => NoSleepOnAnswer'
<1> SUFFICES ASSUME TypeOK, NoSleepOnAnswer, [Next]_vars PROVE NoSleepOnAnswer'
  OBVIOUS
<1> USE MemoryAssumption
<1>1. ASSUME NEW t \in TaskIds, Enqueue(t) PROVE NoSleepOnAnswer'
  <2>1. \A u \in TaskIds : Ready_to_answer(u)' => Ready_to_answer(u)
    BY <1>1, QueueFinishesNone DEF Enqueue, results_vars
  <2> QED
    BY <1>1, <2>1, SleepFrame DEF Enqueue, Storing, results_vars, worker_vars
<1>2. ASSUME NEW w \in Threads, Reclaim(w) \/ Claim(w) \/ Requeue(w) PROVE NoSleepOnAnswer'
  <2>1. \A u \in TaskIds : Ready_to_answer(u)' => Ready_to_answer(u)
    <3>1. CASE Reclaim(w)
      BY <3>1, QueueFinishesNone DEF Reclaim, results_vars
    <3>2. CASE Claim(w)
      BY <3>2, QueueFinishesNone DEF Claim, FirstInLine, Ready, TypeOK, results_vars
    <3>3. CASE Requeue(w)
      BY <3>3, QueueFinishesNone DEF Requeue, TypeOK, Live, Holding, results_vars
    <3> QED
      BY <1>2, <3>1, <3>2, <3>3
  <2>2. \A u \in TaskIds : Storing(u) => Storing(u)'
    BY <1>2 DEF Reclaim, Claim, Requeue, Release, Storing, TypeOK
  <2> QED
    BY <1>2, <2>1, <2>2, SleepFrame DEF Reclaim, Claim, Requeue, results_vars
<1>3. ASSUME NEW w \in Threads, LookupFails(w) \/ Returns(w) \/ DeadLetter(w)
      PROVE  NoSleepOnAnswer'
  <2>1. /\ waiting' = waiting /\ stored' = stored /\ held' = held
        /\ pc' = [pc EXCEPT ![w] = "store"]
        /\ \A t \in TaskIds : t # held[w] => obj'[t] = obj[t]
        /\ pc[w] \in {"execute", "decided"}
    BY <1>3 DEF LookupFails, Returns, DeadLetter, Mark, results_vars, TypeOK, QueueTypeOK
  <2>2. Storing(held[w])' /\ \A t \in TaskIds : Storing(t) => Storing(t)'
    BY <2>1 DEF Storing, TypeOK
  <2> QED
    BY <2>1, <2>2 DEF NoSleepOnAnswer, Answerable, Storing, TypeOK
<1>4. ASSUME NEW w \in Threads, CountRetry(w) \/ Postpone(w) PROVE NoSleepOnAnswer'
  <2>1. /\ held[w] \in TaskIds /\ obj[held[w]] \in TaskCopy
        /\ obj \in [TaskIds -> TaskCopy \cup {NULL}]
    BY <1>4 DEF CountRetry, Postpone, TypeOK, QueueTypeOK, Live, Holding, Created
  <2>2. /\ obj'[held[w]].status = obj[held[w]].status
        /\ \A u \in TaskIds : u # held[w] => obj'[u] = obj[u]
    <3>1. CASE CountRetry(w)
      BY <2>1, <3>1 DEF CountRetry, counted, TaskCopy
    <3>2. CASE Postpone(w)
      BY <2>1, <3>2 DEF Postpone, postponed, TaskCopy
    <3> QED
      BY <1>4, <3>1, <3>2
  <2>3. stored' = stored /\ waiting' = waiting
    BY <1>4 DEF CountRetry, Postpone, results_vars
  <2>4. \A u \in TaskIds : Ready_to_answer(u)' => Ready_to_answer(u)
    BY <2>1, <2>2, <2>3 DEF Ready_to_answer, Answerable
  <2>5. \A u \in TaskIds : Storing(u) => Storing(u)'
    BY <1>4 DEF CountRetry, Postpone, Storing, TypeOK
  <2> QED
    BY <2>3, <2>4, <2>5, SleepFrame
<1>5. ASSUME NEW w \in Threads, Store(w) PROVE NoSleepOnAnswer'
  BY <1>5 DEF Store, store, NoSleepOnAnswer
<1>6. ASSUME NEW w \in Threads,
             \/ Call(w) \/ GiveUp(w) \/ Wait(w) \/ TimeOut(w) \/ Settle(w)
             \/ Raises(w) \/ PolicyRaises(w) \/ Die(w)
      PROVE  NoSleepOnAnswer'
  <2>1. UNCHANGED <<obj, results_vars>>
    BY <1>6 DEF Call, GiveUp, Wait, TimeOut, Settle, ack, nack, Raises, PolicyRaises, Die,
                queue_vars
  <2>2. \A u \in TaskIds : Storing(u) => Storing(u)'
    BY <1>6 DEF Call, GiveUp, Wait, TimeOut, Settle, Release, Raises, PolicyRaises, Die,
                Storing, TypeOK, worker_vars
  <2> QED
    BY <2>1, <2>2, SleepFrame DEF Ready_to_answer, Answerable, results_vars
<1>7. ASSUME NEW c \in Callers, Get(c) \/ CallerStep(c) PROVE NoSleepOnAnswer'
  <2>1. UNCHANGED <<queue_vars, stored, worker_vars>>
    BY <1>7 DEF Get, CallerStep, Found, LosePatience, Await, AwaitTimesOut, ReadSuccess,
                ReadFailed, Goto, results_vars
  <2>2. CASE waiting' \subseteq waiting
    BY <2>1, <2>2, SleepFrame
    DEF Ready_to_answer, Answerable, Storing, queue_vars, worker_vars
  <2>3. CASE Await(c)
    BY <2>1, <2>3
    DEF Await, NoSleepOnAnswer, Answerable, queue_vars, worker_vars
  <2> QED
    BY <1>7, <2>2, <2>3 DEF Get, CallerStep, Found, LosePatience, AwaitTimesOut, ReadSuccess,
                            ReadFailed, Goto, results_vars
<1>8. CASE Tick
  <2>1. \A t \in TaskIds : Ready_to_answer(t)' => Ready_to_answer(t)
    <3>1. \A t \in stored : obj[t] \in TaskCopy
      BY DEF TypeOK, QueueTypeOK, Created
    <3>2. \A t \in TaskIds : t \in stored => obj'[t].status = obj[t].status
      BY <1>8, <3>1 DEF Tick, TypeOK, TaskCopy
    <3> QED
      BY <1>8, <3>2 DEF Tick, Ready_to_answer, Answerable, results_vars
  <2> QED
    BY <1>8, <2>1, SleepFrame DEF Tick, Storing, results_vars
<1>9. CASE UNCHANGED vars
  BY <1>9 DEF vars, NoSleepOnAnswer, Answerable, queue_vars, results_vars, worker_vars
<1> QED
  BY <1>1, <1>2, <1>3, <1>4, <1>5, <1>6, <1>7, <1>8, <1>9 DEF Next, Step

\* No wakeup of a caller is lost: it sleeps beside its answer only while the store
\* that wakes it is under way.
THEOREM MemoryWakesCallers == Spec => []NoSleepOnAnswer
<1>1. Init => TypeOK /\ NoSleepOnAnswer
  BY TypeInit DEF Init, ResultsInit, NoSleepOnAnswer
<1> QED
  BY <1>1, TypeNext, SleepNext, PTL DEF Spec

-----------------------------------------------------------------------------
(* The retry counter.  Whoever compared it and has yet to increment it is  *)
(* counted beside it: the sum can be at most one per thread too large.     *)

Deciders(t) == {w \in Threads : pc[w] = "decided" /\ delay[w] # NULL /\ held[w] = t}

Overshot(t) ==
  \/ obj[t].retries = 0 /\ Deciders(t) = {}
  \/ obj[t].retries + Cardinality(Deciders(t)) <= MaxRetries[t] + Cardinality(Threads) - 1

OvershootInv ==
  \A t \in TaskIds : Created(t) => obj[t].id = t /\ Overshot(t)

LEMMA DecidersFinite ==
  ASSUME IsFiniteSet(Threads), NEW t \in TaskIds
  PROVE  /\ IsFiniteSet(Deciders(t)) /\ Cardinality(Deciders(t)) \in Nat
         /\ IsFiniteSet(Deciders(t)') /\ Cardinality(Deciders(t)') \in Nat
         /\ Cardinality(Deciders(t)') <= Cardinality(Threads)
         /\ Cardinality(Threads) \in Nat
<1>1. Deciders(t) \subseteq Threads /\ Deciders(t)' \subseteq Threads
  BY DEF Deciders
<1> QED
  BY <1>1, FS_Subset, FS_CardinalityType

\* Steps that count no retry and decide on none.
LEMMA OvershootFrame ==
  ASSUME IsFiniteSet(Threads), TypeOK, OvershootInv,
         \A t \in TaskIds : Created(t)' =>
           /\ Created(t)
           /\ obj'[t].retries = obj[t].retries /\ obj'[t].id = obj[t].id
           /\ Deciders(t)' \subseteq Deciders(t)
  PROVE  OvershootInv'
<1> SUFFICES ASSUME NEW t \in TaskIds, Created(t)' PROVE obj'[t].id = t /\ Overshot(t)'
  BY DEF OvershootInv
<1>1. Cardinality(Deciders(t)') <= Cardinality(Deciders(t))
  BY DecidersFinite, FS_Subset
<1>2. obj[t].retries \in Nat /\ MaxRetries[t] \in Int
  BY TaskAssumption DEF TypeOK, QueueTypeOK, Created, TaskCopy
<1> QED
  BY <1>1, <1>2, DecidersFinite DEF OvershootInv, Overshot

\* The marks of the queue and the clock leave the counter alone.
LEMMA MarksKeep ==
  ASSUME NEW c \in TaskCopy
  PROVE  /\ mark_running(c).retries = c.retries /\ mark_running(c).id = c.id
         /\ mark_pending(c).retries = c.retries /\ mark_pending(c).id = c.id
         /\ mark_success(c, 0).retries = c.retries /\ mark_success(c, 0).id = c.id
         /\ \A e : /\ mark_failed(c, e, 0).retries = c.retries
                   /\ mark_failed(c, e, 0).id = c.id
BY DEF TaskCopy, mark_running, mark_pending, mark_success, mark_failed

LEMMA OvershootNext ==
  ASSUME IsFiniteSet(Threads)
  PROVE  TypeOK /\ OvershootInv /\ [Next]_vars => OvershootInv'
<1> SUFFICES ASSUME TypeOK, OvershootInv, [Next]_vars PROVE OvershootInv'
  OBVIOUS
<1> USE MemoryAssumption
<1>0. \A t \in TaskIds : Created(t) => obj[t] \in TaskCopy
  BY DEF TypeOK, QueueTypeOK, Created
<1>1. ASSUME NEW t \in TaskIds, Enqueue(t) PROVE OvershootInv'
  <2>1. /\ ~Created(t) /\ obj'[t].retries = 0 /\ obj'[t].id = t
        /\ \A u \in TaskIds : u # t => obj'[u] = obj[u]
        /\ \A u \in TaskIds : Deciders(u)' = Deciders(u)
    BY <1>1 DEF Enqueue, enqueue, TypeOK, QueueTypeOK, Deciders, worker_vars
  <2>2. Deciders(t) = {}
    BY <2>1 DEF Deciders, TypeOK, Live, Holding
  <2> QED
    BY <2>1, <2>2 DEF OvershootInv, Overshot, Created
<1>2. ASSUME NEW w \in Threads, Raises(w) PROVE OvershootInv'
  <2>1. PICK d \in next_delays(obj[held[w]]) \ {PolicyError} : delay' = [delay EXCEPT ![w] = d]
    BY <1>2 DEF Raises
  <2>2. obj' = obj /\ held' = held /\ held[w] \in TaskIds /\ Created(held[w])
    BY <1>2 DEF Raises, queue_vars, TypeOK, Live, Holding
  <2>3. \A t \in TaskIds : t # held[w] => Deciders(t)' = Deciders(t)
    BY <1>2, <2>1 DEF Raises, Deciders, TypeOK
  <2>4. CASE d = NULL
    <3>1. Deciders(held[w])' = Deciders(held[w])
      BY <1>2, <2>1, <2>4 DEF Raises, Deciders, TypeOK
    <3> QED
      BY <2>2, <2>3, <3>1, OvershootFrame DEF Created
  <2>5. CASE d # NULL
    <3>1. obj[held[w]].retries < MaxRetries[held[w]]
      BY <2>1, <2>2, <2>5 DEF next_delays, MayRetry, OvershootInv
    <3>2. obj[held[w]].retries \in Nat /\ MaxRetries[held[w]] \in Int
      BY <1>0, <2>2, TaskAssumption DEF TaskCopy
    <3>3. Overshot(held[w])'
      BY <2>2, <3>1, <3>2, DecidersFinite DEF Overshot
    <3> QED
      BY <2>2, <2>3, <3>3 DEF OvershootInv, Overshot, Created
  <2> QED
    BY <2>4, <2>5
<1>3. ASSUME NEW w \in Threads, CountRetry(w) PROVE OvershootInv'
  <2>0. PICK t \in TaskIds : t = held[w] /\ Created(t)
    BY <1>3 DEF CountRetry, TypeOK, Live, Holding
  <2>1. w \in Deciders(t)
    BY <1>3, <2>0 DEF CountRetry, Deciders
  <2>2. /\ obj'[t].retries = obj[t].retries + 1
        /\ obj'[t].id = obj[t].id
        /\ \A u \in TaskIds : u # t => obj'[u] = obj[u]
    BY <1>0, <1>3, <2>0 DEF CountRetry, counted, TypeOK, QueueTypeOK, TaskCopy
  <2>3. /\ Deciders(t)' = Deciders(t) \ {w}
        /\ \A u \in TaskIds : u # t => Deciders(u)' = Deciders(u)
    BY <1>3, <2>0 DEF CountRetry, Deciders, TypeOK
  <2>4. Cardinality(Deciders(t)') = Cardinality(Deciders(t)) - 1
    <3>1. IsFiniteSet(Deciders(t))
      BY DecidersFinite
    <3> QED
      BY <2>1, <2>3, <3>1, FS_RemoveElement
  <2>5. obj[t].retries \in Nat /\ MaxRetries[t] \in Int
    BY <1>0, <2>0, TaskAssumption DEF TaskCopy
  <2>6. Overshot(t)'
    <3>1. Cardinality(Deciders(t)) \in Nat /\ Cardinality(Threads) \in Nat
      BY DecidersFinite
    <3>2. obj[t].retries + Cardinality(Deciders(t))
            <= MaxRetries[t] + Cardinality(Threads) - 1
      BY <2>0, <2>1 DEF OvershootInv, Overshot
    <3> QED
      BY <2>2, <2>4, <2>5, <3>1, <3>2 DEF Overshot
  <2> QED
    BY <2>0, <2>2, <2>3, <2>6 DEF OvershootInv, Overshot, Created
<1>4. ASSUME NEW w \in Threads, Reclaim(w) PROVE OvershootInv'
  <2>1. \A t \in TaskIds : Expired(t) => Created(t)
    BY DEF Expired, Past, TypeOK
  <2>2. \A t \in TaskIds : Created(t)' =>
          Created(t) /\ obj'[t].retries = obj[t].retries /\ obj'[t].id = obj[t].id
    BY <1>4, <1>0, <2>1, MarksKeep DEF Reclaim, reclaim_expired, Created
  <2>3. \A t \in TaskIds : Deciders(t)' \subseteq Deciders(t)
    BY <1>4 DEF Reclaim, Deciders, TypeOK
  <2> QED
    BY <2>2, <2>3, OvershootFrame
<1>5. ASSUME NEW w \in Threads,
             \/ Claim(w) \/ LookupFails(w) \/ Returns(w) \/ DeadLetter(w) \/ Requeue(w)
      PROVE  OvershootInv'
  <2>1. PICK t \in TaskIds :
          /\ Created(t)
          /\ \/ obj' = [obj EXCEPT ![t] = mark_running(@)]
             \/ obj' = [obj EXCEPT ![t] = mark_success(@, 0)]
             \/ \E e \in Errors : obj' = [obj EXCEPT ![t] = mark_failed(@, e, 0)]
             \/ obj' = [obj EXCEPT ![t] = mark_pending(@)]
    <3>1. CASE Claim(w)
      BY <3>1 DEF Claim, FirstInLine, Ready, claim, TypeOK
    <3>2. CASE LookupFails(w) \/ Returns(w) \/ DeadLetter(w)
      BY <3>2 DEF LookupFails, Returns, DeadLetter, Mark, TypeOK, QueueTypeOK, Live,
                  Holding, Errors
    <3>3. CASE Requeue(w)
      BY <3>3 DEF Requeue, nack, TypeOK, Live, Holding
    <3> QED
      BY <1>5, <3>1, <3>2, <3>3
  <2>2. \A u \in TaskIds : Created(u)' =>
          Created(u) /\ obj'[u].retries = obj[u].retries /\ obj'[u].id = obj[u].id
    BY <1>0, <2>1, MarksKeep DEF Created, TypeOK, QueueTypeOK
  <2>3. \A u \in TaskIds : Deciders(u)' \subseteq Deciders(u)
    <3>1. \A v \in Threads : pc'[v] = "decided" =>
            pc[v] = "decided" /\ held'[v] = held[v] /\ delay'[v] = delay[v]
      <4>1. CASE Claim(w)
        BY <4>1 DEF Claim, TypeOK
      <4>2. CASE LookupFails(w) \/ Returns(w) \/ DeadLetter(w)
        BY <4>2 DEF LookupFails, Returns, DeadLetter, Mark, TypeOK
      <4>3. CASE Requeue(w)
        BY <4>3 DEF Requeue, Release, TypeOK
      <4> QED
        BY <1>5, <4>1, <4>2, <4>3
    <3> QED
      BY <3>1 DEF Deciders
  <2> QED
    BY <2>2, <2>3, OvershootFrame
<1>6. CASE Tick
  <2>1. \A t \in TaskIds : Created(t)' =>
          Created(t) /\ obj'[t].retries = obj[t].retries /\ obj'[t].id = obj[t].id
    BY <1>0, <1>6 DEF Tick, Created, TaskCopy
  <2> QED
    BY <1>6, <2>1, OvershootFrame DEF Tick, Deciders
<1>7. CASE obj' = obj /\ \A t \in TaskIds : Deciders(t)' \subseteq Deciders(t)
  BY <1>7, OvershootFrame DEF Created
<1>8. ASSUME NEW w \in Threads,
             \/ Call(w) \/ GiveUp(w) \/ Wait(w) \/ TimeOut(w) \/ PolicyRaises(w)
             \/ Die(w) \/ Store(w) \/ Settle(w)
      PROVE  obj' = obj /\ \A t \in TaskIds : Deciders(t)' \subseteq Deciders(t)
  BY <1>8 DEF Call, GiveUp, Wait, TimeOut, PolicyRaises, Die, Store, Settle, ack, nack,
              Release, Deciders, TypeOK, queue_vars, worker_vars
<1>9. ASSUME NEW c \in Callers, Get(c) \/ CallerStep(c)
      PROVE  obj' = obj /\ \A t \in TaskIds : Deciders(t)' \subseteq Deciders(t)
  BY <1>9 DEF Get, CallerStep, Found, LosePatience, Await, AwaitTimesOut, ReadSuccess,
              ReadFailed, Goto, Deciders, queue_vars, worker_vars
<1>10. UNCHANGED vars => obj' = obj /\ \A t \in TaskIds : Deciders(t)' \subseteq Deciders(t)
  BY DEF vars, queue_vars, worker_vars, Deciders
<1>11. ASSUME NEW w \in Threads, Postpone(w) PROVE OvershootInv'
  <2>1. \A t \in TaskIds : Created(t)' =>
          Created(t) /\ obj'[t].retries = obj[t].retries /\ obj'[t].id = obj[t].id
    BY <1>0, <1>11 DEF Postpone, postponed, TypeOK, QueueTypeOK, Live, Holding, Created, TaskCopy
  <2>2. \A t \in TaskIds : Deciders(t)' \subseteq Deciders(t)
    BY <1>11 DEF Postpone, Deciders, TypeOK
  <2> QED
    BY <2>1, <2>2, OvershootFrame
<1> QED
  BY <1>1, <1>2, <1>3, <1>4, <1>5, <1>6, <1>7, <1>8, <1>9, <1>10, <1>11 DEF Next, Step

\* The counter of a shared Task object exceeds max_retries by at most one for
\* every thread but one, whatever the threads do between comparison and increment.
THEOREM MemoryRetriesBounded ==
  ASSUME IsFiniteSet(Threads)
  PROVE  Spec => []RetriesOvershoot
<1>1. Init => TypeOK /\ OvershootInv
  BY TypeInit DEF Init, QueueInit, OvershootInv, Created
<1>2. TypeOK /\ OvershootInv => RetriesOvershoot
  <2> SUFFICES ASSUME TypeOK, OvershootInv, NEW t \in TaskIds, Created(t)
               PROVE  \/ obj[t].retries = 0
                      \/ obj[t].retries <= MaxRetries[t] + Cardinality(Threads) - 1
    BY DEF RetriesOvershoot
  <2>1. obj[t].retries \in Nat /\ MaxRetries[t] \in Int
    BY TaskAssumption DEF TypeOK, QueueTypeOK, Created, TaskCopy
  <2> QED
    BY <2>1, DecidersFinite DEF OvershootInv, Overshot
<1> QED
  BY <1>1, <1>2, TypeNext, OvershootNext, PTL DEF Spec
=============================================================================
