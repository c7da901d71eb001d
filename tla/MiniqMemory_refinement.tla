----------------------- MODULE MiniqMemory_refinement -----------------------
(***************************************************************************)
(* The one-process deployment when live threads settle in time: claims are *)
(* exclusive, answers stand, the in-memory queue with its workers          *)
(* implements the contract of queue/base.py, and retries wait as long as   *)
(* the policy documents.                                                   *)
(***************************************************************************)
EXTENDS MiniqMemory_proofs, WellFoundedInduction

\* The assumption on the deployment: a thread that is alive settles its task while
\* some of the visibility timeout is left.
ThreadsInTime == Timely /\ VT > 0

-----------------------------------------------------------------------------
(* A task is in one place, and one thread has it.                          *)

\* The claim of a live holder is in _claimed, with time left.
HoldersClaimed ==
  \A w \in Threads : \A t \in TaskIds : Holds(w, t) =>
    claimed[t] # NULL /\ claimed[t] > 0

\* A task is in the deque once at most, and then it is not claimed.
OnePlace ==
  \A t \in TaskIds : queued[t] = 0 \/ (queued[t] = 1 /\ claimed[t] = NULL)

OneHolder ==
  \A v, w \in Threads : v # w /\ Live(v) /\ Live(w) => held[v] # held[w]

ClaimsInv == HoldersClaimed /\ OnePlace /\ OneHolder

\* At first there is no task and no holder.
LEMMA ClaimsInit == Init => ClaimsInv
BY DEF Init, QueueInit, Live, Holds, Holding, ClaimsInv, HoldersClaimed, OnePlace, OneHolder

\* Steps by which nobody takes a task and none moves.
LEMMA ClaimsFrame ==
  ASSUME ClaimsInv, UNCHANGED <<queued, claimed>>,
         \A w \in Threads : Live(w)' => Live(w) /\ held'[w] = held[w]
  PROVE  ClaimsInv'
BY DEF ClaimsInv, HoldersClaimed, OnePlace, OneHolder, Holds

\* A thread that holds a task after any other step than its claim held it before.
LEMMA HeldSteps ==
  ASSUME TypeOK, [Next]_vars, NEW w \in Threads, Live(w)'
  PROVE  Claim(w) \/ (Live(w) /\ held'[w] = held[w])
<1>1. ASSUME NEW v \in Threads, v # w, Step(v) \/ Die(v)
      PROVE  pc'[w] = pc[w] /\ held'[w] = held[w]
  BY <1>1 DEF Step, Call, Reclaim, Claim, GiveUp, Wait, TimeOut, LookupFails, Returns,
              Mark, Raises, PolicyRaises, Die, CountRetry, Postpone, DeadLetter, Requeue, Store,
              Settle, Release, TypeOK, worker_vars
<1>2. CASE TimeOut(w)
  BY <1>2 DEF TimeOut, Live, worker_vars
<1>3. CASE \/ Call(w) \/ Reclaim(w) \/ GiveUp(w) \/ Wait(w) \/ PolicyRaises(w) \/ Die(w)
           \/ Requeue(w) \/ Settle(w)
  <2>1. pc'[w] \notin Holding
    BY <1>3 DEF Call, Reclaim, GiveUp, Wait, PolicyRaises, Die, Requeue, Settle, Holding, TypeOK
  <2> QED
    BY <2>1 DEF Live
<1>4. CASE \/ LookupFails(w) \/ Returns(w) \/ Raises(w) \/ CountRetry(w) \/ DeadLetter(w)
           \/ Postpone(w) \/ Store(w)
  BY <1>4 DEF LookupFails, Returns, Mark, Raises, CountRetry, Postpone, DeadLetter, Store,
              Live, Holding
<1>5. \/ UNCHANGED <<pc, held>>
      \/ \E v \in Threads : Step(v) \/ Die(v)
  BY DEF Next, Enqueue, Get, CallerStep, Found, LosePatience, Await, AwaitTimesOut,
         ReadSuccess, ReadFailed, Goto, Tick, vars, worker_vars
<1> QED
  BY <1>1, <1>2, <1>3, <1>4, <1>5 DEF Step, Live

\* Claims are made of tasks that nobody holds, and given up only for tasks that
\* nobody holds any more.
LEMMA ClaimsNext ==
  ThreadsInTime /\ TypeOK /\ ClaimsInv /\ [Next]_vars => ClaimsInv'
<1> SUFFICES ASSUME ThreadsInTime, TypeOK, ClaimsInv, [Next]_vars PROVE ClaimsInv'
  OBVIOUS
<1> USE MemoryAssumption, TaskAssumption, QueueAssumption
<1>1. ASSUME NEW t \in TaskIds, Enqueue(t) PROVE ClaimsInv'
  <2>1. /\ queued[t] = 0 /\ claimed[t] = NULL
        /\ \A w \in Threads : ~Holds(w, t)
    BY <1>1 DEF Enqueue, TypeOK, QueueTypeOK, Holds
  <2>2. queued' = [queued EXCEPT ![t] = 1] /\ UNCHANGED <<claimed, pc, held>>
    BY <1>1, <2>1 DEF Enqueue, enqueue, append, worker_vars
  <2> QED
    BY <2>1, <2>2 DEF ClaimsInv, HoldersClaimed, OnePlace, OneHolder, Holds, Live,
                      TypeOK, QueueTypeOK
<1>2. ASSUME NEW w \in Threads, Reclaim(w) PROVE ClaimsInv'
  <2>1. ASSUME NEW t \in TaskIds, Expired(t)
        PROVE  queued[t] = 0 /\ \A v \in Threads : ~Holds(v, t)
    BY <2>1 DEF Expired, Past, ClaimsInv, HoldersClaimed, OnePlace, TypeOK, QueueTypeOK,
                MaybeTime, Times
  <2>2. \A v \in Threads : Live(v)' => Live(v) /\ held'[v] = held[v]
    <3>1. \A v \in Threads : ~Claim(v)
      BY <1>2 DEF Reclaim, Claim, TypeOK
    <3> QED
      BY <3>1, HeldSteps
  <2>3. OneHolder'
    BY <2>2 DEF ClaimsInv, OneHolder
  <2>4. HoldersClaimed'
    BY <1>2, <2>1, <2>2 DEF Reclaim, reclaim_expired, ClaimsInv, HoldersClaimed, Holds
  <2>5. OnePlace'
    BY <1>2, <2>1 DEF Reclaim, reclaim_expired, ClaimsInv, OnePlace
  <2> QED
    BY <2>3, <2>4, <2>5 DEF ClaimsInv
<1>3. ASSUME NEW w \in Threads, Claim(w) PROVE ClaimsInv'
  <2>1. PICK t \in FirstInLine : claim(t) /\ held' = [held EXCEPT ![w] = t]
    BY <1>3 DEF Claim
  <2>2. t \in TaskIds /\ queued[t] = 1 /\ claimed[t] = NULL
    BY <2>1 DEF FirstInLine, Ready, ClaimsInv, OnePlace
  <2>3. \A v \in Threads : ~Holds(v, t)
    BY <2>2 DEF ClaimsInv, HoldersClaimed
  <2>4. /\ queued' = [queued EXCEPT ![t] = 0] /\ claimed' = [claimed EXCEPT ![t] = VT]
        /\ \A v \in Threads \ {w} : pc'[v] = pc[v] /\ held'[v] = held[v]
        /\ held'[w] = t
    BY <1>3, <2>1, <2>2 DEF Claim, claim, TypeOK, QueueTypeOK
  <2>5. \A v \in Threads \ {w} : Live(v)' => Live(v) /\ held'[v] = held[v] /\ held[v] # t
    BY <2>3, <2>4 DEF Live, Holds
  <2>6. HoldersClaimed'
    BY <2>2, <2>4, <2>5 DEF ClaimsInv, HoldersClaimed, Holds, ThreadsInTime, TypeOK,
                            QueueTypeOK, Times
  <2>7. OnePlace'
    BY <2>2, <2>4 DEF ClaimsInv, OnePlace, TypeOK, QueueTypeOK
  <2>8. OneHolder'
    BY <2>4, <2>5 DEF ClaimsInv, OneHolder
  <2> QED
    BY <2>6, <2>7, <2>8 DEF ClaimsInv
<1>4. ASSUME NEW w \in Threads, Requeue(w) \/ Settle(w) PROVE ClaimsInv'
  <2>1. PICK t \in TaskIds : t = held[w] /\ Holds(w, t)
    BY <1>4 DEF Requeue, Settle, TypeOK, Live, Holds, Holding
  <2>2. queued[t] = 0 /\ claimed[t] # NULL
    BY <2>1 DEF ClaimsInv, HoldersClaimed, OnePlace
  <2>3. /\ claimed' = [claimed EXCEPT ![t] = NULL]
        /\ queued' = queued \/ queued' = [queued EXCEPT ![t] = 1]
    BY <1>4, <2>1, <2>2 DEF Requeue, Settle, ack, nack, append, TypeOK, QueueTypeOK
  <2>4. \A v \in Threads : Live(v)' => Live(v) /\ held'[v] = held[v] /\ v # w
    BY <1>4, HeldSteps DEF Requeue, Settle, Claim, Live, Holding, TypeOK
  <2>5. \A v \in Threads : Live(v)' => held[v] # t
    BY <2>1, <2>4 DEF ClaimsInv, OneHolder, Holds
  <2>6. HoldersClaimed'
    BY <2>3, <2>4, <2>5 DEF ClaimsInv, HoldersClaimed, Holds, TypeOK, QueueTypeOK
  <2>7. OnePlace'
    BY <2>2, <2>3 DEF ClaimsInv, OnePlace, TypeOK, QueueTypeOK
  <2>8. OneHolder'
    BY <2>4 DEF ClaimsInv, OneHolder
  <2> QED
    BY <2>6, <2>7, <2>8 DEF ClaimsInv
<1>5. CASE Tick
  <2>1. \A w \in Threads : Live(w)' <=> Live(w)
    BY <1>5 DEF Tick, Live
  <2>2. \A t \in TaskIds : claimed[t] \in MaybeTime
    BY DEF TypeOK, QueueTypeOK
  <2>3. HoldersClaimed'
    <3> SUFFICES ASSUME NEW w \in Threads, NEW t \in TaskIds, Holds(w, t)'
                 PROVE  claimed'[t] # NULL /\ claimed'[t] > 0
      BY DEF HoldersClaimed
    <3>1. Holds(w, t) /\ claimed[t] # NULL /\ claimed[t] > 1
      BY <1>5, <2>1 DEF Tick, InTime, Holds, ThreadsInTime, ClaimsInv, HoldersClaimed
    <3>2. claimed'[t] = claimed[t] - 1 /\ claimed[t] \in Nat
      BY <1>5, <2>2, <3>1 DEF Tick, Elapse, MaybeTime, Times
    <3> QED
      BY <3>1, <3>2
  <2>4. OnePlace'
    BY <1>5 DEF Tick, Elapse, ClaimsInv, OnePlace
  <2>5. OneHolder'
    BY <1>5, <2>1 DEF Tick, ClaimsInv, OneHolder
  <2> QED
    BY <2>3, <2>4, <2>5 DEF ClaimsInv
<1>6. ASSUME NEW w \in Threads,
             \/ Call(w) \/ GiveUp(w) \/ Wait(w) \/ TimeOut(w) \/ LookupFails(w) \/ Returns(w)
             \/ Raises(w) \/ PolicyRaises(w) \/ Die(w) \/ CountRetry(w) \/ Postpone(w)
             \/ DeadLetter(w) \/ Store(w)
      PROVE  ClaimsInv'
  <2>1. UNCHANGED <<queued, claimed>> /\ \A v \in Threads : ~Claim(v)
    BY <1>6 DEF Call, GiveUp, Wait, TimeOut, LookupFails, Returns, Mark, Raises, PolicyRaises,
                Die, CountRetry, Postpone, DeadLetter, Store, Claim, claim, FirstInLine, Ready,
                TypeOK, QueueTypeOK, queue_vars
  <2> QED
    BY <2>1, HeldSteps, ClaimsFrame
<1>7. ASSUME NEW c \in Callers, Get(c) \/ CallerStep(c) PROVE ClaimsInv'
  BY <1>7, ClaimsFrame
  DEF Get, CallerStep, Found, LosePatience, Await, AwaitTimesOut, ReadSuccess, ReadFailed,
      Goto, Live, queue_vars, worker_vars
<1>8. CASE UNCHANGED vars
  BY <1>8, ClaimsFrame DEF vars, Live, queue_vars, worker_vars
<1> QED
  BY <1>1, <1>2, <1>3, <1>4, <1>5, <1>6, <1>7, <1>8 DEF Next, Step

-----------------------------------------------------------------------------
(* A finished task has left the queue, or is about to.                     *)

MarkedBy(w, t) ==
  /\ Holds(w, t) /\ pc[w] \in {"execute", "decided"}
  /\ Holds(w, t)' /\ pc'[w] = "store"

TaskStep(t) ==
  \/ /\ queued'[t] = queued[t] /\ (claimed'[t] = NULL <=> claimed[t] = NULL)
     /\ Created(t)' <=> Created(t)
     /\ Created(t) => \/ obj'[t].status = obj[t].status
                      \/ \E w \in Threads : MarkedBy(w, t)
  \/ ~Created(t) /\ obj'[t].status \notin Terminal
  \/ /\ Created(t) /\ Created(t)' /\ obj'[t].status \notin Terminal
     /\ \/ Expired(t)
        \/ queued[t] > 0
        \/ \E w \in Threads : Holds(w, t) /\ pc[w] = "requeue"
  \/ /\ \E w \in Threads : Holds(w, t) /\ Settle(w)
     /\ obj'[t] = obj[t] /\ queued'[t] = queued[t] /\ claimed'[t] = NULL

\* What the queue writes into a Task object is not an outcome.
LEMMA QueueMarks ==
  ASSUME NEW c \in TaskCopy
  PROVE  /\ mark_running(c).status \notin Terminal
         /\ mark_pending(c).status \notin Terminal
BY DEF TaskCopy, mark_running, mark_pending, Terminal

\* A task is left where it is, created, finished by its holder, taken from or put
\* into the deque, or settled.
LEMMA TaskSteps ==
  ASSUME TypeOK, [Next]_vars, NEW t \in TaskIds
  PROVE  TaskStep(t)
<1>0. Created(t) => obj[t] \in TaskCopy
  BY DEF TypeOK, QueueTypeOK, Created
<1>1. ASSUME NEW u \in TaskIds, Enqueue(u) PROVE TaskStep(t)
  <2>1. CASE u = t
    <3>1. obj'[t].status = "pending" /\ ~Created(t)
      BY <1>1, <2>1 DEF Enqueue, enqueue, TypeOK, QueueTypeOK
    <3> QED
      BY <3>1 DEF TaskStep, Terminal
  <2>2. CASE u # t
    BY <1>1, <2>2 DEF Enqueue, enqueue, append, TaskStep, Created, TypeOK, QueueTypeOK
  <2> QED
    BY <2>1, <2>2
<1>2. ASSUME NEW w \in Threads, Reclaim(w) PROVE TaskStep(t)
  <2>1. CASE Expired(t)
    <3>1. Created(t) /\ obj'[t] = mark_pending(obj[t])
      BY <1>2, <2>1 DEF Reclaim, reclaim_expired, Expired, Past, TypeOK
    <3>2. Created(t)'
      BY <1>0, <3>1, Marks, CopyAssumption DEF Created
    <3> QED
      BY <1>0, <2>1, <3>1, <3>2, QueueMarks DEF TaskStep
  <2>2. CASE ~Expired(t)
    BY <1>2, <2>2 DEF Reclaim, reclaim_expired, TaskStep, Created
  <2> QED
    BY <2>1, <2>2
<1>3. ASSUME NEW w \in Threads, Claim(w) PROVE TaskStep(t)
  <2>1. PICK u \in FirstInLine : claim(u)
    BY <1>3 DEF Claim
  <2>2. CASE u = t
    <3>1. queued[t] > 0 /\ Created(t) /\ obj'[t] = mark_running(obj[t])
      BY <2>1, <2>2 DEF FirstInLine, Ready, claim, TypeOK, QueueTypeOK
    <3>2. Created(t)'
      BY <1>0, <3>1, Marks, CopyAssumption DEF Created
    <3> QED
      BY <1>0, <3>1, <3>2, QueueMarks DEF TaskStep
  <2>3. CASE u # t
    BY <2>1, <2>3 DEF claim, TaskStep, Created, TypeOK, QueueTypeOK
  <2> QED
    BY <2>2, <2>3
<1>4. ASSUME NEW w \in Threads, Requeue(w) PROVE TaskStep(t)
  <2>1. CASE held[w] = t
    <3>1. Holds(w, t) /\ pc[w] = "requeue" /\ Created(t)
      BY <1>4, <2>1 DEF Requeue, Holds, Live, Holding, TypeOK
    <3>2. obj'[t] = mark_pending(obj[t])
      BY <1>4, <2>1 DEF Requeue, nack, TypeOK, QueueTypeOK
    <3>3. Created(t)'
      BY <1>0, <3>1, <3>2, Marks, CopyAssumption DEF Created
    <3> QED
      BY <1>0, <3>1, <3>2, <3>3, QueueMarks DEF TaskStep
  <2>2. CASE held[w] # t
    BY <1>4, <2>2 DEF Requeue, nack, append, TaskStep, Created, TypeOK, QueueTypeOK
  <2> QED
    BY <2>1, <2>2
<1>5. ASSUME NEW w \in Threads, Settle(w) PROVE TaskStep(t)
  <2>1. CASE held[w] = t
    BY <1>5, <2>1 DEF Settle, ack, nack, Holds, Live, Holding, TaskStep, TypeOK, QueueTypeOK
  <2>2. CASE held[w] # t
    BY <1>5, <2>2 DEF Settle, ack, nack, TaskStep, Created, TypeOK, QueueTypeOK
  <2> QED
    BY <2>1, <2>2
<1>6. ASSUME NEW w \in Threads, LookupFails(w) \/ Returns(w) \/ DeadLetter(w)
      PROVE  TaskStep(t)
  <2>1. /\ UNCHANGED <<queued, claimed>>
        /\ pc[w] \in {"execute", "decided"} /\ pc'[w] = "store" /\ held' = held
        /\ \A u \in TaskIds : u # held[w] => obj'[u] = obj[u]
        /\ Created(t) => Created(t)'
    BY <1>6, <1>0, Finishes, CopyAssumption
    DEF LookupFails, Returns, DeadLetter, Mark, Errors, TypeOK, QueueTypeOK, Created
  <2>2. held[w] = t => MarkedBy(w, t) /\ Created(t)
    BY <2>1 DEF MarkedBy, Holds, Live, Holding, TypeOK
  <2> QED
    BY <2>1, <2>2 DEF TaskStep, Created
<1>7. ASSUME NEW w \in Threads, CountRetry(w) \/ Postpone(w) PROVE TaskStep(t)
  <2>1. /\ UNCHANGED <<queued, claimed>>
        /\ \A u \in TaskIds : u # held[w] => obj'[u] = obj[u]
    BY <1>7 DEF CountRetry, Postpone, TypeOK, QueueTypeOK
  <2>2. CASE held[w] = t
    <3>1. Created(t) /\ delay[w] \in Times
      BY <1>7, <2>2 DEF CountRetry, Postpone, Live, Holding, TypeOK, MaybeTime
    <3>2. obj'[t] \in {counted(obj[t]), postponed(obj[t], delay[w], 0)}
      BY <1>7, <2>2 DEF CountRetry, Postpone, TypeOK, QueueTypeOK
    <3>3. obj'[t] \in TaskCopy /\ obj'[t].status = obj[t].status
      BY <1>0, <3>1, <3>2, Retries DEF counted, postponed, TaskCopy
    <3> QED
      BY <2>1, <3>1, <3>3, CopyAssumption DEF TaskStep, Created
  <2> QED
    BY <2>1, <2>2 DEF TaskStep, Created
<1>8. CASE Tick
  <2>1. claimed[t] \in MaybeTime
    BY DEF TypeOK, QueueTypeOK
  <2>2. queued' = queued /\ (claimed'[t] = NULL <=> claimed[t] = NULL)
    BY <1>8, <2>1, Elapses DEF Tick
  <2>3. CASE Created(t)
    <3>1. obj'[t] = [obj[t] EXCEPT !.available_at = Elapse(@)]
      BY <1>8, <2>3 DEF Tick
    <3>2. obj[t].available_at \in MaybeTime
      BY <1>0, <2>3 DEF TaskCopy
    <3>3. obj'[t] \in TaskCopy /\ obj'[t].status = obj[t].status
      BY <1>0, <2>3, <3>1, <3>2, Elapses DEF TaskCopy
    <3> QED
      BY <2>2, <2>3, <3>3, CopyAssumption DEF TaskStep, Created
  <2>4. CASE ~Created(t)
    BY <1>8, <2>2, <2>4 DEF Tick, TaskStep, Created
  <2> QED
    BY <2>3, <2>4
<1>9. ASSUME NEW w \in Threads,
             \/ Call(w) \/ GiveUp(w) \/ Wait(w) \/ TimeOut(w) \/ Raises(w)
             \/ PolicyRaises(w) \/ Die(w) \/ Store(w)
      PROVE  UNCHANGED <<obj, queued, claimed>>
  BY <1>9 DEF Call, GiveUp, Wait, TimeOut, Raises, PolicyRaises, Die, Store, queue_vars
<1>10. ASSUME NEW c \in Callers, Get(c) \/ CallerStep(c)
       PROVE  UNCHANGED <<obj, queued, claimed>>
  BY <1>10 DEF Get, CallerStep, Found, LosePatience, Await, AwaitTimesOut, ReadSuccess,
               ReadFailed, Goto, queue_vars
<1>11. UNCHANGED vars => UNCHANGED <<obj, queued, claimed>>
  BY DEF vars, queue_vars
<1>12. UNCHANGED <<obj, queued, claimed>> => TaskStep(t)
  BY DEF TaskStep, Created
<1> QED
  BY <1>1, <1>2, <1>3, <1>4, <1>5, <1>6, <1>7, <1>8, <1>9, <1>10, <1>11, <1>12 DEF Next, Step

-----------------------------------------------------------------------------
(* Outcomes are kept, so answers stand.                                    *)

Settling(w, t) == Holds(w, t) /\ pc[w] \in {"store", "settle"}

\* A finished task is out of the deque, and its claim is that of the thread that
\* stores and settles it.
FinishedOut ==
  \A t \in TaskIds : Created(t) /\ obj[t].status \in Terminal =>
    queued[t] = 0 /\ (claimed[t] # NULL => \E w \in Threads : Settling(w, t))

\* At first there is no task.
LEMMA FinishedInit == Init => FinishedOut
BY DEF Init, QueueInit, Created, FinishedOut

\* A thread past the execution goes on to settle its task.
LEMMA SettlerSteps ==
  ASSUME TypeOK, [Next]_vars, NEW w \in Threads, NEW t \in TaskIds, Settling(w, t)
  PROVE  Settling(w, t)' \/ Settle(w)
<1>1. Live(w) /\ pc[w] \in {"store", "settle"} /\ held[w] = t
  BY DEF Settling, Holds
<1>2. ASSUME NEW v \in Threads, v # w, Step(v) \/ Die(v)
      PROVE  pc'[w] = pc[w] /\ held'[w] = held[w]
  BY <1>2 DEF Step, Call, Reclaim, Claim, GiveUp, Wait, TimeOut, LookupFails, Returns,
              Mark, Raises, PolicyRaises, Die, CountRetry, Postpone, DeadLetter, Requeue, Store,
              Settle, Release, TypeOK, worker_vars
<1>3. CASE Store(w)
  BY <1>1, <1>3 DEF Store, Settling, Holds, Live, Holding, TypeOK
<1>4. CASE TimeOut(w)
  BY <1>1, <1>4 DEF TimeOut, Settling, Holds, Live, worker_vars
<1>5. CASE UNCHANGED <<pc, held>>
  BY <1>1, <1>5 DEF Settling, Holds, Live
<1>6. Step(w) \/ Die(w) => Store(w) \/ TimeOut(w) \/ Settle(w)
  BY <1>1 DEF Step, Call, Reclaim, Claim, GiveUp, Wait, LookupFails, Returns, Raises,
              PolicyRaises, Die, CountRetry, Postpone, DeadLetter, Requeue
<1>7. \/ UNCHANGED <<pc, held>>
      \/ \E v \in Threads : Step(v) \/ Die(v)
  BY DEF Next, Enqueue, Get, CallerStep, Found, LosePatience, Await, AwaitTimesOut,
         ReadSuccess, ReadFailed, Goto, Tick, vars, worker_vars
<1> QED
  BY <1>1, <1>2, <1>3, <1>4, <1>5, <1>6, <1>7 DEF Settling, Holds, Live

\* An expired task has no holder, one in the deque has none, and a task that is to be
\* put back is not finished: so no step but the holder's own finishes or reopens a task.
LEMMA OutcomeKept ==
  ASSUME TypeOK, ClaimsInv, FinishedOut, [Next]_vars, NEW t \in TaskIds,
         Created(t), obj[t].status \in Terminal
  PROVE  /\ Created(t)' /\ queued'[t] = 0
         /\ obj'[t].status = obj[t].status
         /\ claimed'[t] # NULL => \E w \in Threads : Settling(w, t)'
<1>1. queued[t] = 0 /\ (claimed[t] # NULL => \E w \in Threads : Settling(w, t))
  BY DEF FinishedOut
<1>2. ~Expired(t)
  BY <1>1 DEF Expired, Past, Settling, ClaimsInv, HoldersClaimed, TypeOK, QueueTypeOK,
              MaybeTime, Times
<1>3. \A w \in Threads : Holds(w, t) => pc[w] \in {"store", "settle"}
  BY <1>1 DEF ClaimsInv, HoldersClaimed, OneHolder, Settling, Holds
<1>4. \A w \in Threads : Settle(w) /\ Holds(w, t) => claimed'[t] = NULL
  BY DEF Settle, ack, nack, Holds, TypeOK, QueueTypeOK
<1>5. claimed[t] # NULL => claimed'[t] = NULL \/ \E w \in Threads : Settling(w, t)'
  BY <1>1, <1>4, SettlerSteps DEF Settling
<1>6. CASE /\ queued'[t] = queued[t] /\ (claimed'[t] = NULL <=> claimed[t] = NULL)
           /\ Created(t)' <=> Created(t)
           /\ \/ obj'[t].status = obj[t].status
              \/ \E w \in Threads : MarkedBy(w, t)
  <2>1. obj'[t].status = obj[t].status
    BY <1>3, <1>6 DEF MarkedBy
  <2> QED
    BY <1>1, <1>5, <1>6, <2>1
<1>7. CASE obj'[t] = obj[t] /\ queued'[t] = queued[t] /\ claimed'[t] = NULL
  BY <1>1, <1>7 DEF Created
<1> QED
  BY <1>1, <1>2, <1>3, <1>6, <1>7, TaskSteps DEF TaskStep, TypeOK, QueueTypeOK

\* A task is finished by the thread that holds it, and stays out of the queue.
LEMMA FinishedNext ==
  TypeOK /\ ClaimsInv /\ FinishedOut /\ [Next]_vars /\ ClaimsInv' => FinishedOut'
<1> SUFFICES ASSUME TypeOK, ClaimsInv, FinishedOut, [Next]_vars, ClaimsInv',
                    NEW t \in TaskIds, Created(t)', obj'[t].status \in Terminal
             PROVE  queued'[t] = 0 /\ (claimed'[t] # NULL => \E w \in Threads : Settling(w, t)')
  BY DEF FinishedOut
<1>1. CASE Created(t) /\ obj[t].status \in Terminal
  BY <1>1, OutcomeKept
<1>2. CASE ~Created(t) \/ obj[t].status \notin Terminal
  <2>1. PICK w \in Threads : MarkedBy(w, t)
    <3>1. \A w \in Threads : Holds(w, t) => Created(t)
      BY DEF Holds, TypeOK
    <3> QED
      BY <1>2, <3>1, TaskSteps DEF TaskStep, Holds, TypeOK
  <2>2. Settling(w, t)' /\ claimed'[t] # NULL
    BY <2>1 DEF MarkedBy, Settling, ClaimsInv, HoldersClaimed
  <2> QED
    BY <2>2 DEF ClaimsInv, OnePlace
<1> QED
  BY <1>1, <1>2

\* What a caller has read so far is still so.
ReadsStand ==
  \A c \in Callers :
    /\ cpc[c] \in {"read1", "read2", "value", "failed"} => obj[AwaitOf[c]].status \in Terminal
    /\ cpc[c] = "value" => obj[AwaitOf[c]].status = "success"
    /\ cpc[c] \in {"read2", "failed"} => obj[AwaitOf[c]].status = "failed"
    /\ cpc[c] # "unexpected"

OutcomeInv == TypeOK /\ ClaimsInv /\ FinishedOut /\ ReadsStand

LEMMA OutcomeInit == Init => OutcomeInv
<1> SUFFICES ASSUME Init PROVE ReadsStand
  BY TypeInit, ClaimsInit, FinishedInit DEF OutcomeInv
<1> QED
  BY DEF Init, ReadsStand

\* A caller moves on after a look at a finished task, and its outcome is kept.
LEMMA ReadsNext ==
  ASSUME TypeOK, ClaimsInv, FinishedOut, ReadsStand, [Next]_vars
  PROVE  ReadsStand'
<1> SUFFICES ASSUME NEW c \in Callers
             PROVE  /\ cpc'[c] \in {"read1", "read2", "value", "failed"} =>
                         obj'[AwaitOf[c]].status \in Terminal
                    /\ cpc'[c] = "value" => obj'[AwaitOf[c]].status = "success"
                    /\ cpc'[c] \in {"read2", "failed"} => obj'[AwaitOf[c]].status = "failed"
                    /\ cpc'[c] # "unexpected"
  BY DEF ReadsStand
<1>1. PICK t \in TaskIds : t = AwaitOf[c]
  BY MemoryAssumption
<1>2. cpc[c] \in {"read1", "read2", "value", "failed"} =>
        Created(t) /\ obj[t].status \in Terminal
  BY <1>1 DEF ReadsStand, TypeOK
<1>3. CASE cpc'[c] = cpc[c]
  <2>1. cpc[c] \in {"read1", "read2", "value", "failed"} => obj'[t].status = obj[t].status
    BY <1>2, OutcomeKept
  <2> QED
    BY <1>1, <1>3, <2>1 DEF ReadsStand
<1>4. CASE Get(c) \/ LosePatience(c)
  BY <1>4 DEF Get, LosePatience, Goto, TypeOK
<1>5. CASE Found(c)
  <2>1. cpc'[c] = "read1" /\ obj'[t].status \in Terminal
    BY <1>1, <1>5 DEF Found, Goto, Answerable, TypeOK, queue_vars
  <2> QED
    BY <1>1, <2>1
<1>6. CASE ReadSuccess(c)
  <2>1. /\ obj' = obj /\ cpc[c] = "read1" /\ obj[t].status \in Terminal
        /\ cpc'[c] = IF obj[t].status = "success" THEN "value" ELSE "read2"
    BY <1>1, <1>2, <1>6 DEF ReadSuccess, Goto, TypeOK, queue_vars
  <2> QED
    BY <1>1, <2>1 DEF Terminal
<1>7. CASE ReadFailed(c)
  <2>1. /\ obj' = obj /\ cpc[c] = "read2" /\ obj[t].status = "failed"
        /\ cpc'[c] = "failed"
    BY <1>1, <1>7 DEF ReadFailed, ReadsStand, Goto, TypeOK, queue_vars
  <2> QED
    BY <1>1, <2>1 DEF Terminal
<1>8. ASSUME NEW e \in Callers, Get(e) \/ CallerStep(e)
      PROVE  cpc'[c] = cpc[c] \/ (e = c /\ (\/ Get(c) \/ Found(c) \/ LosePatience(c)
                                            \/ ReadSuccess(c) \/ ReadFailed(c)))
  BY <1>8 DEF Get, CallerStep, Found, LosePatience, Await, AwaitTimesOut, ReadSuccess,
              ReadFailed, Goto, TypeOK, caller_vars
<1>9. \/ cpc' = cpc
      \/ \E e \in Callers : Get(e) \/ CallerStep(e)
  BY DEF Next, Step, Enqueue, Call, Reclaim, Claim, GiveUp, Wait, TimeOut, LookupFails,
         Returns, Mark, Raises, PolicyRaises, Die, CountRetry, Postpone, DeadLetter, Requeue, Store,
         Settle, Tick, vars, caller_vars
<1> QED
  BY <1>3, <1>4, <1>5, <1>6, <1>7, <1>8, <1>9

LEMMA OutcomeNext == ThreadsInTime /\ OutcomeInv /\ [Next]_vars => OutcomeInv'
<1> SUFFICES ASSUME ThreadsInTime, OutcomeInv, [Next]_vars PROVE OutcomeInv'
  OBVIOUS
<1>1. TypeOK' /\ ClaimsInv'
  BY TypeNext, ClaimsNext DEF OutcomeInv
<1>2. FinishedOut'
  BY <1>1, FinishedNext DEF OutcomeInv
<1>3. ReadsStand'
  BY ReadsNext DEF OutcomeInv
<1> QED
  BY <1>1, <1>2, <1>3 DEF OutcomeInv

\* When live threads settle in time, the answer that AsyncResult.get gave a caller
\* stays true: no retry, reclaim or second execution touches a finished object.
THEOREM MemoryAnswersStand ==
  ASSUME ThreadsInTime
  PROVE  Spec => []AnswersStand
<1>1. OutcomeInv => AnswersStand
  BY DEF OutcomeInv, ReadsStand, AnswersStand
<1>2. OutcomeInv /\ [Next]_vars => OutcomeInv'
  BY OutcomeNext
<1> QED
  BY <1>1, <1>2, OutcomeInit, PTL DEF Spec

\* Nor does get ever reach its last line, which late threads do make it reach.
THEOREM MemoryGetAnswers ==
  ASSUME ThreadsInTime
  PROVE  Spec => []GetAnswers
<1>1. OutcomeInv => GetAnswers
  BY DEF OutcomeInv, ReadsStand, GetAnswers
<1>2. OutcomeInv /\ [Next]_vars => OutcomeInv'
  BY OutcomeNext
<1> QED
  BY <1>1, <1>2, OutcomeInit, PTL DEF Spec

-----------------------------------------------------------------------------
(* The retries of a task that one thread holds stay within the budget, and *)
(* its delay is one of those of the attempt.                               *)

BudgetKept ==
  /\ \A t \in TaskIds : Created(t) => obj[t].id = t
  /\ \A w \in Threads : \A t \in TaskIds : Holds(w, t) =>
       /\ pc[w] = "decided" /\ delay[w] # NULL =>
            obj[t].retries < MaxRetries[t] /\ delay[w] \in Delays(obj[t].retries + 1)
       /\ pc[w] = "counted" =>
            obj[t].retries \in 1..MaxRetries[t] /\ delay[w] \in Delays(obj[t].retries)
       /\ pc[w] = "requeue" => obj[t].retries <= MaxRetries[t]

LEMMA BudgetInit == Init => BudgetKept
BY DEF Init, QueueInit, BudgetKept, Created, Holds, Live, Holding

\* A thread reaches the requeue by the policy's answer, the increment and the delay.
LEMMA RetryingSteps ==
  ASSUME TypeOK, [Next]_vars, NEW w \in Threads, pc'[w] \in {"decided", "counted", "requeue"}
  PROVE  \/ pc'[w] = pc[w] /\ held'[w] = held[w] /\ delay'[w] = delay[w]
         \/ Raises(w)
         \/ CountRetry(w)
         \/ Postpone(w)
<1>1. ASSUME NEW v \in Threads, v # w, Step(v) \/ Die(v)
      PROVE  pc'[w] = pc[w] /\ held'[w] = held[w] /\ delay'[w] = delay[w]
  BY <1>1 DEF Step, Call, Reclaim, Claim, GiveUp, Wait, TimeOut, LookupFails, Returns,
              Mark, Raises, PolicyRaises, Die, CountRetry, Postpone, DeadLetter, Requeue, Store,
              Settle, Release, TypeOK, worker_vars
<1>2. CASE TimeOut(w) \/ UNCHANGED worker_vars
  BY <1>2 DEF TimeOut, worker_vars
<1>3. Step(w) \/ Die(w) => TimeOut(w) \/ Raises(w) \/ CountRetry(w) \/ Postpone(w)
  BY DEF Step, Call, Reclaim, Claim, GiveUp, Wait, LookupFails, Returns, Mark,
         PolicyRaises, Die, DeadLetter, Requeue, Store, Settle, TypeOK
<1>4. \/ UNCHANGED <<pc, held, delay>>
      \/ \E v \in Threads : Step(v) \/ Die(v)
  BY DEF Next, Enqueue, Get, CallerStep, Found, LosePatience, Await, AwaitTimesOut,
         ReadSuccess, ReadFailed, Goto, Tick, vars, worker_vars
<1> QED
  BY <1>1, <1>2, <1>3, <1>4

\* Only the increment of a holder changes the counter, and nothing changes the id.
LEMMA CounterSteps ==
  ASSUME TypeOK, [Next]_vars, NEW t \in TaskIds, Created(t)
  PROVE  /\ Created(t)' /\ obj'[t].id = obj[t].id
         /\ \/ obj'[t].retries = obj[t].retries
            \/ \E w \in Threads : /\ CountRetry(w) /\ Holds(w, t)
                                  /\ obj'[t].retries = obj[t].retries + 1
<1> DEFINE Same == /\ Created(t)' /\ obj'[t].id = obj[t].id
                   /\ obj'[t].retries = obj[t].retries
<1>0. obj[t] \in TaskCopy
  BY DEF TypeOK, QueueTypeOK, Created
<1>1. ASSUME NEW u \in TaskIds, Enqueue(u) PROVE Same
  BY <1>1 DEF Enqueue, enqueue, Created, TypeOK, QueueTypeOK
<1>2. ASSUME NEW w \in Threads, Reclaim(w) PROVE Same
  BY <1>2, <1>0, Marks, MarksKeep, CopyAssumption DEF Reclaim, reclaim_expired, Created
<1>3. ASSUME NEW w \in Threads, Claim(w) \/ Requeue(w) PROVE Same
  <2>1. PICK u : \/ obj' = [obj EXCEPT ![u] = mark_running(obj[u])]
                 \/ obj' = [obj EXCEPT ![u] = mark_pending(obj[u])]
    BY <1>3 DEF Claim, claim, Requeue, nack
  <2>2. CASE u = t
    BY <1>0, <2>1, <2>2, Marks, MarksKeep, CopyAssumption DEF Created, TypeOK, QueueTypeOK
  <2>3. CASE u # t
    BY <2>1, <2>3 DEF Created, TypeOK, QueueTypeOK
  <2> QED
    BY <2>2, <2>3
<1>4. ASSUME NEW w \in Threads, LookupFails(w) \/ Returns(w) \/ DeadLetter(w) PROVE Same
  <2>1. PICK c : /\ obj' = [obj EXCEPT ![held[w]] = c]
                 /\ \/ c = mark_success(obj[held[w]], 0)
                    \/ \E e \in Errors : c = mark_failed(obj[held[w]], e, 0)
    BY <1>4 DEF LookupFails, Returns, DeadLetter, Mark, Errors
  <2>2. CASE held[w] = t
    <3>1. obj'[t] = c
      BY <2>1, <2>2 DEF TypeOK, QueueTypeOK
    <3>2. c \in TaskCopy /\ c.id = obj[t].id /\ c.retries = obj[t].retries
      <4>1. CASE c = mark_success(obj[t], 0)
        <5>1. "raised" \in Errors
          BY DEF Errors
        <5> QED
          BY <1>0, <4>1, <5>1, Finishes, MarksKeep
      <4>2. ASSUME NEW e \in Errors, c = mark_failed(obj[t], e, 0)
            PROVE  c \in TaskCopy /\ c.id = obj[t].id /\ c.retries = obj[t].retries
        BY <1>0, <4>2, Finishes, MarksKeep
      <4> QED
        BY <2>1, <2>2, <4>1, <4>2
    <3> QED
      BY <3>1, <3>2, CopyAssumption DEF Created
  <2>3. CASE held[w] # t
    BY <2>1, <2>3 DEF Created, TypeOK, QueueTypeOK
  <2> QED
    BY <2>2, <2>3
<1>5. ASSUME NEW w \in Threads, CountRetry(w), held[w] # t PROVE Same
  BY <1>5 DEF CountRetry, Created, TypeOK, QueueTypeOK
<1>6. ASSUME NEW w \in Threads, CountRetry(w), held[w] = t
      PROVE  /\ Created(t)' /\ obj'[t].id = obj[t].id
             /\ Holds(w, t) /\ obj'[t].retries = obj[t].retries + 1
  <2>1. obj'[t] = counted(obj[t]) /\ delay[w] \in Times /\ Holds(w, t)
    BY <1>6 DEF CountRetry, Holds, Live, Holding, TypeOK, QueueTypeOK, MaybeTime
  <2>2. obj'[t] \in TaskCopy
    BY <1>0, <2>1, Retries
  <2> QED
    BY <1>0, <2>1, <2>2, CopyAssumption DEF counted, TaskCopy, Created
<1>7. CASE Tick
  <2>1. obj'[t] = [obj[t] EXCEPT !.available_at = Elapse(@)]
    BY <1>7 DEF Tick
  <2>2. Elapse(obj[t].available_at) \in MaybeTime
    BY <1>0, Elapses DEF TaskCopy
  <2>3. obj'[t] \in TaskCopy
    BY <1>0, <2>1, <2>2, Stamps
  <2> QED
    BY <1>0, <2>1, <2>3, CopyAssumption DEF TaskCopy, Created
<1>8. CASE obj' = obj
  BY <1>8 DEF Created
<1>9. ASSUME NEW w \in Threads,
             \/ Call(w) \/ GiveUp(w) \/ Wait(w) \/ TimeOut(w) \/ Raises(w)
             \/ PolicyRaises(w) \/ Die(w) \/ Store(w) \/ Settle(w)
      PROVE  obj' = obj
  BY <1>9 DEF Call, GiveUp, Wait, TimeOut, Raises, PolicyRaises, Die, Store, Settle, ack,
              nack, queue_vars
<1>10. ASSUME NEW c \in Callers, Get(c) \/ CallerStep(c) PROVE obj' = obj
  BY <1>10 DEF Get, CallerStep, Found, LosePatience, Await, AwaitTimesOut, ReadSuccess,
               ReadFailed, Goto, queue_vars
<1>11. UNCHANGED vars => obj' = obj
  BY DEF vars, queue_vars
<1>12. ASSUME NEW w \in Threads, Postpone(w) PROVE Same
  <2>1. CASE held[w] = t
    <3>1. obj'[t] = postponed(obj[t], delay[w], 0) /\ delay[w] \in Times
      BY <1>12, <2>1 DEF Postpone, TypeOK, QueueTypeOK, MaybeTime
    <3>2. obj'[t] \in TaskCopy
      BY <1>0, <3>1, Retries
    <3> QED
      BY <1>0, <3>1, <3>2, CopyAssumption DEF postponed, TaskCopy, Created
  <2>2. CASE held[w] # t
    BY <1>12, <2>2 DEF Postpone, Created, TypeOK, QueueTypeOK
  <2> QED
    BY <2>1, <2>2
<1> QED
  BY <1>1, <1>2, <1>3, <1>4, <1>5, <1>6, <1>7, <1>8, <1>9, <1>10, <1>11, <1>12 DEF Next, Step

\* A Task object is made by enqueue.
LEMMA OnlyEnqueued ==
  ASSUME TypeOK, [Next]_vars, NEW t \in TaskIds, ~Created(t), Created(t)'
  PROVE  Enqueue(t)
<1>1. ASSUME NEW u \in TaskIds, Enqueue(u) PROVE Enqueue(t)
  BY <1>1 DEF Enqueue, enqueue, Created, TypeOK, QueueTypeOK
<1>2. ASSUME NEW w \in Threads, Step(w) \/ Die(w) PROVE Enqueue(t)
  <2>1. ~Expired(t) /\ \A v \in Threads : Live(v) => held[v] # t
    BY DEF Expired, Past, TypeOK
  <2>2. t \notin FirstInLine
    BY DEF FirstInLine, Ready, TypeOK, QueueTypeOK
  <2> QED
    BY <1>2, <2>1, <2>2
    DEF Step, Call, Reclaim, reclaim_expired, Claim, claim, GiveUp, Wait, TimeOut,
        LookupFails, Returns, Mark, Raises, PolicyRaises, Die, CountRetry, Postpone, DeadLetter,
        Requeue, nack, Store, Settle, ack, Created, Live, Holding, TypeOK, QueueTypeOK,
        queue_vars
<1>3. CASE Tick
  BY <1>3 DEF Tick, Created
<1>4. ASSUME NEW c \in Callers, Get(c) \/ CallerStep(c) PROVE Enqueue(t)
  BY <1>4 DEF Get, CallerStep, Found, LosePatience, Await, AwaitTimesOut, ReadSuccess,
              ReadFailed, Goto, Created, queue_vars
<1>5. CASE UNCHANGED vars
  BY <1>5 DEF vars, queue_vars, Created
<1> QED
  BY <1>1, <1>2, <1>3, <1>4, <1>5 DEF Next

\* What the holder compared is still so when it increments: nobody else does.
LEMMA BudgetNext ==
  TypeOK /\ ClaimsInv /\ BudgetKept /\ [Next]_vars => BudgetKept'
<1> SUFFICES ASSUME TypeOK, ClaimsInv, BudgetKept, [Next]_vars PROVE BudgetKept'
  OBVIOUS
<1>1. ASSUME NEW t \in TaskIds, Created(t)' PROVE obj'[t].id = t
  <2>1. CASE Created(t)
    BY <2>1, CounterSteps DEF BudgetKept
  <2>2. CASE ~Created(t)
    <3>1. Enqueue(t)
      BY <1>1, <2>2, OnlyEnqueued
    <3> QED
      BY <3>1 DEF Enqueue, enqueue, TypeOK, QueueTypeOK
  <2> QED
    BY <2>1, <2>2
<1>2. ASSUME NEW w \in Threads, NEW t \in TaskIds, Holds(w, t)'
      PROVE  /\ pc'[w] = "decided" /\ delay'[w] # NULL =>
                  /\ obj'[t].retries < MaxRetries[t]
                  /\ delay'[w] \in Delays(obj'[t].retries + 1)
             /\ pc'[w] = "counted" =>
                  /\ obj'[t].retries \in 1..MaxRetries[t]
                  /\ delay'[w] \in Delays(obj'[t].retries)
             /\ pc'[w] = "requeue" => obj'[t].retries <= MaxRetries[t]
  <2> SUFFICES ASSUME pc'[w] \in {"decided", "counted", "requeue"}
               PROVE  /\ pc'[w] = "decided" /\ delay'[w] # NULL =>
                           /\ obj'[t].retries < MaxRetries[t]
                           /\ delay'[w] \in Delays(obj'[t].retries + 1)
                      /\ pc'[w] = "counted" =>
                           /\ obj'[t].retries \in 1..MaxRetries[t]
                           /\ delay'[w] \in Delays(obj'[t].retries)
                      /\ pc'[w] = "requeue" => obj'[t].retries <= MaxRetries[t]
    OBVIOUS
  <2>1. CASE Raises(w)
    <3>1. Holds(w, t) /\ Created(t) /\ obj' = obj /\ pc'[w] = "decided"
      BY <1>2, <2>1 DEF Raises, Holds, Live, Holding, TypeOK, queue_vars
    <3>2. delay'[w] \in next_delays(obj[t])
      BY <2>1, <3>1 DEF Raises, Holds, TypeOK
    <3>3. delay'[w] # NULL =>
            obj[t].retries < MaxRetries[t] /\ delay'[w] \in Delays(obj[t].retries + 1)
      BY <3>1, <3>2 DEF next_delays, MayRetry, BudgetKept
    <3> QED
      BY <3>1, <3>3
  <2>2. CASE CountRetry(w)
    <3>1. /\ Holds(w, t) /\ Created(t) /\ pc'[w] = "counted" /\ delay'[w] = delay[w]
          /\ pc[w] = "decided" /\ delay[w] # NULL
      BY <1>2, <2>2 DEF CountRetry, Holds, Live, Holding, TypeOK
    <3>2. obj[t].retries < MaxRetries[t] /\ delay[w] \in Delays(obj[t].retries + 1)
      BY <3>1 DEF BudgetKept
    <3>3. obj[t].retries \in Nat /\ MaxRetries[t] \in Int
      BY <3>1, TaskAssumption DEF TypeOK, QueueTypeOK, Created, TaskCopy
    <3>4. obj'[t].retries = obj[t].retries + 1
      BY <2>2, <3>1, <3>3 DEF CountRetry, counted, Holds, TypeOK, QueueTypeOK, Created, TaskCopy
    <3>5. obj'[t].retries \in 1..MaxRetries[t]
      BY <3>2, <3>3, <3>4
    <3> QED
      BY <3>1, <3>2, <3>4, <3>5
  <2>4. CASE Postpone(w)
    <3>1. Holds(w, t) /\ Created(t) /\ pc'[w] = "requeue" /\ pc[w] = "counted"
      BY <1>2, <2>4 DEF Postpone, Holds, Live, Holding, TypeOK
    <3>2. ASSUME NEW v \in Threads, CountRetry(v), Holds(v, t) PROVE FALSE
      BY <2>4, <3>2 DEF CountRetry, Postpone, TypeOK
    <3>3. obj'[t].retries = obj[t].retries
      BY <3>1, <3>2, CounterSteps
    <3> QED
      BY <3>1, <3>3 DEF BudgetKept
  <2>3. CASE pc'[w] = pc[w] /\ held'[w] = held[w] /\ delay'[w] = delay[w]
    <3>1. Holds(w, t) /\ Created(t)
      BY <1>2, <2>3 DEF Holds, Live, TypeOK
    <3>2. ASSUME NEW v \in Threads, CountRetry(v), Holds(v, t) PROVE FALSE
      <4>1. v = w
        BY <3>1, <3>2 DEF Holds, ClaimsInv, OneHolder
      <4> QED
        BY <2>3, <3>2, <4>1 DEF CountRetry, TypeOK
    <3>3. obj'[t].retries = obj[t].retries
      BY <3>1, <3>2, CounterSteps
    <3> QED
      BY <2>3, <3>1, <3>3 DEF BudgetKept
  <2> QED
    BY <2>1, <2>2, <2>3, <2>4, RetryingSteps
<1> QED
  BY <1>1, <1>2 DEF BudgetKept

-----------------------------------------------------------------------------
(* The mapping to the contract, one task at a time.                        *)

\* The thread has counted a retry of the task, and has yet to release it.
Requeuing(w, t) == pc[w] \in {"counted", "requeue"} /\ held[w] = t

\* The mapped variables of task t do not change.
SameTask(t) ==
  /\ PhaseOf(t)' = PhaseOf(t)
  /\ HolderOf(t)' = HolderOf(t)
  /\ TriesOf(t)' = TriesOf(t)

\* The mapped holder is the thread that holds the task, if there is one.
LEMMA HolderIs ==
  ASSUME OneHolder, NEW w \in Threads, NEW t \in TaskIds, Holds(w, t)
  PROVE  HolderOf(t) = w
<1>1. \A v \in Threads : Holds(v, t) => v = w
  BY DEF Holds, OneHolder
<1> QED
  BY <1>1 DEF HolderOf

LEMMA HolderIsNobody ==
  ASSUME NEW t \in TaskIds, \A w \in Threads : ~Holds(w, t)
  PROVE  HolderOf(t) = NULL
BY DEF HolderOf

\* The mapped holder of a task changes only if some thread takes or drops it.
LEMMA HolderKept ==
  ASSUME OneHolder, OneHolder', NEW t \in TaskIds,
         \A w \in Threads : Holds(w, t)' <=> Holds(w, t)
  PROVE  HolderOf(t)' = HolderOf(t)
<1>1. CASE \E w \in Threads : Holds(w, t)
  <2>1. PICK w \in Threads : Holds(w, t)
    BY <1>1
  <2>2. HolderOf(t) = w
    BY <2>1, HolderIs
  <2>3. Holds(w, t)' /\ \A v \in Threads : Holds(v, t)' => v = w
    BY <2>1 DEF Holds, OneHolder
  <2>4. HolderOf(t)' = w
    BY <2>3 DEF HolderOf
  <2> QED
    BY <2>2, <2>4
<1>2. CASE \A w \in Threads : ~Holds(w, t)
  BY <1>2 DEF HolderOf
<1> QED
  BY <1>1, <1>2

\* The mapped phase is a function of where the task is, and of its outcome once it
\* is nowhere; the mapped retries are those counted and released.
LEMMA PlaceKept ==
  ASSUME NEW t \in TaskIds, Created(t)' <=> Created(t),
         queued'[t] = queued[t], claimed'[t] = NULL <=> claimed[t] = NULL,
         Created(t) => obj'[t].retries = obj[t].retries,
         Created(t) /\ claimed[t] = NULL => obj'[t].status = obj[t].status,
         \A w \in Threads : Requeuing(w, t)' <=> Requeuing(w, t)
  PROVE  PhaseOf(t)' = PhaseOf(t) /\ TriesOf(t)' = TriesOf(t)
<1>1. PhaseOf(t)' = PhaseOf(t)
  BY DEF PhaseOf
<1>2. TriesOf(t)' = TriesOf(t)
  BY DEF TriesOf, Requeuing
<1> QED
  BY <1>1, <1>2

\* A step that keeps every task is a stutter of the contract.
LEMMA Stutter ==
  ASSUME \A t \in TaskIds : SameTask(t)
  PROVE  UNCHANGED Contract!vars
BY DEF SameTask, Contract!vars

\* The deployment starts where the contract does.
LEMMA ContractInit == Init => Contract!Init
<1> SUFFICES ASSUME Init PROVE Contract!Init
  OBVIOUS
<1>1. ASSUME NEW t \in TaskIds
      PROVE  PhaseOf(t) = "absent" /\ HolderOf(t) = NULL /\ TriesOf(t) = 0
  <2>1. ~Created(t)
    BY DEF Init, QueueInit, Created
  <2>2. HolderOf(t) = NULL
    BY HolderIsNobody DEF Init, Holds, Live, Holding
  <2> QED
    BY <2>1, <2>2 DEF PhaseOf, TriesOf
<1> QED
  BY <1>1 DEF Contract!Init

-----------------------------------------------------------------------------
(* The steps.                                                              *)

\* What the simulation relies on.
MappingInv == TypeOK /\ ClaimsInv /\ BudgetKept

\* Before it is enqueued a task is nowhere.
LEMMA EnqueueMaps ==
  ASSUME MappingInv, OneHolder', NEW t \in TaskIds, Enqueue(t)
  PROVE  Contract!Submit(t)
<1>1. /\ ~Created(t) /\ queued[t] = 0
      /\ UNCHANGED <<claimed, pc, held>>
  BY DEF Enqueue, enqueue, MappingInv, TypeOK, QueueTypeOK, worker_vars
<1>2. PICK d \in ScheduleDelays : enqueue(t, d)
  BY DEF Enqueue
<1>3. queued' = [queued EXCEPT ![t] = 1]
  BY <1>1, <1>2 DEF enqueue, append, MappingInv, TypeOK, QueueTypeOK
<1>4. \A u \in TaskIds : u # t => obj'[u] = obj[u] /\ queued'[u] = queued[u]
  BY <1>2, <1>3 DEF enqueue, MappingInv, TypeOK, QueueTypeOK
<1>5. Created(t)' /\ obj'[t].retries = 0 /\ queued'[t] > 0
  <2>1. obj'[t] = [id |-> t, status |-> "pending", retries |-> 0, available_at |-> d,
                   finished_at |-> NULL, error |-> NULL]
    BY <1>2 DEF enqueue, MappingInv, TypeOK, QueueTypeOK
  <2>2. obj'[t] \in TaskCopy
    BY <2>1, MemoryAssumption DEF TaskCopy, TaskStatus, MaybeTime, MaybeError
  <2> QED
    BY <1>3, <2>1, <2>2, CopyAssumption DEF Created, MappingInv, TypeOK, QueueTypeOK
<1>6. \A w \in Threads : ~Requeuing(w, t)'
  BY <1>1 DEF Requeuing, MappingInv, TypeOK, Live, Holding
<1>7. PhaseOf(t) = "absent" /\ TriesOf(t) = 0
  BY <1>1 DEF PhaseOf, TriesOf
<1>8. PhaseOf(t)' = "queued" /\ TriesOf(t)' = 0
  BY <1>5, <1>6 DEF PhaseOf, TriesOf, Requeuing
<1>9. \A u \in TaskIds : HolderOf(u)' = HolderOf(u)
  BY <1>1, HolderKept DEF Holds, Live, MappingInv, ClaimsInv
<1>10. ASSUME NEW u \in TaskIds, u # t
       PROVE  PhaseOf(u)' = PhaseOf(u) /\ TriesOf(u)' = TriesOf(u)
  BY <1>1, <1>4, <1>10, PlaceKept DEF Created, Requeuing
<1> QED
  BY <1>7, <1>8, <1>9, <1>10 DEF Contract!Submit

\* A claim takes a task out of the deque for a thread that held none.
LEMMA ClaimMaps ==
  ASSUME MappingInv, OneHolder', NEW w \in Threads, Claim(w)
  PROVE  \E t \in TaskIds : Contract!Claim(t, w)
<1>1. PICK t \in FirstInLine : claim(t) /\ held' = [held EXCEPT ![w] = t]
  BY DEF Claim
<1>2. /\ t \in TaskIds /\ queued[t] = 1 /\ claimed[t] = NULL
      /\ Created(t) /\ obj[t] \in TaskCopy
  BY <1>1 DEF FirstInLine, Ready, MappingInv, ClaimsInv, OnePlace, TypeOK, QueueTypeOK, Created
<1>3. pc' = [pc EXCEPT ![w] = "execute"] /\ ~Live(w)
  BY DEF Claim, Live, Holding
<1>4. \A v \in Threads : ~Holds(v, t)
  BY <1>2 DEF MappingInv, ClaimsInv, HoldersClaimed
<1>5. /\ queued' = [queued EXCEPT ![t] = 0] /\ claimed' = [claimed EXCEPT ![t] = VT]
      /\ obj' = [obj EXCEPT ![t] = mark_running(obj[t])]
  BY <1>1, <1>2 DEF claim, MappingInv, TypeOK, QueueTypeOK
<1>6. /\ Created(t)' /\ obj'[t].retries = obj[t].retries
      /\ queued'[t] = 0 /\ claimed'[t] # NULL
  BY <1>2, <1>5, Marks, MarksKeep, CopyAssumption, QueueAssumption, TaskAssumption
  DEF Created, MappingInv, TypeOK, QueueTypeOK, Times
<1>7. \A u \in TaskIds : \A v \in Threads : Requeuing(v, u)' <=> Requeuing(v, u)
  BY <1>1, <1>3 DEF Requeuing, Live, Holding, MappingInv, TypeOK
<1>8. PhaseOf(t) = "queued" /\ PhaseOf(t)' = "claimed" /\ TriesOf(t)' = TriesOf(t)
  <2>1. PhaseOf(t) = "queued" /\ PhaseOf(t)' = "claimed"
    BY <1>2, <1>6 DEF PhaseOf
  <2>2. TriesOf(t)' = TriesOf(t)
    BY <1>2, <1>6, <1>7 DEF TriesOf, Requeuing
  <2> QED
    BY <2>1, <2>2
<1>9. /\ Holds(w, t)'
      /\ \A v \in Threads \ {w} : \A u \in TaskIds : Holds(v, u)' <=> Holds(v, u)
      /\ \A u \in TaskIds : Holds(w, u)' => u = t
  BY <1>1, <1>3 DEF Holds, Live, Holding, MappingInv, TypeOK
<1>10. HolderOf(t)' = w
  <2>1. \A v \in Threads : Holds(v, t)' => v = w
    BY <1>9 DEF Holds, OneHolder
  <2> QED
    BY <1>9, <2>1 DEF HolderOf
<1>11. ASSUME NEW u \in TaskIds PROVE HolderOf(u) # w
  <2>1. CASE \E v \in Threads : Holds(v, u)
    BY <1>3, <2>1, HolderIs DEF Holds, MappingInv, ClaimsInv
  <2>2. CASE \A v \in Threads : ~Holds(v, u)
    BY <2>2, HolderIsNobody, MemoryAssumption
  <2> QED
    BY <2>1, <2>2
<1>12. ASSUME NEW u \in TaskIds, u # t PROVE SameTask(u)
  <2>1. obj'[u] = obj[u] /\ queued'[u] = queued[u] /\ claimed'[u] = claimed[u]
    BY <1>5, <1>12 DEF MappingInv, TypeOK, QueueTypeOK
  <2>2. \A v \in Threads : Holds(v, u)' <=> Holds(v, u)
    BY <1>3, <1>9, <1>12 DEF Holds
  <2>3. HolderOf(u)' = HolderOf(u)
    BY <2>2, HolderKept DEF MappingInv, ClaimsInv
  <2>4. PhaseOf(u)' = PhaseOf(u) /\ TriesOf(u)' = TriesOf(u)
    BY <1>7, <2>1, PlaceKept DEF Created
  <2> QED
    BY <2>3, <2>4 DEF SameTask
<1> QED
  BY <1>2, <1>8, <1>10, <1>11, <1>12 DEF SameTask, Contract!Claim, Contract!Idle

\* Only claims whose threads are gone have expired.
LEMMA ReclaimMaps ==
  ASSUME MappingInv, OneHolder', NEW w \in Threads, Reclaim(w)
  PROVE  \E S \in SUBSET TaskIds : Contract!Expire(S)
<1> DEFINE S == {t \in TaskIds : Expired(t)}
<1>1. /\ reclaim_expired /\ held' = held /\ pc[w] = "dequeue"
      /\ pc' = [pc EXCEPT ![w] = "scan"]
  BY DEF Reclaim
<1>2. \A v \in Threads : \A u \in TaskIds :
        (Holds(v, u)' <=> Holds(v, u)) /\ (Requeuing(v, u)' <=> Requeuing(v, u))
  BY <1>1 DEF Holds, Live, Holding, Requeuing, MappingInv, TypeOK
<1>3. ASSUME NEW t \in S
      PROVE  /\ PhaseOf(t) = "claimed" /\ HolderOf(t) = NULL
             /\ PhaseOf(t)' = "queued" /\ TriesOf(t)' = TriesOf(t)
  <2>1. /\ t \in TaskIds /\ claimed[t] # NULL /\ claimed[t] <= 0
        /\ Created(t) /\ obj[t] \in TaskCopy /\ queued[t] = 0
    BY DEF Expired, Past, MappingInv, ClaimsInv, OnePlace, TypeOK, QueueTypeOK, Created
  <2>2. claimed[t] \in Nat
    BY <2>1 DEF MappingInv, TypeOK, QueueTypeOK, MaybeTime, Times
  <2>3. \A v \in Threads : ~Holds(v, t)
    BY <2>1, <2>2 DEF MappingInv, ClaimsInv, HoldersClaimed
  <2>4. \A v \in Threads : ~Requeuing(v, t) /\ ~Requeuing(v, t)'
    BY <1>2, <2>3 DEF Requeuing, Holds, Live, Holding
  <2>5. obj'[t] = mark_pending(obj[t]) /\ queued'[t] = 1
    BY <1>1, <2>1 DEF reclaim_expired
  <2>6. Created(t)' /\ obj'[t].retries = obj[t].retries
    BY <2>1, <2>5, Marks, MarksKeep, CopyAssumption DEF Created
  <2>7. PhaseOf(t) = "claimed" /\ PhaseOf(t)' = "queued"
    BY <2>1, <2>5, <2>6 DEF PhaseOf
  <2>8. TriesOf(t)' = TriesOf(t)
    BY <2>1, <2>4, <2>6 DEF TriesOf, Requeuing
  <2> QED
    BY <2>1, <2>3, <2>7, <2>8, HolderIsNobody
<1>4. ASSUME NEW t \in TaskIds \ S
      PROVE  PhaseOf(t)' = PhaseOf(t) /\ TriesOf(t)' = TriesOf(t)
  <2>1. obj'[t] = obj[t] /\ queued'[t] = queued[t] /\ claimed'[t] = claimed[t]
    BY <1>1 DEF reclaim_expired
  <2> QED
    BY <1>2, <2>1, PlaceKept DEF Created
<1>5. \A t \in TaskIds : HolderOf(t)' = HolderOf(t)
  BY <1>2, HolderKept DEF MappingInv, ClaimsInv
<1>6. Contract!Expire(S)
  BY <1>3, <1>4, <1>5 DEF Contract!Expire
<1> QED
  BY <1>6

\* A thread that drops its task leaves it with no holder, and every other task
\* with the holder it had.
LEMMA Dropped ==
  ASSUME MappingInv, OneHolder', NEW w \in Threads, NEW t \in TaskIds,
         Holds(w, t), ~Live(w)',
         \A v \in Threads \ {w} : pc'[v] = pc[v] /\ held'[v] = held[v]
  PROVE  /\ HolderOf(t) # NULL /\ HolderOf(t)' = NULL
         /\ \A u \in TaskIds \ {t} : HolderOf(u)' = HolderOf(u)
         /\ \A v \in Threads : ~Requeuing(v, t)'
         /\ \A u \in TaskIds \ {t} : \A v \in Threads : Requeuing(v, u)' <=> Requeuing(v, u)
<1>1. HolderOf(t) = w /\ w # NULL
  BY HolderIs, MemoryAssumption DEF MappingInv, ClaimsInv
<1>2. \A v \in Threads \ {w} : ~Holds(v, t)
  BY DEF Holds, MappingInv, ClaimsInv, OneHolder
<1>3. \A v \in Threads : ~Holds(v, t)'
  BY <1>2 DEF Holds, Live
<1>4. HolderOf(t)' = NULL
  BY <1>3 DEF HolderOf
<1>5. ASSUME NEW u \in TaskIds \ {t} PROVE HolderOf(u)' = HolderOf(u)
  <2>1. \A v \in Threads : Holds(v, u)' <=> Holds(v, u)
    BY <1>5 DEF Holds, Live
  <2> QED
    BY <2>1, HolderKept DEF MappingInv, ClaimsInv
<1>6. \A v \in Threads : ~Requeuing(v, t)'
  BY <1>3 DEF Requeuing, Holds, Live, Holding
<1>7. \A u \in TaskIds \ {t} : \A v \in Threads : Requeuing(v, u)' <=> Requeuing(v, u)
  BY DEF Requeuing, Holds, Live, Holding
<1> QED
  BY <1>1, <1>4, <1>5, <1>6, <1>7

\* A requeue is a retry, and counts from then on.
LEMMA RequeueMaps ==
  ASSUME MappingInv, OneHolder', NEW w \in Threads, Requeue(w)
  PROVE  \E t \in TaskIds : Contract!Retry(t)
<1>1. PICK t \in TaskIds : t = held[w] /\ Holds(w, t) /\ Created(t) /\ obj[t] \in TaskCopy
  BY DEF Requeue, Holds, Live, Holding, MappingInv, TypeOK, QueueTypeOK, Created
<1>2. queued[t] = 0 /\ claimed[t] # NULL
  BY <1>1 DEF MappingInv, ClaimsInv, HoldersClaimed, OnePlace
<1>3. /\ ~Live(w)'
      /\ \A v \in Threads \ {w} : pc'[v] = pc[v] /\ held'[v] = held[v]
  BY DEF Requeue, Release, Live, Holding, MappingInv, TypeOK
<1>4. /\ obj' = [obj EXCEPT ![t] = mark_pending(obj[t])]
      /\ queued' = [queued EXCEPT ![t] = 1]
      /\ claimed' = [claimed EXCEPT ![t] = NULL]
  BY <1>1, <1>2 DEF Requeue, nack, append, MappingInv, TypeOK, QueueTypeOK
<1>5. /\ Created(t)' /\ obj'[t].retries = obj[t].retries /\ queued'[t] > 0
  BY <1>1, <1>4, Marks, MarksKeep, CopyAssumption DEF Created, MappingInv, TypeOK, QueueTypeOK
<1>6. /\ HolderOf(t) # NULL /\ HolderOf(t)' = NULL
      /\ \A u \in TaskIds \ {t} : HolderOf(u)' = HolderOf(u)
      /\ \A v \in Threads : ~Requeuing(v, t)'
      /\ \A u \in TaskIds \ {t} : \A v \in Threads : Requeuing(v, u)' <=> Requeuing(v, u)
  BY <1>1, <1>3, Dropped
<1>7. PhaseOf(t) = "claimed" /\ TriesOf(t) = obj[t].retries - 1
  BY <1>1, <1>2 DEF PhaseOf, TriesOf, Requeue, Requeuing
<1>8. PhaseOf(t)' = "queued" /\ TriesOf(t)' = obj[t].retries
  BY <1>5, <1>6 DEF PhaseOf, TriesOf, Requeuing
<1>9. obj[t].retries <= MaxRetries[t] /\ obj[t].retries \in Nat /\ MaxRetries[t] \in Int
  BY <1>1, TaskAssumption DEF Requeue, MappingInv, BudgetKept, TaskCopy
<1>10. TriesOf(t) < MaxRetries[t] /\ TriesOf(t)' = TriesOf(t) + 1
  BY <1>7, <1>8, <1>9
<1>11. ASSUME NEW u \in TaskIds \ {t}
       PROVE  PhaseOf(u)' = PhaseOf(u) /\ TriesOf(u)' = TriesOf(u)
  <2>1. obj'[u] = obj[u] /\ queued'[u] = queued[u] /\ claimed'[u] = claimed[u]
    BY <1>4, <1>11 DEF MappingInv, TypeOK, QueueTypeOK
  <2> QED
    BY <1>6, <2>1, PlaceKept DEF Created
<1>12. Contract!Retry(t)
  BY <1>6, <1>7, <1>8, <1>10, <1>11 DEF Contract!Retry, Contract!Leave
<1> QED
  BY <1>12

\* An ack completes and a final nack buries the task of the holder.
LEMMA SettleMaps ==
  ASSUME MappingInv, OneHolder', NEW w \in Threads, Settle(w)
  PROVE  \E t \in TaskIds : Contract!Complete(t) \/ Contract!Bury(t)
<1>1. PICK t \in TaskIds : t = held[w] /\ Holds(w, t) /\ Created(t)
  BY DEF Settle, Holds, Live, Holding, MappingInv, TypeOK
<1>2. queued[t] = 0 /\ claimed[t] # NULL
  BY <1>1 DEF MappingInv, ClaimsInv, HoldersClaimed, OnePlace
<1>3. /\ ~Live(w)'
      /\ \A v \in Threads \ {w} : pc'[v] = pc[v] /\ held'[v] = held[v]
  BY DEF Settle, Release, Live, Holding, MappingInv, TypeOK
<1>4. obj' = obj /\ queued' = queued /\ claimed' = [claimed EXCEPT ![t] = NULL]
  BY <1>1 DEF Settle, ack, nack
<1>5. /\ HolderOf(t) # NULL /\ HolderOf(t)' = NULL
      /\ \A u \in TaskIds \ {t} : HolderOf(u)' = HolderOf(u)
      /\ \A v \in Threads : ~Requeuing(v, t)'
      /\ \A u \in TaskIds \ {t} : \A v \in Threads : Requeuing(v, u)' <=> Requeuing(v, u)
  BY <1>1, <1>3, Dropped
<1>6. \A v \in Threads : ~Requeuing(v, t)
  BY <1>1 DEF Settle, Requeuing, Holds, Live, Holding, MappingInv, ClaimsInv, OneHolder
<1>7. PhaseOf(t) = "claimed" /\ TriesOf(t) = obj[t].retries
  BY <1>1, <1>2, <1>6 DEF PhaseOf, TriesOf, Requeuing
<1>8. claimed'[t] = NULL
  BY <1>4 DEF MappingInv, TypeOK, QueueTypeOK
<1>9. PhaseOf(t)' \in {"done", "dead"} /\ TriesOf(t)' = obj[t].retries
  BY <1>1, <1>2, <1>4, <1>5, <1>8 DEF PhaseOf, TriesOf, Requeuing, Created
<1>10. ASSUME NEW u \in TaskIds \ {t}
       PROVE  PhaseOf(u)' = PhaseOf(u) /\ TriesOf(u)' = TriesOf(u)
  <2>1. claimed'[u] = claimed[u]
    BY <1>4, <1>10 DEF MappingInv, TypeOK, QueueTypeOK
  <2> QED
    BY <1>4, <1>5, <2>1, PlaceKept DEF Created
<1>11. Contract!Complete(t) \/ Contract!Bury(t)
  BY <1>5, <1>7, <1>9, <1>10 DEF Contract!Complete, Contract!Bury, Contract!Leave
<1> QED
  BY <1>11

\* A thread that dies abandons its task.
LEMMA DeathMaps ==
  ASSUME MappingInv, OneHolder', NEW w \in Threads, PolicyRaises(w) \/ Die(w)
  PROVE  \E t \in TaskIds : Contract!Abandon(t)
<1>1. PICK t \in TaskIds : t = held[w] /\ Holds(w, t)
  BY DEF PolicyRaises, Die, Holds, Live, Holding, MappingInv, TypeOK
<1>2. /\ ~Live(w)' /\ pc[w] = "execute"
      /\ \A v \in Threads \ {w} : pc'[v] = pc[v] /\ held'[v] = held[v]
      /\ UNCHANGED <<obj, queued, claimed>>
  BY DEF PolicyRaises, Die, Release, Live, Holding, MappingInv, TypeOK, queue_vars
<1>3. /\ HolderOf(t) # NULL /\ HolderOf(t)' = NULL
      /\ \A u \in TaskIds \ {t} : HolderOf(u)' = HolderOf(u)
      /\ \A v \in Threads : ~Requeuing(v, t)'
      /\ \A u \in TaskIds \ {t} : \A v \in Threads : Requeuing(v, u)' <=> Requeuing(v, u)
  BY <1>1, <1>2, Dropped
<1>4. \A v \in Threads : ~Requeuing(v, t)
  BY <1>1, <1>2 DEF Requeuing, Holds, Live, Holding, MappingInv, ClaimsInv, OneHolder
<1>5. \A u \in TaskIds : PhaseOf(u)' = PhaseOf(u) /\ TriesOf(u)' = TriesOf(u)
  <2>1. \A u \in TaskIds : \A v \in Threads : Requeuing(v, u)' <=> Requeuing(v, u)
    BY <1>3, <1>4
  <2> QED
    BY <1>2, <2>1, PlaceKept DEF Created
<1>6. \A u \in TaskIds : HolderOf(u)' = IF u = t THEN NULL ELSE HolderOf(u)
  BY <1>1, <1>3
<1>7. Contract!Abandon(t)
  BY <1>1, <1>3, <1>5, <1>6 DEF Contract!Abandon
<1> QED
  BY <1>7

\* The increment is not a retry yet: the contract counts it at the requeue.
LEMMA CountRetryStutters ==
  ASSUME MappingInv, OneHolder', NEW w \in Threads, CountRetry(w)
  PROVE  UNCHANGED Contract!vars
<1>1. PICK t \in TaskIds : t = held[w] /\ Holds(w, t) /\ Created(t) /\ obj[t] \in TaskCopy
  BY DEF CountRetry, Holds, Live, Holding, MappingInv, TypeOK, QueueTypeOK, Created
<1>2. /\ pc' = [pc EXCEPT ![w] = "counted"] /\ held' = held /\ pc[w] = "decided"
      /\ UNCHANGED <<queued, claimed>>
      /\ obj' = [obj EXCEPT ![t] = counted(obj[t])]
      /\ delay[w] \in Times
  BY <1>1 DEF CountRetry, MappingInv, TypeOK, MaybeTime
<1>3. \A v \in Threads : \A u \in TaskIds : Holds(v, u)' <=> Holds(v, u)
  BY <1>2 DEF Holds, Live, Holding, MappingInv, TypeOK
<1>4. \A u \in TaskIds : HolderOf(u)' = HolderOf(u)
  BY <1>3, HolderKept DEF MappingInv, ClaimsInv
<1>5. \A v \in Threads : ~Requeuing(v, t)
  BY <1>1, <1>2 DEF Requeuing, Holds, Live, Holding, MappingInv, ClaimsInv, OneHolder
<1>6. Requeuing(w, t)'
  BY <1>1, <1>2 DEF Requeuing, MappingInv, TypeOK
<1>7. Created(t)' /\ obj'[t].retries = obj[t].retries + 1
  <2>1. obj'[t] = counted(obj[t])
    BY <1>2 DEF MappingInv, TypeOK, QueueTypeOK
  <2>2. obj'[t] \in TaskCopy
    BY <1>1, <1>2, <2>1, Retries
  <2> QED
    BY <1>1, <2>1, <2>2, CopyAssumption DEF counted, TaskCopy, Created
<1>8. PhaseOf(t)' = PhaseOf(t)
  <2>1. claimed[t] # NULL
    BY <1>1 DEF MappingInv, ClaimsInv, HoldersClaimed
  <2> QED
    BY <1>1, <1>2, <1>7, <2>1 DEF PhaseOf
<1>9. TriesOf(t)' = TriesOf(t)
  <2>1. TriesOf(t) = obj[t].retries
    BY <1>1, <1>5 DEF TriesOf, Requeuing
  <2>2. TriesOf(t)' = obj'[t].retries - 1
    BY <1>6, <1>7 DEF TriesOf, Requeuing
  <2>3. obj[t].retries \in Nat
    BY <1>1 DEF TaskCopy
  <2> QED
    BY <1>7, <2>1, <2>2, <2>3
<1>10. ASSUME NEW u \in TaskIds, u # t
       PROVE  PhaseOf(u)' = PhaseOf(u) /\ TriesOf(u)' = TriesOf(u)
  <2>1. obj'[u] = obj[u]
    BY <1>2, <1>10 DEF MappingInv, TypeOK, QueueTypeOK
  <2>2. \A v \in Threads : Requeuing(v, u)' <=> Requeuing(v, u)
    BY <1>1, <1>2, <1>10 DEF Requeuing, MappingInv, TypeOK
  <2> QED
    BY <1>2, <2>1, <2>2, PlaceKept DEF Created
<1>11. \A u \in TaskIds : SameTask(u)
  BY <1>4, <1>8, <1>9, <1>10 DEF SameTask
<1> QED
  BY <1>11, Stutter

\* The delay shows in the contract when the task is released.
LEMMA PostponeStutters ==
  ASSUME MappingInv, OneHolder', [Next]_vars, NEW w \in Threads, Postpone(w)
  PROVE  UNCHANGED Contract!vars
<1>1. PICK t \in TaskIds : t = held[w] /\ Holds(w, t) /\ Created(t) /\ obj[t] \in TaskCopy
  BY DEF Postpone, Holds, Live, Holding, MappingInv, TypeOK, QueueTypeOK, Created
<1>2. /\ pc' = [pc EXCEPT ![w] = "requeue"] /\ held' = held /\ pc[w] = "counted"
      /\ UNCHANGED <<queued, claimed>>
      /\ \A u \in TaskIds : u # t => obj'[u] = obj[u]
  BY <1>1 DEF Postpone, MappingInv, TypeOK, QueueTypeOK
<1>3. \A v \in Threads : \A u \in TaskIds :
        (Holds(v, u)' <=> Holds(v, u)) /\ (Requeuing(v, u)' <=> Requeuing(v, u))
  BY <1>2 DEF Holds, Live, Holding, Requeuing, MappingInv, TypeOK
<1>4. Created(t)' /\ obj'[t].retries = obj[t].retries
  <2>1. \A v \in Threads : ~CountRetry(v)
    BY <1>2 DEF CountRetry, MappingInv, TypeOK
  <2> QED
    BY <1>1, <2>1, CounterSteps DEF MappingInv
<1>5. claimed[t] # NULL
  BY <1>1 DEF MappingInv, ClaimsInv, HoldersClaimed
<1>6. \A u \in TaskIds : PhaseOf(u)' = PhaseOf(u) /\ TriesOf(u)' = TriesOf(u)
  BY <1>1, <1>2, <1>3, <1>4, <1>5, PlaceKept DEF Created
<1>7. \A u \in TaskIds : SameTask(u)
  BY <1>3, <1>6, HolderKept DEF SameTask, MappingInv, ClaimsInv
<1> QED
  BY <1>7, Stutter

\* An outcome shows in the contract once the task is settled; until then it is claimed.
LEMMA OutcomeStutters ==
  ASSUME MappingInv, OneHolder', [Next]_vars,
         NEW w \in Threads, LookupFails(w) \/ Returns(w) \/ DeadLetter(w)
  PROVE  UNCHANGED Contract!vars
<1>1. PICK t \in TaskIds : t = held[w] /\ Holds(w, t) /\ Created(t)
  BY DEF LookupFails, Returns, DeadLetter, Holds, Live, Holding, MappingInv, TypeOK
<1>2. /\ pc' = [pc EXCEPT ![w] = "store"] /\ held' = held
      /\ pc[w] \in {"execute", "decided"}
      /\ UNCHANGED <<queued, claimed>>
      /\ \A u \in TaskIds : u # t => obj'[u] = obj[u]
  BY <1>1 DEF LookupFails, Returns, DeadLetter, Mark, MappingInv, TypeOK, QueueTypeOK
<1>3. \A v \in Threads : \A u \in TaskIds :
        (Holds(v, u)' <=> Holds(v, u)) /\ (Requeuing(v, u)' <=> Requeuing(v, u))
  BY <1>2 DEF Holds, Live, Holding, Requeuing, MappingInv, TypeOK
<1>4. Created(t)' /\ obj'[t].retries = obj[t].retries
  <2>1. \A v \in Threads : ~CountRetry(v)
    BY <1>2 DEF CountRetry, MappingInv, TypeOK
  <2> QED
    BY <1>1, <2>1, CounterSteps DEF MappingInv
<1>5. claimed[t] # NULL
  BY <1>1 DEF MappingInv, ClaimsInv, HoldersClaimed
<1>6. \A u \in TaskIds : PhaseOf(u)' = PhaseOf(u) /\ TriesOf(u)' = TriesOf(u)
  BY <1>1, <1>2, <1>3, <1>4, <1>5, PlaceKept DEF Created
<1>7. \A u \in TaskIds : SameTask(u)
  BY <1>3, <1>6, HolderKept DEF SameTask, MappingInv, ClaimsInv
<1> QED
  BY <1>7, Stutter

\* The clock ripens tasks and wears claims; no task appears, moves or counts.
LEMMA TickStutters ==
  ASSUME MappingInv, OneHolder', Tick
  PROVE  UNCHANGED Contract!vars
<1>1. \A w \in Threads : \A t \in TaskIds :
        (Holds(w, t)' <=> Holds(w, t)) /\ (Requeuing(w, t)' <=> Requeuing(w, t))
  BY DEF Tick, Holds, Live, Requeuing
<1>2. ASSUME NEW t \in TaskIds PROVE PhaseOf(t)' = PhaseOf(t) /\ TriesOf(t)' = TriesOf(t)
  <2>1. claimed[t] \in MaybeTime
    BY DEF MappingInv, TypeOK, QueueTypeOK
  <2>2. queued' = queued /\ (claimed'[t] = NULL <=> claimed[t] = NULL)
    BY <2>1, Elapses DEF Tick
  <2>3. CASE ~Created(t)
    BY <1>1, <2>2, <2>3, PlaceKept DEF Tick, Created
  <2>4. CASE Created(t)
    <3>1. obj'[t] = [obj[t] EXCEPT !.available_at = Elapse(@)] /\ obj[t] \in TaskCopy
      BY <2>4 DEF Tick, Created, MappingInv, TypeOK, QueueTypeOK
    <3>2. Elapse(obj[t].available_at) \in MaybeTime
      BY <3>1, Elapses DEF TaskCopy
    <3>3. /\ obj'[t] \in TaskCopy /\ obj'[t].status = obj[t].status
          /\ obj'[t].retries = obj[t].retries
      BY <3>1, <3>2, Stamps DEF TaskCopy
    <3>4. Created(t)'
      BY <3>3, CopyAssumption DEF Created
    <3> QED
      BY <1>1, <2>2, <2>4, <3>3, <3>4, PlaceKept
  <2> QED
    BY <2>3, <2>4
<1>3. \A t \in TaskIds : SameTask(t)
  BY <1>1, <1>2, HolderKept DEF SameTask, MappingInv, ClaimsInv
<1> QED
  BY <1>3, Stutter

\* Calls, sleeps, decisions, stores and callers are invisible.
LEMMA OthersStutter ==
  ASSUME MappingInv, OneHolder',
         \/ UNCHANGED vars
         \/ \E w \in Threads : \/ Call(w) \/ GiveUp(w) \/ Wait(w) \/ TimeOut(w)
                               \/ Raises(w) \/ Store(w)
         \/ \E c \in Callers : Get(c) \/ CallerStep(c)
  PROVE  UNCHANGED Contract!vars
<1>1. UNCHANGED <<obj, queued, claimed>>
  BY DEF vars, Call, GiveUp, Wait, TimeOut, Raises, Store, Get, CallerStep, Found,
         LosePatience, Await, AwaitTimesOut, ReadSuccess, ReadFailed, Goto, queue_vars
<1>2. \A v \in Threads : \A u \in TaskIds :
        (Holds(v, u)' <=> Holds(v, u)) /\ (Requeuing(v, u)' <=> Requeuing(v, u))
  <2>1. ASSUME NEW w \in Threads, Call(w) \/ GiveUp(w) \/ Wait(w) \/ Raises(w) \/ Store(w)
        PROVE  \A v \in Threads : \A u \in TaskIds :
                 (Holds(v, u)' <=> Holds(v, u)) /\ (Requeuing(v, u)' <=> Requeuing(v, u))
    BY <2>1 DEF Call, GiveUp, Wait, Raises, Store, Holds, Live, Holding, Requeuing,
                MappingInv, TypeOK
  <2>2. CASE UNCHANGED <<pc, held>>
    BY <2>2 DEF Holds, Live, Requeuing
  <2>3. \/ UNCHANGED <<pc, held>>
        \/ \E w \in Threads : Call(w) \/ GiveUp(w) \/ Wait(w) \/ Raises(w) \/ Store(w)
    BY DEF vars, TimeOut, Get, CallerStep, Found, LosePatience, Await, AwaitTimesOut,
           ReadSuccess, ReadFailed, Goto, worker_vars
  <2> QED
    BY <2>1, <2>2, <2>3
<1>3. \A u \in TaskIds : SameTask(u)
  BY <1>1, <1>2, HolderKept, PlaceKept DEF SameTask, Created, MappingInv, ClaimsInv
<1> QED
  BY <1>3, Stutter

-----------------------------------------------------------------------------
(* The refinement.                                                         *)

\* Every step of the deployment is a step of the contract or a stutter.
LEMMA ContractStep ==
  ASSUME MappingInv, OneHolder', [Next]_vars
  PROVE  [Contract!Next]_(Contract!vars)
<1>1. ASSUME NEW t \in TaskIds, Enqueue(t) PROVE Contract!Next
  BY <1>1, EnqueueMaps DEF Contract!Next
<1>2. ASSUME NEW w \in Threads, Claim(w) \/ Reclaim(w) \/ Requeue(w) \/ Settle(w)
      PROVE  Contract!Next
  BY <1>2, ClaimMaps, ReclaimMaps, RequeueMaps, SettleMaps DEF Contract!Next
<1>3. ASSUME NEW w \in Threads, PolicyRaises(w) \/ Die(w) PROVE Contract!Next
  BY <1>3, DeathMaps DEF Contract!Next
<1>4. ASSUME NEW w \in Threads,
             \/ CountRetry(w) \/ Postpone(w)
             \/ LookupFails(w) \/ Returns(w) \/ DeadLetter(w)
      PROVE  UNCHANGED Contract!vars
  BY <1>4, CountRetryStutters, PostponeStutters, OutcomeStutters
<1>5. CASE \/ UNCHANGED vars
           \/ \E w \in Threads : \/ Call(w) \/ GiveUp(w) \/ Wait(w) \/ TimeOut(w)
                                 \/ Raises(w) \/ Store(w)
           \/ \E c \in Callers : Get(c) \/ CallerStep(c)
  BY <1>5, OthersStutter
<1> QED
  BY <1>1, <1>2, <1>3, <1>4, <1>5, TickStutters DEF Next, Step

\* When live threads settle in time, the in-memory queue with its workers implements
\* the concurrency contract of the queue interface, dying threads included.
THEOREM MemoryRefinementCorrect ==
  ASSUME ThreadsInTime
  PROVE  Spec => RefinesContract
<1>1. Init => MappingInv /\ Contract!Init
  BY TypeInit, ClaimsInit, BudgetInit, ContractInit DEF MappingInv
<1>2. MappingInv /\ [Next]_vars => MappingInv'
  BY TypeNext, ClaimsNext, BudgetNext DEF MappingInv
<1>3. MappingInv' => OneHolder'
  BY DEF MappingInv, ClaimsInv
<1>4. MappingInv /\ MappingInv' /\ [Next]_vars => [Contract!Next]_(Contract!vars)
  BY <1>3, ContractStep
<1> QED
  BY <1>1, <1>2, <1>4, PTL DEF Spec, RefinesContract, Contract!Spec

-----------------------------------------------------------------------------
(* The documented delay, for any exponential policy.                       *)

\* A set of numbers has a smallest one.
LEMMA SmallestNumber ==
  ASSUME NEW N \in SUBSET Nat, N # {}
  PROVE  \E n \in N : \A m \in N : ~(m < n)
<1>1. PICK n \in N : \A m \in N : <<m, n>> \notin OpToRel(<, Nat)
  BY NatLessThanWellFounded, WFMin
<1> QED
  BY <1>1 DEF OpToRel

\* What ^ is: the provers have no theory of it, and take it from the hypotheses.
PowerLaws(a) == a ^ 0 = 1 /\ \A n \in Nat : a ^ (n + 1) = a * a ^ n

LEMMA PowersPositive ==
  ASSUME NEW a \in Nat \ {0}, PowerLaws(a), NEW n \in Nat
  PROVE  a ^ n \in Nat \ {0}
<1> DEFINE Bad == {m \in Nat : a ^ m \notin Nat \ {0}}
<1> SUFFICES ASSUME Bad # {} PROVE FALSE
  OBVIOUS
<1>1. PICK k \in Bad : \A m \in Bad : ~(m < k)
  <2>1. Bad \in SUBSET Nat
    OBVIOUS
  <2> HIDE DEF Bad
  <2> QED
    BY <2>1, SmallestNumber
<1>2. k # 0
  BY <1>1 DEF PowerLaws
<1>3. k - 1 \in Nat /\ (k - 1) + 1 = k /\ k - 1 < k
  BY <1>1, <1>2
<1>4. a ^ (k - 1) \in Nat \ {0}
  BY <1>1, <1>3
<1>5. a ^ k = a * a ^ (k - 1)
  BY <1>3 DEF PowerLaws
<1>6. \A b \in Nat \ {0} : a * b \in Nat \ {0}
  OBVIOUS
<1> QED
  BY <1>1, <1>4, <1>5, <1>6

\* The delay before attempt n that exponential computes, if the power fits a float.
Capped(p, n) ==
  IF p.base * p.factor ^ (n - 1) <= p.cap THEN p.base * p.factor ^ (n - 1) ELSE p.cap

ExponentialPolicy(p) ==
  /\ p.kind = "exponential"
  /\ p.base \in Nat /\ p.factor \in Nat \ {0} /\ p.cap \in Nat /\ p.base <= p.cap

\* The documented recursion has the capped power as its solution.
LEMMA CappedStep ==
  ASSUME NEW p, ExponentialPolicy(p), PowerLaws(p.factor), NEW n \in Nat, n > 1
  PROVE  Capped(p, n) = IF p.factor * Capped(p, n - 1) <= p.cap
                        THEN p.factor * Capped(p, n - 1) ELSE p.cap
<1> DEFINE b == p.base
           c == p.cap
           f == p.factor
           w == p.factor ^ ((n - 1) - 1)
<1>1. b \in Nat /\ c \in Nat /\ f \in Nat /\ f >= 1 /\ b <= c
  BY DEF ExponentialPolicy
<1>2. n - 2 \in Nat /\ (n - 1) - 1 = n - 2 /\ (n - 2) + 1 = n - 1
  OBVIOUS
<1>3. w \in Nat /\ p.factor ^ (n - 1) = f * w
  <2>1. p.factor ^ (n - 2) \in Nat
    BY <1>2, PowersPositive DEF ExponentialPolicy
  <2>2. p.factor ^ ((n - 2) + 1) = f * p.factor ^ (n - 2)
    BY <1>2 DEF PowerLaws
  <2> QED
    BY <1>2, <2>1, <2>2
<1>4. /\ Capped(p, n) = IF b * (f * w) <= c THEN b * (f * w) ELSE c
      /\ Capped(p, n - 1) = IF b * w <= c THEN b * w ELSE c
  BY <1>3 DEF Capped
<1> HIDE DEF b, c, f, w
<1>5. PICK x \in Nat : x = b * w
  BY <1>1, <1>3
<1>6. b * (f * w) = f * x
  BY <1>1, <1>3, <1>5
<1>7. f * x >= x /\ f * c >= c /\ f * x \in Nat /\ f * c \in Nat
  BY <1>1, <1>5
<1>8. (IF f * x <= c THEN f * x ELSE c)
        = LET y == IF x <= c THEN x ELSE c IN IF f * y <= c THEN f * y ELSE c
  <2>1. CASE x <= c
    BY <2>1
  <2>2. CASE ~(x <= c)
    BY <1>1, <1>5, <1>7, <2>2
  <2> QED
    BY <2>1, <2>2
<1> QED
  BY <1>4, <1>5, <1>6, <1>8 DEF f, c

\* The recursion of DocumentedDelay has one solution at most.
Follows(p, n, g) ==
  g = [k \in 1..n |-> IF k = 1 THEN p.base
                      ELSE IF p.factor * g[k - 1] <= p.cap THEN p.factor * g[k - 1] ELSE p.cap]

LEMMA FollowsUnique ==
  ASSUME NEW p, NEW n \in Nat, NEW g, NEW h, Follows(p, n, g), Follows(p, n, h)
  PROVE  g = h
<1> DEFINE Bad == {k \in 1..n : g[k] # h[k]}
<1>1. ASSUME Bad # {} PROVE FALSE
  <2>1. PICK k \in Bad : \A m \in Bad : ~(m < k)
    <3>1. Bad \in SUBSET Nat
      OBVIOUS
    <3> HIDE DEF Bad
    <3> QED
      BY <1>1, <3>1, SmallestNumber
  <2>2. k # 1
    BY <2>1 DEF Follows
  <2>3. k - 1 \in 1..n /\ k - 1 < k
    BY <2>1, <2>2
  <2>4. g[k - 1] = h[k - 1]
    BY <2>1, <2>3
  <2> QED
    BY <2>1, <2>2, <2>4 DEF Follows
<1>2. \A k \in 1..n : g[k] = h[k]
  BY <1>1
<1>3. g = [k \in 1..n |-> g[k]] /\ h = [k \in 1..n |-> h[k]]
  BY DEF Follows
<1> QED
  BY <1>2, <1>3

\* The power and the doubling are the same delay.
LEMMA DocumentedIsCapped ==
  ASSUME NEW p, ExponentialPolicy(p), PowerLaws(p.factor), NEW n \in Nat \ {0}
  PROVE  DocumentedDelay(p, n) = Capped(p, n)
<1> DEFINE h == [k \in 1..n |-> Capped(p, k)]
<1>1. Follows(p, n, h)
  <2>1. ASSUME NEW k \in 1..n
        PROVE  h[k] = IF k = 1 THEN p.base
                      ELSE IF p.factor * h[k - 1] <= p.cap THEN p.factor * h[k - 1] ELSE p.cap
    <3>1. CASE k = 1
      <4>1. p.factor ^ (1 - 1) = 1
        BY DEF PowerLaws
      <4>2. Capped(p, 1) = p.base
        BY <4>1 DEF Capped, ExponentialPolicy
      <4> QED
        BY <3>1, <4>2
    <3>2. CASE k # 1
      <4>1. k - 1 \in 1..n /\ k \in Nat /\ k > 1
        BY <3>2
      <4>2. h[k] = Capped(p, k) /\ h[k - 1] = Capped(p, k - 1)
        BY <4>1
      <4> QED
        BY <3>2, <4>1, <4>2, CappedStep
    <3> QED
      BY <3>1, <3>2
  <2> QED
    BY <2>1 DEF Follows
<1>2. \A g : Follows(p, n, g) => g = h
  BY <1>1, FollowsUnique
<1>3. DocumentedDelay(p, n) = h[n]
  <2> HIDE DEF h
  <2> QED
    BY <1>1, <1>2 DEF DocumentedDelay, Follows
<1> QED
  BY <1>3

\* The jitter moves a delay by its percentage at most.
LEMMA JitterNear ==
  ASSUME NEW b \in Nat, NEW p \in 0..100, NEW d \in jitter(b, p)
  PROVE  100 * (d - b) \in -(p * b)..(p * b)
<1>1. d \in (b - ((b * p) \div 100))..(b + ((b * p) \div 100))
  BY TaskAssumption, PolicyAssumption DEF jitter
<1> QED
  BY <1>1

-----------------------------------------------------------------------------
(* Retries wait as documented.                                             *)

\* The policy is an exponential one with jitter, as BackoffAsDocumented takes it.
DocumentedPolicy ==
  /\ Policy.kind = "jittered"
  /\ Policy.percent \in 0..100
  /\ ExponentialPolicy(Policy.inner)
  /\ PowerLaws(Policy.inner.factor)

\* The answers of the policy are near the documented delay.
LEMMA DelaysDocumented ==
  ASSUME DocumentedPolicy, NEW n \in Nat \ {0}, NEW d \in Delays(n) \cap Times
  PROVE  LET b == DocumentedDelay(Policy.inner, n)
         IN  100 * (d - b) \in -(Policy.percent * b)..(Policy.percent * b)
<1> DEFINE e == exponential(Policy.inner, n)
<1>1. d \in jitter(e, Policy.percent)
  BY DEF Delays, next_delay, plain_delay, DocumentedPolicy, ExponentialPolicy
<1>2. e \notin {NULL, PolicyError}
  BY <1>1, TaskAssumption, PolicyAssumption DEF jitter, Times
<1>3. e = Capped(Policy.inner, n)
  BY <1>2 DEF exponential, Capped
<1>4. Capped(Policy.inner, n) \in Nat
  <2>1. Policy.inner.factor ^ (n - 1) \in Nat
    BY PowersPositive DEF DocumentedPolicy, ExponentialPolicy
  <2> QED
    BY <2>1 DEF Capped, DocumentedPolicy, ExponentialPolicy
<1>5. DocumentedDelay(Policy.inner, n) = e
  BY <1>3, DocumentedIsCapped DEF DocumentedPolicy
<1> HIDE DEF e
<1> QED
  BY <1>1, <1>3, <1>4, <1>5, JitterNear DEF DocumentedPolicy

BackoffStep ==
  \A w \in Threads :
    pc[w] = "counted" /\ pc'[w] = "requeue" =>
      LET task == obj'[held[w]]
          d    == DocumentedDelay(Policy.inner, task.retries)
          gap  == task.available_at - d
      IN  100 * gap \in -(Policy.percent * d)..(Policy.percent * d)

\* The counter that the policy was asked with is the one that the increment leaves
\* and that the delay finds, since nobody else has the task in between.
LEMMA BackoffSteps ==
  ASSUME DocumentedPolicy, MappingInv, [Next]_vars
  PROVE  BackoffStep
<1> SUFFICES ASSUME NEW w \in Threads, pc[w] = "counted", pc'[w] = "requeue"
             PROVE  LET task == obj'[held[w]]
                        d    == DocumentedDelay(Policy.inner, task.retries)
                        gap  == task.available_at - d
                    IN  100 * gap \in -(Policy.percent * d)..(Policy.percent * d)
  BY DEF BackoffStep
<1>1. Postpone(w)
  BY RetryingSteps DEF Raises, CountRetry, MappingInv, TypeOK
<1>2. PICK t \in TaskIds : t = held[w] /\ Holds(w, t) /\ obj[t] \in TaskCopy
  BY <1>1 DEF Postpone, Holds, Live, Holding, MappingInv, TypeOK, QueueTypeOK, Created
<1>3. delay[w] \in Times /\ obj'[t] = postponed(obj[t], delay[w], 0)
  BY <1>1, <1>2 DEF Postpone, MappingInv, TypeOK, QueueTypeOK, MaybeTime
<1>4. obj'[t].available_at = delay[w] /\ obj'[t].retries = obj[t].retries
  BY <1>2, <1>3 DEF postponed, TaskCopy, Times
<1>5. delay[w] \in Delays(obj'[t].retries) /\ obj[t].retries \in 1..MaxRetries[t]
  BY <1>2, <1>4 DEF MappingInv, BudgetKept
<1>6. obj'[t].retries \in Nat \ {0}
  BY <1>2, <1>4, <1>5 DEF TaskCopy
<1> QED
  BY <1>2, <1>3, <1>4, <1>5, <1>6, DelaysDocumented

\* When live threads settle in time, a task that is retried for the n-th time waits
\* base * factor ** (n - 1) capped at max_delay, give or take the jitter, for every
\* base, factor, cap and percentage.
THEOREM BackoffCorrect ==
  ASSUME ThreadsInTime, DocumentedPolicy
  PROVE  Spec => BackoffAsDocumented
<1>1. Init => MappingInv
  BY TypeInit, ClaimsInit, BudgetInit DEF MappingInv
<1>2. MappingInv /\ [Next]_vars => MappingInv'
  BY TypeNext, ClaimsNext, BudgetNext DEF MappingInv
<1>3. MappingInv /\ [Next]_vars => [BackoffStep]_vars
  BY BackoffSteps
<1>4. Spec => [][BackoffStep]_vars
  BY <1>1, <1>2, <1>3, PTL DEF Spec
<1> QED
  BY <1>4 DEF BackoffAsDocumented, BackoffStep
=============================================================================
