--------------------------- MODULE InMemoryQueue ----------------------------
(***************************************************************************)
(* InMemoryQueue of miniq/queue/memory.py: the methods' bodies, each run   *)
(* under the queue's lock.  The deque and the claims hold references to    *)
(* the Task objects that worker threads and callers hold too, so the       *)
(* objects are a variable of their own and nothing is copied.              *)
(*                                                                         *)
(* Every stamp is kept as the time left until it: NULL if there is none, 0 *)
(* once it is past.  The code only compares stamps with the clock, and     *)
(* this way no behaviour runs out of time.                                 *)
(***************************************************************************)
EXTENDS Task

CONSTANT VT   \* visibility_timeout

ASSUME QueueAssumption == VT \in Times

VARIABLES
  obj,       \* obj[t]: the Task object of t, NULL before it is created
  queued,    \* queued[t]: how many times t is in the deque _pending
  claimed,   \* claimed[t]: time left of the entry of t in _claimed, NULL if none
  sleeping   \* threads in _not_empty.wait()

queue_vars == <<obj, queued, claimed, sleeping>>

Created(t) == obj[t] # NULL
Past(left) == left # NULL /\ left <= 0
Elapse(left) == IF left = NULL \/ left = 0 THEN left ELSE left - 1

QueueTypeOK ==
  /\ obj \in [TaskIds -> TaskCopy \cup {NULL}]
  /\ queued \in [TaskIds -> Nat]
  /\ claimed \in [TaskIds -> MaybeTime]

QueueInit ==
  /\ obj = [t \in TaskIds |-> NULL]
  /\ queued = [t \in TaskIds |-> 0]
  /\ claimed = [t \in TaskIds |-> NULL]
  /\ sleeping = {}

-----------------------------------------------------------------------------
(* The condition variable.  CPython wakes the thread that waits longest;   *)
(* the documentation of threading.Condition leaves the choice open.        *)

notify ==
  IF sleeping = {} THEN UNCHANGED sleeping
                   ELSE \E w \in sleeping : sleeping' = sleeping \ {w}

notify_all == sleeping' = {}

-----------------------------------------------------------------------------
append(q, t) == [q EXCEPT ![t] = @ + 1]

\* Mutant: no notify.
enqueue_silent(t, available) ==
  /\ obj' = [obj EXCEPT ![t] =
       [id |-> t, status |-> "pending", retries |-> 0, available_at |-> available,
        finished_at |-> NULL, error |-> NULL]]
  /\ queued' = append(queued, t)
  /\ UNCHANGED <<claimed, sleeping>>

enqueue(t, available) ==
  /\ obj' = [obj EXCEPT ![t] =
       [id |-> t, status |-> "pending", retries |-> 0, available_at |-> available,
        finished_at |-> NULL, error |-> NULL]]
  /\ queued' = append(queued, t)
  /\ notify
  /\ UNCHANGED claimed

-----------------------------------------------------------------------------
(* dequeue: _reclaim_expired_locked, the scan of the deque, the claim.     *)

\* Mutant: claims never expire.
Expired_never(t) == FALSE

Expired(t) == Past(claimed[t])

reclaim_expired ==
  LET expired == {t \in TaskIds : Expired(t)} IN
  /\ claimed' = [t \in TaskIds |-> IF t \in expired THEN NULL ELSE claimed[t]]
  /\ obj' = [t \in TaskIds |-> IF t \in expired THEN mark_pending(obj[t]) ELSE obj[t]]
  /\ queued' = [t \in TaskIds |-> IF t \in expired THEN queued[t] + 1 ELSE queued[t]]
  /\ IF expired = {} THEN UNCHANGED sleeping ELSE notify_all

Ready(t) ==
  /\ queued[t] > 0
  /\ obj[t].available_at = NULL \/ Past(obj[t].available_at)

Outranks(u, t) ==
  \/ Priority[u] > Priority[t]
  \/ Priority[u] = Priority[t] /\ CreatedAt[u] < CreatedAt[t]

\* Tasks that tie on both keys leave in the order of the deque, not kept here.
FirstInLine ==
  {t \in TaskIds : Ready(t) /\ \A u \in TaskIds : Ready(u) => ~Outranks(u, t)}

\* Mutant: the task stays in the deque.
claim_copy(t) ==
  /\ obj' = [obj EXCEPT ![t] = mark_running(@)]
  /\ claimed' = [claimed EXCEPT ![t] = VT]
  /\ UNCHANGED <<queued, sleeping>>

claim(t) ==
  /\ queued' = [queued EXCEPT ![t] = @ - 1]
  /\ obj' = [obj EXCEPT ![t] = mark_running(@)]
  /\ claimed' = [claimed EXCEPT ![t] = VT]
  /\ UNCHANGED sleeping

-----------------------------------------------------------------------------
(* ack and nack pop the claim by id, whoever made it.                      *)

\* Mutant: the claim stays and the task is reclaimed later.
ack_keeping(t) == UNCHANGED queue_vars

ack(t) ==
  /\ claimed' = [claimed EXCEPT ![t] = NULL]
  /\ UNCHANGED <<obj, queued, sleeping>>

\* Mutant: the task is not put back.
nack_dropping(t, requeue) ==
  /\ claimed' = [claimed EXCEPT ![t] = NULL]
  /\ IF requeue
     THEN obj' = [obj EXCEPT ![t] = mark_pending(@)] /\ notify /\ UNCHANGED queued
     ELSE UNCHANGED <<obj, queued, sleeping>>

nack(t, requeue) ==
  /\ claimed' = [claimed EXCEPT ![t] = NULL]
  /\ IF requeue
     THEN /\ obj' = [obj EXCEPT ![t] = mark_pending(@)]
          /\ queued' = append(queued, t)
          /\ notify
     ELSE UNCHANGED <<obj, queued, sleeping>>
=============================================================================
