---------------------------- MODULE MiniqMemory -----------------------------
(***************************************************************************)
(* A miniq program in one process: producers enqueue, worker threads run   *)
(* Worker.run on a shared InMemoryQueue and InMemoryResultBackend, and     *)
(* callers wait in AsyncResult.get.  A thread may die of an exception that *)
(* run_once lets through; nothing starts it again.                         *)
(*                                                                         *)
(* One action is one critical section of the queue or of the backend, or   *)
(* what a thread does between two of them.  dequeue holds the queue's lock *)
(* over two actions, the reclaim and the scan.  Threads read and write the *)
(* Task object that they hold without any lock.                            *)
(***************************************************************************)
EXTENDS InMemoryQueue, InMemoryResults, Worker

CONSTANTS
  Threads,          \* worker threads
  Callers,          \* threads that call AsyncResult.get
  AwaitOf,          \* AwaitOf[c]: the task that caller c waits for
  GetTimeout,       \* GetTimeout[c]: the timeout of its call, NULL if none
  Registered,       \* tasks whose function is registered
  PollWait,         \* poll_wait_seconds
  ScheduleDelays,   \* countdowns of schedule(); NULL for delay()
  Timely,           \* TRUE if a live thread settles before its claim expires
  MaxDeaths         \* bound on the threads that a task function kills

ASSUME MemoryAssumption ==
  /\ NULL \notin TaskIds \cup Threads
  /\ AwaitOf \in [Callers -> TaskIds]
  /\ GetTimeout \in [Callers -> Times \cup {NULL}]
  /\ Registered \subseteq TaskIds
  /\ PollWait \in Times
  /\ ScheduleDelays \subseteq Times \cup {NULL}
  /\ Timely \in BOOLEAN
  /\ MaxDeaths \in Nat

VARIABLES
  pc,       \* where each worker thread is
  held,     \* the task a thread works on, NULL if none
  delay,    \* what the policy answered, NULL if it declined or was not asked
  until,    \* time left to the deadline of the dequeue under way, NULL if none
  deaths,   \* threads killed by a task function so far
  cpc,      \* where each caller is
  patience  \* time left to the deadline of its call, NULL if none

worker_vars == <<pc, held, delay, until, deaths>>
caller_vars == <<cpc, patience>>
vars == <<queue_vars, results_vars, worker_vars, caller_vars>>

Holding == {"execute", "decided", "counted", "requeue", "store", "settle"}
Answers == {"value", "failed", "timeout", "unexpected"}

Live(w)     == pc[w] \in Holding
Holds(w, t) == Live(w) /\ held[w] = t
LockFree    == \A w \in Threads : pc[w] # "scan"

Init ==
  /\ QueueInit
  /\ ResultsInit
  /\ pc = [w \in Threads |-> "top"]
  /\ held = [w \in Threads |-> NULL]
  /\ delay = [w \in Threads |-> NULL]
  /\ until = [w \in Threads |-> NULL]
  /\ deaths = 0
  /\ cpc = [c \in Callers |-> "idle"]
  /\ patience = [c \in Callers |-> NULL]

-----------------------------------------------------------------------------
(* Producers.                                                              *)

Enqueue(t) ==
  /\ ~Created(t)
  /\ LockFree
  /\ \E available \in ScheduleDelays : enqueue(t, available)
  /\ UNCHANGED <<results_vars, worker_vars, caller_vars>>

-----------------------------------------------------------------------------
(* dequeue.                                                                *)

\* The deadline is read before the lock is taken; a wait of 0 has none.
Call(w) ==
  /\ pc[w] = "top"
  /\ pc' = [pc EXCEPT ![w] = "dequeue"]
  /\ until' = [until EXCEPT ![w] = IF PollWait > 0 THEN PollWait ELSE NULL]
  /\ UNCHANGED <<queue_vars, results_vars, held, delay, deaths, caller_vars>>

\* The lock is taken, by the call or on the way out of the wait.
Reclaim(w) ==
  /\ pc[w] = "dequeue"
  /\ w \notin sleeping
  /\ LockFree
  /\ reclaim_expired
  /\ pc' = [pc EXCEPT ![w] = "scan"]
  /\ UNCHANGED <<results_vars, held, delay, until, deaths, caller_vars>>

Claim(w) ==
  /\ pc[w] = "scan"
  /\ \E t \in FirstInLine : claim(t) /\ held' = [held EXCEPT ![w] = t]
  /\ pc' = [pc EXCEPT ![w] = "execute"]
  /\ until' = [until EXCEPT ![w] = NULL]
  /\ UNCHANGED <<results_vars, delay, deaths, caller_vars>>

\* Nothing to claim and no time left: run_once returns False.
GiveUp(w) ==
  /\ pc[w] = "scan"
  /\ FirstInLine = {}
  /\ until[w] = NULL \/ Past(until[w])
  /\ pc' = [pc EXCEPT ![w] = "top"]
  /\ until' = [until EXCEPT ![w] = NULL]
  /\ UNCHANGED <<queue_vars, results_vars, held, delay, deaths, caller_vars>>

\* _not_empty.wait(timeout=remaining) gives the lock back.
Wait(w) ==
  /\ pc[w] = "scan"
  /\ FirstInLine = {}
  /\ until[w] # NULL /\ ~Past(until[w])
  /\ pc' = [pc EXCEPT ![w] = "dequeue"]
  /\ sleeping' = sleeping \cup {w}
  /\ UNCHANGED <<obj, queued, claimed, results_vars, held, delay, until, deaths,
                 caller_vars>>

\* The wait times out; until then a notify may still pick this thread.
TimeOut(w) ==
  /\ w \in sleeping
  /\ Past(until[w])
  /\ sleeping' = sleeping \ {w}
  /\ UNCHANGED <<obj, queued, claimed, results_vars, worker_vars, caller_vars>>

-----------------------------------------------------------------------------
(* run_once, after a successful dequeue.                                   *)

Release(w) ==
  /\ held' = [held EXCEPT ![w] = NULL]
  /\ delay' = [delay EXCEPT ![w] = NULL]

\* mark_success and mark_failed write the shared object, without a lock.
Mark(w, c) ==
  /\ obj' = [obj EXCEPT ![held[w]] = c]
  /\ pc' = [pc EXCEPT ![w] = "store"]
  /\ UNCHANGED <<queued, claimed, sleeping, results_vars, held, delay, until, deaths,
                 caller_vars>>

LookupFails(w) ==
  /\ pc[w] = "execute"
  /\ held[w] \notin Registered
  /\ Mark(w, mark_failed(obj[held[w]], "not_registered", 0))

Returns(w) ==
  /\ pc[w] = "execute"
  /\ held[w] \in Registered
  /\ Mark(w, mark_success(obj[held[w]], 0))

\* _handle_failure compares the counter and asks the policy.  The object is
\* changed by a later step, which does not look at the counter again.
Raises(w) ==
  /\ pc[w] = "execute"
  /\ held[w] \in Registered
  /\ \E d \in next_delays(obj[held[w]]) \ {PolicyError} :
       delay' = [delay EXCEPT ![w] = d]
  /\ pc' = [pc EXCEPT ![w] = "decided"]
  /\ UNCHANGED <<queue_vars, results_vars, held, until, deaths, caller_vars>>

\* An exception out of next_delay leaves run_once and ends the thread.
PolicyRaises(w) ==
  /\ pc[w] = "execute"
  /\ held[w] \in Registered
  /\ PolicyError \in next_delays(obj[held[w]])
  /\ pc' = [pc EXCEPT ![w] = "down"]
  /\ Release(w)
  /\ UNCHANGED <<queue_vars, results_vars, until, deaths, caller_vars>>

\* So does one of the function that is no Exception (SystemExit, ...).
Die(w) ==
  /\ deaths < MaxDeaths
  /\ pc[w] = "execute"
  /\ held[w] \in Registered
  /\ deaths' = deaths + 1
  /\ pc' = [pc EXCEPT ![w] = "down"]
  /\ Release(w)
  /\ UNCHANGED <<queue_vars, results_vars, until, caller_vars>>

\* retries += 1, on the shared object.
CountRetry(w) ==
  /\ pc[w] = "decided"
  /\ delay[w] # NULL
  /\ obj' = [obj EXCEPT ![held[w]] = counted(@)]
  /\ pc' = [pc EXCEPT ![w] = "counted"]
  /\ UNCHANGED <<queued, claimed, sleeping, results_vars, held, delay, until, deaths,
                 caller_vars>>

\* available_at = now + delay, on the same object: the call of time.time() lets
\* other threads in between.
Postpone(w) ==
  /\ pc[w] = "counted"
  /\ obj' = [obj EXCEPT ![held[w]] = postponed(@, delay[w], 0)]
  /\ pc' = [pc EXCEPT ![w] = "requeue"]
  /\ UNCHANGED <<queued, claimed, sleeping, results_vars, held, delay, until, deaths,
                 caller_vars>>

DeadLetter(w) ==
  /\ pc[w] = "decided"
  /\ delay[w] = NULL
  /\ Mark(w, mark_failed(obj[held[w]], "raised", 0))

Requeue(w) ==
  /\ pc[w] = "requeue"
  /\ LockFree
  /\ nack(held[w], TRUE)
  /\ pc' = [pc EXCEPT ![w] = "top"]
  /\ Release(w)
  /\ UNCHANGED <<results_vars, until, deaths, caller_vars>>

Store(w) ==
  /\ pc[w] = "store"
  /\ store(held[w])
  /\ pc' = [pc EXCEPT ![w] = "settle"]
  /\ UNCHANGED <<queue_vars, held, delay, until, deaths, caller_vars>>

\* ack of a success, nack(requeue=False) of a dead letter: run_once knows which
\* one it is by its own control flow, whatever the object says by now.
Settle(w) ==
  /\ pc[w] = "settle"
  /\ LockFree
  /\ ack(held[w]) \/ nack(held[w], FALSE)
  /\ pc' = [pc EXCEPT ![w] = "top"]
  /\ Release(w)
  /\ UNCHANGED <<results_vars, until, deaths, caller_vars>>

-----------------------------------------------------------------------------
(* AsyncResult.get: the backend's wait, then two reads of the status.      *)

Goto(c, place) ==
  /\ cpc' = [cpc EXCEPT ![c] = place]
  /\ UNCHANGED <<queue_vars, results_vars, worker_vars>>

Get(c) ==
  /\ cpc[c] = "idle"
  /\ Created(AwaitOf[c])
  /\ patience' = [patience EXCEPT ![c] = GetTimeout[c]]
  /\ Goto(c, "look")

Looking(c) == cpc[c] = "look" /\ c \notin waiting

Found(c) ==
  /\ Looking(c)
  /\ Answerable(AwaitOf[c], obj[AwaitOf[c]])
  /\ Goto(c, "read1")
  /\ UNCHANGED patience

\* TaskTimeout.
LosePatience(c) ==
  /\ Looking(c)
  /\ ~Answerable(AwaitOf[c], obj[AwaitOf[c]])
  /\ Past(patience[c])
  /\ Goto(c, "timeout")
  /\ UNCHANGED patience

Await(c) ==
  /\ Looking(c)
  /\ ~Answerable(AwaitOf[c], obj[AwaitOf[c]])
  /\ ~Past(patience[c])
  /\ waiting' = waiting \cup {c}
  /\ UNCHANGED <<queue_vars, stored, worker_vars, caller_vars>>

AwaitTimesOut(c) ==
  /\ c \in waiting
  /\ Past(patience[c])
  /\ waiting' = waiting \ {c}
  /\ UNCHANGED <<queue_vars, stored, worker_vars, caller_vars>>

\* task.status is SUCCESS?
ReadSuccess(c) ==
  /\ cpc[c] = "read1"
  /\ Goto(c, IF obj[AwaitOf[c]].status = "success" THEN "value" ELSE "read2")
  /\ UNCHANGED patience

\* task.status is FAILED?  RuntimeError if neither.
ReadFailed(c) ==
  /\ cpc[c] = "read2"
  /\ Goto(c, IF obj[AwaitOf[c]].status = "failed" THEN "failed" ELSE "unexpected")
  /\ UNCHANGED patience

-----------------------------------------------------------------------------
(* Time.                                                                   *)

InTime(w) == Live(w) /\ claimed[held[w]] # NULL => claimed[held[w]] > 1

Tick ==
  /\ Timely => \A w \in Threads : InTime(w)
  /\ obj' = [t \in TaskIds |->
       IF Created(t) THEN [obj[t] EXCEPT !.available_at = Elapse(@)] ELSE NULL]
  /\ claimed' = [t \in TaskIds |-> Elapse(claimed[t])]
  /\ until' = [w \in Threads |-> Elapse(until[w])]
  /\ patience' = [c \in Callers |-> Elapse(patience[c])]
  /\ UNCHANGED <<queued, sleeping, results_vars, pc, held, delay, deaths, cpc>>

-----------------------------------------------------------------------------
Step(w) ==
  \/ Call(w) \/ Reclaim(w) \/ Claim(w) \/ GiveUp(w) \/ Wait(w) \/ TimeOut(w)
  \/ LookupFails(w) \/ Returns(w) \/ Raises(w) \/ PolicyRaises(w)
  \/ CountRetry(w) \/ Postpone(w) \/ DeadLetter(w) \/ Requeue(w)
  \/ Store(w) \/ Settle(w)

CallerStep(c) ==
  \/ Found(c) \/ LosePatience(c) \/ Await(c) \/ AwaitTimesOut(c)
  \/ ReadSuccess(c) \/ ReadFailed(c)

Next ==
  \/ \E t \in TaskIds : Enqueue(t)
  \/ \E w \in Threads : Step(w) \/ Die(w)
  \/ \E c \in Callers : Get(c) \/ CallerStep(c)
  \/ Tick

Spec == Init /\ [][Next]_vars

\* A thread that can run does, a lock that a thread asks for again and again is
\* granted some time, and time passes.  Nobody has to enqueue or call get.
Fairness ==
  /\ \A w \in Threads : SF_vars(Step(w))
  /\ \A c \in Callers : WF_vars(CallerStep(c))
  /\ WF_vars(Tick)

LiveSpec == Spec /\ Fairness
=============================================================================
