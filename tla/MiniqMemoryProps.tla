-------------------------- MODULE MiniqMemoryProps --------------------------
(***************************************************************************)
(* The properties of the one-process deployment, and the refinement        *)
(* mapping to the delivery contract.                                       *)
(***************************************************************************)
EXTENDS MiniqMemory, FiniteSets, Functions

\* Every variable holds what the code can put there; a thread has a task exactly
\* while it works on one, the task exists and is not in the middle of a
\* dequeue, and only threads inside dequeue and callers inside wait sleep.
TypeOK ==
  /\ QueueTypeOK
  /\ sleeping \subseteq {w \in Threads : pc[w] = "dequeue" /\ until[w] # NULL}
  /\ stored \subseteq {t \in TaskIds : Created(t)}
  /\ waiting \subseteq {c \in Callers : cpc[c] = "look"}
  /\ pc \in [Threads -> Holding \cup {"top", "dequeue", "scan", "down"}]
  /\ held \in [Threads -> TaskIds \cup {NULL}]
  /\ delay \in [Threads -> MaybeTime]
  /\ until \in [Threads -> MaybeTime]
  /\ deaths \in Nat
  /\ cpc \in [Callers -> Answers \cup {"idle", "look", "read1", "read2"}]
  /\ patience \in [Callers -> MaybeTime]
  /\ \A w \in Threads : /\ Live(w) <=> held[w] # NULL
                        /\ until[w] # NULL => pc[w] \in {"dequeue", "scan"}
                        /\ Live(w) => Created(held[w])
                        /\ pc[w] = "counted" => delay[w] # NULL
  /\ \A t \in TaskIds : queued[t] > 0 \/ claimed[t] # NULL => Created(t)
  /\ \A c \in Callers : cpc[c] # "idle" => Created(AwaitOf[c])

\* No task is lost.  A task that was enqueued is in the deque, or has a claim
\* that can expire, or has a result: even when a late ack or nack pops the claim
\* of the next holder (the claim is found by id), and when that holder dies.
NoTaskLost ==
  \A t \in TaskIds : Created(t) => queued[t] > 0 \/ claimed[t] # NULL \/ t \in stored

\* No task waits for a later instant than its release to the deque.
Undelayed ==
  /\ ScheduleDelays = {NULL}
  /\ \A t \in TaskIds : \A n \in 1..MaxRetries[t] : Delays(n) \cap Times \subseteq {0}

\* No wakeup is lost where nothing is delayed.  While a thread sleeps in dequeue,
\* the entries of the deque never outnumber the threads on their way to look for
\* one: enqueue and nack wake one thread only, the woken thread may find that
\* another one was faster, and a thread whose wait timed out may consume a notify.
\* (A delayed task ripens without a notify; the thread that was woken for another
\* task may take it, and the other one is then left to the next time-out.)
NoLostWakeup ==
  Undelayed /\ sleeping # {} =>
    SumFunction(queued)
      <= Cardinality({w \in Threads \ sleeping : pc[w] \in {"dequeue", "scan"}})

\* The retry counter may exceed max_retries, since an expired task is shared by
\* its late holder and the next one and both compare the counter before either
\* increments it; it never exceeds it by more than the threads but one.
RetriesOvershoot ==
  \A t \in TaskIds : Created(t) =>
    obj[t].retries = 0 \/ obj[t].retries <= MaxRetries[t] + Cardinality(Threads) - 1

\* worker.py:15: a task "declared with @app.task(max_retries=N) is retried up to N
\* times", and retry.py:20 makes the worker "responsible for tracking attempt counts
\* and respecting max_retries".  The counter that the workers track would show it.
RetriesRespected ==
  \A t \in TaskIds : Created(t) => obj[t].retries = 0 \/ obj[t].retries <= MaxRetries[t]

\* A caller sleeps while its answer is there only if a store, which wakes it, is
\* under way: the stored object is live, so a re-execution finishes it for the
\* caller before the second store.
NoSleepOnAnswer ==
  \A c \in waiting : Answerable(AwaitOf[c], obj[AwaitOf[c]]) =>
    \E w \in Threads : pc[w] = "store" /\ held[w] = AwaitOf[c]

\* The answer that get gave a caller stays true: the task keeps that outcome.
AnswersStand ==
  \A c \in Callers :
    /\ cpc[c] = "value"  => obj[AwaitOf[c]].status = "success"
    /\ cpc[c] = "failed" => obj[AwaitOf[c]].status = "failed"

-----------------------------------------------------------------------------
\* The delay before attempt n, told by doubling instead of by a power.
DocumentedDelay(p, attempt) ==
  LET step[n \in 1..attempt] ==
        IF n = 1 THEN p.base
        ELSE IF p.factor * step[n - 1] <= p.cap THEN p.factor * step[n - 1] ELSE p.cap
  IN  step[attempt]

\* Retry number n of a task waits base * factor ** (n - 1) capped at max_delay,
\* give or take the jitter: the n that the policy is asked with, when the task
\* fails, is the n that the counter shows when the task is put off, steps later.
BackoffAsDocumented ==
  [][\A w \in Threads :
       pc[w] = "counted" /\ pc'[w] = "requeue" =>
         LET task == obj'[held[w]]
             d    == DocumentedDelay(Policy.inner, task.retries)
             gap  == task.available_at - d
         IN  100 * gap \in -(Policy.percent * d)..(Policy.percent * d)]_vars

-----------------------------------------------------------------------------
(* The refinement mapping.                                                 *)

PhaseOf(t) ==
  IF ~Created(t) THEN "absent"
  ELSE IF queued[t] > 0 THEN "queued"
  ELSE IF claimed[t] # NULL THEN "claimed"
  ELSE IF obj[t].status = "success" THEN "done" ELSE "dead"

HolderOf(t) ==
  IF \E w \in Threads : Holds(w, t)
  THEN CHOOSE w \in Threads : Holds(w, t)
  ELSE NULL

\* A retry counts for the contract once the task is released.
TriesOf(t) ==
  IF ~Created(t) THEN 0
  ELSE IF \E w \in Threads : pc[w] \in {"counted", "requeue"} /\ held[w] = t
       THEN obj[t].retries - 1
  ELSE obj[t].retries

Contract == INSTANCE DeliveryContract WITH
  Workers  <- Threads,
  NoWorker <- NULL,
  Budget   <- MaxRetries,
  phase    <- [t \in TaskIds |-> PhaseOf(t)],
  holder   <- [t \in TaskIds |-> HolderOf(t)],
  tries    <- [t \in TaskIds |-> TriesOf(t)]

\* When live threads settle in time, the in-memory queue with its workers
\* implements the concurrency contract of the queue interface too.
RefinesContract == Contract!Spec

-----------------------------------------------------------------------------
\* When live threads settle in time, every enqueued task gets a result and
\* leaves the queue for good, as long as one thread is alive.
EveryTaskSettles ==
  \A t \in TaskIds :
    Created(t) ~> [](t \in stored /\ queued[t] = 0 /\ claimed[t] = NULL)

\* Whoever calls get is answered, with or without a timeout: the store wakes
\* every caller, and an answer does not vanish between the wake-up and the look.
CallersServed ==
  \A c \in Callers : cpc[c] = "look" ~> cpc[c] \in {"value", "failed", "timeout"}

-----------------------------------------------------------------------------
\* task.py:108: get blocks until the task finishes, then returns its result or
\* raises TaskFailed, or TaskTimeout.  The last line of get, a RuntimeError
\* "Unexpected task status after wait", is for a case that does not happen.
GetAnswers == \A c \in Callers : cpc[c] # "unexpected"
=============================================================================
