------------------------------- MODULE Worker -------------------------------
(***************************************************************************)
(* What the Worker of miniq/worker.py decides about the Task object it     *)
(* holds, as operators on that object.  The steps of a worker, which       *)
(* interleave with other processes or threads, are in the modules of the   *)
(* deployments (MiniqSQLite, MiniqMemory).                                 *)
(***************************************************************************)
EXTENDS RetryPolicy

CONSTANT Policy   \* the retry_policy of the workers

Delays(n) == next_delay(Policy, n)

\* A policy answers a non-negative delay, None to decline the retry, or raises.
ASSUME DelaysAssumption ==
  \A t \in TaskIds : \A n \in 1..MaxRetries[t] :
    Delays(n) \subseteq Times \cup {NULL, PolicyError}

(* Mutants: an attempt too many, an attempt too few.                       *)
MayRetry_extra(c) == c.retries <= MaxRetries[c.id]
MayRetry_short(c) == c.retries + 1 < MaxRetries[c.id]

MayRetry(c) == c.retries < MaxRetries[c.id]

\* The answers _handle_failure can be given: none when the budget is spent.
next_delays(c) == IF MayRetry(c) THEN Delays(c.retries + 1) ELSE {NULL}

\* Mutant: a status of its own for a task that waits for its retry.
counted_status(c) == [c EXCEPT !.status = "retrying", !.retries = c.retries + 1]

counted(c) == [c EXCEPT !.retries = c.retries + 1]

postponed(c, delay, time) == [c EXCEPT !.available_at = time + delay]

\* The two writes of _handle_failure, on an object that nobody else has.
retried(c, delay, time) == postponed(counted(c), delay, time)
=============================================================================
