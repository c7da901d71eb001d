-------------------------------- MODULE Task --------------------------------
(***************************************************************************)
(* The Task of miniq/task.py: the statuses it moves through, the fields    *)
(* the queue, the worker and the result backend read or write, and the     *)
(* mark_* transitions.  Arguments, results and started_at are never read   *)
(* by any decision of the code and are left out.  The fields that are      *)
(* fixed when a task is created (max_retries, priority, created_at) are    *)
(* constants of the task.                                                  *)
(***************************************************************************)
EXTENDS Integers

CONSTANTS
  TaskIds,      \* the uuids of the tasks that are ever created
  NULL,         \* None in Python, NULL in SQL
  MaxRetries,   \* max_retries of each task
  Priority,     \* priority of each task
  CreatedAt     \* created_at of each task; only the order of the stamps matters

ASSUME TaskAssumption ==
  /\ NULL \notin Int
  /\ MaxRetries \in [TaskIds -> Int]
  /\ Priority   \in [TaskIds -> Int]
  /\ CreatedAt  \in [TaskIds -> Int]

TaskStatus == {"pending", "running", "success", "failed"}
Terminal   == {"success", "failed"}

\* Error texts, told apart only by who writes them: an exception of the task
\* function, or the lookup of a function the worker never imported.
Errors == {"raised", "not_registered"}

Times      == Nat
MaybeTime  == Times \cup {NULL}
MaybeError == Errors \cup {NULL}

\* A Task object in the memory of a process.
TaskCopy == [id : TaskIds, status : TaskStatus, retries : Nat,
             available_at : MaybeTime, finished_at : MaybeTime, error : MaybeError]

ASSUME CopyAssumption ==
  /\ NULL \notin TaskStatus \cup Errors
  /\ NULL \notin TaskCopy

mark_running(c) == [c EXCEPT !.status = "running"]
mark_pending(c) == [c EXCEPT !.status = "pending"]

mark_success(c, time) ==
  [c EXCEPT !.status = "success", !.finished_at = time]

mark_failed(c, e, time) ==
  [c EXCEPT !.status = "failed", !.error = e, !.finished_at = time]
=============================================================================
