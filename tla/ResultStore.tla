---------------------------- MODULE ResultStore ----------------------------
(***************************************************************************)
(* SQLiteResultBackend of miniq/results.py: the 'task_results' table.  The *)
(* stored value itself is not modelled; which execution wrote the row, and *)
(* with which outcome, is.                                                 *)
(***************************************************************************)
EXTENDS Task

VARIABLE results   \* results[t]: the row of task_results with id t, or NULL

Result == [status : TaskStatus, error : MaybeError,
           finished_at : MaybeTime, stored_at : Times]

ASSUME ResultAssumption == NULL \notin Result

ResultsTypeOK == results \in [TaskIds -> Result \cup {NULL}]

ResultsInit == results = [t \in TaskIds |-> NULL]

HasResult(t) == results[t] # NULL

ResultOf(c, time) ==
  [status |-> c.status, error |-> c.error,
   finished_at |-> c.finished_at, stored_at |-> time]

(* Mutant: only successes are stored.                                      *)
store_success(c, time) ==
  results' = IF c.status = "success" THEN [results EXCEPT ![c.id] = ResultOf(c, time)]
                                     ELSE results

(* INSERT OR REPLACE: the last writer wins, whatever was stored before.    *)
store(c, time) ==
  results' = [results EXCEPT ![c.id] = ResultOf(c, time)]
=============================================================================
