-------------------------------- MODULE Cli ---------------------------------
(***************************************************************************)
(* The commands of miniq/cli.py that write the database behind the back of *)
(* the workers: 'miniq dlq replay' and 'miniq purge'.  Each runs a single  *)
(* transaction on a connection of its own.  'status' and 'dlq list' only   *)
(* read.                                                                   *)
(***************************************************************************)
EXTENDS SQLiteQueue, ResultStore

(* UPDATE ... WHERE id = ? AND status = 'failed'; task_results is not      *)
(* touched.                                                                *)
\* Mutant: AND status = 'failed' is dropped for successes too.
Replayable_success(t) == InStatus(t, Terminal)

Replayable(t) == InStatus(t, {"failed"})

replayed_row ==
  [status |-> "pending", retries |-> 0, available_at |-> NULL,
   claimed_until |-> NULL, finished_at |-> NULL, error |-> NULL]

\* Mutant: only the status and the counter are reset.
cmd_dlq_replay_partial(t) ==
  /\ Replayable(t)
  /\ tasks' = [tasks EXCEPT ![t].status = "pending", ![t].retries = 0]
  /\ UNCHANGED results

cmd_dlq_replay(t) ==
  /\ Replayable(t)
  /\ tasks' = [tasks EXCEPT ![t] = replayed_row]
  /\ UNCHANGED results

-----------------------------------------------------------------------------
PurgedStatuses(include_failed) ==
  IF include_failed THEN {"success", "failed"} ELSE {"success"}

\* Mutant: a row that has just reached the age stays, and its result goes.
TaskPurged_late(t, S, cutoff) ==
  /\ InStatus(t, S)
  /\ tasks[t].finished_at # NULL
  /\ tasks[t].finished_at < cutoff

TaskPurged(t, S, cutoff) ==
  /\ InStatus(t, S)
  /\ tasks[t].finished_at # NULL
  /\ tasks[t].finished_at <= cutoff

\* The DELETE on task_results looks at that table alone.
ResultPurged(t, S, cutoff) ==
  /\ HasResult(t)
  /\ results[t].status \in S
  /\ results[t].stored_at <= cutoff

cmd_purge(cutoff, include_failed) ==
  LET S == PurgedStatuses(include_failed)
  IN /\ tasks' = [t \in TaskIds |->
                    IF TaskPurged(t, S, cutoff) THEN NULL ELSE tasks[t]]
     /\ results' = [t \in TaskIds |->
                    IF ResultPurged(t, S, cutoff) THEN NULL ELSE results[t]]
=============================================================================
