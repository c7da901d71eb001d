---------------------------- MODULE SQLiteQueue ----------------------------
(***************************************************************************)
(* SQLiteQueue of miniq/queue/sqlite.py: the 'tasks' table and the         *)
(* transactions its methods run.  SQLite serialises write transactions, so *)
(* each transaction is one action.  A method that reads the wall clock     *)
(* does so BEFORE it takes the connection lock and the database lock; the  *)
(* reading is a parameter here and the callers decide how old it is.       *)
(***************************************************************************)
EXTENDS Task

VARIABLE tasks   \* tasks[t]: the row with primary key t, NULL if there is none

Row == [status : TaskStatus, retries : Nat, available_at : MaybeTime,
        claimed_until : MaybeTime, finished_at : MaybeTime, error : MaybeError]

ASSUME RowAssumption == NULL \notin Row

QueueTypeOK == tasks \in [TaskIds -> Row \cup {NULL}]

QueueInit == tasks = [t \in TaskIds |-> NULL]

HasRow(t)      == tasks[t] # NULL
InStatus(t, S) == HasRow(t) /\ tasks[t].status \in S
Active(t)      == InStatus(t, {"pending", "running"})
Settled(t)     == InStatus(t, Terminal)

-----------------------------------------------------------------------------
(* The INSERT of enqueue.                                                  *)
enqueue(t, available) ==
  tasks' = [tasks EXCEPT ![t] =
     [status |-> "pending", retries |-> 0, available_at |-> available,
      claimed_until |-> NULL, finished_at |-> NULL, error |-> NULL]]

-----------------------------------------------------------------------------
(* _try_claim: SELECT ... ORDER BY priority DESC, created_at ASC LIMIT 1   *)
(* among the pending rows that are available, then the UPDATE of that row. *)
\* Mutant: the status filter lets running rows through.
Claimable_running(t, time) ==
  /\ InStatus(t, {"pending", "running"})
  /\ tasks[t].available_at = NULL \/ tasks[t].available_at <= time

Claimable(t, time) ==
  /\ InStatus(t, {"pending"})
  /\ tasks[t].available_at = NULL \/ tasks[t].available_at <= time

Outranks(u, t) ==
  \/ Priority[u] > Priority[t]
  \/ Priority[u] = Priority[t] /\ CreatedAt[u] < CreatedAt[t]

\* Rows that tie on both keys come back in an order SQL leaves open.
FirstInLine(time) ==
  {t \in TaskIds : /\ Claimable(t, time)
                   /\ \A u \in TaskIds : Claimable(u, time) => ~Outranks(u, t)}

\* Mutant: the claim sets no deadline.
claim_row_forever(t, until) == tasks' = [tasks EXCEPT ![t].status = "running"]

claim_row(t, until) ==
  tasks' = [tasks EXCEPT ![t].status = "running", ![t].claimed_until = until]

\* _row_to_task, then status = RUNNING on the object that is returned.
row_to_task(t) ==
  [id |-> t, status |-> "running", retries |-> tasks[t].retries,
   available_at |-> tasks[t].available_at, finished_at |-> tasks[t].finished_at,
   error |-> tasks[t].error]

-----------------------------------------------------------------------------
(* _reclaim_expired: one UPDATE over every expired claim.                  *)
\* Mutant: the deadline is not compared with the clock.
Expired_always(t, time) == InStatus(t, {"running"}) /\ tasks[t].claimed_until # NULL

Expired(t, time) ==
  /\ InStatus(t, {"running"})
  /\ tasks[t].claimed_until # NULL
  /\ tasks[t].claimed_until <= time

reclaimed_row(r) == [r EXCEPT !.status = "pending", !.claimed_until = NULL]

reclaim_expired(time) ==
  tasks' = [t \in TaskIds |-> IF Expired(t, time) THEN reclaimed_row(tasks[t])
                                                  ELSE tasks[t]]

-----------------------------------------------------------------------------
(* ack and nack: UPDATE ... WHERE id = ?.  The row is addressed by id      *)
(* alone: neither its status nor the holder of its claim is tested, and an *)
(* id without a row matches nothing.                                       *)
update_row(t, r) ==
  tasks' = IF HasRow(t) THEN [tasks EXCEPT ![t] = r] ELSE tasks

settled_row(r, c) ==
  [r EXCEPT !.status = c.status, !.finished_at = c.finished_at,
            !.error = c.error, !.claimed_until = NULL]

\* Mutants: the deadline of the claim stays; the retry is not counted.
requeued_row_claimed(r, c) ==
  [r EXCEPT !.status = "pending", !.retries = c.retries, !.available_at = c.available_at]
requeued_row_uncounted(r, c) ==
  [r EXCEPT !.status = "pending", !.claimed_until = NULL, !.available_at = c.available_at]

requeued_row(r, c) ==
  [r EXCEPT !.status = "pending", !.claimed_until = NULL,
            !.retries = c.retries, !.available_at = c.available_at]

ack(c) == update_row(c.id, settled_row(tasks[c.id], c))

nack(c, requeue) ==
  update_row(c.id, IF requeue THEN requeued_row(tasks[c.id], c)
                              ELSE settled_row(tasks[c.id], c))
=============================================================================
