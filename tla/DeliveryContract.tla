-------------------------- MODULE DeliveryContract --------------------------
(***************************************************************************)
(* What miniq/queue/base.py promises of any queue backend, told without a  *)
(* table, a clock or a database: a task is claimed by one worker at a      *)
(* time, only that worker completes, releases or buries it, a claim whose  *)
(* worker is gone is eventually taken back, and the retries of a task      *)
(* never exceed its budget.                                                *)
(***************************************************************************)
EXTENDS Integers

CONSTANTS TaskIds, Workers, NoWorker, Budget

VARIABLES
  phase,    \* phase[t]: where task t is in its life
  holder,   \* holder[t]: the live worker that has claimed t
  tries     \* tries[t]: retries spent since t was submitted or replayed

vars == <<phase, holder, tries>>

Phase == {"absent", "queued", "claimed", "done", "dead", "purged"}

Idle(w) == \A t \in TaskIds : holder[t] # w

Init ==
  /\ phase = [t \in TaskIds |-> "absent"]
  /\ holder = [t \in TaskIds |-> NoWorker]
  /\ tries = [t \in TaskIds |-> 0]

Submit(t) ==
  /\ phase[t] = "absent"
  /\ phase' = [phase EXCEPT ![t] = "queued"]
  /\ UNCHANGED <<holder, tries>>

Claim(t, w) ==
  /\ phase[t] = "queued"
  /\ Idle(w)
  /\ phase' = [phase EXCEPT ![t] = "claimed"]
  /\ holder' = [holder EXCEPT ![t] = w]
  /\ UNCHANGED tries

\* The claim of t ends by a decision of its holder.
Leave(t, p) ==
  /\ phase[t] = "claimed"
  /\ holder[t] # NoWorker
  /\ phase' = [phase EXCEPT ![t] = p]
  /\ holder' = [holder EXCEPT ![t] = NoWorker]

Complete(t) == Leave(t, "done") /\ UNCHANGED tries
Bury(t)     == Leave(t, "dead") /\ UNCHANGED tries

Retry(t) ==
  /\ tries[t] < Budget[t]
  /\ Leave(t, "queued")
  /\ tries' = [tries EXCEPT ![t] = @ + 1]

\* The holder dies with the claim; the task stays claimed, by nobody.
Abandon(t) ==
  /\ holder[t] # NoWorker
  /\ holder' = [holder EXCEPT ![t] = NoWorker]
  /\ UNCHANGED <<phase, tries>>

\* Visibility timeouts: only claims that nobody holds any more are taken back.
Expire(S) ==
  /\ \A t \in S : phase[t] = "claimed" /\ holder[t] = NoWorker
  /\ phase' = [t \in TaskIds |-> IF t \in S THEN "queued" ELSE phase[t]]
  /\ UNCHANGED <<holder, tries>>

Replay(t) ==
  /\ phase[t] = "dead"
  /\ phase' = [phase EXCEPT ![t] = "queued"]
  /\ tries' = [tries EXCEPT ![t] = 0]
  /\ UNCHANGED holder

Purge(S) ==
  /\ \A t \in S : phase[t] \in {"done", "dead"}
  /\ phase' = [t \in TaskIds |-> IF t \in S THEN "purged" ELSE phase[t]]
  /\ tries' = [t \in TaskIds |-> IF t \in S THEN 0 ELSE tries[t]]
  /\ UNCHANGED holder

Next ==
  \/ \E t \in TaskIds :
       \/ Submit(t) \/ Complete(t) \/ Bury(t) \/ Retry(t)
       \/ Abandon(t) \/ Replay(t)
       \/ \E w \in Workers : Claim(t, w)
  \/ \E S \in SUBSET TaskIds : Expire(S) \/ Purge(S)

Spec == Init /\ [][Next]_vars
=============================================================================
