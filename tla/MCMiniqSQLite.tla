--------------------------- MODULE MCMiniqSQLite ----------------------------
(***************************************************************************)
(* Instances of MiniqSQLite for TLC.                                       *)
(***************************************************************************)
EXTENDS MiniqSQLiteProps, TLC

CONSTANTS w1, w2, t1, t2

TwoWorkers == {w1, w2}
OneTask    == {t1}
TwoTasks   == {t1, t2}

OneWorker  == {w1}
NoTask     == {}
OnlyT1     == {t1}
NoPurge    == {}

\* One retry for t1, or two for t2; none for the other one.
RetryT1    == [t \in TaskIds |-> IF t = t1 THEN 1 ELSE 0]
TwiceT2    == [t \in TaskIds |-> IF t = t1 THEN 0 ELSE 2]
\* t1 is the more urgent of two tasks.
UrgentT1   == [t \in TaskIds |-> IF t = t1 THEN 1 ELSE 0]
SameAge    == [t \in TaskIds |-> 0]

\* FixedDelay(1).
OneUnit    == [kind |-> "fixed", delay |-> 1]
\* A policy of the user that may also decline the first retry, or raise.
MayDecline == [kind |-> "custom",
               answers |-> [n \in 1..2 |-> IF n = 1 THEN {1, NULL} ELSE {1}]]
MayFail    == [kind |-> "custom", answers |-> [n \in 1..2 |-> {1, PolicyError}]]

ASSUME \A p \in {OneUnit, MayDecline, MayFail} : ValidPolicy(p)

\* delay() only, or delay() and schedule(countdown=1).
Immediate  == {NULL}
OrLater    == {NULL, 1}

EveryoneKnowsAll == [w \in Workers |-> TaskIds]
\* w2 has not imported the module of t2.
W2LacksT2  == [w \in Workers |-> IF w = w2 THEN TaskIds \ {t2} ELSE TaskIds]

AfterTimeout == {VT}
AnyAge       == {0}

WorkerSymmetry == Permutations(Workers)
=============================================================================
