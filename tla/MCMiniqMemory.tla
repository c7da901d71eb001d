--------------------------- MODULE MCMiniqMemory ----------------------------
(***************************************************************************)
(* Instances of MiniqMemory for TLC.                                       *)
(***************************************************************************)
EXTENDS MiniqMemoryProps, TLC

CONSTANTS w1, w2, w3, t1, t2, c1, c2

TwoThreads   == {w1, w2}
ThreeThreads == {w1, w2, w3}
OneTask      == {t1}
TwoTasks     == {t1, t2}
OneCaller    == {c1}
TwoCallers   == {c1, c2}

RetryT1  == [t \in TaskIds |-> IF t = t1 THEN 1 ELSE 0]
TwiceT1  == [t \in TaskIds |-> IF t = t1 THEN 2 ELSE 0]
UrgentT1 == [t \in TaskIds |-> IF t = t1 THEN 1 ELSE 0]
SameAge  == [t \in TaskIds |-> 0]
OnlyT1   == {t1}

\* A policy of the user that grants a retry at once, declines it, or raises.
Moody    == [kind |-> "custom", answers |-> [n \in 1..2 |-> {0, NULL, PolicyError}]]
\* Delays of 1, then 3 capped at 2 and spread over 1..3.
Jittered == [kind |-> "jittered", percent |-> 50,
             inner |-> [kind |-> "exponential", base |-> 1, factor |-> 3, cap |-> 2]]

\* One power more is an overflow; NoRetry declines; jitter keeps both answers.
ASSUME
  /\ \A p \in {Moody, Jittered, Jittered.inner} : ValidPolicy(p)
  /\ \A n \in 1..2 : next_delay([kind |-> "none"], n) = {NULL}
  /\ next_delay([Jittered EXCEPT !.inner.factor = MaxFloat + 1], 2) = {PolicyError}

\* The laws of ^ that the proof of BackoffCorrect takes as a hypothesis.
ASSUME \A a \in 1..5 : a ^ 0 = 1 /\ \A n \in 0..5 : a ^ (n + 1) = a * a ^ n

Immediate == {NULL}
OrLater   == {NULL, 1}

AllAwaitT1 == [c \in Callers |-> t1]
Patient    == [c \in Callers |-> NULL]
\* c2 gives up after one time unit.
HurriedC2  == [c \in Callers |-> IF c = c2 THEN 1 ELSE NULL]

ThreadSymmetry == Permutations(Threads)
=============================================================================
