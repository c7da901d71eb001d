---------------------------- MODULE RetryPolicy -----------------------------
(***************************************************************************)
(* The retry policies of miniq/retry.py.  A policy object is a record; its *)
(* next_delay gives the set of answers it may return: a delay, NULL to     *)
(* decline the retry, PolicyError when the call raises.  Delays are whole  *)
(* time units, and random.uniform picks one of the grid.  A policy that    *)
(* wraps a jittered policy is left out.                                    *)
(***************************************************************************)
EXTENDS Task

CONSTANTS
  PolicyError,   \* an exception out of next_delay
  MaxFloat       \* the largest power a float holds; ** raises above it

ASSUME PolicyAssumption ==
  /\ PolicyError # NULL
  /\ PolicyError \notin Int
  /\ MaxFloat \in Nat

\* What the constructors accept.  The answers of a policy that the user derives
\* from RetryPolicy may be any, the ones that the interface excludes excepted.
PlainPolicy(p) ==
  CASE p.kind = "none"        -> TRUE
    [] p.kind = "fixed"       -> p.delay >= 0
    [] p.kind = "exponential" -> p.base >= 0 /\ p.factor >= 1 /\ p.cap >= p.base
    [] p.kind = "custom"      -> \A n \in DOMAIN p.answers :
                                   p.answers[n] \subseteq Times \cup {NULL, PolicyError}
    [] OTHER                  -> FALSE

ValidPolicy(p) ==
  IF p.kind = "jittered" THEN PlainPolicy(p.inner) /\ p.percent \in 0..100
                         ELSE PlainPolicy(p)

\* Mutant: the first retry already multiplied.
exponential_eager(p, attempt) ==
  LET power == p.factor ^ attempt
  IN  IF power > MaxFloat THEN PolicyError
      ELSE IF p.base * power <= p.cap THEN p.base * power ELSE p.cap

\* The power is computed first: it overflows before the cap is applied.
exponential(p, attempt) ==
  LET power == p.factor ^ (attempt - 1)
  IN  IF power > MaxFloat THEN PolicyError
      ELSE IF p.base * power <= p.cap THEN p.base * power ELSE p.cap

plain_delay(p, attempt) ==
  CASE p.kind = "none"        -> {NULL}
    [] p.kind = "fixed"       -> {p.delay}
    [] p.kind = "exponential" -> {exponential(p, attempt)}
    [] p.kind = "custom"      -> p.answers[attempt]

\* max(0.0, base + random.uniform(-spread, spread)), of an inner answer.
jitter(base, percent) ==
  IF base \in {NULL, PolicyError} THEN {base}
  ELSE LET spread == (base * percent) \div 100
       IN  {d \in (base - spread)..(base + spread) : d >= 0}

\* Attempts are counted from 1; the worker never asks for attempt 0.
next_delay(p, attempt) ==
  IF p.kind = "jittered"
  THEN UNION {jitter(base, p.percent) : base \in plain_delay(p.inner, attempt)}
  ELSE plain_delay(p, attempt)
=============================================================================
