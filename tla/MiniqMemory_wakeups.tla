------------------------- MODULE MiniqMemory_wakeups -------------------------
(***************************************************************************)
(* No wakeup of a worker thread is lost, for any finite sets of tasks and  *)
(* threads.  The sum over the deque is the size of a finite set, which     *)
(* each step of the queue changes by one element.                          *)
(***************************************************************************)
EXTENDS MiniqMemory_proofs, WellFoundedInduction

-----------------------------------------------------------------------------
(* Finite sets.                                                            *)

\* Of some subsets of a finite set, one contains no other.
LEMMA SmallestSet ==
  ASSUME NEW S, IsFiniteSet(S), NEW Bad \in SUBSET (SUBSET S), Bad # {}
  PROVE  \E U \in Bad : \A V \in Bad : V \subseteq U => V = U
<1>1. IsWellFoundedOn(StrictSubsetOrdering(S), FiniteSubsetsOf(S))
  BY FS_StrictSubsetOrderingWellFounded
<1>2. FiniteSubsetsOf(S) = SUBSET S
  BY FS_FiniteSubsetsOfFinite
<1>3. PICK U \in Bad : \A V \in Bad : <<V, U>> \notin StrictSubsetOrdering(S)
  <2>1. Bad \subseteq FiniteSubsetsOf(S)
    BY <1>2
  <2> QED
    BY <1>1, <2>1, WFMin
<1> QED
  BY <1>3 DEF StrictSubsetOrdering

\* The entries of a multiset f of which the elements are in s.
Entries(f, s) == {e \in (DOMAIN f) \X Nat : e[1] \in s /\ e[2] \in 1..f[e[1]]}

LEMMA NoEntries == ASSUME NEW f PROVE Entries(f, {}) = {}
BY DEF Entries

\* The entries of x, and the others.
LEMMA EntriesOfOne ==
  ASSUME NEW S, NEW f \in [S -> Nat], NEW s \in SUBSET S, NEW x \in s,
         IsFiniteSet(Entries(f, s \ {x}))
  PROVE  /\ IsFiniteSet(Entries(f, s))
         /\ Cardinality(Entries(f, s)) = f[x] + Cardinality(Entries(f, s \ {x}))
<1> DEFINE Own == {x} \X (1..f[x])
           Rest == Entries(f, s \ {x})
<1>1. f[x] \in Nat
  OBVIOUS
<1>2. IsFiniteSet(Own) /\ Cardinality(Own) = f[x]
  <2>1. IsFiniteSet({x}) /\ Cardinality({x}) = 1
    BY FS_Singleton
  <2>2. IsFiniteSet(1..f[x]) /\ Cardinality(1..f[x]) = f[x]
    BY <1>1, FS_Interval
  <2>3. IsFiniteSet(Own) /\ Cardinality(Own) = Cardinality({x}) * Cardinality(1..f[x])
    BY <2>1, <2>2, FS_Product
  <2> QED
    BY <1>1, <2>1, <2>2, <2>3
<1>3. Entries(f, s) = Rest \cup Own
  BY <1>1 DEF Entries
<1>4. Rest \cap Own = {}
  BY DEF Entries
<1>5. Cardinality(Rest \cap Own) = 0 /\ Cardinality(Rest) \in Nat
  BY <1>4, FS_EmptySet, FS_CardinalityType
<1> HIDE DEF Own, Rest
<1>6. /\ IsFiniteSet(Rest \cup Own)
      /\ Cardinality(Rest \cup Own) = Cardinality(Rest) + Cardinality(Own)
                                      - Cardinality(Rest \cap Own)
  BY <1>2, FS_Union DEF Rest
<1> QED
  BY <1>1, <1>2, <1>3, <1>5, <1>6 DEF Rest

LEMMA EntriesFinite ==
  ASSUME NEW S, IsFiniteSet(S), NEW f \in [S -> Nat], NEW s \in SUBSET S
  PROVE  IsFiniteSet(Entries(f, s))
<1> DEFINE Bad == {u \in SUBSET S : ~IsFiniteSet(Entries(f, u))}
<1> SUFFICES ASSUME Bad # {} PROVE FALSE
  OBVIOUS
<1>1. PICK U \in Bad : \A V \in Bad : V \subseteq U => V = U
  <2>1. Bad \in SUBSET (SUBSET S)
    OBVIOUS
  <2> HIDE DEF Bad
  <2> QED
    BY <2>1, SmallestSet
<1>2. U # {}
  BY <1>1, NoEntries, FS_EmptySet
<1>3. PICK x \in U : TRUE
  BY <1>2
<1>4. IsFiniteSet(Entries(f, U \ {x}))
  BY <1>1, <1>3
<1>5. IsFiniteSet(Entries(f, U))
  BY <1>3, <1>4, EntriesOfOne
<1> QED
  BY <1>5

-----------------------------------------------------------------------------
(* SumFunction of the community modules adds the values of a function one  *)
(* by one.                                                                 *)

Adds(f, g) ==
  g = [s \in SUBSET (DOMAIN f) |->
         IF s = {} THEN 0
         ELSE f[CHOOSE x \in s : TRUE] + g[s \ {CHOOSE x \in s : TRUE}]]

\* There is one such recursive function at most.
LEMMA AddsUnique ==
  ASSUME NEW S, IsFiniteSet(S), NEW f \in [S -> Nat],
         NEW g, NEW h, Adds(f, g), Adds(f, h)
  PROVE  g = h
<1> DEFINE Bad == {u \in SUBSET S : g[u] # h[u]}
<1>1. ASSUME Bad # {} PROVE FALSE
  <2>1. PICK U \in Bad : \A V \in Bad : V \subseteq U => V = U
    <3>1. Bad \in SUBSET (SUBSET S)
      OBVIOUS
    <3> HIDE DEF Bad
    <3> QED
      BY <1>1, <3>1, SmallestSet
  <2>2. CASE U = {}
    BY <2>2 DEF Adds
  <2>3. CASE U # {}
    <3> DEFINE x == CHOOSE y \in U : TRUE
    <3>1. x \in U
      BY <2>3
    <3>2. g[U \ {x}] = h[U \ {x}]
      BY <2>1, <3>1
    <3>3. g[U] = f[x] + g[U \ {x}] /\ h[U] = f[x] + h[U \ {x}]
      BY <2>3 DEF Adds
    <3> QED
      BY <2>1, <3>2, <3>3
  <2> QED
    BY <2>2, <2>3
<1> QED
  BY <1>1 DEF Adds

\* The sum of f is the number of its entries.
LEMMA SumIsCount ==
  ASSUME NEW S, IsFiniteSet(S), NEW f \in [S -> Nat]
  PROVE  SumFunction(f) = Cardinality(Entries(f, S))
<1> DEFINE h == [s \in SUBSET S |-> Cardinality(Entries(f, s))]
<1>1. Adds(f, h)
  <2>1. ASSUME NEW s \in SUBSET S
        PROVE  h[s] = IF s = {} THEN 0
                      ELSE f[CHOOSE x \in s : TRUE] + h[s \ {CHOOSE x \in s : TRUE}]
    <3>1. CASE s = {}
      BY <3>1, NoEntries, FS_EmptySet
    <3>2. CASE s # {}
      <4> DEFINE x == CHOOSE y \in s : TRUE
      <4>1. x \in s
        BY <3>2
      <4>2. IsFiniteSet(Entries(f, s \ {x}))
        BY EntriesFinite
      <4> HIDE DEF x
      <4>3. Cardinality(Entries(f, s)) = f[x] + Cardinality(Entries(f, s \ {x}))
        BY <4>1, <4>2, EntriesOfOne
      <4>4. h[s] = f[x] + h[s \ {x}]
        BY <4>3
      <4> QED
        BY <3>2, <4>4 DEF x
    <3> QED
      BY <3>1, <3>2
  <2> QED
    BY <2>1 DEF Adds
<1>2. \A g : Adds(f, g) => g = h
  BY <1>1, AddsUnique
<1>3. SumFunction(f) = h[DOMAIN f]
  <2> HIDE DEF h
  <2> QED
    BY <1>1, <1>2
    DEF SumFunction, SumFunctionOnSet, FoldFunctionOnSet, MapThenFoldSet, Adds
<1> QED
  BY <1>3

LEMMA SumType ==
  ASSUME NEW S, IsFiniteSet(S), NEW f \in [S -> Nat]
  PROVE  SumFunction(f) \in Nat
BY EntriesFinite, SumIsCount, FS_CardinalityType

\* A deque without entries sums to 0.
LEMMA SumOfNone ==
  ASSUME NEW S, IsFiniteSet(S), NEW f \in [S -> Nat], \A x \in S : f[x] = 0
  PROVE  SumFunction(f) = 0
<1>1. Entries(f, S) = {}
  BY DEF Entries
<1> QED
  BY <1>1, SumIsCount, FS_EmptySet

\* One entry more.
LEMMA SumOfAppend ==
  ASSUME NEW S, IsFiniteSet(S), NEW f \in [S -> Nat], NEW t \in S
  PROVE  /\ SumFunction(f) \in Nat
         /\ SumFunction([f EXCEPT ![t] = f[t] + 1]) = SumFunction(f) + 1
<1> DEFINE g == [f EXCEPT ![t] = f[t] + 1]
<1>1. f[t] \in Nat /\ g \in [S -> Nat]
  OBVIOUS
<1>2. IsFiniteSet(Entries(f, S)) /\ Cardinality(Entries(f, S)) \in Nat
  BY EntriesFinite, FS_CardinalityType
<1>3. /\ Entries(g, S) = Entries(f, S) \cup {<<t, f[t] + 1>>}
      /\ <<t, f[t] + 1>> \notin Entries(f, S)
  BY <1>1 DEF Entries
<1>4. Cardinality(Entries(g, S)) = Cardinality(Entries(f, S)) + 1
  BY <1>2, <1>3, FS_AddElement
<1>5. /\ SumFunction(f) = Cardinality(Entries(f, S))
      /\ SumFunction(g) = Cardinality(Entries(g, S))
  <2> HIDE DEF g
  <2> QED
    BY <1>1, SumIsCount
<1> QED
  BY <1>2, <1>4, <1>5

-----------------------------------------------------------------------------
(* A scan that claims nothing saw nothing ready.                           *)

\* Of some tasks, one is outranked by none: priorities and ages are totally ordered.
LEMMA Foremost ==
  ASSUME IsFiniteSet(TaskIds), NEW Q \in SUBSET TaskIds, Q # {}
  PROVE  \E t \in Q : \A u \in Q : ~Outranks(u, t)
<1> DEFINE Bad == {U \in SUBSET TaskIds :
                     U # {} /\ \A t \in U : \E u \in U : Outranks(u, t)}
<1> SUFFICES ASSUME Q \in Bad PROVE FALSE
  OBVIOUS
<1>0. \A t \in TaskIds : Priority[t] \in Int /\ CreatedAt[t] \in Int
  BY TaskAssumption
<1>1. PICK U \in Bad : \A V \in Bad : V \subseteq U => V = U
  <2>1. Bad \in SUBSET (SUBSET TaskIds) /\ Bad # {}
    OBVIOUS
  <2> HIDE DEF Bad
  <2> QED
    BY <2>1, SmallestSet
<1>2. PICK x \in U : TRUE
  BY <1>1
<1>3. PICK z \in U : Outranks(z, x)
  BY <1>1, <1>2
<1>4. z # x
  BY <1>0, <1>1, <1>2, <1>3 DEF Outranks
<1>5. PICK y \in U \ {x} : \A u \in U \ {x} : ~Outranks(u, y)
  <2>1. U \ {x} \notin Bad
    BY <1>1, <1>2
  <2> QED
    BY <1>1, <1>3, <1>4, <2>1
<1>6. Outranks(x, y)
  BY <1>1, <1>5
<1>7. Outranks(z, y)
  BY <1>0, <1>1, <1>2, <1>3, <1>5, <1>6 DEF Outranks
<1> QED
  BY <1>3, <1>4, <1>5, <1>7

LEMMA NothingReady ==
  ASSUME IsFiniteSet(TaskIds), FirstInLine = {}, NEW t \in TaskIds
  PROVE  ~Ready(t)
<1> DEFINE Q == {u \in TaskIds : Ready(u)}
<1>1. Q = {}
  <2> SUFFICES ASSUME Q # {} PROVE FALSE
    OBVIOUS
  <2>1. PICK u \in Q : \A v \in Q : ~Outranks(v, u)
    BY Foremost
  <2>2. u \in FirstInLine
    BY <2>1 DEF FirstInLine
  <2> QED
    BY <2>2
<1> QED
  BY <1>1

\* Where nothing is delayed, whatever is in the deque can be claimed.
RipeAtOnce ==
  Undelayed =>
    /\ \A t \in TaskIds : Created(t) => obj[t].available_at \in {NULL, 0}
    /\ \A w \in Threads : delay[w] \in {NULL, 0}

LEMMA RipeInit == Init => RipeAtOnce
BY DEF Init, QueueInit, RipeAtOnce, Created

\* So a scan that claims nothing saw an empty deque.
LEMMA EmptyDeque ==
  ASSUME IsFiniteSet(TaskIds), TypeOK, RipeAtOnce, Undelayed, FirstInLine = {}
  PROVE  SumFunction(queued) = 0
<1>1. ASSUME NEW t \in TaskIds PROVE queued[t] = 0
  <2>1. ~Ready(t)
    BY NothingReady
  <2>2. queued[t] > 0 => obj[t].available_at \in {NULL, 0}
    BY DEF TypeOK, RipeAtOnce
  <2>3. queued[t] \in Nat
    BY DEF TypeOK, QueueTypeOK
  <2> QED
    BY <2>1, <2>2, <2>3, TaskAssumption DEF Ready, Past
<1>2. queued \in [TaskIds -> Nat]
  BY DEF TypeOK, QueueTypeOK
<1> QED
  BY <1>1, <1>2, SumOfNone

\* The marks leave the stamp alone.
LEMMA MarksStamp ==
  ASSUME NEW c \in TaskCopy
  PROVE  /\ mark_running(c).available_at = c.available_at
         /\ mark_pending(c).available_at = c.available_at
         /\ mark_success(c, 0).available_at = c.available_at
         /\ \A e : mark_failed(c, e, 0).available_at = c.available_at
BY DEF TaskCopy, mark_running, mark_pending, mark_success, mark_failed

LEMMA RipeNext == TypeOK /\ RipeAtOnce /\ [Next]_vars => RipeAtOnce'
<1> SUFFICES ASSUME TypeOK, RipeAtOnce, [Next]_vars, Undelayed
             PROVE  /\ \A t \in TaskIds : Created(t)' => obj'[t].available_at \in {NULL, 0}
                    /\ \A w \in Threads : delay'[w] \in {NULL, 0}
  BY DEF RipeAtOnce, Undelayed
<1> DEFINE Ripe(o)   == \A t \in TaskIds : o[t] # NULL => o[t].available_at \in {NULL, 0}
           Prompt(d) == \A w \in Threads : d[w] \in {NULL, 0}
<1>0. /\ Ripe(obj) /\ Prompt(delay)
      /\ \A t \in TaskIds : obj[t] # NULL => obj[t] \in TaskCopy
  BY DEF RipeAtOnce, TypeOK, QueueTypeOK, Created
<1> SUFFICES Ripe(obj') /\ Prompt(delay')
  BY DEF Created
<1>1. ASSUME NEW t \in TaskIds, Enqueue(t) PROVE Ripe(obj') /\ delay' = delay
  <2>1. /\ obj'[t].available_at = NULL /\ \A u \in TaskIds : u # t => obj'[u] = obj[u]
        /\ delay' = delay
    BY <1>1 DEF Enqueue, enqueue, Undelayed, TypeOK, QueueTypeOK, worker_vars
  <2> QED
    BY <1>0, <2>1
<1>2. ASSUME NEW w \in Threads, Reclaim(w) PROVE Ripe(obj') /\ delay' = delay
  <2>1. \A t \in TaskIds : Expired(t) => obj[t] # NULL
    BY DEF Expired, Past, TypeOK, Created
  <2>2. \A t \in TaskIds : obj'[t] = obj[t] \/ (Expired(t) /\ obj'[t] = mark_pending(obj[t]))
    BY <1>2 DEF Reclaim, reclaim_expired
  <2> QED
    BY <1>0, <1>2, <2>1, <2>2, MarksStamp DEF Reclaim
<1>3. ASSUME NEW w \in Threads, Claim(w) PROVE Ripe(obj') /\ delay' = delay
  <2>1. PICK t \in TaskIds : obj' = [obj EXCEPT ![t] = mark_running(obj[t])] /\ obj[t] # NULL
    BY <1>3 DEF Claim, claim, FirstInLine, Ready, TypeOK, Created
  <2>2. obj'[t].available_at \in {NULL, 0} /\ \A u \in TaskIds : u # t => obj'[u] = obj[u]
    BY <1>0, <2>1, MarksStamp DEF TypeOK, QueueTypeOK
  <2> QED
    BY <1>0, <1>3, <2>2 DEF Claim
<1>4. ASSUME NEW w \in Threads, Requeue(w) PROVE Ripe(obj') /\ Prompt(delay')
  <2>1. PICK t \in TaskIds : obj' = [obj EXCEPT ![t] = mark_pending(obj[t])] /\ obj[t] # NULL
    BY <1>4 DEF Requeue, nack, TypeOK, Live, Holding, Created
  <2>2. obj'[t].available_at \in {NULL, 0} /\ \A u \in TaskIds : u # t => obj'[u] = obj[u]
    BY <1>0, <2>1, MarksStamp DEF TypeOK, QueueTypeOK
  <2>3. Prompt(delay')
    BY <1>0, <1>4 DEF Requeue, Release, TypeOK
  <2> QED
    BY <1>0, <2>2, <2>3
<1>5. ASSUME NEW w \in Threads, LookupFails(w) \/ Returns(w) \/ DeadLetter(w)
      PROVE  Ripe(obj') /\ delay' = delay
  <2>1. PICK t \in TaskIds : /\ obj[t] # NULL
                             /\ \/ obj' = [obj EXCEPT ![t] = mark_success(obj[t], 0)]
                                \/ \E e \in Errors :
                                     obj' = [obj EXCEPT ![t] = mark_failed(obj[t], e, 0)]
    BY <1>5 DEF LookupFails, Returns, DeadLetter, Mark, TypeOK, Live, Holding, Created, Errors
  <2>2. obj'[t].available_at \in {NULL, 0} /\ \A u \in TaskIds : u # t => obj'[u] = obj[u]
    BY <1>0, <2>1, MarksStamp DEF TypeOK, QueueTypeOK
  <2> QED
    BY <1>0, <1>5, <2>2 DEF LookupFails, Returns, DeadLetter, Mark
<1>6. ASSUME NEW w \in Threads, Raises(w) PROVE obj' = obj /\ Prompt(delay')
  <2>1. PICK t \in TaskIds : t = held[w] /\ obj[t] \in TaskCopy
    BY <1>0, <1>6 DEF Raises, TypeOK, Live, Holding, Created
  <2>2. PICK d \in next_delays(obj[t]) \ {PolicyError} : delay' = [delay EXCEPT ![w] = d]
    BY <1>6, <2>1 DEF Raises
  <2>3. d \in {NULL, 0}
    <3>1. CASE ~MayRetry(obj[t])
      BY <2>2, <3>1 DEF next_delays
    <3>2. CASE MayRetry(obj[t])
      <4>1. d \in Delays(obj[t].retries + 1)
        BY <2>2, <3>2 DEF next_delays
      <4>2. /\ obj[t].id \in TaskIds
            /\ obj[t].retries + 1 \in 1..MaxRetries[obj[t].id]
        BY <2>1, <3>2, TaskAssumption DEF MayRetry, TaskCopy
      <4>3. Delays(obj[t].retries + 1) \cap Times \subseteq {0}
        BY <4>2 DEF Undelayed
      <4>4. d = NULL \/ d \in Times
        BY <2>1, <2>2, DelayTypes DEF MaybeTime
      <4> QED
        BY <4>1, <4>3, <4>4
    <3> QED
      BY <3>1, <3>2
  <2> QED
    BY <1>0, <1>6, <2>2, <2>3 DEF Raises, TypeOK, queue_vars
<1>7. ASSUME NEW w \in Threads, CountRetry(w) \/ Postpone(w) PROVE Ripe(obj') /\ delay' = delay
  <2>1. PICK t \in TaskIds : t = held[w] /\ obj[t] \in TaskCopy
    BY <1>0, <1>7 DEF CountRetry, Postpone, TypeOK, Live, Holding, Created
  <2>2. delay[w] = 0
    BY <1>0, <1>7 DEF CountRetry, Postpone, TypeOK
  <2>3. /\ obj'[t] \in {counted(obj[t]), postponed(obj[t], 0, 0)}
        /\ \A u \in TaskIds : u # t => obj'[u] = obj[u]
    BY <1>7, <2>1, <2>2 DEF CountRetry, Postpone, TypeOK, QueueTypeOK
  <2>4. obj'[t].available_at \in {NULL, 0}
    <3>1. obj[t].available_at \in {NULL, 0}
      BY <1>0, <2>1, CopyAssumption
    <3> QED
      BY <2>1, <2>3, <3>1 DEF counted, postponed, TaskCopy
  <2>5. Ripe(obj')
    BY <1>0, <2>3, <2>4
  <2> QED
    BY <1>7, <2>5 DEF CountRetry, Postpone
<1>8. ASSUME NEW w \in Threads, PolicyRaises(w) \/ Die(w) PROVE obj' = obj /\ Prompt(delay')
  BY <1>0, <1>8 DEF PolicyRaises, Die, Release, TypeOK, queue_vars
<1>9. ASSUME NEW w \in Threads, Settle(w) PROVE obj' = obj /\ Prompt(delay')
  BY <1>0, <1>9 DEF Settle, ack, nack, Release, TypeOK
<1>10. CASE Tick
  <2>1. ASSUME NEW t \in TaskIds, obj'[t] # NULL PROVE obj'[t].available_at \in {NULL, 0}
    <3>1. obj[t] # NULL /\ obj'[t] = [obj[t] EXCEPT !.available_at = Elapse(@)]
      BY <1>10, <2>1 DEF Tick, Created
    <3>2. Elapse(obj[t].available_at) \in {NULL, 0}
      BY <1>0, <3>1 DEF Elapse
    <3> QED
      BY <1>0, <3>1, <3>2 DEF TaskCopy
  <2> QED
    BY <1>0, <1>10, <2>1 DEF Tick
<1>11. ASSUME NEW w \in Threads,
              Call(w) \/ GiveUp(w) \/ Wait(w) \/ TimeOut(w) \/ Store(w)
       PROVE  obj' = obj /\ delay' = delay
  BY <1>11 DEF Call, GiveUp, Wait, TimeOut, Store, queue_vars, worker_vars
<1>12. ASSUME NEW c \in Callers, Get(c) \/ CallerStep(c) PROVE obj' = obj /\ delay' = delay
  BY <1>12 DEF Get, CallerStep, Found, LosePatience, Await, AwaitTimesOut, ReadSuccess,
               ReadFailed, Goto, queue_vars, worker_vars
<1>13. UNCHANGED vars => obj' = obj /\ delay' = delay
  BY DEF vars, queue_vars, worker_vars
<1> HIDE DEF Ripe, Prompt
<1> QED
  BY <1>0, <1>1, <1>2, <1>3, <1>4, <1>5, <1>6, <1>7, <1>8, <1>9, <1>10, <1>11, <1>12, <1>13
  DEF Next, Step

-----------------------------------------------------------------------------
(* No wakeup is lost.                                                      *)

\* The threads on their way to look at the deque.
Lookers == {w \in Threads \ sleeping : pc[w] \in {"dequeue", "scan"}}

LEMMA LookersFinite ==
  ASSUME IsFiniteSet(Threads)
  PROVE  /\ IsFiniteSet(Lookers) /\ Cardinality(Lookers) \in Nat
         /\ IsFiniteSet(Lookers') /\ Cardinality(Lookers') \in Nat
<1>1. Lookers \subseteq Threads /\ Lookers' \subseteq Threads
  BY DEF Lookers
<1> QED
  BY <1>1, FS_Subset, FS_CardinalityType

\* A step that adds no entry, and puts to sleep and takes away no looker.
LEMMA WakeFrame ==
  ASSUME IsFiniteSet(TaskIds), IsFiniteSet(Threads), TypeOK, NoLostWakeup,
         queued' = queued, sleeping' \subseteq sleeping, Lookers \subseteq Lookers'
  PROVE  NoLostWakeup'
<1> SUFFICES ASSUME Undelayed, sleeping' # {}
             PROVE  SumFunction(queued') <= Cardinality(Lookers')
  BY DEF NoLostWakeup, Lookers, Undelayed
<1>1. SumFunction(queued) <= Cardinality(Lookers)
  BY DEF NoLostWakeup, Lookers
<1>2. /\ Cardinality(Lookers) <= Cardinality(Lookers')
      /\ Cardinality(Lookers) \in Nat /\ Cardinality(Lookers') \in Nat
  BY LookersFinite, FS_Subset
<1>3. SumFunction(queued) \in Nat
  BY SumType DEF TypeOK, QueueTypeOK
<1> QED
  BY <1>1, <1>2, <1>3

\* An entry more, and a looker more if a thread sleeps: enqueue and nack.
LEMMA WakeAppend ==
  ASSUME IsFiniteSet(TaskIds), IsFiniteSet(Threads), TypeOK, NoLostWakeup,
         NEW t \in TaskIds, queued' = append(queued, t), notify,
         \A v \in Threads : pc[v] \in {"dequeue", "scan"} => pc'[v] = pc[v]
  PROVE  NoLostWakeup'
<1> SUFFICES ASSUME Undelayed, sleeping' # {}
             PROVE  SumFunction(queued') <= Cardinality(Lookers')
  BY DEF NoLostWakeup, Lookers, Undelayed
<1>1. PICK v \in sleeping : sleeping' = sleeping \ {v}
  BY DEF notify
<1>2. v \in Threads /\ pc[v] = "dequeue"
  BY <1>1 DEF TypeOK
<1>3. Lookers \cup {v} \subseteq Lookers' /\ v \notin Lookers
  BY <1>1, <1>2 DEF Lookers
<1>4. /\ Cardinality(Lookers) + 1 <= Cardinality(Lookers')
      /\ Cardinality(Lookers) \in Nat /\ Cardinality(Lookers') \in Nat
  <2>1. Cardinality(Lookers \cup {v}) = Cardinality(Lookers) + 1
    BY <1>3, LookersFinite, FS_AddElement
  <2>2. Cardinality(Lookers \cup {v}) <= Cardinality(Lookers')
    BY <1>3, LookersFinite, FS_Subset
  <2> QED
    BY <2>1, <2>2, LookersFinite
<1>5. SumFunction(queued) \in Nat /\ SumFunction(queued') = SumFunction(queued) + 1
  <2>1. queued \in [TaskIds -> Nat] /\ queued' = [queued EXCEPT ![t] = queued[t] + 1]
    BY DEF append, TypeOK, QueueTypeOK
  <2>2. /\ SumFunction(queued) \in Nat
        /\ SumFunction([queued EXCEPT ![t] = queued[t] + 1]) = SumFunction(queued) + 1
    BY <2>1, SumOfAppend
  <2> QED
    BY <2>1, <2>2
<1>6. SumFunction(queued) <= Cardinality(Lookers)
  BY <1>1 DEF NoLostWakeup, Lookers
<1> QED
  BY <1>4, <1>5, <1>6

\* A claim takes one entry and one looker.
LEMMA WakeClaim ==
  ASSUME IsFiniteSet(TaskIds), IsFiniteSet(Threads), TypeOK, NoLostWakeup,
         NEW w \in Threads, Claim(w)
  PROVE  NoLostWakeup'
<1> SUFFICES ASSUME Undelayed, sleeping' # {}
             PROVE  SumFunction(queued') <= Cardinality(Lookers')
  BY DEF NoLostWakeup, Lookers, Undelayed
<1>1. PICK t \in FirstInLine : claim(t)
  BY DEF Claim
<1>2. /\ t \in TaskIds /\ queued[t] > 0 /\ queued \in [TaskIds -> Nat]
      /\ queued' = [queued EXCEPT ![t] = queued[t] - 1] /\ sleeping' = sleeping
  BY <1>1 DEF FirstInLine, Ready, claim, TypeOK, QueueTypeOK
<1>3. queued[t] - 1 \in Nat /\ (queued[t] - 1) + 1 = queued[t]
  <2>1. queued[t] \in Nat
    BY <1>2
  <2> QED
    BY <1>2, <2>1
<1>4. /\ queued' \in [TaskIds -> Nat]
      /\ queued = [queued' EXCEPT ![t] = queued'[t] + 1]
  <2>1. queued' \in [TaskIds -> Nat] /\ queued'[t] + 1 = queued[t]
    BY <1>2, <1>3
  <2> QED
    BY <1>2, <2>1
<1>5. SumFunction(queued') \in Nat /\ SumFunction(queued) = SumFunction(queued') + 1
  <2>1. /\ SumFunction(queued') \in Nat
        /\ SumFunction([queued' EXCEPT ![t] = queued'[t] + 1]) = SumFunction(queued') + 1
    BY <1>2, <1>4, SumOfAppend
  <2> QED
    BY <1>4, <2>1
<1>6. w \in Lookers /\ Lookers' = Lookers \ {w}
  BY <1>2 DEF Claim, Lookers, TypeOK
<1>7. Cardinality(Lookers') = Cardinality(Lookers) - 1
  BY <1>6, LookersFinite, FS_RemoveElement
<1>8. SumFunction(queued) <= Cardinality(Lookers)
  BY <1>2 DEF NoLostWakeup, Lookers
<1> QED
  BY <1>5, <1>7, <1>8, LookersFinite

WakeInv == TypeOK /\ RipeAtOnce /\ NoLostWakeup

LEMMA WakeInit == Init => WakeInv
<1> SUFFICES ASSUME Init PROVE NoLostWakeup
  BY TypeInit, RipeInit DEF WakeInv
<1> QED
  BY DEF Init, QueueInit, NoLostWakeup

LEMMA WakeNext ==
  ASSUME IsFiniteSet(TaskIds), IsFiniteSet(Threads)
  PROVE  WakeInv /\ [Next]_vars => WakeInv'
<1> SUFFICES ASSUME TypeOK, RipeAtOnce, NoLostWakeup, [Next]_vars PROVE NoLostWakeup'
  BY TypeNext, RipeNext DEF WakeInv
<1>1. ASSUME NEW t \in TaskIds, Enqueue(t) PROVE NoLostWakeup'
  BY <1>1, WakeAppend DEF Enqueue, enqueue, worker_vars
<1>2. ASSUME NEW w \in Threads, Requeue(w) PROVE NoLostWakeup'
  <2>1. held[w] \in TaskIds /\ queued' = append(queued, held[w]) /\ notify
    BY <1>2 DEF Requeue, nack, TypeOK, Live, Holding
  <2>2. \A v \in Threads : pc[v] \in {"dequeue", "scan"} => pc'[v] = pc[v]
    BY <1>2 DEF Requeue, TypeOK
  <2> QED
    BY <2>1, <2>2, WakeAppend
\* Either nothing has expired, or everybody is woken.
<1>3. ASSUME NEW w \in Threads, Reclaim(w) PROVE NoLostWakeup'
  <2>1. CASE sleeping' = {}
    BY <2>1 DEF NoLostWakeup
  <2>2. CASE sleeping' # {}
    <3>1. \A t \in TaskIds : ~Expired(t)
      BY <1>3, <2>2 DEF Reclaim, reclaim_expired, notify_all
    <3>2. sleeping' = sleeping /\ queued' = queued
      <4>1. queued' = [t \in TaskIds |-> queued[t]]
        BY <1>3, <3>1 DEF Reclaim, reclaim_expired
      <4>2. sleeping' = sleeping
        BY <1>3, <3>1 DEF Reclaim, reclaim_expired
      <4> QED
        BY <4>1, <4>2 DEF TypeOK, QueueTypeOK
    <3>3. Lookers \subseteq Lookers'
      BY <1>3, <3>2 DEF Reclaim, Lookers, TypeOK
    <3> QED
      BY <3>2, <3>3, WakeFrame
  <2> QED
    BY <2>1, <2>2
<1>4. ASSUME NEW w \in Threads, Claim(w) PROVE NoLostWakeup'
  BY <1>4, WakeClaim
\* The deque was empty.
<1>5. ASSUME NEW w \in Threads, GiveUp(w) \/ Wait(w) PROVE NoLostWakeup'
  <2> SUFFICES ASSUME Undelayed PROVE SumFunction(queued') <= Cardinality(Lookers')
    BY DEF NoLostWakeup, Lookers, Undelayed
  <2>1. queued' = queued /\ FirstInLine = {}
    BY <1>5 DEF GiveUp, Wait, queue_vars
  <2>2. SumFunction(queued') = 0
    BY <2>1, EmptyDeque
  <2> QED
    BY <2>2, LookersFinite
<1>6. ASSUME NEW w \in Threads,
             \/ Call(w) \/ TimeOut(w) \/ LookupFails(w) \/ Returns(w) \/ Raises(w)
             \/ PolicyRaises(w) \/ Die(w) \/ CountRetry(w) \/ Postpone(w) \/ DeadLetter(w)
             \/ Store(w) \/ Settle(w)
      PROVE  NoLostWakeup'
  <2>1. queued' = queued /\ sleeping' \subseteq sleeping
    BY <1>6 DEF Call, TimeOut, LookupFails, Returns, Mark, Raises, PolicyRaises, Die,
                CountRetry, Postpone, DeadLetter, Store, Settle, ack, nack, queue_vars
  <2>2. \A v \in Threads : pc[v] \in {"dequeue", "scan"} => pc'[v] = pc[v]
    BY <1>6 DEF Call, TimeOut, LookupFails, Returns, Mark, Raises, PolicyRaises, Die,
                CountRetry, Postpone, DeadLetter, Store, Settle, TypeOK, worker_vars
  <2>3. Lookers \subseteq Lookers'
    BY <2>1, <2>2 DEF Lookers
  <2> QED
    BY <2>1, <2>3, WakeFrame
<1>7. CASE UNCHANGED <<queued, sleeping, pc>>
  <2>1. Lookers' = Lookers
    BY <1>7 DEF Lookers
  <2> QED
    BY <1>7, <2>1, WakeFrame
<1>8. ASSUME NEW c \in Callers, Get(c) \/ CallerStep(c)
      PROVE  UNCHANGED <<queued, sleeping, pc>>
  BY <1>8 DEF Get, CallerStep, Found, LosePatience, Await, AwaitTimesOut, ReadSuccess,
              ReadFailed, Goto, queue_vars, worker_vars
<1>9. Tick \/ UNCHANGED vars => UNCHANGED <<queued, sleeping, pc>>
  BY DEF Tick, vars, queue_vars, worker_vars
<1> QED
  BY <1>1, <1>2, <1>3, <1>4, <1>5, <1>6, <1>7, <1>8, <1>9 DEF Next, Step

\* Where nothing is delayed no wakeup of a worker thread is lost, for any finite sets
\* of tasks and threads: while one sleeps in dequeue, there are at least as many
\* threads on their way to the deque as entries in it.
THEOREM MemoryWakesThreads ==
  ASSUME IsFiniteSet(TaskIds), IsFiniteSet(Threads)
  PROVE  Spec => []NoLostWakeup
<1>1. WakeInv => NoLostWakeup
  BY DEF WakeInv
<1>2. WakeInv /\ [Next]_vars => WakeInv'
  BY WakeNext
<1> QED
  BY <1>1, <1>2, WakeInit, PTL DEF Spec
=============================================================================
