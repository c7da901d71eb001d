-------------------------- MODULE WorkerPool_proofs --------------------------
(***************************************************************************)
(* Proofs about the worker pool, for any number of worker processes and    *)
(* any shutdown timeout.                                                   *)
(***************************************************************************)
EXTENDS WorkerPool, TLAPS

\* While start is under way, the processes from i on do not exist yet, and one
\* that does not exist has no flag, no handler and no task.
NotYetSpawned ==
  /\ pc = "start" => \A p \in Procs : p >= i => child[p] = "none"
  /\ \A p \in Procs : child[p] = "none" =>
       ~stop_flag[p] /\ handler[p] = "idle" /\ extra[p] = 0

\* A task that was begun with the flag set is the last: the worker is on its way
\* from it to the reading of the flag, or past that.
LastTask ==
  \A p \in Procs : extra[p] # 0 =>
    extra[p] = 1 /\ stop_flag[p] /\ child[p] \in {"work", "top", "closing", "dead"}

\* A join that is over found its process gone or the time used up, and SIGKILL
\* leaves none of the processes behind it alive.
LoopsOfStop ==
  /\ pc = "join" => \A p \in Procs : p < i /\ Alive(p) => left = 0
  /\ pc = "kill" => \A p \in Procs : p < i => ~Alive(p)

PoolInv ==
  TypeOK /\ NotYetSpawned /\ LastTask /\ LoopsOfStop /\ OnlyStragglersKilled /\ NobodyLeftBehind

-----------------------------------------------------------------------------
LEMMA InitPool == Init => PoolInv
<1> SUFFICES ASSUME Init PROVE PoolInv
  OBVIOUS
<1> USE DEF Init
<1>1. TypeOK
  <2>1. i \in 1..(WorkersCount + 1) /\ left \in 0..ShutdownTimeout /\ interrupts \in 0..MaxInterrupts
    BY PoolAssumption
  <2>2. \A p \in Procs : child[p] = "none" /\ handler[p] = "idle" /\ ~stop_flag[p]
    OBVIOUS
  <2>3. /\ child \in [Procs -> {"none"}]
        /\ handler \in [Procs -> {"idle"}]
        /\ stop_flag \in [Procs -> BOOLEAN]
        /\ extra \in [Procs -> Nat]
    OBVIOUS
  <2> QED
    BY <2>1, <2>2, <2>3 DEF TypeOK, Alive
<1>2. NotYetSpawned /\ LastTask
  BY DEF NotYetSpawned, LastTask, Procs
<1>3. LoopsOfStop /\ OnlyStragglersKilled /\ NobodyLeftBehind
  BY DEF LoopsOfStop, OnlyStragglersKilled, NobodyLeftBehind
<1> QED
  BY <1>1, <1>2, <1>3 DEF PoolInv

\* A process that runs moves within its life; it does not come back from the dead.
LEMMA MovePool ==
  ASSUME PoolInv, NEW p \in Procs, NEW from, NEW to,
         Move(p, from, to),
         from \in {"boot", "top", "dequeue", "work", "closing"},
         to \in {"top", "dequeue", "work", "closing", "dead"},
         \/ UNCHANGED extra /\ (from = "top" /\ stop_flag[p] => to = "closing")
                            /\ (to = "dequeue" => from = "top")
         \/ /\ from = "dequeue" /\ to = "work"
            /\ extra' = [extra EXCEPT ![p] = @ + (IF stop_flag[p] THEN 1 ELSE 0)]
  PROVE  PoolInv'
BY PoolAssumption
DEF Move, parent_vars, PoolInv, TypeOK, NotYetSpawned, LastTask, LoopsOfStop,
    OnlyStragglersKilled, NobodyLeftBehind, Procs, Alive

\* A signal, to a set of processes, starts a handler or kills; it is sent by
\* Interrupt and Terminate while the rest of the pool stays as it is.
LEMMA SignalPool ==
  ASSUME PoolInv, NEW S \in SUBSET Procs, signal(S),
         UNCHANGED <<processes, started, left>>,
         pc # "done", pc' \in {pc, "stuck"}, stop_event' \in {"clear", "setting", "set"},
         interrupts' \in 0..MaxInterrupts,
         i' \in 1..(WorkersCount + 1), i' = i \/ pc = "terminate"
  PROVE  PoolInv'
<1> USE PoolAssumption DEF signal, Killed, Handling, PoolInv, Alive
<1>1. TypeOK'
  BY DEF TypeOK
<1>2. NotYetSpawned' /\ LastTask'
  BY DEF TypeOK, NotYetSpawned, LastTask
<1>3. LoopsOfStop' /\ OnlyStragglersKilled' /\ NobodyLeftBehind'
  BY DEF TypeOK, LoopsOfStop, OnlyStragglersKilled, NobodyLeftBehind
<1> QED
  BY <1>1, <1>2, <1>3

-----------------------------------------------------------------------------
LEMMA NextPool == PoolInv /\ [Next]_vars => PoolInv'
<1> SUFFICES ASSUME PoolInv, [Next]_vars PROVE PoolInv'
  OBVIOUS
<1> USE PoolAssumption
<1>1. CASE \E p \in Procs : Worker(p) \/ Finish(p) \/ Unwind(p)
  <2>1. PICK p \in Procs : Worker(p) \/ Finish(p) \/ Unwind(p)
    BY <1>1
  <2>2. CASE Boot(p) \/ BootFails(p) \/ FindNothing(p) \/ Close(p) \/ Finish(p) \/ Unwind(p)
    BY <2>2, MovePool DEF Boot, BootFails, FindNothing, Close, Finish, Unwind
  <2>3. CASE LoopTest(p)
    BY <2>3, MovePool DEF LoopTest
  <2>4. CASE Take(p)
    BY <2>4, MovePool DEF Take
  <2> QED
    BY <2>1, <2>2, <2>3, <2>4 DEF Worker
<1>2. CASE \E p \in Procs : SetFlag(p)
  BY <1>2 DEF SetFlag, parent_vars, PoolInv, TypeOK, NotYetSpawned, LastTask, LoopsOfStop,
              OnlyStragglersKilled, NobodyLeftBehind, Alive
<1>3. CASE Spawn
  BY <1>3 DEF Spawn, At, PoolInv, TypeOK, NotYetSpawned, LastTask, LoopsOfStop,
              OnlyStragglersKilled, NobodyLeftBehind, Alive, Procs
<1>4. CASE SpawnFails \/ Started \/ EnterWait \/ CallStop
  <2>1. i' \in 1..(WorkersCount + 1) /\ left' \in 0..ShutdownTimeout
    BY <1>4 DEF SpawnFails, Started, EnterWait, CallStop, PoolInv, TypeOK
  <2>2. /\ UNCHANGED <<child, stop_flag, handler, extra, processes, stop_event, interrupts>>
        /\ pc' \in {"raised", "entering", "waiting", "terminate"} /\ started' \in BOOLEAN
    BY <1>4 DEF SpawnFails, Started, EnterWait, CallStop, child_vars, PoolInv, TypeOK
  <2> QED
    BY <2>1, <2>2 DEF PoolInv, TypeOK, NotYetSpawned, LastTask, LoopsOfStop,
                      OnlyStragglersKilled, NobodyLeftBehind, Alive
<1>5. CASE Terminated
  <2>1. pc' \in {pc, "stuck"} /\ stop_event' \in {"clear", "setting", "set"}
    BY <1>5 DEF Terminated, handle_signal, PoolInv, TypeOK
  <2> QED
    BY <1>5, <2>1 DEF Terminated, child_vars, PoolInv, TypeOK, NotYetSpawned, LastTask,
                       LoopsOfStop, OnlyStragglersKilled, NobodyLeftBehind, Alive
<1>6. CASE ExitRaised
  BY <1>6 DEF ExitRaised, At, child_vars, PoolInv, TypeOK, NotYetSpawned, LastTask, LoopsOfStop,
              OnlyStragglersKilled, NobodyLeftBehind, Alive
<1>7. CASE Interrupt
  <2>1. pc' \in {pc, "stuck"} /\ stop_event' \in {"clear", "setting", "set"}
    BY <1>7 DEF Interrupt, handle_signal, PoolInv, TypeOK
  <2>2. interrupts' \in 0..MaxInterrupts
    BY <1>7 DEF Interrupt, PoolInv, TypeOK
  <2>3. i' = i /\ i' \in 1..(WorkersCount + 1)
    BY <1>7 DEF Interrupt, PoolInv, TypeOK
  <2> QED
    BY <1>7, <2>1, <2>2, <2>3, SignalPool DEF Interrupt
<1>8. CASE Terminate
  <2>1. CASE Alive(i)
    BY <1>8, <2>1, SignalPool DEF Terminate, PoolInv, TypeOK, Procs
  <2>2. CASE ~Alive(i)
    BY <1>8, <2>2 DEF Terminate, child_vars, PoolInv, TypeOK, NotYetSpawned, LastTask,
                      LoopsOfStop, OnlyStragglersKilled, NobodyLeftBehind, Alive, Procs
  <2> QED
    BY <2>1, <2>2
<1>9. CASE Terminating \/ Join \/ Joined \/ Tick
  BY <1>9 DEF Terminating, Join, Joined, Tick, child_vars, PoolInv, TypeOK, NotYetSpawned,
              LastTask, LoopsOfStop, OnlyStragglersKilled, NobodyLeftBehind, Alive, Procs
<1>10. CASE Kill
  BY <1>10 DEF Kill, PoolInv, TypeOK, NotYetSpawned, LastTask, LoopsOfStop,
              OnlyStragglersKilled, NobodyLeftBehind, Alive, Procs
<1>11. CASE Stopped
  <2>1. i = WorkersCount + 1
    BY <1>11 DEF Stopped, PoolInv, TypeOK, Procs
  <2>2. \A p \in Procs : ~Alive(p)
    BY <1>11, <2>1 DEF Stopped, PoolInv, LoopsOfStop, Procs
  <2> QED
    BY <1>11, <2>2 DEF Stopped, child_vars, PoolInv, TypeOK, NotYetSpawned, LastTask, LoopsOfStop,
                       OnlyStragglersKilled, NobodyLeftBehind, Alive
<1>12. CASE SetEvent
  BY <1>12 DEF SetEvent, child_vars, PoolInv, TypeOK, NotYetSpawned, LastTask, LoopsOfStop,
               OnlyStragglersKilled, NobodyLeftBehind, Alive
<1>13. CASE UNCHANGED vars
  BY <1>13 DEF vars, parent_vars, child_vars, PoolInv, TypeOK, NotYetSpawned, LastTask,
               LoopsOfStop, OnlyStragglersKilled, NobodyLeftBehind, Alive
<1> QED
  BY <1>1, <1>2, <1>3, <1>4, <1>5, <1>6, <1>7, <1>8, <1>9, <1>10, <1>11, <1>12, <1>13
  DEF Next, Parent

LEMMA PoolCorrect == Spec => []PoolInv
<1>1. Init => PoolInv
  BY InitPool
<1>2. PoolInv /\ [Next]_vars => PoolInv'
  BY NextPool
<1> QED
  BY <1>1, <1>2, PTL DEF Spec

-----------------------------------------------------------------------------
\* Type correctness of the command and its processes; in particular start forgets
\* no process that it spawned, wherever it fails.
THEOREM PoolTypeCorrect == Spec => []TypeOK
<1>1. PoolInv => TypeOK
  BY DEF PoolInv
<1> QED
  BY <1>1, PoolCorrect, PTL

\* The command ends after its worker processes only: stop kills whoever is left,
\* and a start that failed is waited out by the interpreter.
THEOREM PoolLeavesNobody == Spec => []NobodyLeftBehind
<1>1. PoolInv => NobodyLeftBehind
  BY DEF PoolInv
<1> QED
  BY <1>1, PoolCorrect, PTL

\* A worker that was told to stop begins one more task at most.
THEOREM PoolStopsWorkers == Spec => []OneMoreTask
<1>1. PoolInv => OneMoreTask
  BY DEF PoolInv, TypeOK, LastTask, OneMoreTask
<1> QED
  BY <1>1, PoolCorrect, PTL

\* Nobody is killed before the whole timeout of stop has passed.
THEOREM PoolIsPatient == Spec => []OnlyStragglersKilled
<1>1. PoolInv => OnlyStragglersKilled
  BY DEF PoolInv
<1> QED
  BY <1>1, PoolCorrect, PTL
=============================================================================
