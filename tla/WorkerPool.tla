----------------------------- MODULE WorkerPool -----------------------------
(***************************************************************************)
(* WorkerPool of miniq/pool.py, the worker processes it spawns, and the    *)
(* command 'miniq worker' (cmd_worker of miniq/cli.py) that runs it until  *)
(* a signal comes.  Of a worker's loop only what the shutdown touches is   *)
(* kept: where the stop flag is read, and that dequeue and a task are      *)
(* between two reads.  A task may run forever.                             *)
(*                                                                         *)
(* threading.Event.set and wait take a lock that is not reentrant, and a   *)
(* signal handler runs on the thread it interrupts: a handler that calls   *)
(* set while that thread holds the lock never comes back ("stuck").        *)
(***************************************************************************)
EXTENDS Integers, FiniteSets

CONSTANTS
  WorkersCount,     \* workers of the pool
  ShutdownTimeout,  \* the timeout given to stop
  MaxInterrupts,    \* bound on the Ctrl-C of the user
  SpawnMayFail      \* TRUE if process.start may raise (no memory, no pid left)

ASSUME PoolAssumption ==
  /\ WorkersCount \in Nat \ {0}
  /\ ShutdownTimeout \in Nat
  /\ MaxInterrupts \in Nat
  /\ SpawnMayFail \in BOOLEAN

Procs == 1..WorkersCount   \* in the order they are spawned

VARIABLES
  pc,          \* where the main thread of the command is
  processes,   \* _processes
  started,     \* _started
  i,           \* the process a loop of start or stop is at
  left,        \* time left to the deadline of stop
  stop_event,  \* the Event of cmd_worker: clear, in the hands of set, or set
  child,       \* child[p]: where worker process p is
  stop_flag,   \* stop_flag[p]: _stop_event of its Worker
  handler,     \* handler[p]: what the signal handler of p is doing
  extra,       \* extra[p]: tasks p began with its stop flag set (not in the code)
  interrupts   \* Ctrl-C so far

parent_vars == <<pc, processes, started, i, left, stop_event>>
child_vars  == <<child, stop_flag, handler, extra>>
vars        == <<parent_vars, child_vars, interrupts>>

Alive(p) == child[p] \notin {"none", "dead"}

Init ==
  /\ pc = "start" /\ i = 1
  /\ processes = {} /\ started = FALSE
  /\ left = ShutdownTimeout
  /\ stop_event = "clear"
  /\ child = [p \in Procs |-> "none"]
  /\ stop_flag = [p \in Procs |-> FALSE]
  /\ handler = [p \in Procs |-> "idle"]
  /\ extra = [p \in Procs |-> 0]
  /\ interrupts = 0

-----------------------------------------------------------------------------
(* Signals to the worker processes.                                        *)

\* Until the entry point has installed the handlers, a signal kills.  After
\* that it starts the handler; a second one, from within the first, is stuck.
Killed(S)   == {p \in S : child[p] = "boot"}
Handling(S) == {p \in S : Alive(p) /\ child[p] # "boot"}

signal(S) ==
  /\ child' = [p \in Procs |-> IF p \in Killed(S) THEN "dead" ELSE child[p]]
  /\ handler' = [p \in Procs |->
       IF p \notin Handling(S) THEN handler[p]
       ELSE IF handler[p] = "idle" THEN "setting" ELSE "stuck"]
  /\ UNCHANGED <<stop_flag, extra>>

\* worker.stop(), out of the handler.
SetFlag(p) ==
  /\ Alive(p) /\ handler[p] = "setting"
  /\ stop_flag' = [stop_flag EXCEPT ![p] = TRUE]
  /\ handler' = [handler EXCEPT ![p] = "idle"]
  /\ UNCHANGED <<parent_vars, child, extra, interrupts>>

-----------------------------------------------------------------------------
(* A worker process: _worker_process_entry and Worker.run.                 *)

\* The main thread of p moves, and its handler is not on top of it.
Move(p, from, to) ==
  /\ child[p] = from
  /\ handler[p] = "idle"
  /\ child' = [child EXCEPT ![p] = to]
  /\ UNCHANGED <<parent_vars, stop_flag, handler, interrupts>>

Boot(p) == Move(p, "boot", "top") /\ UNCHANGED extra

\* A task module or a factory raises.
BootFails(p) == Move(p, "boot", "dead") /\ UNCHANGED extra

\* Mutant: the flag is not read.
LoopTest_deaf(p) == Move(p, "top", "dequeue") /\ UNCHANGED extra

\* while not self._stop_event.is_set()
LoopTest(p) ==
  /\ Move(p, "top", IF stop_flag[p] THEN "closing" ELSE "dequeue")
  /\ UNCHANGED extra

FindNothing(p) == Move(p, "dequeue", "top") /\ UNCHANGED extra

\* dequeue does not read the flag: a worker that is inside may still claim.
Take(p) ==
  /\ Move(p, "dequeue", "work")
  /\ extra' = [extra EXCEPT ![p] = @ + (IF stop_flag[p] THEN 1 ELSE 0)]

Finish(p) == Move(p, "work", "top") /\ UNCHANGED extra

\* An exception that run_once lets through unwinds to the finally clause.
Unwind(p) == Move(p, "work", "closing") /\ UNCHANGED extra

Close(p) == Move(p, "closing", "dead") /\ UNCHANGED extra

-----------------------------------------------------------------------------
(* start.                                                                  *)

\* The main thread of the command is here, and its handler is not on top of it.
At(place) == pc = place /\ stop_event # "setting"

\* Mutant: the process is not remembered.
Spawn_unlisted ==
  /\ At("start") /\ i \in Procs
  /\ child' = [child EXCEPT ![i] = "boot"]
  /\ i' = i + 1
  /\ UNCHANGED <<pc, processes, started, left, stop_event, stop_flag, handler, extra,
                 interrupts>>

Spawn ==
  /\ At("start") /\ i \in Procs
  /\ child' = [child EXCEPT ![i] = "boot"]
  /\ processes' = processes \cup {i}
  /\ i' = i + 1
  /\ UNCHANGED <<pc, started, left, stop_event, stop_flag, handler, extra, interrupts>>

\* The exception leaves start and, since start is called outside of the try,
\* cmd_worker: stop is not called.
SpawnFails ==
  /\ SpawnMayFail
  /\ At("start") /\ i \in Procs
  /\ pc' = "raised"
  /\ UNCHANGED <<processes, started, i, left, stop_event, child_vars, interrupts>>

Started ==
  /\ At("start") /\ i \notin Procs
  /\ started' = TRUE
  /\ pc' = "entering"
  /\ UNCHANGED <<processes, i, left, stop_event, child_vars, interrupts>>

-----------------------------------------------------------------------------
(* cmd_worker.                                                             *)

\* Event.wait takes the lock and reads the flag, then sleeps without the lock.
EnterWait ==
  /\ pc = "entering"
  /\ pc' = "waiting"
  /\ UNCHANGED <<processes, started, i, left, stop_event, child_vars, interrupts>>

\* The main thread, or a handler that this one interrupts, holds the lock.
EventLocked == pc = "entering" \/ stop_event = "setting"

\* The handler does nothing if the event is set already, and calls set if not.
handle_signal ==
  \/ stop_event = "set" /\ UNCHANGED <<pc, stop_event>>
  \/ stop_event # "set" /\ ~EventLocked /\ stop_event' = "setting" /\ UNCHANGED pc
  \/ stop_event # "set" /\ EventLocked /\ pc' = "stuck" /\ UNCHANGED stop_event

\* set has written the flag; the handler returns.
SetEvent ==
  /\ stop_event = "setting" /\ pc # "stuck"
  /\ stop_event' = "set"
  /\ UNCHANGED <<pc, processes, started, i, left, child_vars, interrupts>>

\* SIGTERM, to the command alone.
Terminated ==
  /\ pc \notin {"done", "stuck"}
  /\ stop_event # "set"
  /\ handle_signal
  /\ UNCHANGED <<processes, started, i, left, child_vars, interrupts>>

\* Ctrl-C: SIGINT to the whole process group.
Interrupt ==
  /\ pc # "done"
  /\ interrupts < MaxInterrupts
  /\ interrupts' = interrupts + 1
  /\ IF pc = "stuck" THEN UNCHANGED <<pc, stop_event>> ELSE handle_signal
  /\ signal(Procs)
  /\ UNCHANGED <<processes, started, i, left>>

\* The interpreter joins the children that are left before it exits.
ExitRaised ==
  /\ At("raised")
  /\ \A p \in Procs : ~Alive(p)
  /\ pc' = "done"
  /\ UNCHANGED <<processes, started, i, left, stop_event, child_vars, interrupts>>

-----------------------------------------------------------------------------
(* stop: the three phases, each a loop over _processes.                    *)

\* A pool that is not started returns here; cmd_worker never gets there.
CallStop ==
  /\ pc = "waiting" /\ stop_event = "set"
  /\ started
  /\ pc' = "terminate" /\ i' = 1
  /\ UNCHANGED <<processes, started, left, stop_event, child_vars, interrupts>>

Terminate ==
  /\ pc = "terminate" /\ i \in Procs
  /\ IF Alive(i) THEN signal({i}) ELSE UNCHANGED child_vars
  /\ i' = i + 1
  /\ UNCHANGED <<pc, processes, started, left, stop_event, interrupts>>

Terminating ==
  /\ pc = "terminate" /\ i \notin Procs
  /\ pc' = "join" /\ i' = 1 /\ left' = ShutdownTimeout
  /\ UNCHANGED <<processes, started, stop_event, child_vars, interrupts>>

\* Mutants: a join that does not wait; a join without a deadline.
Join_hasty ==
  /\ pc = "join" /\ i \in Procs
  /\ i' = i + 1
  /\ UNCHANGED <<pc, processes, started, left, stop_event, child_vars, interrupts>>
Join_forever ==
  /\ pc = "join" /\ i \in Procs
  /\ ~Alive(i)
  /\ i' = i + 1
  /\ UNCHANGED <<pc, processes, started, left, stop_event, child_vars, interrupts>>

\* join(timeout=remaining) returns when the process is gone or time is up.
Join ==
  /\ pc = "join" /\ i \in Procs
  /\ ~Alive(i) \/ left = 0
  /\ i' = i + 1
  /\ UNCHANGED <<pc, processes, started, left, stop_event, child_vars, interrupts>>

Joined ==
  /\ pc = "join" /\ i \notin Procs
  /\ pc' = "kill" /\ i' = 1
  /\ UNCHANGED <<processes, started, left, stop_event, child_vars, interrupts>>

\* Mutant: SIGTERM once more.
Kill_gently ==
  /\ pc = "kill" /\ i \in Procs
  /\ IF Alive(i) THEN signal({i}) ELSE UNCHANGED child_vars
  /\ i' = i + 1
  /\ UNCHANGED <<pc, processes, started, left, stop_event, interrupts>>

\* SIGKILL: the process runs no further instruction.
Kill ==
  /\ pc = "kill" /\ i \in Procs
  /\ child' = [child EXCEPT ![i] = IF Alive(i) THEN "dead" ELSE @]
  /\ i' = i + 1
  /\ UNCHANGED <<pc, processes, started, left, stop_event, stop_flag, handler, extra,
                 interrupts>>

Stopped ==
  /\ pc = "kill" /\ i \notin Procs
  /\ started' = FALSE /\ processes' = {}
  /\ pc' = "done"
  /\ UNCHANGED <<i, left, stop_event, child_vars, interrupts>>

\* The clock matters to stop only.
Tick ==
  /\ pc = "join" /\ left > 0
  /\ left' = left - 1
  /\ UNCHANGED <<pc, processes, started, i, stop_event, child_vars, interrupts>>

-----------------------------------------------------------------------------
Parent ==
  \/ Spawn \/ Started \/ EnterWait \/ SetEvent \/ ExitRaised
  \/ CallStop \/ Terminate \/ Terminating \/ Join \/ Joined \/ Kill \/ Stopped

\* What a worker process does unless its task keeps it from returning to the
\* interpreter, where signal handlers run.
Worker(p) ==
  \/ Boot(p) \/ BootFails(p) \/ LoopTest(p) \/ FindNothing(p) \/ Take(p) \/ Close(p)

Next ==
  \/ Parent \/ SpawnFails
  \/ Terminated \/ Interrupt
  \/ \E p \in Procs : Worker(p) \/ SetFlag(p) \/ Finish(p) \/ Unwind(p)
  \/ Tick

Spec == Init /\ [][Next]_vars

\* Processes run and time passes; tasks need not finish and nobody has to send
\* a signal.
Fairness ==
  /\ WF_vars(Parent)
  /\ WF_vars(Tick)
  /\ \A p \in Procs : WF_vars(Worker(p))

LiveSpec == Spec /\ Fairness

-----------------------------------------------------------------------------
(* Properties.                                                             *)

\* Every variable holds what the code can put there; _processes lists exactly the
\* processes that were spawned until stop forgets them, so that a start that fails
\* half-way leaves none unlisted; handlers run in live processes that are set up.
TypeOK ==
  /\ pc \in {"start", "raised", "entering", "waiting", "stuck",
             "terminate", "join", "kill", "done"}
  /\ i \in 1..(WorkersCount + 1)
  /\ started \in BOOLEAN /\ stop_event \in {"clear", "setting", "set"}
  /\ left \in 0..ShutdownTimeout
  /\ child \in [Procs -> {"none", "boot", "top", "dequeue", "work", "closing", "dead"}]
  /\ stop_flag \in [Procs -> BOOLEAN]
  /\ handler \in [Procs -> {"idle", "setting", "stuck"}]
  /\ extra \in [Procs -> Nat]
  /\ interrupts \in 0..MaxInterrupts
  /\ \A p \in Procs : /\ p \in processes => child[p] # "none"
                      /\ Alive(p) => p \in processes
                      /\ child[p] = "boot" => handler[p] = "idle" /\ ~stop_flag[p]

\* When the command has ended, no worker process is left: neither after stop,
\* whatever a task, a boot or a handler that is stuck was doing, nor after a start
\* that failed half-way, which the exit of the interpreter waits out.
NobodyLeftBehind == pc = "done" => \A p \in Procs : ~Alive(p)

\* "finish the current task": once its stop flag is set a worker begins one more
\* task at most, the one that the dequeue it is in may return.
OneMoreTask == \A p \in Procs : extra[p] <= 1

\* Only stragglers are killed: a process that is alive when stop comes to SIGKILL
\* has had the whole timeout, which all processes share, to leave.
OnlyStragglersKilled == pc = "kill" => \A p \in Procs : Alive(p) => left = 0

\* stop returns, with tasks that never finish and handlers that are stuck.
StopReturns == pc = "terminate" ~> pc = "done"
=============================================================================
