-------------------------- MODULE InMemoryResults ---------------------------
(***************************************************************************)
(* InMemoryResultBackend of miniq/results.py.  _results maps an id to the  *)
(* live Task object, so all there is to remember is which tasks have an    *)
(* entry, and which callers sleep in _available.wait().                    *)
(***************************************************************************)
EXTENDS Task

VARIABLES
  stored,   \* tasks with an entry in _results
  waiting   \* callers in _available.wait()

results_vars == <<stored, waiting>>

ResultsInit == stored = {} /\ waiting = {}

\* Mutants: notify() in place of notify_all(); no notify at all.
store_one(t) ==
  /\ stored' = stored \cup {t}
  /\ IF waiting = {} THEN UNCHANGED waiting
                     ELSE \E c \in waiting : waiting' = waiting \ {c}

store_silent(t) == stored' = stored \cup {t} /\ UNCHANGED waiting

store(t) == stored' = stored \cup {t} /\ waiting' = {}

\* The condition wait() returns on: an entry, whose object is finished now.
Answerable(t, task) == t \in stored /\ task.status \in Terminal
=============================================================================
