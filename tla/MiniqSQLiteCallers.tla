------------------------- MODULE MiniqSQLiteCallers -------------------------
(***************************************************************************)
(* The SQLite deployment with callers that poll for a result:              *)
(* AsyncResult.get over SQLiteResultBackend.wait.  A poll is one SELECT,   *)
(* and its row becomes a Task of the caller's own, which no worker touches *)
(* any more.  The sleep between two polls is a stutter.  A call that was   *)
(* given a timeout may reach it at any poll that finds nothing, and one    *)
(* that was given none never does: nothing makes LosePatience happen.      *)
(***************************************************************************)
EXTENDS MiniqSQLiteProps

CONSTANTS
  Callers,     \* processes that call AsyncResult.get
  AwaitOf      \* AwaitOf[c]: the task that caller c waits for

ASSUME CallerAssumption == AwaitOf \in [Callers -> TaskIds]

VARIABLES
  asked,    \* callers whose call has begun
  answer    \* answer[c]: what the call came to, NULL until it does

caller_vars == <<asked, answer>>
all_vars    == <<vars, caller_vars>>

CallersInit ==
  /\ asked = {}
  /\ answer = [c \in Callers |-> NULL]

\* The handle comes from the enqueue.
Get(c) ==
  /\ c \notin asked
  /\ AwaitOf[c] \in submitted
  /\ asked' = asked \cup {c}
  /\ UNCHANGED answer

Polled(c) == c \in asked /\ answer[c] = NULL

Answerable(t) == HasResult(t) /\ results[t].status \in Terminal

\* Both reads of the status, in get, are of the caller's own Task.
Find(c) ==
  /\ Polled(c)
  /\ Answerable(AwaitOf[c])
  /\ answer' = [answer EXCEPT ![c] = results[AwaitOf[c]].status]
  /\ UNCHANGED asked

LosePatience(c) ==
  /\ Polled(c)
  /\ ~Answerable(AwaitOf[c])
  /\ answer' = [answer EXCEPT ![c] = "timeout"]
  /\ UNCHANGED asked

CallersNext ==
  \/ Next /\ UNCHANGED caller_vars
  \/ \E c \in Callers : (Get(c) \/ Find(c) \/ LosePatience(c)) /\ UNCHANGED vars

CallersSpec ==
  /\ Init /\ CallersInit
  /\ [][CallersNext]_all_vars
  /\ Fairness
  /\ \A c \in Callers : WF_all_vars(Find(c) /\ UNCHANGED vars)

-----------------------------------------------------------------------------
\* Whoever calls get is answered, although nothing tells a caller of a store: the
\* result that it polls for does come, retries, crashes and restarts included, and
\* stays for the next poll.
CallersServed ==
  \A c \in Callers : c \in asked ~> answer[c] # NULL

\* When live workers settle in time, an answer that a caller got is contradicted
\* by no later execution, unless a worker process crashed (between the store and
\* the ack of the task; it is then executed again, and may end otherwise).
AnswersStand ==
  \A c \in Callers : crashes = 0 /\ answer[c] \in Terminal =>
    results[AwaitOf[c]] # NULL /\ results[AwaitOf[c]].status = answer[c]
=============================================================================
