------------------------------ MODULE TaskPool ------------------------------
(***************************************************************************)
(* What sylar::Scheduler promises to the code that hands it work, without  *)
(* its queue, its fiber states and its counters: a submitted task waits    *)
(* until one worker runs it, is run by at most one worker at a time and    *)
(* only by a worker it may run on, and, when it gives up its worker,       *)
(* either waits for a worker again or for somebody to wake it.             *)
(* Scheduler.tla is shown to implement this specification.                 *)
(***************************************************************************)
CONSTANTS
  Tasks,     \* the tasks (callbacks or fibers) handed to the scheduler
  Workers,   \* the threads of the pool
  Allowed,   \* the workers each task may run on
  NoWorker   \* the runner of a task that nobody runs

VARIABLES
  status,    \* new, ready, running, blocked or done
  runner     \* the worker that runs it, or NoWorker

poolVars == <<status, runner>>

Init ==
  /\ status = [t \in Tasks |-> "new"]
  /\ runner = [t \in Tasks |-> NoWorker]

-----------------------------------------------------------------------------
Becomes(t, from, to) ==
  /\ status[t] = from
  /\ status' = [status EXCEPT ![t] = to]

Submit(t) == Becomes(t, "new", "ready") /\ UNCHANGED runner

Dispatch(t, w) ==
  /\ w \in Allowed[t]
  /\ \A u \in Tasks : runner[u] # w
  /\ Becomes(t, "ready", "running")
  /\ runner' = [runner EXCEPT ![t] = w]

\* The running task leaves its worker: it is done, waits for a worker again,
\* or waits to be woken.
Leave(t) ==
  /\ \E to \in {"done", "ready", "blocked"} : Becomes(t, "running", to)
  /\ runner' = [runner EXCEPT ![t] = NoWorker]

Wake(t) == Becomes(t, "blocked", "ready") /\ UNCHANGED runner

Next ==
  \E t \in Tasks :
    \/ Submit(t)
    \/ \E w \in Workers : Dispatch(t, w)
    \/ Leave(t)
    \/ Wake(t)

Spec == Init /\ [][Next]_poolVars
=============================================================================
