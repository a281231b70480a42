----------------------------- MODULE Scheduler ------------------------------
(***************************************************************************)
(* sylar::Scheduler (sylar/scheduler.h, scheduler.cpp) with the fibers it  *)
(* switches to (sylar/fiber.cpp): a queue of callbacks and fibers shared   *)
(* by the threads of a pool, each of which runs Scheduler::run.            *)
(*                                                                         *)
(* One action is one stretch of run(), of a task's body or of the caller   *)
(* between two points where another thread can interfere: a critical       *)
(* section of mutex_, an access to an atomic counter or to a fiber's       *)
(* state_, a context switch.  tickle() is not an action: the base class    *)
(* only logs in it.                                                        *)
(***************************************************************************)
EXTENDS Integers, FiniteSets, SequencesExt

CONSTANTS
  Workers,     \* the pool's threads, threadPool_size_ of them
  Caller,      \* the thread that constructs, starts and stops the scheduler
  AnyThread,   \* FiberAnThread::thread = -1
  Tasks,       \* the tasks that are submitted, each at most once
  NoTask,      \* the task of an empty FiberAnThread
  FiberTasks,  \* the tasks submitted as a Fiber::ptr, the others are callbacks
  ReadyTasks,  \* the tasks whose body may call Fiber::YieldToReady
  HoldTasks,   \* the tasks whose body may wait in Fiber::YieldToHold
  Pin,         \* the thread each task is submitted for
  IntMax,      \* the largest value of the int active_threads_count_
  MaxStarts    \* bound: how often the caller calls start()

ASSUME SchedulerAssumption ==
  /\ IsFiniteSet(Workers)
  /\ Caller \notin Workers
  /\ AnyThread \notin Workers \cup {Caller}
  /\ NoTask \notin Tasks \cup Workers
  /\ FiberTasks \subseteq Tasks
  /\ ReadyTasks \subseteq Tasks
  /\ HoldTasks \subseteq Tasks
  /\ Pin \in [Tasks -> Workers \cup {Caller, AnyThread}]
  /\ IntMax \in Nat
  /\ Cardinality(Workers) <= IntMax
  /\ MaxStarts \in Nat

VARIABLES
  fibers,      \* fibers_: the queue, guarded by mutex_
  active,      \* active_threads_count_
  idle,        \* idle_threads_count_
  autoStop,    \* auto_stop_
  stopping,    \* stopping_
  fstate,      \* Fiber::state_ of the fiber of each task
  pc,          \* where each worker is in Scheduler::run
  ft,          \* run's local ft: the FiberAnThread taken from the queue
  isActivate,  \* run's local is_activate
  idleState,   \* state_ of run's local idleFiber
  callerPc,    \* where the caller is in the scheduler's life cycle
  starts,      \* how often it has called start()
  submitted,   \* the tasks handed to scheduler() so far
  waker        \* who holds a suspended task's Fiber::ptr to wake it

workerVars == <<pc, ft, isActivate, idleState>>
callerVars == <<callerPc, starts>>
vars == <<fibers, active, idle, autoStop, stopping, fstate, workerVars,
          callerVars, submitted, waker>>

-----------------------------------------------------------------------------
Threads == Workers \cup {Caller, AnyThread}

\* FiberAnThread: a callback or a fiber, and the thread it is meant for.
Entries == [kind : {"cb", "fiber"}, task : Tasks, thread : Threads]

\* ft.reset(), the first statement of every turn of run's loop.
EmptyEntry == [kind |-> "none", task |-> NoTask, thread |-> AnyThread]

\* Fiber::State; "NONE" while a callback has no fiber yet.
FiberStates == {"NONE", "INIT", "READY", "HOLD", "EXEC", "TERM", "EXCET"}
Dead == {"TERM", "EXCET"}

\* int arithmetic of the counter, which wraps around.  Mutants: the increment
\* or the decrement is missing.
IncForgotten(n) == n
DecForgotten(n) == n
Inc(n) == IF n = IntMax THEN -IntMax - 1 ELSE n + 1
Dec(n) == IF n = -IntMax - 1 THEN IntMax ELSE n - 1

TypeOK ==
  /\ fibers \in Seq(Entries)
  /\ active \in (-IntMax - 1)..IntMax
  /\ idle \in Int
  /\ autoStop \in BOOLEAN
  /\ stopping \in BOOLEAN
  /\ fstate \in [Tasks -> FiberStates]
  /\ pc \in [Workers -> {"scan", "dispatch", "run", "swapOut", "settle",
                         "idle", "exited"}]
  /\ ft \in [Workers -> Entries \cup {EmptyEntry}]
  /\ isActivate \in [Workers -> BOOLEAN]
  /\ idleState \in [Workers -> {"INIT", "EXEC", "TERM"}]
  /\ callerPc \in {"created", "running", "stopping", "joining", "stopped"}
  /\ starts \in 0..MaxStarts
  /\ submitted \subseteq Tasks
  /\ waker \in [Tasks -> {"no", "armed", "woken"}]

Init ==
  /\ fibers = <<>>
  /\ active = 0
  /\ idle = 0
  /\ autoStop = FALSE
  /\ stopping = TRUE
  /\ fstate = [t \in Tasks |-> IF t \in FiberTasks THEN "INIT" ELSE "NONE"]
  /\ pc = [w \in Workers |-> "exited"]
  /\ ft = [w \in Workers |-> EmptyEntry]
  /\ isActivate = [w \in Workers |-> FALSE]
  /\ idleState = [w \in Workers |-> "INIT"]
  /\ callerPc = "created"
  /\ starts = 0
  /\ submitted = {}
  /\ waker = [t \in Tasks |-> "no"]

-----------------------------------------------------------------------------
(* scheduler(): push under mutex_.                                         *)

\* Mutants: the thread is lost; a fiber that is executing is not queued.
EnqueueForAny(kind, t, thread) ==
  fibers' = Append(fibers, [kind |-> kind, task |-> t, thread |-> AnyThread])
EnqueueUnlessRunning(kind, t, thread) ==
  IF fstate[t] = "EXEC"
    THEN UNCHANGED fibers
    ELSE fibers' = Append(fibers, [kind |-> kind, task |-> t, thread |-> thread])
Enqueue(kind, t, thread) ==
  fibers' = Append(fibers, [kind |-> kind, task |-> t, thread |-> thread])

\* A thread's id is known, to itself and to others, while the thread lives.
Schedule(t) ==
  /\ t \notin submitted
  /\ Pin[t] \in Workers => pc[Pin[t]] # "exited"
  /\ submitted' = submitted \cup {t}
  /\ Enqueue(IF t \in FiberTasks THEN "fiber" ELSE "cb", t, Pin[t])

-----------------------------------------------------------------------------
(* The caller: schedules, calls start(), later stop(), possibly again.     *)

CallerSchedule(t) ==
  /\ callerPc \in {"created", "running", "stopped"}
  /\ callerPc = "running" \/ starts < MaxStarts
  /\ Schedule(t)
  /\ UNCHANGED <<active, idle, autoStop, stopping, fstate, workerVars,
                 callerVars, waker>>

\* start() holds mutex_ until every thread exists, so no thread gets past its
\* first scan before start() is over.
Start ==
  /\ callerPc \in {"created", "stopped"}
  /\ starts < MaxStarts
  /\ stopping
  /\ callerPc' = "running"
  /\ starts' = starts + 1
  /\ stopping' = FALSE
  /\ pc' = [w \in Workers |-> "scan"]
  /\ isActivate' = [w \in Workers |-> FALSE]
  /\ idleState' = [w \in Workers |-> "INIT"]
  /\ UNCHANGED <<fibers, active, idle, autoStop, fstate, ft, submitted, waker>>

\* stop(): auto_stop_ first.  main_fiber_ is never assigned, so neither early
\* return nor main_fiber_->call() is ever reached.
StopAuto ==
  /\ callerPc = "running"
  /\ callerPc' = "stopping"
  /\ autoStop' = TRUE
  /\ UNCHANGED <<fibers, active, idle, stopping, fstate, workerVars, starts,
                 submitted, waker>>

\* ... then stopping_, without mutex_, and the swap of threads_.
StopSet ==
  /\ callerPc = "stopping"
  /\ callerPc' = "joining"
  /\ stopping' = TRUE
  /\ UNCHANGED <<fibers, active, idle, autoStop, fstate, workerVars, starts,
                 submitted, waker>>

\* ... and returns when every thread has been joined.
Join ==
  /\ callerPc = "joining"
  /\ \A w \in Workers : pc[w] = "exited"
  /\ callerPc' = "stopped"
  /\ UNCHANGED <<fibers, active, idle, autoStop, stopping, fstate, workerVars,
                 starts, submitted, waker>>

-----------------------------------------------------------------------------
(* Scheduler::run on worker w.                                             *)

At(w, from, to) == pc[w] = from /\ pc' = [pc EXCEPT ![w] = to]

\* An entry for another thread and a fiber somebody still executes are passed
\* over.  Mutants: the state is not looked at; only unpinned entries are taken.
TakeableWhileRunning(e, w) == e.thread \in {AnyThread, w}
TakeableUnpinned(e, w) == e.thread = AnyThread
Takeable(e, w) ==
  /\ e.thread \in {AnyThread, w}
  /\ ~(e.kind = "fiber" /\ fstate[e.task] = "EXEC")

\* The critical section: the first entry w can take leaves the queue and
\* ++active_threads_count_ happens before mutex_ is released.
Take(w) ==
  /\ At(w, "scan", "dispatch")
  /\ \E i \in DOMAIN fibers :
       /\ Takeable(fibers[i], w)
       /\ \A j \in 1..(i - 1) : ~Takeable(fibers[j], w)
       /\ ft' = [ft EXCEPT ![w] = fibers[i]]
       /\ fibers' = RemoveAt(fibers, i)
  /\ active' = Inc(active)
  /\ isActivate' = [isActivate EXCEPT ![w] = TRUE]
  /\ UNCHANGED <<idle, autoStop, stopping, fstate, idleState, callerVars,
                 submitted, waker>>

TakeNothing(w) ==
  /\ At(w, "scan", "dispatch")
  /\ \A i \in DOMAIN fibers : ~Takeable(fibers[i], w)
  /\ UNCHANGED <<fibers, active, idle, autoStop, stopping, fstate, ft,
                 isActivate, idleState, callerVars, submitted, waker>>

\* if(ft.fiber && state_ is neither TERM nor EXCET): ft.fiber->swapIn().
Resume(w) ==
  /\ At(w, "dispatch", "run")
  /\ ft[w].kind = "fiber"
  /\ fstate[ft[w].task] \notin Dead
  /\ fstate' = [fstate EXCEPT ![ft[w].task] = "EXEC"]
  /\ waker' = [waker EXCEPT ![ft[w].task] = "no"]
  /\ UNCHANGED <<fibers, active, idle, autoStop, stopping, ft, isActivate,
                 idleState, callerVars, submitted>>

\* else if(ft.cb): the callback gets a fiber of its own, then swapIn().
StartCallback(w) ==
  /\ At(w, "dispatch", "run")
  /\ ft[w].kind = "cb"
  /\ fstate' = [fstate EXCEPT ![ft[w].task] = "EXEC"]
  /\ UNCHANGED <<fibers, active, idle, autoStop, stopping, ft, isActivate,
                 idleState, callerVars, submitted, waker>>

\* else: nothing was taken, or a fiber that has already ended.
NothingToRun(w) ==
  \/ ft[w].kind = "none"
  \/ ft[w].kind = "fiber" /\ fstate[ft[w].task] \in Dead

\* if(is_activate): --active_threads_count_; continue.
Discard(w) ==
  /\ At(w, "dispatch", "scan")
  /\ NothingToRun(w)
  /\ isActivate[w]
  /\ active' = Dec(active)
  /\ ft' = [ft EXCEPT ![w] = EmptyEntry]
  /\ UNCHANGED <<fibers, idle, autoStop, stopping, fstate, isActivate,
                 idleState, callerVars, submitted, waker>>

\* if(idleFiber->state_ == TERM): break.
Exit(w) ==
  /\ At(w, "dispatch", "exited")
  /\ NothingToRun(w)
  /\ ~isActivate[w]
  /\ idleState[w] = "TERM"
  /\ ft' = [ft EXCEPT ![w] = EmptyEntry]
  /\ UNCHANGED <<fibers, active, idle, autoStop, stopping, fstate, isActivate,
                 idleState, callerVars, submitted, waker>>

\* ++idle_threads_count_; idleFiber->swapIn().
GoIdle(w) ==
  /\ At(w, "dispatch", "idle")
  /\ NothingToRun(w)
  /\ ~isActivate[w]
  /\ idleState[w] # "TERM"
  /\ idle' = idle + 1
  /\ idleState' = [idleState EXCEPT ![w] = "EXEC"]
  /\ ft' = [ft EXCEPT ![w] = EmptyEntry]
  /\ UNCHANGED <<fibers, active, autoStop, stopping, fstate, isActivate,
                 callerVars, submitted, waker>>

\* Scheduler::stopping(), in a critical section.  Mutants: busy threads, or
\* queued tasks, are not waited for.
StoppingWhileBusy == autoStop /\ stopping /\ fibers = <<>>
StoppingWhileQueued == autoStop /\ stopping /\ active = 0
Stopping == autoStop /\ stopping /\ fibers = <<>> /\ active = 0

\* Scheduler::idle(): one turn of its loop, which ends the idle fiber or
\* yields, and --idle_threads_count_ back in run().
IdleTurn(w) ==
  /\ At(w, "idle", "scan")
  /\ idleState' = [idleState EXCEPT ![w] = IF Stopping THEN "TERM" ELSE "EXEC"]
  /\ idle' = idle - 1
  /\ UNCHANGED <<fibers, active, autoStop, stopping, fstate, ft, isActivate,
                 callerVars, submitted, waker>>

\* Back from swapIn(): --active_threads_count_, and is_activate=false, but only
\* after a callback.
Return(w) ==
  /\ At(w, "swapOut", "settle")
  /\ active' = Dec(active)
  /\ isActivate' = [isActivate EXCEPT ![w] = @ /\ ft[w].kind # "cb"]
  /\ UNCHANGED <<fibers, idle, autoStop, stopping, fstate, ft, idleState,
                 callerVars, submitted, waker>>

\* A fiber that yielded READY is queued again, for the same thread.
Requeue(w) ==
  /\ At(w, "settle", "scan")
  /\ fstate[ft[w].task] = "READY"
  /\ Enqueue("fiber", ft[w].task, ft[w].thread)
  /\ ft' = [ft EXCEPT ![w] = EmptyEntry]
  /\ UNCHANGED <<active, idle, autoStop, stopping, fstate, isActivate,
                 idleState, callerVars, submitted, waker>>

\* Any other fiber that has not ended becomes HOLD.
Settle(w) ==
  /\ At(w, "settle", "scan")
  /\ fstate[ft[w].task] # "READY"
  /\ fstate' = [fstate EXCEPT ![ft[w].task] = IF @ \in Dead THEN @ ELSE "HOLD"]
  /\ ft' = [ft EXCEPT ![w] = EmptyEntry]
  /\ UNCHANGED <<fibers, active, idle, autoStop, stopping, isActivate,
                 idleState, callerVars, submitted, waker>>

-----------------------------------------------------------------------------
(* The body of the task that worker w runs.                                *)

BodySchedule(w, t) ==
  /\ pc[w] = "run"
  /\ Schedule(t)
  /\ UNCHANGED <<active, idle, autoStop, stopping, fstate, workerVars,
                 callerVars, waker>>

\* The body hands Fiber::GetCurrentFiber() to whoever is to wake it (as
\* IOManager::addEvent does) and from then on may only hold or end.
BodyArm(w) ==
  /\ pc[w] = "run"
  /\ ft[w].task \in HoldTasks
  /\ waker[ft[w].task] = "no"
  /\ waker' = [waker EXCEPT ![ft[w].task] = "armed"]
  /\ UNCHANGED <<fibers, active, idle, autoStop, stopping, fstate, workerVars,
                 callerVars, submitted>>

\* Fiber::YieldToHold: state_ stays EXEC.
YieldToHold(w) ==
  /\ At(w, "run", "swapOut")
  /\ waker[ft[w].task] # "no"
  /\ UNCHANGED <<fibers, active, idle, autoStop, stopping, fstate, ft,
                 isActivate, idleState, callerVars, submitted, waker>>

\* Fiber::YieldToReady: state_ is READY before the fiber is off its stack.
YieldToReady(w) ==
  /\ At(w, "run", "swapOut")
  /\ ft[w].task \in ReadyTasks
  /\ waker[ft[w].task] = "no"
  /\ fstate' = [fstate EXCEPT ![ft[w].task] = "READY"]
  /\ UNCHANGED <<fibers, active, idle, autoStop, stopping, ft, isActivate,
                 idleState, callerVars, submitted, waker>>

\* Fiber::MainFunc: the body returns (TERM) or throws (EXCET).
End(w) ==
  /\ At(w, "run", "swapOut")
  /\ \E s \in Dead : fstate' = [fstate EXCEPT ![ft[w].task] = s]
  /\ UNCHANGED <<fibers, active, idle, autoStop, stopping, ft, isActivate,
                 idleState, callerVars, submitted, waker>>

\* The holder of the fiber schedules it, for any thread, whether the fiber is
\* off its stack by now or not.
Wake(t) ==
  /\ waker[t] = "armed"
  /\ waker' = [waker EXCEPT ![t] = "woken"]
  /\ Enqueue("fiber", t, AnyThread)
  /\ UNCHANGED <<active, idle, autoStop, stopping, fstate, workerVars,
                 callerVars, submitted>>

\* The caller is done with the scheduler.
CallerDone ==
  /\ callerPc = "stopped"
  /\ starts = MaxStarts
  /\ UNCHANGED vars

-----------------------------------------------------------------------------
Body(w) ==
  \/ \E t \in Tasks : BodySchedule(w, t)
  \/ BodyArm(w)
  \/ YieldToHold(w)
  \/ YieldToReady(w)
  \/ End(w)

Run(w) ==
  \/ Take(w)
  \/ TakeNothing(w)
  \/ Resume(w)
  \/ StartCallback(w)
  \/ Discard(w)
  \/ Exit(w)
  \/ GoIdle(w)
  \/ IdleTurn(w)
  \/ Return(w)
  \/ Requeue(w)
  \/ Settle(w)

Next ==
  \/ \E t \in Tasks : CallerSchedule(t)
  \/ Start
  \/ StopAuto
  \/ StopSet
  \/ Join
  \/ CallerDone
  \/ \E w \in Workers : Run(w) \/ Body(w)
  \/ \E t \in Tasks : Wake(t)

Spec == Init /\ [][Next]_vars

\* The threads of the pool are preemptively scheduled, mutex_ is held for a
\* bounded time, bodies end, and a caller inside start() or stop() goes on.
Fairness ==
  /\ \A w \in Workers : WF_vars(Run(w)) /\ WF_vars(End(w))
  /\ WF_vars(Start)
  /\ WF_vars(StopSet)
  /\ WF_vars(Join)

FairSpec == Spec /\ Fairness

-----------------------------------------------------------------------------
(* Safety.                                                                 *)

OnStack(w) == pc[w] \in {"run", "swapOut"}

Holds(w, t) ==
  /\ pc[w] \in {"dispatch", "run", "swapOut", "settle"}
  /\ ft[w].task = t

Queued(t) == \E i \in DOMAIN fibers : fibers[i].task = t

\* No fiber is ever executed by two threads at once, even when it is woken, and
\* so queued again, before it has switched off the stack it runs on: that is
\* what run's test of state_ == EXEC under mutex_ is for.
ExclusiveExecution ==
  \A v, w \in Workers :
    OnStack(v) /\ OnStack(w) /\ ft[v].task = ft[w].task => v = w

\* No wakeup is lost: a task that was handed to the scheduler and has not ended
\* is queued, or held by a worker that runs it or will queue it, or the Fiber
\* is in the hands of somebody who has yet to wake it.
NoLostWakeup ==
  \A t \in submitted :
    \/ fstate[t] \in Dead
    \/ Queued(t)
    \/ waker[t] = "armed"
    \/ \E w \in Workers :
         /\ Holds(w, t)
         /\ pc[w] \in {"dispatch", "run"} \/ fstate[t] = "READY"

\* A task submitted for one thread runs there, the first time and each time it
\* comes back from YieldToReady.  (Waking a fiber from hold names no thread, so
\* tasks that may hold are exempt: they leave the thread they were meant for.)
PinnedStaysHome ==
  \A w \in Workers :
    /\ OnStack(w)
    /\ Pin[ft[w].task] # AnyThread
    /\ ft[w].task \notin HoldTasks
    => Pin[ft[w].task] = w

\* active_threads_count_, which dump() prints as active_count, is the number of
\* threads that have taken a task and not yet come back from it.
ActiveExact ==
  active = Cardinality({w \in Workers :
                          /\ pc[w] \in {"dispatch", "run", "swapOut"}
                          /\ ft[w].kind # "none"})

\* While stop() waits for the threads, one whose idle fiber has ended, so that
\* it is about to leave run(), leaves nothing to do behind: no task is queued
\* and no other thread is in one that could still submit more.
QuiescentExit ==
  (callerPc = "joining" /\ \E w \in Workers : idleState[w] = "TERM") =>
    /\ fibers = <<>>
    /\ \A w \in Workers : ~OnStack(w)

\* stop() returns, all threads joined, only when every task handed to the
\* scheduler has run to its end.
StopDrains ==
  [][Join => \A t \in submitted : fstate[t] \in Dead]_vars

-----------------------------------------------------------------------------
(* Why that is so: an inductive invariant.                                 *)

InBody == {"run", "swapOut", "settle"}

\* A thread between two turns of its loop has an empty ft, one in a task's body
\* a full one, and no thread exists before start() or after stop().
Loaded ==
  /\ \A w \in Workers :
       /\ pc[w] \in {"scan", "idle", "exited"} => ft[w] = EmptyEntry
       /\ pc[w] \in InBody => ft[w] \in Entries
  /\ callerPc \in {"created", "stopped"} => \A w \in Workers : pc[w] = "exited"

\* A task is queued at most once; while it is, nobody can wake it, no thread
\* has taken it, and one that is still in its body was overtaken by a wakeup.
QueueOK ==
  \A i \in DOMAIN fibers :
    LET t == fibers[i].task
    IN  /\ \A j \in DOMAIN fibers : fibers[j].task = t => j = i
        /\ t \in submitted
        /\ waker[t] # "armed"
        /\ fibers[i].kind = "cb" <=> fstate[t] = "NONE"
        /\ \A w \in Workers :
             ft[w].task = t =>
               pc[w] # "dispatch" /\ (pc[w] \in InBody => waker[t] = "woken")

\* What a thread that holds a task knows about it.
HolderOK ==
  \A w \in Workers :
    LET t == ft[w].task
    IN  /\ pc[w] = "dispatch" /\ ft[w].kind # "none" =>
             /\ t \in submitted
             /\ waker[t] # "armed"
             /\ ft[w].kind = "cb" <=> fstate[t] = "NONE"
        /\ pc[w] \in InBody => t \in submitted
        /\ pc[w] = "run" =>
             fstate[t] = "EXEC" /\ (waker[t] = "woken" => Queued(t))
        /\ pc[w] \in {"swapOut", "settle"} =>
             \/ fstate[t] \in Dead
             \/ fstate[t] = "READY" /\ waker[t] = "no"
             \/ fstate[t] = "EXEC" /\ waker[t] # "no"

\* Two threads hold the same task only when one has taken the late wakeup of a
\* fiber that has ended and the other has yet to come back from it.
HoldersApart ==
  \A v, w \in Workers :
    v # w /\ ft[v].task = ft[w].task /\ ft[v].kind # "none" =>
      /\ ~(pc[v] \in InBody /\ pc[w] \in InBody)
      /\ ~(pc[v] = "dispatch" /\ pc[w] = "dispatch")
      /\ pc[v] = "dispatch" /\ pc[w] \in InBody => fstate[ft[v].task] \in Dead

\* Only a task whose body has run can be woken, and one nobody has submitted
\* is untouched.
WakerOK ==
  \A t \in Tasks :
    /\ waker[t] # "no" => t \in submitted /\ fstate[t] # "NONE"
    /\ t \notin submitted =>
         fstate[t] = IF t \in FiberTasks THEN "INIT" ELSE "NONE"

\* The reasons for ExclusiveExecution and NoLostWakeup: who may hold a task,
\* and who may have queued it, in every state of run() and of its fiber.
IInv ==
  TypeOK /\ Loaded /\ QueueOK /\ HolderOK /\ HoldersApart /\ WakerOK /\ NoLostWakeup

-----------------------------------------------------------------------------
(* Liveness.                                                               *)

\* stop() does return.
StopReturns == callerPc = "stopping" ~> callerPc = "stopped"

\* A task handed to a running scheduler is run to its end, whether or not
\* stop() is called meanwhile, if the thread it is meant for is in the pool.
EveryTaskRuns ==
  \A t \in {u \in Tasks : Pin[u] # Caller} :
    (callerPc = "running" /\ t \in submitted) ~> fstate[t] \in Dead

-----------------------------------------------------------------------------
(* The abstract specification.                                             *)

PoolStatus(t) ==
  IF t \notin submitted THEN "new"
  ELSE IF fstate[t] \in Dead THEN "done"
  ELSE IF \E w \in Workers : Holds(w, t) THEN "running"
  ELSE IF Queued(t) THEN "ready"
  ELSE "blocked"

PoolRunner(t) ==
  IF PoolStatus(t) = "running"
    THEN CHOOSE w \in Workers : Holds(w, t)
    ELSE NoTask

Pool == INSTANCE TaskPool WITH
  Allowed <- [t \in Tasks |->
                IF t \in HoldTasks \/ Pin[t] = AnyThread
                  THEN Workers
                  ELSE Workers \cap {Pin[t]}],
  NoWorker <- NoTask,
  status <- [t \in Tasks |-> PoolStatus(t)],
  runner <- [t \in Tasks |-> PoolRunner(t)]

\* The queue, the fiber states and the threads together keep what the
\* scheduler promises.
ImplementsPool == Pool!Spec
=============================================================================
