----------------------------- MODULE IOManager ------------------------------
(***************************************************************************)
(* sylar::IOManager (sylar/IOManager.h, IOManager.cpp): the table of       *)
(* contexts, one per descriptor, the four calls on it, and the idle loop   *)
(* in which the threads of the pool wait for epoll and wake the waiters.   *)
(*                                                                         *)
(* The calls take the context's mutex; idle() takes none.  A call is two   *)
(* or three steps, since epoll_ctl comes before the context is written;    *)
(* the idle loop looks at _event, calls epoll_ctl, then triggers.  Each    *)
(* step is atomic, which is kinder to the code than its unlocked accesses  *)
(* to _event deserve.  A failed assertion ends the program: see abort.     *)
(*                                                                         *)
(* External: epoll (a ready list, edge- or level-triggered entries, HUP    *)
(* always reported, at most one entry per descriptor) and the descriptors  *)
(* themselves.  Scheduler and TimerManager have modules of their own; what *)
(* idle() uses of them is here a set of queued tasks and one timer.        *)
(***************************************************************************)
EXTENDS Integers, FiniteSets

CONSTANTS
  Threads,     \* the threads of the pool, each in its idle fiber
  Callers,     \* the tasks that call addEvent and the others
  Waiters,     \* the callbacks and fibers passed to addEvent
  Use,         \* the fd and the event each of them waits for
  Calls,       \* which of "delEvent", "cancelEvent", "cancelAll" are made
  Conditions,  \* what may become true of a descriptor: events, and "HUP"
  Overlap,     \* FALSE: one thread, which is either in a task or in idle()
  NoWaiter,    \* neither a callback nor a fiber
  MaxSize,     \* bound: the values of pending_Event_Size_, a size_t
  MaxFills     \* bound: how often the table of contexts is made anew

Events == {"READD", "WRITE"}
Fds == {Use[w].fd : w \in Waiters}

ASSUME IOAssumption ==
  /\ IsFiniteSet(Threads) /\ IsFiniteSet(Callers) /\ IsFiniteSet(Waiters)
  /\ Use \in [Waiters -> [fd : Nat, event : Events]]
  /\ Calls \subseteq {"delEvent", "cancelEvent", "cancelAll"}
  /\ Conditions \subseteq Events \cup {"HUP"}
  /\ Overlap \in BOOLEAN
  /\ ~Overlap => Cardinality(Threads) = 1 /\ Cardinality(Callers) = 1
  /\ NoWaiter \notin Waiters
  /\ MaxSize \in Nat /\ MaxSize > Cardinality(Waiters)
  /\ MaxFills \in Nat

VARIABLES
  table,    \* fd_Contexs_: its size, and how often it was filled
  ctx,      \* the contexts made so far, by fd and filling: _event and the slots
  pending,  \* pending_Event_Size_
  epoll,    \* epoll's entry for each fd
  level,    \* what holds of each fd now
  call,     \* the call each caller is in
  idler,    \* where each thread is in idle()
  waiter,   \* what has become of each waiter
  wakes,    \* how often each was handed to the scheduler
  timer,    \* "none", "set", or "queued" once its callback is with the scheduler
  stopped,  \* whether stop() was called
  abort     \* the assertion that failed, or the access out of range

vars == <<table, ctx, pending, epoll, level, call, idler, waiter, wakes,
          timer, stopped, abort>>

Keys == Fds \X (0 .. MaxFills)

FreeSlot == [waiter |-> NoWaiter, scheduler |-> FALSE]
FdContex == [event : SUBSET Events,
             slot : [Events -> [waiter : Waiters \cup {NoWaiter},
                                scheduler : BOOLEAN]]]
NewContex == [event |-> {}, slot |-> [e \in Events |-> FreeSlot]]

NoCall == [op |-> "none", pc |-> "none", key |-> <<0, 0>>, event |-> "READD",
           waiter |-> NoWaiter]

Call == [op : Calls \cup {"none", "addEvent"},
         pc : {"none", "ctl", "mark", "fill", "finish"},
         key : Keys \cup {<<0, 0>>}, event : Events, waiter : Waiters \cup {NoWaiter}]

\* What epoll reports: the context its entry points to, and the events.
Reports == [key : Keys, events : SUBSET (Events \cup {"HUP"})]
NotIdle == [pc |-> "test", batch |-> {}, key |-> <<0, 0>>, real |-> {}, seen |-> {},
            rest |-> {}]
Idler == [pc : {"test", "wait", "batch", "ctl", "trigger", "left"},
          batch : SUBSET Reports, key : Keys \cup {<<0, 0>>}, real : SUBSET Events,
          seen : SUBSET (Events \cup {"HUP"}), rest : SUBSET Events]

NoEntry == [in |-> FALSE, fill |-> 0, interest |-> {}, et |-> FALSE,
            ready |-> FALSE]

TypeOK ==
  /\ table \in [size : Nat, fill : 0 .. MaxFills]
  /\ ctx \in [Keys -> FdContex]
  /\ pending \in 0 .. MaxSize - 1
  /\ epoll \in [Fds -> [in : BOOLEAN, fill : 0 .. MaxFills, et : BOOLEAN,
                        interest : SUBSET (Events \cup {"HUP"}), ready : BOOLEAN]]
  /\ level \in [Fds -> SUBSET Conditions]
  /\ call \in [Callers -> Call]
  /\ idler \in [Threads -> Idler]
  /\ waiter \in [Waiters -> {"new", "calling", "refused", "waiting",
                             "deleted", "queued", "done"}]
  /\ wakes \in [Waiters -> 0 .. 2]
  /\ timer \in {"none", "set", "queued"}
  /\ stopped \in BOOLEAN
  /\ abort \in {"none", "range", "trigger", "getEvent", "occupied"}

Init ==
  /\ table = [size |-> 0, fill |-> 0]
  /\ ctx = [k \in Keys |-> NewContex]
  /\ pending = 0
  /\ epoll = [f \in Fds |-> NoEntry]
  /\ level = [f \in Fds |-> {}]
  /\ call = [c \in Callers |-> NoCall]
  /\ idler = [t \in Threads |-> NotIdle]
  /\ waiter = [w \in Waiters |-> "new"]
  /\ wakes = [w \in Waiters |-> 0]
  /\ timer \in {"none", "set"}
  /\ stopped = FALSE
  /\ abort = "none"

-----------------------------------------------------------------------------
\* External: epoll.  Adding or changing an entry puts it on the ready list if
\* one of its events holds.
Entry(f, fill, interest, et) ==
  [in |-> TRUE, fill |-> fill, interest |-> interest, et |-> et,
   ready |-> level[f] \cap (interest \cup {"HUP"}) # {}]

\* EPOLL_CTL_ADD fails if there is an entry, MOD and DEL if there is none.
EpollSet(op, f, entry) ==
  epoll' = [epoll EXCEPT ![f] = IF op = "DEL" THEN NoEntry ELSE entry]
EpollFails(op, f) == epoll[f].in = (op = "ADD")

\* What epoll_wait reports of f: readiness of what the entry asks for, and HUP.
Reported(f) == level[f] \cap (epoll[f].interest \cup {"HUP"})

-----------------------------------------------------------------------------
\* _event&~event.
EventLeft(event, es) == event \ es

\* triggerEvent for each event of es.  The slot keeps its callback or fiber.
triggerEvent(k, es) ==
  LET x == ctx[k]
      woken == {x.slot[e].waiter : e \in es} \ {NoWaiter}
  IN  IF es \subseteq x.event
      THEN /\ ctx' = [ctx EXCEPT ![k] =
                [event |-> EventLeft(x.event, es),
                 slot |-> [e \in Events |->
                   IF e \in es THEN [x.slot[e] EXCEPT !.scheduler = FALSE] ELSE x.slot[e]]]]
           /\ waiter' = [w \in Waiters |->
                IF w \in woken /\ waiter[w] = "waiting" THEN "queued" ELSE waiter[w]]
           /\ wakes' = [w \in Waiters |-> IF w \in woken THEN wakes[w] + 1 ELSE wakes[w]]
           /\ UNCHANGED abort
      ELSE /\ abort' = "trigger"
           /\ UNCHANGED <<ctx, waiter, wakes>>

\* pending_Event_Size_, which wraps around.  Mutant: not counted down.
Inc == pending' = (pending + 1) % MaxSize
DecForgotten(n) == UNCHANGED pending
Dec(n) == pending' = (pending - n) % MaxSize

-----------------------------------------------------------------------------
\* The calls.  A single thread makes them between two rounds of idle().
MayCall == Overlap \/ \A t \in Threads : idler[t].pc = "test"
Locked(k) == \E c \in Callers : call[c].pc \notin {"none", "ctl"} /\ call[c].key = k

At(c, op, pc) == abort = "none" /\ call[c].op = op /\ call[c].pc = pc
Goto(c, pc) == call' = [call EXCEPT ![c].pc = pc]
Return(c) == call' = [call EXCEPT ![c] = NoCall]

\* fd_contex_resize, if the table is too small: every context is a new one.
Grown(fd) ==
  IF table.size <= fd THEN [size |-> (fd * 3) \div 2, fill |-> table.fill + 1] ELSE table

BeginAdd(c, w) ==
  /\ abort = "none" /\ MayCall /\ ~stopped
  /\ call[c].op = "none" /\ waiter[w] = "new"
  /\ LET fd == Use[w].fd
         new == Grown(fd)
     IN  /\ new.fill <= MaxFills
         /\ table' = new
         /\ waiter' = [waiter EXCEPT ![w] = "calling"]
         /\ call' = [call EXCEPT ![c] = [op |-> "addEvent", pc |-> "ctl", waiter |-> w,
                                         key |-> <<fd, new.fill>>, event |-> Use[w].event]]
         /\ abort' = IF new.size <= fd THEN "range" ELSE "none"
  /\ UNCHANGED <<ctx, pending, epoll, level, idler, wakes, timer, stopped>>

\* epevent.events.  Mutant: the new event is left out.
InterestUnchanged(k, e) == ctx[k].event
Interest(k, e) == ctx[k].event \cup {e}

\* The event is registered with epoll before the context says so.
AddCtl(c) ==
  /\ At(c, "addEvent", "ctl")
  /\ LET k == call[c].key
         e == call[c].event
         op == IF ctx[k].event = {} THEN "ADD" ELSE "MOD"
     IN  /\ ~Locked(k)
         /\ IF e \in ctx[k].event \/ EpollFails(op, k[1])
            THEN /\ Return(c)
                 /\ waiter' = [waiter EXCEPT ![call[c].waiter] = "refused"]
                 /\ UNCHANGED epoll
            ELSE /\ Goto(c, "mark")
                 /\ EpollSet(op, k[1], Entry(k[1], k[2], Interest(k, e), TRUE))
                 /\ UNCHANGED waiter
  /\ UNCHANGED <<table, ctx, pending, level, idler, wakes, timer, stopped, abort>>

AddMark(c) ==
  /\ At(c, "addEvent", "mark")
  /\ Inc
  /\ ctx' = [ctx EXCEPT ![call[c].key].event = @ \cup {call[c].event}]
  /\ Goto(c, "fill")
  /\ UNCHANGED <<table, epoll, level, idler, waiter, wakes, timer, stopped, abort>>

AddFill(c) ==
  /\ At(c, "addEvent", "fill")
  /\ LET k == call[c].key
         e == call[c].event
         slot == [waiter |-> call[c].waiter, scheduler |-> TRUE]
     IN  IF e \in ctx[k].event /\ ctx[k].slot[e] = FreeSlot
         THEN /\ ctx' = [ctx EXCEPT ![k].slot[e] = slot]
              /\ waiter' = [waiter EXCEPT ![slot.waiter] = "waiting"]
              /\ UNCHANGED abort
         ELSE /\ abort' = IF e \in ctx[k].event THEN "occupied" ELSE "getEvent"
              /\ UNCHANGED <<ctx, waiter>>
  /\ Return(c)
  /\ UNCHANGED <<table, pending, epoll, level, idler, wakes, timer, stopped>>

BeginCall(c, op, fd, e) ==
  /\ abort = "none" /\ MayCall /\ ~stopped
  /\ call[c].op = "none" /\ op \in Calls
  /\ fd < table.size
  /\ call' = [call EXCEPT ![c] = [op |-> op, pc |-> "ctl", waiter |-> NoWaiter,
                                  key |-> <<fd, table.fill>>, event |-> e]]
  /\ UNCHANGED <<table, ctx, pending, epoll, level, idler, waiter, wakes, timer,
                 stopped, abort>>

Registered(k, e) == e \in ctx[k].event

\* _event|event was meant to be _event&~event: the entry keeps its events and
\* becomes level-triggered.
DelOrCancelCtl(c, op) ==
  /\ op \in {"delEvent", "cancelEvent"}
  /\ At(c, op, "ctl")
  /\ LET k == call[c].key
         new == ctx[k].event \cup {call[c].event}
     IN  /\ ~Locked(k)
         /\ IF ~Registered(k, call[c].event) \/ EpollFails("MOD", k[1])
            THEN Return(c) /\ UNCHANGED epoll
            ELSE Goto(c, "finish") /\ EpollSet("MOD", k[1], Entry(k[1], k[2], new, FALSE))
  /\ UNCHANGED <<table, ctx, pending, level, idler, waiter, wakes, timer, stopped, abort>>

\* Mutant: the waiter stays in its slot.
SlotKept(slot, e) == slot
resetContex(slot, e) == [slot EXCEPT ![e] = FreeSlot]

delEvent(c) ==
  /\ At(c, "delEvent", "finish")
  /\ LET k == call[c].key
         e == call[c].event
         w == ctx[k].slot[e].waiter
     IN  /\ ctx' = [ctx EXCEPT ![k] = [event |-> @.event \cup {e},
                                       slot |-> resetContex(@.slot, e)]]
         /\ waiter' = [v \in Waiters |->
                         IF v = w /\ waiter[v] = "waiting" THEN "deleted" ELSE waiter[v]]
  /\ Dec(1)
  /\ Return(c)
  /\ UNCHANGED <<table, epoll, level, idler, wakes, timer, stopped, abort>>

cancelEvent(c) ==
  /\ At(c, "cancelEvent", "finish")
  /\ Dec(1)
  /\ triggerEvent(call[c].key, {call[c].event})
  /\ Return(c)
  /\ UNCHANGED <<table, epoll, level, idler, timer, stopped>>

CancelAllCtl(c) ==
  /\ At(c, "cancelAll", "ctl")
  /\ LET k == call[c].key
     IN  /\ ~Locked(k)
         /\ IF ctx[k].event = {} \/ EpollFails("DEL", k[1])
            THEN Return(c) /\ UNCHANGED epoll
            ELSE Goto(c, "finish") /\ EpollSet("DEL", k[1], NoEntry)
  /\ UNCHANGED <<table, ctx, pending, level, idler, waiter, wakes, timer, stopped, abort>>

\* _event&&READD holds of any event: READD is triggered first, and WRITE if
\* that leaves something.
CancelAllEvents(k) ==
  LET event == ctx[k].event
  IN  CASE event = {} -> {}
        [] event = {"READD"} -> {"READD"}
        [] OTHER -> Events

cancelAll(c) ==
  /\ At(c, "cancelAll", "finish")
  /\ LET es == CancelAllEvents(call[c].key)
     IN  Dec(Cardinality(es)) /\ triggerEvent(call[c].key, es)
  /\ Return(c)
  /\ UNCHANGED <<table, epoll, level, idler, timer, stopped>>

-----------------------------------------------------------------------------
\* idle().
In(t, pc) ==
  /\ abort = "none" /\ idler[t].pc = pc
  /\ Overlap \/ \A c \in Callers : call[c].op = "none"

\* Scheduler::stopping(): stop() was called, no task is queued, none runs.
SchedulerStopping ==
  /\ stopped
  /\ \A c \in Callers : call[c].op = "none"
  /\ \A w \in Waiters : waiter[w] # "queued"
  /\ timer # "queued"

\* Mutant: the registered events are not counted.
StoppingWhilePending == SchedulerStopping /\ timer = "none"
stopping == SchedulerStopping /\ pending = 0 /\ timer = "none"

\* run() comes to idle() only when it finds no task.
TestStop(t) ==
  /\ In(t, "test")
  /\ Overlap \/ (timer # "queued" /\ \A w \in Waiters : waiter[w] # "queued")
  /\ idler' = [idler EXCEPT ![t].pc = IF stopping THEN "left" ELSE "wait"]
  /\ UNCHANGED <<table, ctx, pending, epoll, level, call, waiter, wakes, timer,
                 stopped, abort>>

\* epoll_wait returns with the ready list or after the timeout; a timer that
\* has expired is handed to the scheduler.  A level-triggered entry stays on
\* the list while it is ready.
Wait(t) ==
  /\ In(t, "wait")
  /\ LET ready == {f \in Fds : epoll[f].ready /\ Reported(f) # {}}
     IN  /\ idler' = [idler EXCEPT ![t].pc = "batch", ![t].batch =
                {[key |-> <<f, epoll[f].fill>>, events |-> Reported(f)] : f \in ready}]
         /\ epoll' = [f \in Fds |->
                [epoll[f] EXCEPT !.ready = f \in ready /\ ~epoll[f].et]]
  /\ \/ timer = "set" /\ timer' = "queued"
     \/ UNCHANGED timer
  /\ UNCHANGED <<table, ctx, pending, level, call, waiter, wakes, stopped, abort>>

\* real_event: HUP counts as whatever is waited for.  Mutant: EPOLLIN is taken
\* for WRITE and EPOLLOUT for READD.
RealSwapped(r) == {e \in Events : \E f \in r.events \cap Events : f # e}
Real(r) == IF "HUP" \in r.events THEN (r.events \cap Events) \cup ctx[r.key].event
           ELSE r.events

\* _event is read without the context's mutex.
Look(t, r) ==
  /\ In(t, "batch")
  /\ r \in idler[t].batch
  /\ LET real == Real(r)
         event == ctx[r.key].event
     IN  idler' = [idler EXCEPT ![t] =
           IF event \cap real = {}
           THEN [idler[t] EXCEPT !.batch = @ \ {r}]
           ELSE [pc |-> "ctl", batch |-> idler[t].batch \ {r}, key |-> r.key, real |-> real,
                 seen |-> r.events \cup real, rest |-> event \ real]]
  /\ UNCHANGED <<table, ctx, pending, epoll, level, call, waiter, wakes, timer,
                 stopped, abort>>

\* rt<0: the event is left to whoever changed the entry.  Mutant: rt is ignored.
ResultIgnored(op, f) == FALSE
CtlFailed(op, f) == EpollFails(op, f)

\* events |= EPOLLET|new_event leaves the reported events in the entry.
Ctl(t) ==
  /\ In(t, "ctl")
  /\ LET x == idler[t]
         f == x.key[1]
         op == IF x.rest = {} THEN "DEL" ELSE "MOD"
     IN  IF CtlFailed(op, f)
         THEN /\ idler' = [idler EXCEPT ![t].pc = "batch"]
              /\ UNCHANGED epoll
         ELSE /\ idler' = [idler EXCEPT ![t].pc = "trigger"]
              /\ EpollSet(op, f, Entry(f, x.key[2], x.seen \cup x.rest, TRUE))
  /\ UNCHANGED <<table, ctx, pending, level, call, waiter, wakes, timer, stopped, abort>>

Trigger(t) ==
  /\ In(t, "trigger")
  /\ Dec(Cardinality(idler[t].real))
  /\ triggerEvent(idler[t].key, idler[t].real)
  /\ idler' = [idler EXCEPT ![t] = [NotIdle EXCEPT !.pc = "batch", !.batch = idler[t].batch]]
  /\ UNCHANGED <<table, epoll, level, call, timer, stopped>>

\* swapOut at the end of a round; run() comes back to idle() at its test.
SwapOut(t) ==
  /\ In(t, "batch") /\ idler[t].batch = {}
  /\ idler' = [idler EXCEPT ![t].pc = "test"]
  /\ UNCHANGED <<table, ctx, pending, epoll, level, call, waiter, wakes, timer,
                 stopped, abort>>

-----------------------------------------------------------------------------
\* External: the pool runs what was queued, the descriptors change, the owner
\* calls stop().
RunTask(w) ==
  /\ abort = "none"
  /\ \E t \in Threads : idler[t].pc = "test"
  /\ waiter[w] = "queued"
  /\ waiter' = [waiter EXCEPT ![w] = "done"]
  /\ UNCHANGED <<table, ctx, pending, epoll, level, call, idler, wakes, timer,
                 stopped, abort>>

RunTimer ==
  /\ abort = "none"
  /\ \E t \in Threads : idler[t].pc = "test"
  /\ timer = "queued"
  /\ timer' = "none"
  /\ UNCHANGED <<table, ctx, pending, epoll, level, call, idler, waiter, wakes,
                 stopped, abort>>

\* New data, new room or a hang-up is an edge, also if there was some before.
Arrive(f, e) ==
  /\ abort = "none"
  /\ e \in Conditions
  /\ level' = [level EXCEPT ![f] = @ \cup {e}]
  /\ epoll' = [epoll EXCEPT ![f].ready = @ \/ (epoll[f].in /\ e \in epoll[f].interest \cup {"HUP"})]
  /\ UNCHANGED <<table, ctx, pending, call, idler, waiter, wakes, timer, stopped, abort>>

Drain(f, e) ==
  /\ abort = "none"
  /\ e \in level[f] \ {"HUP"}
  /\ level' = [level EXCEPT ![f] = @ \ {e}]
  /\ UNCHANGED <<table, ctx, pending, epoll, call, idler, waiter, wakes, timer, stopped, abort>>

Stop ==
  /\ abort = "none" /\ ~stopped
  /\ stopped' = TRUE
  /\ UNCHANGED <<table, ctx, pending, epoll, level, call, idler, waiter, wakes, timer, abort>>

-----------------------------------------------------------------------------
CallStep(c) ==
  \/ AddCtl(c) \/ AddMark(c) \/ AddFill(c)
  \/ \E op \in Calls : DelOrCancelCtl(c, op)
  \/ delEvent(c) \/ cancelEvent(c)
  \/ CancelAllCtl(c) \/ cancelAll(c)

IdleStep(t) ==
  \/ TestStop(t) \/ Wait(t)
  \/ \E r \in idler[t].batch : Look(t, r)
  \/ Ctl(t) \/ Trigger(t) \/ SwapOut(t)

Next ==
  \/ \E c \in Callers, w \in Waiters : BeginAdd(c, w)
  \/ \E c \in Callers, op \in Calls, f \in Fds, e \in Events : BeginCall(c, op, f, e)
  \/ \E c \in Callers : CallStep(c)
  \/ \E t \in Threads : IdleStep(t)
  \/ \E w \in Waiters : RunTask(w)
  \/ RunTimer
  \/ \E f \in Fds, e \in Events \cup {"HUP"} : Arrive(f, e) \/ Drain(f, e)
  \/ Stop

Spec == Init /\ [][Next]_vars

\* A thread in idle(), a call and a queued task go on.  Strong fairness of
\* idle(): where one thread does everything, tasks may keep it from idle() for
\* a while, but not for ever.  Nothing is assumed of the descriptors, of new
\* calls and of stop().
Fairness ==
  /\ \A t \in Threads : SF_vars(IdleStep(t))
  /\ \A c \in Callers : WF_vars(CallStep(c))
  /\ \A w \in Waiters : WF_vars(RunTask(w))
  /\ WF_vars(RunTimer)

FairSpec == Spec /\ Fairness

-----------------------------------------------------------------------------
\* No assertion of the code fails and no context outside the table is used.
NoAbort == abort = "none"

\* The assertions one by one.  IOManager.cpp:22: what is triggered is
\* registered.
TriggersRegistered == abort # "trigger"

\* IOManager.cpp:10, reached from addEvent: the event just added is there.
AddedIsRegistered == abort # "getEvent"

\* IOManager.cpp:113: the slot of an event that is not registered is free.
SlotIsFree == abort # "occupied"

\* delEvent has removed a waiter: the event stays in _event and is counted off
\* once more when it fires or is cancelled.
NothingDeleted == \A w \in Waiters : waiter[w] # "deleted"

\* pending_Event_Size_ counts the registered events, of all contexts ever
\* made: only then does stopping() wait for exactly them.
PendingExact ==
  abort = "none" /\ NothingDeleted =>
    pending = Cardinality({ke \in Keys \X Events : ke[2] \in ctx[ke[1]].event})

\* The invariant of the table.
IOInv == TypeOK /\ NoAbort /\ PendingExact

\* A waiter is handed to the scheduler once, by idle() or by a cancellation,
\* and never if it was deleted or its addEvent returned false.
ScheduledOnce ==
  \A w \in Waiters : wakes[w] = IF waiter[w] \in {"queued", "done"} THEN 1 ELSE 0

\* idle() is about to deal with an event of f, or a call is.
Handled(f) ==
  \/ \E t \in Threads :
       \/ idler[t].pc \in {"ctl", "trigger"} /\ idler[t].key[1] = f
       \/ \E r \in idler[t].batch : r.key[1] = f
  \/ \E c \in Callers : call[c].pc = "finish" /\ call[c].key[1] = f

\* If what a waiter waits for holds, then epoll has it on its ready list or a
\* thread is dealing with it: an edge taken from epoll is not dropped.
NoLostEvent ==
  \A w \in Waiters :
    LET f == Use[w].fd
    IN  abort = "none" /\ waiter[w] = "waiting" /\ Use[w].event \in level[f]
          => Handled(f) \/ (epoll[f].ready /\ Use[w].event \in Reported(f))

\* idle() is left for good only when nothing waits, neither for a descriptor
\* nor for a timer.
StopsEmpty ==
  (\E t \in Threads : idler[t].pc = "left") /\ NothingDeleted =>
    timer = "none" /\ \A w \in Waiters : waiter[w] \notin {"calling", "waiting", "queued"}

\* Several threads may look at the same event, since none takes the context's
\* mutex, but epoll_ctl lets only one of them go on to trigger it.
OneHandler ==
  \A t, u \in Threads :
    t # u /\ idler[t].pc = "trigger" /\ idler[u].pc = "trigger"
      => idler[t].key # idler[u].key \/ idler[t].real \cap idler[u].real = {}

\* A waiter whose event holds is eventually handed to the scheduler, unless
\* somebody else uses the event up, or a deletion has made the count wrong.
ReadyWaiterWoken ==
  \A w \in Waiters :
    waiter[w] = "waiting" /\ Use[w].event \in level[Use[w].fd]
      ~> \/ waiter[w] # "waiting" \/ Use[w].event \notin level[Use[w].fd]
         \/ ~NothingDeleted

\* Once stop() was called and nothing waits any more, every thread leaves.
ThreadsLeave ==
  stopped /\ timer = "none"
      /\ (\A w \in Waiters : waiter[w] \in {"new", "refused", "queued", "done"})
    ~> \A t \in Threads : idler[t].pc = "left"
=============================================================================
