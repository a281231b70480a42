---------------------------- MODULE TimerManager ----------------------------
(***************************************************************************)
(* sylar::TimerManager and sylar::Timer (sylar/timer.h, timer.cpp), used   *)
(* by the idle loop of IOManager's threads and by the owners of timers.    *)
(*                                                                         *)
(* timers_ is a std::set ordered by Timer::Comparator, which is a partial  *)
(* order only: of two timers one precedes the other if it has the smaller  *)
(* address and no earlier deadline.  What the tree does with such an order *)
(* is well defined as long as the timers in it are a chain (ChainOrdered): *)
(* then those that precede a timer are its first elements and those that   *)
(* follow it its last, so that no search depends on the tree's shape, and  *)
(* the set can be modelled as a set.                                       *)
(*                                                                         *)
(* One action is one critical section of TimerManager::mutex_, or one      *)
(* access to the set by cancel, reset and refresh, which do not take that  *)
(* mutex but the timer's.  Each access is atomic in the model.  Use of an  *)
(* iterator or a reference whose element is gone sets corrupt, and there   *)
(* the model ends.                                                         *)
(***************************************************************************)
EXTENDS Integers

CONSTANTS
  Timers,       \* the timers that are made; each is its address
  Recurring,    \* those that recur
  Periods,      \* the values of ms
  Idlers,       \* the threads in IOManager::idle
  NoTimer,      \* end(), or no iterator at all
  Stale,        \* an iterator or reference to an element that is gone
  Hour,         \* 60*60*1000
  MinClock,     \* bound: the lowest value of the clock
  MaxClock,     \* bound: the highest value of the clock, and of new deadlines
  MaxCalls,     \* bound: the calls of cancel, reset and refresh
  MaxSetbacks   \* bound: how often the clock is set back

\* The clock is past the first hour of the epoch: previous_timr_ - Hour, which
\* is unsigned, does not wrap.
ASSUME TimerAssumption ==
  /\ Timers \subseteq Nat
  /\ Recurring \subseteq Timers
  /\ Periods \subseteq Nat
  /\ NoTimer \notin Nat
  /\ Stale \notin Nat
  /\ NoTimer # Stale
  /\ Hour \in Nat
  /\ MinClock \in Nat \ {0}
  /\ Hour <= MinClock
  /\ MaxClock \in Nat
  /\ MinClock <= MaxClock
  /\ MaxCalls \in Nat
  /\ MaxSetbacks \in Nat

VARIABLES
  clock,      \* what GetCurrentMs returns
  setbacks,   \* how often it was set back
  timers,     \* *timers_: the timers in the manager's current set
  previous,   \* previous_timr_
  deadline,   \* next_ms_ of each timer
  ms,         \* ms_ of each timer
  cb,         \* whether its cb_ holds a callback
  op,         \* the call its owner is in
  found,      \* the iterator cancel, reset or refresh has found
  calls,      \* how many of these calls there have been
  pc,         \* where each idler is in its loop
  hold,       \* whether getNextTImer's pointer is the manager's set, a set
              \* the manager has replaced by a copy, or none
  front,      \* the timer getNextTImer's reference refers to
  now,        \* now_ms of listExpiredCb
  ran,        \* the timers that do not recur and whose callback was handed out
  cancelled,  \* the timers cancel was called for
  corrupt     \* undefined behaviour has occurred

clockVars == <<clock, setbacks>>
setVars == <<timers, previous>>
timerVars == <<deadline, ms, cb>>
callVars == <<op, found, calls>>
idleVars == <<pc, hold, front, now>>
history == <<ran, cancelled>>
vars == <<clockVars, setVars, timerVars, callVars, idleVars, history, corrupt>>

TypeOK ==
  /\ clock \in MinClock..MaxClock
  /\ setbacks \in 0..MaxSetbacks
  /\ timers \subseteq Timers
  /\ previous \in MinClock..MaxClock
  /\ deadline \in [Timers -> Nat]
  /\ ms \in [Timers -> Nat]
  /\ cb \in [Timers -> BOOLEAN]
  /\ op \in [Timers -> {"none", "insert", "free", "cancel", "reset", "refresh"}]
  /\ found \in [Timers -> Timers \cup {NoTimer, Stale}]
  /\ calls \in 0..MaxCalls
  /\ pc \in [Idlers -> {"next", "look", "answer", "wait", "expire"}]
  /\ hold \in [Idlers -> {"none", "shared", "own"}]
  /\ front \in [Idlers -> Timers \cup {NoTimer, Stale}]
  /\ now \in [Idlers -> MinClock..MaxClock]
  /\ ran \subseteq Timers \ Recurring
  /\ cancelled \subseteq Timers
  /\ corrupt \in BOOLEAN

Init ==
  /\ clock = MinClock
  /\ setbacks = 0
  /\ timers = {}
  /\ previous = clock
  /\ deadline = [t \in Timers |-> 0]
  /\ ms = [t \in Timers |-> 0]
  /\ cb = [t \in Timers |-> FALSE]
  /\ op = [t \in Timers |-> "none"]
  /\ found = [t \in Timers |-> NoTimer]
  /\ calls = 0
  /\ pc = [w \in Idlers |-> "next"]
  /\ hold = [w \in Idlers |-> "none"]
  /\ front = [w \in Idlers |-> NoTimer]
  /\ now = [w \in Idlers |-> MinClock]
  /\ ran = {}
  /\ cancelled = {}
  /\ corrupt = FALSE

-----------------------------------------------------------------------------
(* The set and its order.                                                  *)

\* Timer::Comparator for timers with the deadlines d and e.  Mutant: the
\* earlier deadline comes first.
PrecedesEarliest(a, d, b, e) == d <= e /\ a < b
Precedes(a, d, b, e) == d >= e /\ a < b

Before(a, b) == Precedes(a, deadline[a], b, deadline[b])

\* begin() of a set that is not empty.
Front(S) == CHOOSE t \in S : \A u \in S : t <= u

\* find(t): the first element that neither precedes t nor follows it, which
\* need not be t.
Find(t) ==
  LET equivalent == {u \in timers : ~Before(u, t) /\ ~Before(t, u)}
  IN  IF equivalent = {} THEN NoTimer ELSE Front(equivalent)

\* insert(t), with deadline d: t is dropped unless it is comparable with every
\* element.  Mutant: it is always inserted.
InsertAlways(S, t, d) == S \cup {t}
InsertInto(S, t, d) ==
  IF \A u \in S : Precedes(u, deadline[u], t, d) \/ Precedes(t, d, u, deadline[u])
    THEN S \cup {t}
    ELSE S

\* if(!timers_.unique()) timers_.reset(new std::set(*timers_)): a set that a
\* reader holds is left to it, and iterators into it are of no use any more.
CopyOnWrite ==
  hold' = [w \in Idlers |-> IF hold[w] = "shared" THEN "own" ELSE hold[w]]
FoundAfterCopy ==
  [t \in Timers |->
     IF found[t] = NoTimer \/ \A w \in Idlers : hold[w] # "shared"
       THEN found[t]
       ELSE Stale]

-----------------------------------------------------------------------------
(* The clock, which can be set back.                                       *)

Tick ==
  /\ clock < MaxClock
  /\ clock' = clock + 1
  /\ UNCHANGED <<setbacks, setVars, timerVars, callVars, idleVars, history, corrupt>>

SetBack ==
  /\ setbacks < MaxSetbacks
  /\ setbacks' = setbacks + 1
  /\ clock' \in MinClock..(clock - 1)
  /\ UNCHANGED <<setVars, timerVars, callVars, idleVars, history, corrupt>>

\* A deadline m from now.
DeadlineAfter(m) == clock + m

-----------------------------------------------------------------------------
(* addTimer.                                                               *)

\* The constructor of Timer, before the mutex is taken.
New(t) ==
  /\ op[t] = "none"
  /\ \E m \in Periods :
       /\ DeadlineAfter(m) <= MaxClock
       /\ ms' = [ms EXCEPT ![t] = m]
       /\ deadline' = [deadline EXCEPT ![t] = DeadlineAfter(m)]
  /\ cb' = [cb EXCEPT ![t] = TRUE]
  /\ op' = [op EXCEPT ![t] = "insert"]
  /\ UNCHANGED <<clockVars, setVars, found, calls, idleVars, history, corrupt>>

\* The critical section, of addTimer(ms, cb, recuring) and of addTimer(timer).
Insert(t) ==
  /\ op[t] = "insert"
  /\ op' = [op EXCEPT ![t] = "free"]
  /\ CopyOnWrite
  /\ found' = FoundAfterCopy
  /\ timers' = InsertInto(timers, t, deadline[t])
  /\ UNCHANGED <<clockVars, previous, timerVars, calls, pc, front, now, history, corrupt>>

-----------------------------------------------------------------------------
(* cancel, reset and refresh, under the mutex of timer t: the search ...    *)

Call(t) ==
  /\ op[t] = "free"
  /\ calls < MaxCalls
  /\ calls' = calls + 1

\* The call returns at once if find() returned end().
Search(t, name) ==
  /\ found' = [found EXCEPT ![t] = Find(t)]
  /\ op' = [op EXCEPT ![t] = IF Find(t) = NoTimer THEN "free" ELSE name]

\* Mutant: the callback is kept.
KeepCallback(t) == cb
ClearCallback(t) == [cb EXCEPT ![t] = FALSE]

Cancel(t) ==
  /\ Call(t)
  /\ cb' = ClearCallback(t)
  /\ cancelled' = cancelled \cup {t}
  /\ Search(t, "cancel")
  /\ UNCHANGED <<clockVars, setVars, deadline, ms, idleVars, ran, corrupt>>

\* reset returns at once if there is no callback.
Reset(t) ==
  /\ Call(t) /\ cb[t]
  /\ Search(t, "reset")
  /\ UNCHANGED <<clockVars, setVars, timerVars, idleVars, history, corrupt>>

Refresh(t) ==
  /\ Call(t)
  /\ cb' = [cb EXCEPT ![t] = FALSE]
  /\ Search(t, "refresh")
  /\ UNCHANGED <<clockVars, setVars, deadline, ms, idleVars, history, corrupt>>

(* ... and the erase of what was found, in the set the manager has now,    *)
(* whoever else holds it.                                                  *)

Erase(t) ==
  /\ found[t] \in Timers
  /\ found' = [x \in Timers |-> IF x = t THEN NoTimer
                                ELSE IF found[x] = found[t] THEN Stale
                                ELSE found[x]]
  /\ front' = [w \in Idlers |->
                 IF hold[w] = "shared" /\ front[w] = found[t] THEN Stale ELSE front[w]]

CancelErase(t) ==
  /\ op[t] = "cancel"
  /\ Erase(t)
  /\ timers' = timers \ {found[t]}
  /\ op' = [op EXCEPT ![t] = "free"]
  /\ UNCHANGED <<clockVars, previous, timerVars, calls, pc, hold, now, history,
                 corrupt>>

\* reset sets ms_ and next_ms_ next, and calls addTimer.
ResetErase(t) ==
  /\ op[t] = "reset"
  /\ Erase(t)
  /\ timers' = timers \ {found[t]}
  /\ \E m \in Periods :
       /\ DeadlineAfter(m) <= MaxClock
       /\ ms' = [ms EXCEPT ![t] = m]
       /\ deadline' = [deadline EXCEPT ![t] = DeadlineAfter(m)]
  /\ op' = [op EXCEPT ![t] = "insert"]
  /\ UNCHANGED <<clockVars, previous, cb, calls, pc, hold, now, history,
                 corrupt>>

\* refresh inserts without the manager's mutex.
RefreshErase(t) ==
  /\ op[t] = "refresh"
  /\ DeadlineAfter(ms[t]) <= MaxClock
  /\ Erase(t)
  /\ deadline' = [deadline EXCEPT ![t] = DeadlineAfter(ms[t])]
  /\ timers' = InsertInto(timers \ {found[t]}, t, DeadlineAfter(ms[t]))
  /\ op' = [op EXCEPT ![t] = "free"]
  /\ UNCHANGED <<clockVars, previous, ms, cb, calls, pc, hold, now, history,
                 corrupt>>

EraseStale(t) ==
  /\ op[t] \in {"cancel", "reset", "refresh"}
  /\ found[t] = Stale
  /\ corrupt' = TRUE
  /\ UNCHANGED <<clockVars, setVars, timerVars, callVars, idleVars, history>>

-----------------------------------------------------------------------------
(* The idle loop: getNextTImer, epoll_wait, listExpiredCb, scheduler().    *)

Step(w, from, to) == pc[w] = from /\ pc' = [pc EXCEPT ![w] = to]

\* getNextTImer copies timers_ under the mutex ...
Snapshot(w) ==
  /\ Step(w, "next", "look")
  /\ hold' = [hold EXCEPT ![w] = "shared"]
  /\ UNCHANGED <<clockVars, setVars, timerVars, callVars, front, now, history,
                 corrupt>>

\* ... and without it takes a reference to the first element, if there is one.
Look(w) ==
  /\ Step(w, "look", "answer")
  /\ front' = [front EXCEPT ![w] =
                 IF hold[w] = "shared" /\ timers # {} THEN Front(timers) ELSE NoTimer]
  /\ UNCHANGED <<clockVars, setVars, timerVars, callVars, hold, now, history,
                 corrupt>>

\* How long epoll_wait then takes is up to the fds too.
Answer(w) ==
  /\ Step(w, "answer", "wait")
  /\ front[w] # Stale
  /\ hold' = [hold EXCEPT ![w] = "none"]
  /\ front' = [front EXCEPT ![w] = NoTimer]
  /\ UNCHANGED <<clockVars, setVars, timerVars, callVars, now, history, corrupt>>

AnswerStale(w) ==
  /\ pc[w] = "answer"
  /\ front[w] = Stale
  /\ corrupt' = TRUE
  /\ UNCHANGED <<clockVars, setVars, timerVars, callVars, idleVars, history>>

\* listExpiredCb reads the clock before it takes the mutex.
ReadClock(w) ==
  /\ Step(w, "wait", "expire")
  /\ now' = [now EXCEPT ![w] = clock]
  /\ UNCHANGED <<clockVars, setVars, timerVars, callVars, hold, front, history,
                 corrupt>>

\* detectClockRollover.
RolledOver(n) == n < previous /\ n < previous - Hour

\* next_ms_ of the timer listExpiredCb makes to search with: its constructor
\* ignores the argument.  Mutant: it does not.
NowTimerArgument(n) == n
NowTimerDeadline(n) == 0

\* The elements before upper_bound() of that timer, or all of them.
Expired(n) ==
  {t \in timers :
     RolledOver(n) \/ \A u \in timers : u <= t => NowTimerDeadline(n) < deadline[u]}

\* Whether listExpiredCb goes on after the look at begin().
Due(n) == timers # {} /\ (RolledOver(n) \/ deadline[Front(timers)] <= n)

\* Those of the recurring timers R that can be put back, one after the other:
\* insertion in the order of their addresses drops each that has a longer
\* period than one before it.
PutBack(R) == {t \in R : \A u \in R : u < t => ms[u] >= ms[t]}

\* Mutant: the callback of a timer that does not recur is kept.
CallbackKept(t) == cb[t]
CallbackAfter(t) == cb[t] /\ t \in Recurring

\* The timers whose cb_ the idler w copies to cbs_ in its next step.
HandedOut(w) ==
  IF pc[w] = "expire" /\ Due(now[w]) THEN Expired(now[w]) ELSE {}

\* The critical section, after which idle() passes cbs_ to the scheduler.
Expire(w) ==
  LET E == HandedOut(w)
      R == E \cap Recurring
  IN  /\ Step(w, "expire", "next")
      /\ CopyOnWrite
      /\ found' = [t \in Timers |-> IF found[t] \in E THEN Stale ELSE FoundAfterCopy[t]]
      /\ previous' = IF timers = {} THEN previous ELSE now[w]
      /\ deadline' = [t \in Timers |-> IF t \in R THEN now[w] + ms[t] ELSE deadline[t]]
      /\ cb' = [t \in Timers |-> IF t \in E THEN CallbackAfter(t) ELSE cb[t]]
      /\ timers' = (timers \ E) \cup PutBack(R)
      /\ ran' = ran \cup {t \in E \ Recurring : cb[t]}
      /\ now' = [now EXCEPT ![w] = MinClock]
      /\ UNCHANGED <<clockVars, ms, op, calls, front, cancelled, corrupt>>

\* After undefined behaviour nothing is claimed any more.
Corrupted == corrupt /\ UNCHANGED vars

-----------------------------------------------------------------------------
Owner(t) ==
  \/ New(t)
  \/ Insert(t)
  \/ Cancel(t)
  \/ Reset(t)
  \/ Refresh(t)
  \/ CancelErase(t)
  \/ ResetErase(t)
  \/ RefreshErase(t)
  \/ EraseStale(t)

Idle(w) ==
  \/ Snapshot(w)
  \/ Look(w)
  \/ Answer(w)
  \/ AnswerStale(w)
  \/ ReadClock(w)
  \/ Expire(w)

Next ==
  \/ /\ ~corrupt
     /\ \/ Tick
        \/ SetBack
        \/ \E t \in Timers : Owner(t)
        \/ \E w \in Idlers : Idle(w)
  \/ Corrupted

Spec == Init /\ [][Next]_vars

\* Time passes, and every idler goes round its loop: epoll_wait returns after
\* three seconds at the latest.
FairSpec ==
  Spec /\ WF_vars(~corrupt /\ Tick) /\ \A w \in Idlers : WF_vars(~corrupt /\ Idle(w))

-----------------------------------------------------------------------------
(* Safety.                                                                 *)

\* Any two timers in the set are comparable, whatever owners and idlers do: a
\* timer's deadline and address never change while it is in the set, and
\* nothing is inserted that does not fit.  All of std::set's promises, and
\* this model of it, rest on that.
ChainOrdered ==
  \A a, b \in timers : a < b => deadline[a] >= deadline[b]

\* listExpiredCb hands out no timer before its deadline, by the clock it has
\* read, unless the clock was set back by more than an hour: it hands out all
\* timers at once, but the first has the latest deadline of all.
NoEarlyFire ==
  [][\A w \in Idlers : Expire(w) /\ now[w] >= previous - Hour =>
       \A t \in HandedOut(w) : deadline[t] <= now[w]]_vars

\* The callback of a timer that does not recur is handed out at most once, even
\* if its owner resets or refreshes it, or another timer, at any moment.
FiresOnce ==
  [][\A w \in Idlers, t \in Timers \ Recurring :
       Expire(w) /\ t \in HandedOut(w) /\ cb[t] => t \notin ran]_vars

\* Once cancel was called for a timer, listExpiredCb hands out its callback no
\* more, even if the timer is not removed, or is put back by reset or refresh.
CancelIsFinal ==
  [][\A w \in Idlers, t \in Timers :
       Expire(w) /\ t \in HandedOut(w) /\ cb[t] => t \notin cancelled]_vars

\* A timer that reset is about to insert again still has its callback and is
\* not in the set, although listExpiredCb clears callbacks without taking the
\* timer's mutex: the assertions on cb_ in reset and addTimer.
ReinsertedIsArmed ==
  \A t \in Timers : op[t] = "insert" => cb[t] /\ t \notin timers

-----------------------------------------------------------------------------
(* Why that is so: an inductive invariant.                                 *)

InCall == {"cancel", "reset", "refresh"}

\* The iterator of a call that is between search and erase is stale or points
\* into the manager's set, at the timer itself or at another one when the timer
\* is not in the set; nobody else has an iterator.
IteratorOK ==
  \A t \in Timers :
    /\ op[t] \notin InCall => found[t] = NoTimer
    /\ op[t] \in InCall => found[t] # NoTimer
    /\ found[t] \in Timers => found[t] \in timers /\ (t \in timers => found[t] = t)

\* What holds of a timer at each point of its owner's calls.
OwnerOK ==
  \A t \in Timers :
    /\ op[t] = "none" => t \notin timers \cup ran \cup cancelled
    /\ op[t] # "none" => deadline[t] > 0
    /\ op[t] = "reset" /\ found[t] \in Timers => cb[t]

\* A callback that must not be handed out again is gone.
SpentOK == \A t \in ran \cup cancelled : ~cb[t]

\* The reasons for the properties above.
IInv ==
  TypeOK /\ ChainOrdered /\ ReinsertedIsArmed /\ IteratorOK /\ OwnerOK /\ SpentOK

-----------------------------------------------------------------------------
(* What the code does not keep.                                            *)

\* addTimer adds the timer.
AddedIsPending ==
  [][\A t \in Timers : op[t] = "insert" /\ op'[t] = "free" => t \in timers']_vars

\* Every function listExpiredCb hands to the scheduler can be called.
NoEmptyCallback ==
  [][\A w \in Idlers, t \in Timers : Expire(w) /\ t \in HandedOut(w) => cb[t]]_vars

\* The set is modified only by a thread that is its only owner.
WritersOwnTheSet ==
  [][timers' # timers => \A w \in Idlers : hold'[w] # "shared"]_vars

-----------------------------------------------------------------------------
(* Liveness.                                                               *)

\* A timer in the set that does not recur leaves it: it is delivered or cancelled.
EveryTimerLeaves ==
  \A t \in Timers \ Recurring : t \in timers ~> (t \notin timers \/ corrupt)
=============================================================================
