-------------------------- MODULE IOManager_proofs --------------------------
(***************************************************************************)
(* For any descriptors and waiters.  In turns: with one thread, and where  *)
(* nothing is done that the findings are about, no assertion fails, the    *)
(* count of registered events is exact, no event is lost, and idle() is    *)
(* left when nothing waits.  With any number of threads: an event has one  *)
(* handler.                                                                *)
(***************************************************************************)
EXTENDS IOManager, FiniteSetTheorems, TLAPS

\* One thread, the descriptors of the table's first growth, and one waiter for
\* each, which waits for READD if cancelAll is called.
InTurns ==
  /\ ~Overlap
  /\ \A w \in Waiters : Use[w].fd >= 2
  /\ \A v, w \in Waiters : Use[v].fd = Use[w].fd => v = w
  /\ "cancelAll" \in Calls => \A w \in Waiters : Use[w].event = "READD"

Fd(w) == Use[w].fd
Ev(w) == Use[w].event
Ctx(w, j) == ctx[<<Fd(w), j>>]
\* The event of w is registered in the table's filling j.
Reg(w, j) == Ev(w) \in Ctx(w, j).event
Fills == 0 .. MaxFills
InIdle(t) == idler[t].pc \notin {"test", "left"}

\* A context holds the event of its descriptor's waiter or none, and in one
\* filling of the table at most.
ContextOK(w) ==
  /\ \A j \in Fills :
       /\ Ctx(w, j).event \subseteq {Ev(w)}
       /\ \A e \in Events : Ctx(w, j).slot[e].waiter \in {w, NoWaiter}
       /\ waiter[w] \in {"new", "calling"} => Ctx(w, j).slot[Ev(w)] = FreeSlot
       /\ Reg(w, j) => /\ waiter[w] \in {"calling", "waiting", "deleted"}
                       /\ waiter[w] = "waiting" => Ctx(w, j).slot[Ev(w)].waiter = w
                       /\ waiter[w] = "deleted" => Ctx(w, j).slot[Ev(w)].waiter = NoWaiter
                       /\ epoll[Fd(w)].in => epoll[Fd(w)].fill = j
                       /\ waiter[w] = "calling" =>
                            \E c \in Callers : call[c].pc = "fill" /\ call[c].waiter = w
  /\ \A i, j \in Fills : Reg(w, i) /\ Reg(w, j) => i = j
  /\ waiter[w] = "waiting" => \E j \in Fills : Reg(w, j)

\* epoll's entry asks for what the waiter waits for.
EntryOK(w) ==
  /\ epoll[Fd(w)].in => epoll[Fd(w)].interest = {Ev(w)} /\ waiter[w] # "new"
  /\ epoll[Fd(w)].ready => epoll[Fd(w)].in

Ready(w) == epoll[Fd(w)].in /\ (Ev(w) \in level[Fd(w)] => epoll[Fd(w)].ready)

\* What is known in each step of a call.
CallOK(c) ==
  /\ call[c].op = "none" <=> call[c].pc = "none"
  /\ call[c].op = "addEvent" =>
       \E w \in Waiters, j \in Fills :
         /\ call[c].waiter = w /\ call[c].key = <<Fd(w), j>> /\ call[c].event = Ev(w)
         /\ waiter[w] = "calling"
         /\ call[c].pc \in {"ctl", "mark", "fill"}
         /\ call[c].pc = "ctl" => ~epoll[Fd(w)].in
         /\ call[c].pc # "ctl" => Ready(w) /\ epoll[Fd(w)].fill = j
         /\ call[c].pc = "fill" => Reg(w, j)
  /\ call[c].op \in Calls =>
       /\ call[c].key \in Keys /\ call[c].pc \in {"ctl", "finish"}
       /\ call[c].pc = "finish" =>
            IF call[c].op = "cancelAll" THEN ctx[call[c].key].event # {}
            ELSE call[c].event \in ctx[call[c].key].event

\* What is known in each step of idle().
IdlerOK(t) ==
  /\ idler[t].pc \in {"test", "wait", "left"} => idler[t].batch = {}
  /\ \A r \in idler[t].batch : \E w \in Waiters :
       /\ r.key = <<Fd(w), epoll[Fd(w)].fill>> /\ epoll[Fd(w)].in
       /\ r.events # {} /\ r.events \subseteq {Ev(w), "HUP"}
  /\ \A r, q \in idler[t].batch : r.key[1] = q.key[1] => r = q
  /\ idler[t].pc \in {"ctl", "trigger"} =>
       \E w \in Waiters, j \in Fills :
         /\ idler[t].key = <<Fd(w), j>> /\ idler[t].real = {Ev(w)} /\ Reg(w, j)
         /\ idler[t].pc = "ctl" => idler[t].rest = {} /\ epoll[Fd(w)].in
         /\ \A r \in idler[t].batch : r.key[1] # Fd(w)
  /\ InIdle(t) => \A c \in Callers : call[c].op = "none"

WaiterOK(w) ==
  /\ waiter[w] # "refused"
  /\ waiter[w] = "calling" => \E c \in Callers : call[c].op = "addEvent" /\ call[c].waiter = w
  /\ wakes[w] = IF waiter[w] \in {"queued", "done"} THEN 1 ELSE 0
  /\ waiter[w] = "waiting" => Handled(Fd(w)) \/ Ready(w)

\* A thread that has left, has left nothing behind.
LeftOK ==
  (\E t \in Threads : idler[t].pc = "left") =>
    /\ stopped /\ timer = "none"
    /\ \A c \in Callers : call[c].op = "none"
    /\ \A w \in Waiters : waiter[w] # "queued" /\ (NothingDeleted => waiter[w] # "waiting")

RegisteredSet == {ke \in Keys \X Events : ke[2] \in ctx[ke[1]].event}

TInv ==
  /\ TypeOK
  /\ abort = "none"
  /\ \A w \in Waiters : ContextOK(w) /\ EntryOK(w) /\ WaiterOK(w)
  /\ \A c \in Callers : CallOK(c)
  /\ \A t \in Threads : IdlerOK(t)
  /\ LeftOK
  /\ NothingDeleted => pending = Cardinality(RegisteredSet)

-----------------------------------------------------------------------------
(* Small facts.                                                            *)

LEMMA OneOfEach ==
  ASSUME InTurns
  PROVE  (\A t, u \in Threads : t = u) /\ (\A c, d \in Callers : c = d)
<1>1. ASSUME NEW S, IsFiniteSet(S), Cardinality(S) = 1 PROVE \A x, y \in S : x = y
  BY <1>1, FS_Singleton
<1> QED
  BY <1>1, IOAssumption DEF InTurns

\* Each context belongs to a waiter's descriptor.
LEMMA KeyOfWaiter ==
  ASSUME NEW w \in Waiters
  PROVE  /\ Fd(w) \in Fds /\ Fd(w) \in Nat /\ Ev(w) \in Events
         /\ \A j \in Fills : <<Fd(w), j>> \in Keys
<1>1. Use[w].fd \in Nat /\ Use[w].event \in Events
  BY IOAssumption
<1> QED
  BY <1>1 DEF Keys, Fds, Fills, Fd, Ev

LEMMA WaiterOfKey ==
  ASSUME NEW k \in Keys
  PROVE  \E w \in Waiters, j \in Fills : k = <<Fd(w), j>> /\ k[1] = Fd(w) /\ k[2] = j
BY DEF Keys, Fds, Fills, Fd

LEMMA WaiterOfFd == ASSUME NEW f \in Fds PROVE \E w \in Waiters : f = Fd(w)
BY DEF Fds, Fd

-----------------------------------------------------------------------------
(* Counting.                                                               *)

LEMMA KeysFinite == IsFiniteSet(Keys \X Events)
<1>1. IsFiniteSet(Fds)
  <2>1. PICK g : g = [w \in Waiters |-> Fd(w)]
    OBVIOUS
  <2>2. g \in Surjection(Waiters, Fds)
    BY <2>1 DEF Surjection, Fds, Fd
  <2> QED
    BY <2>2, FS_Surjection, IOAssumption
<1>2. IsFiniteSet(0 .. MaxFills)
  BY FS_Interval, IOAssumption
<1>3. IsFiniteSet(Keys)
  BY <1>1, <1>2, FS_Product DEF Keys
<1>4. IsFiniteSet(Events)
  <2>1. IsFiniteSet({"READD"})
    BY FS_Singleton
  <2>2. IsFiniteSet({"READD"} \cup {"WRITE"})
    BY <2>1, FS_AddElement
  <2>3. Events = {"READD"} \cup {"WRITE"}
    BY DEF Events
  <2> QED
    BY <2>2, <2>3
<1> QED
  BY <1>3, <1>4, FS_Product

LEMMA RegisteredFinite == IsFiniteSet(RegisteredSet)
BY KeysFinite, FS_Subset DEF RegisteredSet

\* pending_Event_Size_ does not wrap around below its bound.
LEMMA SmallRemainder ==
  ASSUME NEW M \in Nat, NEW n \in 0 .. M - 1
  PROVE  n % M = n
OBVIOUS

\* At most one event is registered for each waiter.
LEMMA OnePerWaiter ==
  ASSUME NEW R \in SUBSET (Keys \X Events),
         \A ke \in R : \E w \in Waiters, j \in Fills : ke = <<<<Fd(w), j>>, Ev(w)>>,
         \A a, b \in R : a[1][1] = b[1][1] => a = b
  PROVE  Cardinality(R) \in Nat /\ Cardinality(R) <= Cardinality(Waiters)
<1> DEFINE of(ke) == CHOOSE w \in Waiters : Fd(w) = ke[1][1]
           g == [ke \in R |-> of(ke)]
<1>1. ASSUME NEW ke \in R PROVE of(ke) \in Waiters /\ Fd(of(ke)) = ke[1][1]
  <2>1. PICK w \in Waiters, j \in Fills : ke = <<<<Fd(w), j>>, Ev(w)>>
    OBVIOUS
  <2>2. Fd(w) = ke[1][1]
    BY <2>1
  <2> QED
    BY <2>2
<1>2. /\ g \in [R -> Waiters] /\ DOMAIN g = R
      /\ \A ke \in R : g[ke] = of(ke)
  BY <1>1
<1> HIDE DEF g, of
<1>3. g \in Injection(R, Waiters)
  BY <1>1, <1>2 DEF Injection, IsInjective
<1>4. Cardinality(R) <= Cardinality(Waiters)
  BY <1>3, FS_Injection, IOAssumption
<1>5. IsFiniteSet(R)
  BY KeysFinite, FS_Subset
<1> QED
  BY <1>4, <1>5, FS_CardinalityType

LEMMA InitTInv == Init => TInv
<1> SUFFICES ASSUME Init PROVE TInv
  OBVIOUS
<1>1. TypeOK
  <2>1. \A f \in Fds : f \in Nat
    BY IOAssumption DEF Fds
  <2>2. 0 \in 0 .. MaxSize - 1 /\ 0 \in 0 .. MaxFills
    <3>1. Cardinality(Waiters) \in Nat
      BY FS_CardinalityType, IOAssumption
    <3> QED
      BY <3>1, IOAssumption
  <2>3. ctx \in [Keys -> FdContex]
    BY DEF Init, NewContex, FreeSlot, FdContex
  <2>4. epoll \in [Fds -> [in : BOOLEAN, fill : 0 .. MaxFills, et : BOOLEAN,
                           interest : SUBSET (Events \cup {"HUP"}), ready : BOOLEAN]]
    BY <2>2 DEF Init, NoEntry
  <2>5. call \in [Callers -> Call]
    <3>1. NoCall \in Call
      BY DEF Call, NoCall, Events
    <3> QED
      BY <3>1 DEF Init
  <2>6. idler \in [Threads -> Idler]
    <3>1. NotIdle \in Idler
      BY DEF NotIdle, Idler
    <3> QED
      BY <3>1 DEF Init
  <2>7. table \in [size : Nat, fill : 0 .. MaxFills] /\ pending \in 0 .. MaxSize - 1
    BY <2>2 DEF Init
  <2>8. /\ level \in [Fds -> SUBSET Conditions] /\ wakes \in [Waiters -> 0 .. 2]
        /\ waiter \in [Waiters -> {"new", "calling", "refused", "waiting",
                                   "deleted", "queued", "done"}]
    BY DEF Init
  <2> QED
    BY <2>3, <2>4, <2>5, <2>6, <2>7, <2>8 DEF Init, TypeOK
<1>2. \A k \in Keys : ctx[k] = NewContex
  BY DEF Init
<1>3. ASSUME NEW w \in Waiters PROVE ContextOK(w) /\ EntryOK(w) /\ WaiterOK(w)
  <2>1. /\ \A j \in Fills : Ctx(w, j) = NewContex
        /\ waiter[w] = "new" /\ wakes[w] = 0 /\ epoll[Fd(w)] = NoEntry
    <3>1. Fd(w) \in Fds /\ \A j \in Fills : <<Fd(w), j>> \in Keys
      BY KeyOfWaiter
    <3> QED
      BY <1>2, <3>1 DEF Init, Ctx
  <2>2. /\ \A j \in Fills : Ctx(w, j).event = {}
        /\ \A j \in Fills, e \in Events : Ctx(w, j).slot[e] = FreeSlot
    BY <2>1 DEF NewContex
  <2>3. Ev(w) \in Events
    BY KeyOfWaiter
  <2>4. ContextOK(w)
    <3>1. \A j \in Fills : ~Reg(w, j)
      BY <2>2 DEF Reg
    <3>2. \A j \in Fills, e \in Events : Ctx(w, j).slot[e].waiter = NoWaiter
      BY <2>2 DEF FreeSlot
    <3> QED
      BY <2>1, <2>2, <2>3, <3>1, <3>2 DEF ContextOK
  <2>5. EntryOK(w)
    BY <2>1 DEF EntryOK, NoEntry
  <2>6. WaiterOK(w)
    BY <2>1 DEF WaiterOK
  <2> QED
    BY <2>4, <2>5, <2>6
<1>4. ASSUME NEW c \in Callers PROVE CallOK(c)
  BY IOAssumption DEF Init, CallOK, NoCall
<1>5. ASSUME NEW t \in Threads PROVE IdlerOK(t)
  BY DEF Init, IdlerOK, NotIdle, InIdle
<1>6. LeftOK
  BY DEF Init, LeftOK, NotIdle
<1>7. pending = Cardinality(RegisteredSet)
  <2>1. RegisteredSet = {}
    BY <1>2 DEF RegisteredSet, NewContex
  <2> QED
    BY <2>1, FS_EmptySet DEF Init
<1> QED
  BY <1>1, <1>3, <1>4, <1>5, <1>6, <1>7 DEF TInv, Init

-----------------------------------------------------------------------------
(* What a step leaves alone.                                               *)

\* RegisteredSet and NothingDeleted depend on the contexts and the waiters.
LEMMA CountKept ==
  ASSUME TInv, UNCHANGED <<ctx, pending>>,
         \A w \in Waiters : waiter'[w] = "deleted" <=> waiter[w] = "deleted"
  PROVE  (NothingDeleted => pending = Cardinality(RegisteredSet))'
<1>1. RegisteredSet' = RegisteredSet
  BY DEF RegisteredSet
<1> QED
  BY <1>1 DEF TInv, NothingDeleted

\* A waiter, its contexts and its entry, when the step is about another one.
LEMMA Untouched ==
  ASSUME TInv, NEW v \in Waiters,
         \A j \in Fills : Ctx(v, j)' = Ctx(v, j),
         epoll'[Fd(v)] = epoll[Fd(v)], level'[Fd(v)] = level[Fd(v)],
         waiter'[v] = waiter[v], wakes'[v] = wakes[v],
         \A c \in Callers : call[c].op = "addEvent" /\ call[c].waiter = v => call'[c] = call[c],
         Handled(Fd(v)) => Handled(Fd(v))'
  PROVE  ContextOK(v)' /\ EntryOK(v)' /\ WaiterOK(v)'
<1>1. ContextOK(v) /\ EntryOK(v) /\ WaiterOK(v)
  BY DEF TInv
<1>2. \A j \in Fills : Reg(v, j)' = Reg(v, j)
  BY DEF Reg
<1>3. ContextOK(v)'
  <2>1. \A c \in Callers : call[c].pc = "fill" => call[c].op = "addEvent"
    BY DEF TInv, TypeOK, Call, CallOK
  <2> QED
    BY <1>1, <1>2, <2>1 DEF ContextOK
<1>4. EntryOK(v)'
  BY <1>1 DEF EntryOK
<1>5. WaiterOK(v)'
  BY <1>1 DEF WaiterOK, Ready
<1> QED
  BY <1>3, <1>4, <1>5

\* While a call is made, the thread is at its test.
LEMMA InCall ==
  ASSUME InTurns, TInv, NEW c \in Callers, call[c].op # "none"
  PROVE  \A t \in Threads : idler[t].pc = "test" /\ idler[t].batch = {}
BY DEF TInv, IdlerOK, InIdle, LeftOK

LEMMA IdlersKept ==
  ASSUME UNCHANGED idler, \A t \in Threads : idler[t].pc = "test" /\ idler[t].batch = {}
  PROVE  (\A t \in Threads : IdlerOK(t)') /\ LeftOK'
BY DEF IdlerOK, InIdle, LeftOK

\* In idle() no call is being made.
LEMMA CallsKept ==
  ASSUME TInv, UNCHANGED call, \A c \in Callers : call[c].op = "none"
  PROVE  \A c \in Callers : CallOK(c)'
<1>1. "none" \notin Calls
  BY IOAssumption
<1> QED
  BY <1>1 DEF CallOK, TInv

-----------------------------------------------------------------------------
(* Steps of the pool, the descriptors and the owner.                       *)

LEMMA RunTaskTInv == ASSUME TInv, NEW w \in Waiters, RunTask(w) PROVE TInv'
<1>1. /\ waiter' = [waiter EXCEPT ![w] = "done"] /\ waiter[w] = "queued"
      /\ UNCHANGED <<table, ctx, pending, epoll, level, call, idler, wakes, timer, stopped, abort>>
      /\ \E t \in Threads : idler[t].pc = "test"
  BY DEF RunTask
<1>2. /\ waiter'[w] = "done" /\ \A v \in Waiters : v # w => waiter'[v] = waiter[v]
      /\ TypeOK'
  BY <1>1 DEF TInv, TypeOK
<1>3. ASSUME NEW v \in Waiters PROVE ContextOK(v)' /\ EntryOK(v)' /\ WaiterOK(v)'
  <2>1. ContextOK(v) /\ EntryOK(v) /\ WaiterOK(v)
    BY DEF TInv
  <2>2. CASE v = w
    <3>1. \A j \in Fills : Ctx(w, j)' = Ctx(w, j) /\ Reg(w, j)' = Reg(w, j) /\ ~Reg(w, j)
      BY <1>1, <2>1, <2>2 DEF ContextOK, Ctx, Reg
    <3>2. ContextOK(w)'
      BY <1>1, <1>2, <2>1, <2>2, <3>1 DEF ContextOK
    <3>3. EntryOK(w)'
      BY <1>1, <1>2, <2>1, <2>2, <3>1 DEF EntryOK
    <3>4. WaiterOK(w)'
      BY <1>1, <1>2, <2>1, <2>2, <3>1 DEF WaiterOK
    <3> QED
      BY <2>2, <3>2, <3>3, <3>4
  <2>3. CASE v # w
    BY <1>1, <1>2, <2>3, Untouched DEF Handled, Ctx
  <2> QED
    BY <2>2, <2>3
<1>4. ASSUME NEW c \in Callers PROVE CallOK(c)'
  <2>1. CallOK(c)
    BY DEF TInv
  <2>2. \A v \in Waiters : Ready(v)' = Ready(v) /\ \A j \in Fills : Reg(v, j)' = Reg(v, j)
    BY <1>1 DEF Ready, Reg, Ctx
  <2> QED
    BY <1>1, <1>2, <2>1, <2>2 DEF CallOK
<1>5. ASSUME NEW t \in Threads PROVE IdlerOK(t)'
  <2>1. IdlerOK(t)
    BY DEF TInv
  <2>2. \A v \in Waiters, j \in Fills : Reg(v, j)' = Reg(v, j)
    BY <1>1 DEF Reg, Ctx
  <2> QED
    BY <1>1, <2>1, <2>2 DEF IdlerOK, InIdle
<1>6. LeftOK'
  BY <1>1, <1>2 DEF TInv, LeftOK, NothingDeleted
<1> QED
  BY <1>1, <1>2, <1>3, <1>4, <1>5, <1>6, CountKept DEF TInv

LEMMA RunTimerTInv == ASSUME TInv, RunTimer PROVE TInv'
<1>1. /\ timer' = "none"
      /\ UNCHANGED <<table, ctx, pending, epoll, level, call, idler, waiter, wakes, stopped, abort>>
  BY DEF RunTimer
<1>2. TypeOK'
  BY <1>1 DEF TInv, TypeOK
<1>3. ASSUME NEW v \in Waiters PROVE ContextOK(v)' /\ EntryOK(v)' /\ WaiterOK(v)'
  BY <1>1, Untouched DEF Handled, Ctx
<1>4. ASSUME NEW c \in Callers PROVE CallOK(c)'
  BY <1>1, ZenonT(40) DEF TInv, CallOK, Reg, Ctx, Ready
<1>5. ASSUME NEW t \in Threads PROVE IdlerOK(t)'
  <2>1. IdlerOK(t)
    BY DEF TInv
  <2> QED
    BY <1>1, <2>1, ZenonT(40) DEF IdlerOK, Reg, Ctx, InIdle
<1>6. LeftOK'
  BY <1>1 DEF TInv, LeftOK, NothingDeleted
<1> QED
  BY <1>1, <1>2, <1>3, <1>4, <1>5, <1>6, CountKept DEF TInv

LEMMA StopTInv == ASSUME TInv, Stop PROVE TInv'
<1>1. /\ stopped' = TRUE
      /\ UNCHANGED <<table, ctx, pending, epoll, level, call, idler, waiter, wakes, timer, abort>>
  BY DEF Stop
<1>2. TypeOK'
  BY <1>1 DEF TInv, TypeOK
<1>3. ASSUME NEW v \in Waiters PROVE ContextOK(v)' /\ EntryOK(v)' /\ WaiterOK(v)'
  BY <1>1, Untouched DEF Handled, Ctx
<1>4. ASSUME NEW c \in Callers PROVE CallOK(c)'
  BY <1>1 DEF TInv, CallOK, Reg, Ctx, Ready
<1>5. ASSUME NEW t \in Threads PROVE IdlerOK(t)'
  <2>1. IdlerOK(t)
    BY DEF TInv
  <2> QED
    BY <1>1, <2>1, ZenonT(40) DEF IdlerOK, Reg, Ctx, InIdle
<1>6. LeftOK'
  BY <1>1 DEF TInv, LeftOK, NothingDeleted
<1> QED
  BY <1>1, <1>2, <1>3, <1>4, <1>5, <1>6, CountKept DEF TInv

\* What the two steps of a descriptor have in common: entries stay, and what
\* becomes true of a descriptor puts its entry on the ready list.
LEMMA DescriptorTInv ==
  ASSUME TInv, TypeOK',
         UNCHANGED <<table, ctx, pending, call, idler, waiter, wakes, timer, stopped, abort>>,
         \A w \in Waiters : epoll'[Fd(w)] = [epoll[Fd(w)] EXCEPT !.ready = epoll'[Fd(w)].ready],
         \A w \in Waiters : epoll[Fd(w)].ready => epoll'[Fd(w)].ready,
         \A w \in Waiters : epoll'[Fd(w)].ready => epoll[Fd(w)].in,
         \A w \in Waiters : Ready(w) => Ready(w)'
  PROVE  TInv'
<1>1. ASSUME NEW w \in Waiters
      PROVE  /\ epoll'[Fd(w)].in = epoll[Fd(w)].in /\ epoll'[Fd(w)].fill = epoll[Fd(w)].fill
             /\ epoll'[Fd(w)].interest = epoll[Fd(w)].interest
  <2>1. epoll[Fd(w)] \in [in : BOOLEAN, fill : 0 .. MaxFills, et : BOOLEAN,
                          interest : SUBSET (Events \cup {"HUP"}), ready : BOOLEAN]
    BY KeyOfWaiter DEF TInv, TypeOK
  <2>2. epoll'[Fd(w)] = [epoll[Fd(w)] EXCEPT !.ready = epoll'[Fd(w)].ready]
    OBVIOUS
  <2>3. PICK r : r = epoll'[Fd(w)].ready
    OBVIOUS
  <2>4. epoll'[Fd(w)] = [epoll[Fd(w)] EXCEPT !.ready = r]
    BY <2>2, <2>3
  <2> QED
    BY <2>1, <2>4
<1>2. ASSUME NEW v \in Waiters PROVE ContextOK(v)' /\ EntryOK(v)' /\ WaiterOK(v)'
  <2>1. ContextOK(v) /\ EntryOK(v) /\ WaiterOK(v)
    BY DEF TInv
  <2>2. \A j \in Fills : Ctx(v, j)' = Ctx(v, j) /\ Reg(v, j)' = Reg(v, j)
    BY DEF Ctx, Reg
  <2>3. Handled(Fd(v))' = Handled(Fd(v))
    BY DEF Handled
  <2>4. ContextOK(v)'
    BY <1>1, <2>1, <2>2 DEF ContextOK
  <2>5. EntryOK(v)'
    BY <1>1, <2>1 DEF EntryOK
  <2>6. WaiterOK(v)'
    BY <2>1, <2>3 DEF WaiterOK
  <2> QED
    BY <2>4, <2>5, <2>6
<1>3. ASSUME NEW c \in Callers PROVE CallOK(c)'
  <2>1. CallOK(c)
    BY DEF TInv
  <2>2. \A w \in Waiters, j \in Fills : Reg(w, j)' = Reg(w, j)
    BY DEF Reg, Ctx
  <2> QED
    BY <1>1, <2>1, <2>2 DEF CallOK
<1>4. ASSUME NEW t \in Threads PROVE IdlerOK(t)'
  <2>1. IdlerOK(t)
    BY DEF TInv
  <2>2. \A w \in Waiters, j \in Fills : Reg(w, j)' = Reg(w, j)
    BY DEF Reg, Ctx
  <2> QED
    BY <1>1, <2>1, <2>2 DEF IdlerOK, InIdle
<1>5. LeftOK'
  BY DEF TInv, LeftOK, NothingDeleted
<1> QED
  BY <1>2, <1>3, <1>4, <1>5, CountKept DEF TInv

LEMMA ArriveTInv ==
  ASSUME TInv, NEW f \in Fds, NEW e \in Events \cup {"HUP"}, Arrive(f, e)
  PROVE  TInv'
<1> DEFINE r == epoll[f].ready \/ (epoll[f].in /\ e \in epoll[f].interest \cup {"HUP"})
<1>1. /\ e \in Conditions
      /\ level' = [level EXCEPT ![f] = level[f] \cup {e}]
      /\ epoll' = [epoll EXCEPT ![f] = [epoll[f] EXCEPT !.ready = r]]
      /\ UNCHANGED <<table, ctx, pending, call, idler, waiter, wakes, timer, stopped, abort>>
  BY DEF Arrive
<1>2. TypeOK
  BY DEF TInv
<1>3. /\ epoll[f] \in [in : BOOLEAN, fill : 0 .. MaxFills, et : BOOLEAN,
                       interest : SUBSET (Events \cup {"HUP"}), ready : BOOLEAN]
      /\ r \in BOOLEAN
  BY <1>2 DEF TypeOK
<1>4. PICK x : x = [epoll[f] EXCEPT !.ready = r]
  OBVIOUS
<1>5. /\ x \in [in : BOOLEAN, fill : 0 .. MaxFills, et : BOOLEAN,
                interest : SUBSET (Events \cup {"HUP"}), ready : BOOLEAN]
      /\ x.ready = r /\ x.in = epoll[f].in /\ x.interest = epoll[f].interest
      /\ x = [epoll[f] EXCEPT !.ready = x.ready]
  BY <1>3, <1>4
<1>6. epoll' = [epoll EXCEPT ![f] = x]
  BY <1>1, <1>4
<1>7. TypeOK'
  BY <1>1, <1>2, <1>5, <1>6, SMTT(30) DEF TypeOK
<1>8. ASSUME NEW w \in Waiters
      PROVE  /\ epoll'[Fd(w)] = [epoll[Fd(w)] EXCEPT !.ready = epoll'[Fd(w)].ready]
             /\ epoll[Fd(w)].ready => epoll'[Fd(w)].ready
             /\ epoll'[Fd(w)].ready => epoll[Fd(w)].in
             /\ Ready(w) => Ready(w)'
  <2>0. EntryOK(w)
    BY DEF TInv
  <2>1. CASE Fd(w) = f
    <3>1. epoll'[f] = x /\ level'[f] = level[f] \cup {e}
      BY <1>1, <1>2, <1>6 DEF TypeOK
    <3> QED
      BY <1>5, <2>0, <2>1, <3>1 DEF EntryOK, Ready
  <2>2. CASE Fd(w) # f
    <3>1. epoll'[Fd(w)] = epoll[Fd(w)] /\ level'[Fd(w)] = level[Fd(w)] /\ Fd(w) \in Fds
      BY <1>1, <1>2, <1>6, <2>2, KeyOfWaiter DEF TypeOK
    <3>2. epoll[Fd(w)] \in [in : BOOLEAN, fill : 0 .. MaxFills, et : BOOLEAN,
                            interest : SUBSET (Events \cup {"HUP"}), ready : BOOLEAN]
      BY <1>2, <3>1 DEF TypeOK
    <3>3. epoll[Fd(w)] = [epoll[Fd(w)] EXCEPT !.ready = epoll[Fd(w)].ready]
      BY <3>2
    <3> QED
      BY <2>0, <3>1, <3>3 DEF EntryOK, Ready
  <2> QED
    BY <2>1, <2>2
<1> QED
  BY <1>1, <1>7, <1>8, DescriptorTInv

LEMMA DrainTInv ==
  ASSUME TInv, NEW f \in Fds, NEW e \in Events \cup {"HUP"}, Drain(f, e)
  PROVE  TInv'
<1>1. /\ level' = [level EXCEPT ![f] = level[f] \ {e}]
      /\ UNCHANGED <<table, ctx, pending, epoll, call, idler, waiter, wakes, timer, stopped, abort>>
  BY DEF Drain
<1>2. TypeOK
  BY DEF TInv
<1>3. TypeOK'
  BY <1>1, <1>2 DEF TypeOK
<1>4. ASSUME NEW w \in Waiters
      PROVE  /\ epoll'[Fd(w)] = [epoll[Fd(w)] EXCEPT !.ready = epoll'[Fd(w)].ready]
             /\ epoll[Fd(w)].ready => epoll'[Fd(w)].ready
             /\ epoll'[Fd(w)].ready => epoll[Fd(w)].in
             /\ Ready(w) => Ready(w)'
  <2>0. EntryOK(w)
    BY DEF TInv
  <2>1. Fd(w) \in Fds /\ level'[Fd(w)] \subseteq level[Fd(w)]
    BY <1>1, <1>2, KeyOfWaiter DEF TypeOK
  <2>2. epoll[Fd(w)] \in [in : BOOLEAN, fill : 0 .. MaxFills, et : BOOLEAN,
                          interest : SUBSET (Events \cup {"HUP"}), ready : BOOLEAN]
    BY <1>2, <2>1 DEF TypeOK
  <2>3. epoll[Fd(w)] = [epoll[Fd(w)] EXCEPT !.ready = epoll[Fd(w)].ready]
    BY <2>2
  <2> QED
    BY <1>1, <2>0, <2>1, <2>3 DEF EntryOK, Ready
<1> QED
  BY <1>1, <1>3, <1>4, DescriptorTInv

-----------------------------------------------------------------------------
(* The steps of idle().                                                    *)

EntryType == [in : BOOLEAN, fill : 0 .. MaxFills, et : BOOLEAN,
              interest : SUBSET (Events \cup {"HUP"}), ready : BOOLEAN]

LEMMA EntryTyped == ASSUME TypeOK, NEW w \in Waiters PROVE epoll[Fd(w)] \in EntryType
BY KeyOfWaiter DEF TypeOK, EntryType

LEMMA AloneInIdle ==
  ASSUME InTurns, NEW t \in Threads, NEW pc, In(t, pc)
  PROVE  /\ \A c \in Callers : call[c].op = "none"
         /\ \A u \in Threads : u = t
         /\ idler[t].pc = pc
BY OneOfEach DEF In, InTurns

\* A step that changes nothing but where the thread is.
LEMMA OnlyIdler ==
  ASSUME InTurns, TInv, NEW t \in Threads, NEW pc, In(t, pc), NEW x \in Idler,
         idler' = [idler EXCEPT ![t] = x],
         UNCHANGED <<table, ctx, pending, epoll, level, call, waiter, wakes, timer, stopped, abort>>,
         IdlerOK(t)', LeftOK',
         \A w \in Waiters : waiter[w] = "waiting" /\ Handled(Fd(w)) => Handled(Fd(w))' \/ Ready(w)
  PROVE  TInv'
<1>1. (\A c \in Callers : call[c].op = "none") /\ (\A u \in Threads : u = t)
  BY AloneInIdle
<1>2. TypeOK'
  BY DEF TInv, TypeOK
<1>3. ASSUME NEW v \in Waiters PROVE ContextOK(v)' /\ EntryOK(v)' /\ WaiterOK(v)'
  <2>1. ContextOK(v) /\ EntryOK(v) /\ WaiterOK(v)
    BY DEF TInv
  <2>2. \A j \in Fills : Ctx(v, j)' = Ctx(v, j) /\ Reg(v, j)' = Reg(v, j)
    BY DEF Ctx, Reg
  <2>3. ContextOK(v)' /\ EntryOK(v)'
    BY <2>1, <2>2 DEF ContextOK, EntryOK
  <2>4. WaiterOK(v)'
    BY <2>1 DEF WaiterOK, Ready
  <2> QED
    BY <2>3, <2>4
<1>4. \A c \in Callers : CallOK(c)'
  BY <1>1, CallsKept
<1>5. \A u \in Threads : IdlerOK(u)'
  BY <1>1
<1> QED
  BY <1>2, <1>3, <1>4, <1>5, CountKept DEF TInv

LEMMA TestStopTInv == ASSUME InTurns, TInv, NEW t \in Threads, TestStop(t) PROVE TInv'
<1> DEFINE x == [idler[t] EXCEPT !.pc = IF stopping THEN "left" ELSE "wait"]
<1>1. /\ In(t, "test") /\ idler' = [idler EXCEPT ![t] = x]
      /\ UNCHANGED <<table, ctx, pending, epoll, level, call, waiter, wakes, timer, stopped, abort>>
  BY DEF TestStop
<1>2. /\ \A c \in Callers : call[c].op = "none"
      /\ \A u \in Threads : u = t
      /\ idler[t].pc = "test"
  BY <1>1, AloneInIdle
<1>3. TypeOK /\ IdlerOK(t)
  BY DEF TInv
<1>4. idler[t] \in Idler /\ idler[t].batch = {}
  BY <1>2, <1>3 DEF TypeOK, IdlerOK
<1>5. PICK y : y = x
  OBVIOUS
<1>6. /\ y \in Idler /\ y.batch = {} /\ y.pc = IF stopping THEN "left" ELSE "wait"
  BY <1>4, <1>5 DEF Idler
<1>7. idler' = [idler EXCEPT ![t] = y] /\ idler'[t] = y
  BY <1>1, <1>3, <1>5 DEF TypeOK
<1>8. IdlerOK(t)'
  BY <1>1, <1>2, <1>6, <1>7 DEF IdlerOK
<1>9. LeftOK'
  <2>1. CASE stopping
    <3>1. /\ stopped /\ timer = "none" /\ pending = 0 /\ \A w \in Waiters : waiter[w] # "queued"
      BY <2>1 DEF stopping, SchedulerStopping
    <3>2. ASSUME NothingDeleted, NEW w \in Waiters, waiter[w] = "waiting" PROVE FALSE
      <4>1. PICK j \in Fills : Reg(w, j)
        BY <3>2 DEF TInv, ContextOK
      <4>2. <<<<Fd(w), j>>, Ev(w)>> \in RegisteredSet
        BY <4>1, KeyOfWaiter DEF RegisteredSet, Reg, Ctx
      <4>3. Cardinality(RegisteredSet) = 0
        BY <3>1, <3>2 DEF TInv
      <4>4. IsFiniteSet(RegisteredSet)
        BY RegisteredFinite
      <4> QED
        BY <4>2, <4>3, <4>4, FS_EmptySet
    <3> QED
      BY <1>1, <1>2, <3>1, <3>2 DEF LeftOK, NothingDeleted
  <2>2. CASE ~stopping
    BY <1>2, <1>6, <1>7, <2>2 DEF LeftOK
  <2> QED
    BY <2>1, <2>2
<1>10. ASSUME NEW w \in Waiters, Handled(Fd(w)) PROVE FALSE
  <2>1. \A c \in Callers : call[c].pc = "none"
    BY <1>2 DEF TInv, CallOK
  <2> QED
    BY <1>2, <1>4, <1>10, <2>1 DEF Handled
<1> QED
  BY <1>1, <1>6, <1>7, <1>8, <1>9, <1>10, OnlyIdler

LEMMA SwapOutTInv == ASSUME InTurns, TInv, NEW t \in Threads, SwapOut(t) PROVE TInv'
<1> DEFINE x == [idler[t] EXCEPT !.pc = "test"]
<1>1. /\ In(t, "batch") /\ idler[t].batch = {} /\ idler' = [idler EXCEPT ![t] = x]
      /\ UNCHANGED <<table, ctx, pending, epoll, level, call, waiter, wakes, timer, stopped, abort>>
  BY DEF SwapOut
<1>2. /\ \A c \in Callers : call[c].op = "none"
      /\ \A u \in Threads : u = t
      /\ idler[t].pc = "batch"
  BY <1>1, AloneInIdle
<1>3. TypeOK
  BY DEF TInv
<1>4. PICK y : y = x
  OBVIOUS
<1>5. y \in Idler /\ y.batch = {} /\ y.pc = "test"
  <2>1. idler[t] \in Idler
    BY <1>3 DEF TypeOK
  <2> QED
    BY <1>1, <1>4, <2>1 DEF Idler
<1>6. idler' = [idler EXCEPT ![t] = y] /\ idler'[t] = y
  BY <1>1, <1>3, <1>4 DEF TypeOK
<1>7. IdlerOK(t)' /\ LeftOK'
  BY <1>1, <1>2, <1>5, <1>6 DEF IdlerOK, InIdle, LeftOK
<1>8. ASSUME NEW w \in Waiters, Handled(Fd(w)) PROVE FALSE
  <2>1. \A c \in Callers : call[c].pc = "none"
    BY <1>2 DEF TInv, CallOK
  <2> QED
    BY <1>1, <1>2, <1>8, <2>1 DEF Handled
<1> QED
  BY <1>1, <1>5, <1>6, <1>7, <1>8, OnlyIdler

\* What a report says of its waiter.
LEMMA ReportFacts ==
  ASSUME TInv, NEW t \in Threads, NEW r \in idler[t].batch
  PROVE  \E w \in Waiters, j \in Fills :
           /\ r.key = <<Fd(w), j>> /\ r.key \in Keys /\ r.key[1] = Fd(w)
           /\ epoll[Fd(w)].in /\ epoll[Fd(w)].fill = j
           /\ r.events # {} /\ r.events \subseteq {Ev(w), "HUP"}
           /\ ctx[r.key] = Ctx(w, j)
           /\ Ctx(w, j).event \subseteq {Ev(w)} /\ (Reg(w, j) => Ctx(w, j).event = {Ev(w)})
<1>1. IdlerOK(t) /\ TypeOK
  BY DEF TInv
<1>2. PICK w \in Waiters : /\ r.key = <<Fd(w), epoll[Fd(w)].fill>> /\ epoll[Fd(w)].in
                           /\ r.events # {} /\ r.events \subseteq {Ev(w), "HUP"}
  BY <1>1 DEF IdlerOK
<1>3. PICK j : j = epoll[Fd(w)].fill
  OBVIOUS
<1>4. j \in Fills
  BY <1>1, <1>3, EntryTyped DEF EntryType, Fills
<1>5. Ctx(w, j).event \subseteq {Ev(w)}
  BY <1>4 DEF TInv, ContextOK
<1> QED
  BY <1>2, <1>3, <1>4, <1>5, KeyOfWaiter DEF Ctx, Reg

LEMMA LookTInv ==
  ASSUME InTurns, TInv, NEW t \in Threads, NEW r \in idler[t].batch, Look(t, r)
  PROVE  TInv'
<1> DEFINE real == Real(r)
           event == ctx[r.key].event
           skip == [idler[t] EXCEPT !.batch = idler[t].batch \ {r}]
           go == [pc |-> "ctl", batch |-> idler[t].batch \ {r}, key |-> r.key, real |-> real,
                  seen |-> r.events \cup real, rest |-> event \ real]
<1>1. /\ In(t, "batch")
      /\ idler' = [idler EXCEPT ![t] = IF event \cap real = {} THEN skip ELSE go]
      /\ UNCHANGED <<table, ctx, pending, epoll, level, call, waiter, wakes, timer, stopped, abort>>
  BY DEF Look
<1>2. /\ \A c \in Callers : call[c].op = "none"
      /\ \A u \in Threads : u = t
      /\ idler[t].pc = "batch"
  BY <1>1, AloneInIdle
<1>3. TypeOK /\ IdlerOK(t) /\ idler[t] \in Idler
  BY DEF TInv, TypeOK
<1>4. PICK w \in Waiters, j \in Fills :
           /\ r.key = <<Fd(w), j>> /\ r.key \in Keys /\ r.key[1] = Fd(w)
           /\ epoll[Fd(w)].in /\ epoll[Fd(w)].fill = j
           /\ r.events # {} /\ r.events \subseteq {Ev(w), "HUP"}
           /\ ctx[r.key] = Ctx(w, j)
           /\ Ctx(w, j).event \subseteq {Ev(w)} /\ (Reg(w, j) => Ctx(w, j).event = {Ev(w)})
  BY ReportFacts
<1>5. Ev(w) \in Events /\ "HUP" \notin Events
  BY KeyOfWaiter DEF Events
<1>6. real \subseteq {Ev(w)} /\ (Reg(w, j) => real = {Ev(w)} /\ event = {Ev(w)})
  <2>1. event \subseteq {Ev(w)} /\ (Reg(w, j) => event = {Ev(w)})
    BY <1>4
  <2>2. CASE "HUP" \in r.events
    <3>1. real = (r.events \cap Events) \cup event
      BY <2>2 DEF Real
    <3>2. r.events \cap Events \subseteq {Ev(w)}
      BY <1>4, <1>5
    <3> QED
      BY <2>1, <3>1, <3>2
  <2>3. CASE "HUP" \notin r.events
    <3>1. real = r.events
      BY <2>3 DEF Real
    <3>2. r.events = {Ev(w)}
      BY <1>4, <2>3
    <3> QED
      BY <2>1, <3>1, <3>2
  <2> QED
    BY <2>2, <2>3
<1>7. event \cap real # {} => Reg(w, j)
  BY <1>4, <1>6 DEF Reg
<1>8. \A q \in idler[t].batch \ {r} : q.key[1] # Fd(w)
  BY <1>3, <1>4 DEF IdlerOK
<1>9. LeftOK'
  BY <1>1, <1>2, <1>3 DEF LeftOK, TypeOK
<1>10. ASSUME NEW v \in Waiters, Handled(Fd(v))
       PROVE  \E q \in idler[t].batch : q.key[1] = Fd(v)
  <2>1. \A c \in Callers : call[c].pc = "none"
    BY <1>2 DEF TInv, CallOK
  <2> QED
    BY <1>2, <1>10, <2>1 DEF Handled
<1>11. CASE event \cap real = {}
  <2>1. PICK y : y = skip
    OBVIOUS
  <2>2. y \in Idler /\ y.batch = idler[t].batch \ {r} /\ y.pc = "batch"
    BY <1>2, <1>3, <2>1 DEF Idler
  <2>3. idler' = [idler EXCEPT ![t] = y] /\ idler'[t] = y
    BY <1>1, <1>3, <1>11, <2>1 DEF TypeOK
  <2>4. IdlerOK(t)'
    BY <1>1, <1>2, <1>3, <2>2, <2>3 DEF IdlerOK
  <2>5. ASSUME NEW v \in Waiters, waiter[v] = "waiting", Handled(Fd(v)) PROVE Handled(Fd(v))'
    <3>1. PICK q \in idler[t].batch : q.key[1] = Fd(v)
      BY <1>10, <2>5
    <3>2. q # r
      <4>1. SUFFICES ASSUME q = r PROVE FALSE
        OBVIOUS
      <4>2. v = w
        BY <1>4, <3>1, <4>1 DEF InTurns, Fd
      <4>3. PICK i \in Fills : Reg(w, i)
        BY <2>5, <4>2 DEF TInv, ContextOK
      <4>4. i = j
        BY <1>4, <4>3 DEF TInv, ContextOK
      <4> QED
        BY <1>6, <1>11, <4>3, <4>4
    <3>3. q \in idler'[t].batch
      BY <2>2, <2>3, <3>2
    <3> QED
      BY <3>1, <3>3 DEF Handled
  <2> QED
    BY <1>1, <1>9, <2>2, <2>3, <2>4, <2>5, OnlyIdler
<1>12. CASE event \cap real # {}
  <2>1. PICK y : y = go
    OBVIOUS
  <2>2. /\ Reg(w, j) /\ real = {Ev(w)} /\ event = {Ev(w)}
    BY <1>6, <1>7, <1>12
  <2>3. /\ y.pc = "ctl" /\ y.batch = idler[t].batch \ {r} /\ y.key = <<Fd(w), j>>
        /\ y.key[1] = Fd(w) /\ y.real = {Ev(w)} /\ y.rest = {}
    BY <1>4, <2>1, <2>2
  <2>4. y \in Idler
    <3>1. /\ idler[t].batch \ {r} \subseteq Reports /\ idler[t].batch \in SUBSET Reports
      BY <1>3 DEF Idler
    <3>2. r.events \cup real \subseteq Events \cup {"HUP"}
      BY <1>4, <1>5, <2>2
    <3> QED
      BY <1>4, <1>5, <2>1, <2>2, <3>1, <3>2 DEF Idler
  <2>5. idler' = [idler EXCEPT ![t] = y] /\ idler'[t] = y
    BY <1>1, <1>3, <1>12, <2>1 DEF TypeOK
  <2>6. Reg(w, j)' /\ epoll'[Fd(w)].in
    BY <1>1, <1>4, <2>2 DEF Reg, Ctx
  <2>7. IdlerOK(t)'
    BY <1>1, <1>2, <1>3, <1>4, <1>8, <2>3, <2>5, <2>6 DEF IdlerOK
  <2>8. ASSUME NEW v \in Waiters, waiter[v] = "waiting", Handled(Fd(v)) PROVE Handled(Fd(v))'
    <3>1. PICK q \in idler[t].batch : q.key[1] = Fd(v)
      BY <1>10, <2>8
    <3>2. CASE q = r
      BY <1>4, <2>3, <2>5, <3>1, <3>2 DEF Handled
    <3>3. CASE q # r
      <4>1. q \in idler'[t].batch
        BY <2>3, <2>5, <3>3
      <4> QED
        BY <3>1, <4>1 DEF Handled
    <3> QED
      BY <3>2, <3>3
  <2> QED
    BY <1>1, <1>9, <2>4, <2>5, <2>7, <2>8, OnlyIdler
<1> QED
  BY <1>11, <1>12

LEMMA WaitTInv == ASSUME InTurns, TInv, NEW t \in Threads, Wait(t) PROVE TInv'
<1> DEFINE S == {f \in Fds : epoll[f].ready /\ Reported(f) # {}}
           B == {[key |-> <<f, epoll[f].fill>>, events |-> Reported(f)] : f \in S}
<1>1. /\ In(t, "wait")
      /\ idler' = [idler EXCEPT ![t].pc = "batch", ![t].batch = B]
      /\ epoll' = [f \in Fds |-> [epoll[f] EXCEPT !.ready = f \in S /\ ~epoll[f].et]]
      /\ timer' \in {timer, "queued"}
      /\ UNCHANGED <<table, ctx, pending, level, call, waiter, wakes, stopped, abort>>
  BY DEF Wait
<1>2. /\ \A c \in Callers : call[c].op = "none"
      /\ \A u \in Threads : u = t
      /\ idler[t].pc = "wait"
  BY <1>1, AloneInIdle
<1>3. TypeOK /\ IdlerOK(t) /\ idler[t] \in Idler /\ \A w \in Waiters : EntryOK(w) /\ ContextOK(w)
  BY DEF TInv, TypeOK
<1>4. ASSUME NEW w \in Waiters
      PROVE  /\ Fd(w) \in Fds /\ epoll[Fd(w)] \in EntryType
             /\ epoll'[Fd(w)] \in EntryType
             /\ epoll'[Fd(w)].in = epoll[Fd(w)].in /\ epoll'[Fd(w)].fill = epoll[Fd(w)].fill
             /\ epoll'[Fd(w)].interest = epoll[Fd(w)].interest
             /\ epoll'[Fd(w)].ready => Fd(w) \in S
             /\ epoll[Fd(w)].fill \in Fills
  <2>1. Fd(w) \in Fds /\ epoll[Fd(w)] \in EntryType
    BY <1>3, KeyOfWaiter, EntryTyped
  <2>2. epoll'[Fd(w)] = [epoll[Fd(w)] EXCEPT !.ready = Fd(w) \in S /\ ~epoll[Fd(w)].et]
    BY <1>1, <2>1
  <2>3. PICK b : b = (Fd(w) \in S /\ ~epoll[Fd(w)].et)
    OBVIOUS
  <2>4. b \in BOOLEAN /\ epoll'[Fd(w)] = [epoll[Fd(w)] EXCEPT !.ready = b]
    BY <2>2, <2>3
  <2> QED
    BY <2>1, <2>3, <2>4 DEF EntryType, Fills
<1>5. ASSUME NEW w \in Waiters, Fd(w) \in S
      PROVE  /\ epoll[Fd(w)].in /\ Reported(Fd(w)) # {} /\ Reported(Fd(w)) \subseteq {Ev(w), "HUP"}
             /\ epoll[Fd(w)].interest = {Ev(w)}
  BY <1>3, <1>5 DEF EntryOK, Reported
<1>6. B \subseteq Reports
  <2>1. ASSUME NEW f \in S PROVE [key |-> <<f, epoll[f].fill>>, events |-> Reported(f)] \in Reports
    <3>1. PICK w \in Waiters : f = Fd(w)
      BY WaiterOfFd
    <3>2. <<f, epoll[f].fill>> \in Keys
      BY <1>4, <3>1, KeyOfWaiter
    <3>3. Reported(f) \in SUBSET (Events \cup {"HUP"})
      BY <1>5, <3>1, KeyOfWaiter
    <3> QED
      BY <3>2, <3>3 DEF Reports
  <2> QED
    BY <2>1
<1>7. PICK y : y = [idler[t] EXCEPT !.pc = "batch", !.batch = B]
  OBVIOUS
<1>8. y \in Idler /\ y.pc = "batch" /\ y.batch = B
  BY <1>3, <1>6, <1>7 DEF Idler
<1>9. idler' = [idler EXCEPT ![t] = y] /\ idler'[t] = y
  BY <1>1, <1>3, <1>7 DEF TypeOK
<1>10. TypeOK'
  <2>1. \A f \in Fds : epoll'[f] \in EntryType
    BY <1>4, WaiterOfFd
  <2>2. epoll' \in [Fds -> EntryType]
    BY <1>1, <2>1
  <2> QED
    BY <1>1, <1>3, <1>8, <1>9, <2>2 DEF TypeOK, EntryType
<1>11. ASSUME NEW v \in Waiters PROVE ContextOK(v)' /\ EntryOK(v)' /\ WaiterOK(v)'
  <2>1. WaiterOK(v)
    BY DEF TInv
  <2>2. \A j \in Fills : Ctx(v, j)' = Ctx(v, j) /\ Reg(v, j)' = Reg(v, j)
    BY <1>1 DEF Ctx, Reg
  <2>3. ContextOK(v)'
    <3>1. epoll'[Fd(v)].in = epoll[Fd(v)].in /\ epoll'[Fd(v)].fill = epoll[Fd(v)].fill
      BY <1>4
    <3>2. ContextOK(v) /\ waiter' = waiter /\ call' = call
      BY <1>1, <1>3
    <3> QED
      BY <2>2, <3>1, <3>2 DEF ContextOK
  <2>4. EntryOK(v)'
    <3>1. epoll'[Fd(v)].ready => epoll[Fd(v)].in
      BY <1>4, <1>5
    <3>2. EntryOK(v)
      BY <1>3
    <3>3. waiter'[v] = waiter[v]
      BY <1>1
    <3> QED
      BY <1>4, <3>1, <3>2, <3>3 DEF EntryOK
  <2>5. ASSUME waiter[v] = "waiting" PROVE Handled(Fd(v))' \/ Ready(v)'
    <3>1. ~Handled(Fd(v))
      <4>1. \A c \in Callers : call[c].pc = "none"
        BY <1>2 DEF TInv, CallOK
      <4>2. idler[t].batch = {}
        BY <1>2, <1>3 DEF IdlerOK
      <4> QED
        BY <1>2, <4>1, <4>2 DEF Handled
    <3>2. Ready(v)
      BY <2>1, <2>5, <3>1 DEF WaiterOK
    <3>3. CASE Ev(v) \in level[Fd(v)]
      <4>1. Ev(v) \in Reported(Fd(v))
        BY <1>3, <3>2, <3>3 DEF Reported, Ready, EntryOK
      <4>2. Fd(v) \in S
        BY <1>4, <3>2, <3>3, <4>1 DEF Ready
      <4>3. PICK r \in B : r.key[1] = Fd(v)
        <5>1. [key |-> <<Fd(v), epoll[Fd(v)].fill>>, events |-> Reported(Fd(v))] \in B
          BY <4>2
        <5> QED
          BY <5>1
      <4>4. r \in idler'[t].batch
        BY <1>8, <1>9
      <4> QED
        BY <4>3, <4>4 DEF Handled
    <3>4. CASE Ev(v) \notin level[Fd(v)]
      BY <1>1, <1>4, <3>2, <3>4 DEF Ready
    <3> QED
      BY <3>3, <3>4
  <2>6. WaiterOK(v)'
    BY <1>1, <2>1, <2>5 DEF WaiterOK
  <2> QED
    BY <2>3, <2>4, <2>6
<1>12. \A c \in Callers : CallOK(c)'
  BY <1>1, <1>2, CallsKept
<1>13. IdlerOK(t)'
  <2>1. ASSUME NEW r \in B
        PROVE  \E w \in Waiters : /\ r.key = <<Fd(w), epoll'[Fd(w)].fill>> /\ epoll'[Fd(w)].in
                                  /\ r.events # {} /\ r.events \subseteq {Ev(w), "HUP"}
    <3>1. PICK f \in S : r = [key |-> <<f, epoll[f].fill>>, events |-> Reported(f)]
      OBVIOUS
    <3>2. PICK w \in Waiters : f = Fd(w)
      BY WaiterOfFd
    <3> QED
      BY <1>4, <1>5, <3>1, <3>2
  <2>2. \A r, q \in B : r.key[1] = q.key[1] => r = q
    OBVIOUS
  <2>3. \A r \in idler'[t].batch : r \in B
    BY <1>8, <1>9
  <2> HIDE DEF B
  <2>4. idler'[t].pc = "batch" /\ \A c \in Callers : call'[c].op = "none"
    BY <1>1, <1>2, <1>8, <1>9
  <2> QED
    BY <2>1, <2>2, <2>3, <2>4 DEF IdlerOK
<1>14. LeftOK'
  BY <1>2, <1>8, <1>9 DEF LeftOK
<1> QED
  BY <1>1, <1>2, <1>10, <1>11, <1>12, <1>13, <1>14, CountKept DEF TInv

\* EPOLL_CTL_DEL never fails: the entry is there.
LEMMA CtlTInv == ASSUME InTurns, TInv, NEW t \in Threads, Ctl(t) PROVE TInv'
<1>1. In(t, "ctl") /\ UNCHANGED <<table, ctx, pending, level, call, waiter, wakes, timer, stopped, abort>>
  BY DEF Ctl
<1>2. /\ \A c \in Callers : call[c].op = "none"
      /\ \A u \in Threads : u = t
      /\ idler[t].pc = "ctl"
  BY <1>1, AloneInIdle
<1>3. TypeOK /\ IdlerOK(t) /\ idler[t] \in Idler
  BY DEF TInv, TypeOK
<1>4. PICK w \in Waiters, j \in Fills :
         /\ idler[t].key = <<Fd(w), j>> /\ idler[t].real = {Ev(w)} /\ Reg(w, j)
         /\ idler[t].rest = {} /\ epoll[Fd(w)].in
         /\ \A r \in idler[t].batch : r.key[1] # Fd(w)
  BY <1>2, <1>3 DEF IdlerOK
<1>5. /\ idler' = [idler EXCEPT ![t].pc = "trigger"]
      /\ epoll' = [epoll EXCEPT ![Fd(w)] = NoEntry]
  <2>1. idler[t].key[1] = Fd(w)
    BY <1>4
  <2>2. ~CtlFailed("DEL", Fd(w))
    BY <1>4 DEF CtlFailed, EpollFails
  <2>3. /\ idler' = [idler EXCEPT ![t].pc = "trigger"]
        /\ \E e : EpollSet("DEL", Fd(w), e)
    BY <1>4, <2>1, <2>2 DEF Ctl
  <2> QED
    BY <2>3 DEF EpollSet
<1>6. PICK y : y = [idler[t] EXCEPT !.pc = "trigger"]
  OBVIOUS
<1>7. /\ y \in Idler /\ y.pc = "trigger" /\ y.batch = idler[t].batch
      /\ y.key = <<Fd(w), j>> /\ y.real = {Ev(w)}
  BY <1>3, <1>4, <1>6 DEF Idler
<1>8. idler' = [idler EXCEPT ![t] = y] /\ idler'[t] = y
  BY <1>3, <1>5, <1>6 DEF TypeOK
<1>9. /\ Fd(w) \in Fds /\ epoll'[Fd(w)] = NoEntry
      /\ \A f \in Fds : f # Fd(w) => epoll'[f] = epoll[f]
  BY <1>3, <1>5, KeyOfWaiter DEF TypeOK
<1>10. TypeOK'
  <2>1. NoEntry \in EntryType
    BY <1>3, <1>4, EntryTyped, IOAssumption DEF NoEntry, EntryType
  <2>2. epoll' \in [Fds -> EntryType]
    BY <1>3, <1>5, <2>1 DEF TypeOK, EntryType
  <2> QED
    BY <1>1, <1>3, <1>7, <1>8, <2>2 DEF TypeOK, EntryType
<1>11. ASSUME NEW v \in Waiters PROVE ContextOK(v)' /\ EntryOK(v)' /\ WaiterOK(v)'
  <2>1. ContextOK(v) /\ EntryOK(v) /\ WaiterOK(v)
    BY DEF TInv
  <2>2. \A i \in Fills : Ctx(v, i)' = Ctx(v, i) /\ Reg(v, i)' = Reg(v, i)
    BY <1>1 DEF Ctx, Reg
  <2>3. CASE v = w
    <3>1. ~epoll'[Fd(v)].in /\ ~epoll'[Fd(v)].ready
      BY <1>9, <2>3 DEF NoEntry
    <3>2. Handled(Fd(v))'
      BY <1>7, <1>8, <2>3 DEF Handled
    <3> QED
      BY <1>1, <2>1, <2>2, <3>1, <3>2 DEF ContextOK, EntryOK, WaiterOK
  <2>4. CASE v # w
    <3>1. Fd(v) # Fd(w) /\ epoll'[Fd(v)] = epoll[Fd(v)]
      BY <1>9, <2>4, KeyOfWaiter DEF InTurns, Fd
    <3>2. ASSUME Handled(Fd(v)) PROVE Handled(Fd(v))'
      <4>1. \A c \in Callers : call[c].pc = "none"
        BY <1>2 DEF TInv, CallOK
      <4>2. PICK r \in idler[t].batch : r.key[1] = Fd(v)
        BY <1>2, <1>4, <3>1, <3>2, <4>1 DEF Handled
      <4>3. r \in idler'[t].batch
        BY <1>7, <1>8
      <4> QED
        BY <4>2, <4>3 DEF Handled
    <3> QED
      BY <1>1, <2>2, <3>1, <3>2, Untouched
  <2> QED
    BY <2>3, <2>4
<1>12. \A c \in Callers : CallOK(c)'
  BY <1>1, <1>2, CallsKept
<1>13. IdlerOK(t)'
  <2>1. ASSUME NEW r \in idler[t].batch
        PROVE  \E v \in Waiters :
                 /\ r.key = <<Fd(v), epoll'[Fd(v)].fill>> /\ epoll'[Fd(v)].in
                 /\ r.events # {} /\ r.events \subseteq {Ev(v), "HUP"}
    <3>1. PICK v \in Waiters : /\ r.key = <<Fd(v), epoll[Fd(v)].fill>> /\ epoll[Fd(v)].in
                               /\ r.events # {} /\ r.events \subseteq {Ev(v), "HUP"}
      BY <1>3 DEF IdlerOK
    <3>2. Fd(v) # Fd(w) /\ epoll'[Fd(v)] = epoll[Fd(v)]
      BY <1>4, <1>9, <3>1, KeyOfWaiter
    <3> QED
      BY <3>1, <3>2
  <2>2. Reg(w, j)'
    BY <1>1, <1>4 DEF Reg, Ctx
  <2>3. \A r, q \in idler[t].batch : r.key[1] = q.key[1] => r = q
    BY <1>3 DEF IdlerOK
  <2> QED
    BY <1>1, <1>2, <1>4, <1>7, <1>8, <2>1, <2>2, <2>3 DEF IdlerOK
<1>14. LeftOK'
  BY <1>2, <1>7, <1>8 DEF LeftOK
<1>15. \A u \in Threads : IdlerOK(u)'
  BY <1>2, <1>13
<1> QED
  BY <1>1, <1>10, <1>11, <1>12, <1>14, <1>15, CountKept DEF TInv

-----------------------------------------------------------------------------
(* An event is taken out of a context: by idle(), by a cancellation.       *)

\* RegisteredSet without the event of w.
LEMMA OneLess ==
  ASSUME InTurns, TInv, NEW w \in Waiters, NEW j \in Fills, Reg(w, j), Dec(1),
         \A k \in Keys : ctx'[k].event = IF k = <<Fd(w), j>> THEN {} ELSE ctx[k].event,
         NothingDeleted
  PROVE  pending' = Cardinality(RegisteredSet)'
<1> DEFINE ke == <<<<Fd(w), j>>, Ev(w)>>
<1>1. ke \in RegisteredSet
  BY KeyOfWaiter DEF RegisteredSet, Reg, Ctx
<1>2. RegisteredSet' = RegisteredSet \ {ke}
  <2>1. Ctx(w, j).event = {Ev(w)}
    BY DEF TInv, ContextOK, Reg
  <2> QED
    BY <1>1, <2>1 DEF RegisteredSet, Ctx
<1>3. Cardinality(RegisteredSet') = Cardinality(RegisteredSet) - 1
  BY <1>1, <1>2, RegisteredFinite, FS_RemoveElement
<1>4. Cardinality(RegisteredSet) \in Nat /\ Cardinality(RegisteredSet) # 0
  BY <1>1, RegisteredFinite, FS_CardinalityType, FS_EmptySet
<1>5. pending = Cardinality(RegisteredSet) /\ pending \in 0 .. MaxSize - 1 /\ MaxSize \in Nat
  BY IOAssumption DEF TInv, TypeOK
<1>6. PICK n : n = pending - 1
  OBVIOUS
<1>7. n \in 0 .. MaxSize - 1 /\ pending' = n % MaxSize
  BY <1>4, <1>5, <1>6 DEF Dec
<1>8. n % MaxSize = n
  BY <1>5, <1>7, SmallRemainder
<1> QED
  BY <1>3, <1>5, <1>6, <1>7, <1>8

LEMMA DecTyped ==
  ASSUME TypeOK, NEW n \in Nat, Dec(n)
  PROVE  pending' \in 0 .. MaxSize - 1
<1>1. MaxSize \in Nat /\ MaxSize > 0
  BY FS_CardinalityType, IOAssumption
<1>2. pending - n \in Int
  BY DEF TypeOK
<1> QED
  BY <1>1, <1>2 DEF Dec

\* What triggerEvent does where the event is registered.
LEMMA TriggerFacts ==
  ASSUME InTurns, TInv, NEW w \in Waiters, NEW j \in Fills, Reg(w, j),
         \A c \in Callers : call[c].pc # "fill",
         triggerEvent(<<Fd(w), j>>, {Ev(w)}), Dec(1), UNCHANGED epoll
  PROVE  /\ abort' = abort
         /\ ctx' \in [Keys -> FdContex] /\ pending' \in 0 .. MaxSize - 1
         /\ waiter' \in [Waiters -> {"new", "calling", "refused", "waiting",
                                     "deleted", "queued", "done"}]
         /\ wakes' \in [Waiters -> 0 .. 2]
         /\ \A v \in Waiters : v # w =>
              /\ waiter'[v] = waiter[v] /\ wakes'[v] = wakes[v]
              /\ \A i \in Fills : Ctx(v, i)' = Ctx(v, i)
         /\ ContextOK(w)' /\ EntryOK(w)'
         /\ waiter[w] \in {"waiting", "deleted"}
         /\ waiter'[w] = IF waiter[w] = "waiting" THEN "queued" ELSE "deleted"
         /\ wakes'[w] = IF waiter[w] = "waiting" THEN 1 ELSE 0
         /\ (NothingDeleted => pending = Cardinality(RegisteredSet))'
<1> DEFINE k == <<Fd(w), j>>
           x == Ctx(w, j)
           woken == {x.slot[e].waiter : e \in {Ev(w)}} \ {NoWaiter}
           y == [event |-> x.event \ {Ev(w)},
                 slot |-> [e \in Events |-> IF e \in {Ev(w)}
                                            THEN [x.slot[e] EXCEPT !.scheduler = FALSE]
                                            ELSE x.slot[e]]]
<1>1. TypeOK /\ ContextOK(w) /\ EntryOK(w) /\ WaiterOK(w) /\ k \in Keys /\ Ev(w) \in Events
  BY KeyOfWaiter DEF TInv
<1>2. /\ abort' = abort
      /\ ctx' = [ctx EXCEPT ![k] = y]
      /\ waiter' = [v \in Waiters |->
           IF v \in woken /\ waiter[v] = "waiting" THEN "queued" ELSE waiter[v]]
      /\ wakes' = [v \in Waiters |-> IF v \in woken THEN wakes[v] + 1 ELSE wakes[v]]
  BY DEF triggerEvent, Reg, Ctx, EventLeft
<1>3. x \in FdContex /\ x.event = {Ev(w)}
  <2>1. x \in FdContex
    BY <1>1 DEF TypeOK, Ctx
  <2>2. x.event = {Ev(w)}
    BY <1>1 DEF ContextOK, Reg
  <2> QED
    BY <2>1, <2>2
<1>4. waiter[w] \in {"waiting", "deleted"}
  BY <1>1 DEF ContextOK
<1>5. woken = IF waiter[w] = "waiting" THEN {w} ELSE {}
  <2>1. woken = {x.slot[Ev(w)].waiter} \ {NoWaiter}
    OBVIOUS
  <2>2. waiter[w] = "waiting" => x.slot[Ev(w)].waiter = w
    BY <1>1 DEF ContextOK
  <2>3. waiter[w] = "deleted" => x.slot[Ev(w)].waiter = NoWaiter
    BY <1>1 DEF ContextOK
  <2>4. w # NoWaiter
    BY IOAssumption
  <2> QED
    BY <1>4, <2>1, <2>2, <2>3, <2>4
<1>6. PICK s : s = y.slot
  OBVIOUS
<1>7. y = [event |-> {}, slot |-> s] /\ \A e \in Events : s[e].waiter = x.slot[e].waiter
  <2>1. \A e \in Events : x.slot[e] \in [waiter : Waiters \cup {NoWaiter}, scheduler : BOOLEAN]
    BY <1>3 DEF FdContex
  <2>2. \A e \in Events : y.slot[e].waiter = x.slot[e].waiter
    BY <2>1
  <2> QED
    BY <1>3, <1>6, <2>2
<1>8. y \in FdContex
  <2>1. \A e \in Events : x.slot[e] \in [waiter : Waiters \cup {NoWaiter}, scheduler : BOOLEAN]
    BY <1>3 DEF FdContex
  <2>2. y.slot \in [Events -> [waiter : Waiters \cup {NoWaiter}, scheduler : BOOLEAN]]
    BY <2>1
  <2> QED
    BY <1>6, <1>7, <2>2 DEF FdContex
<1> HIDE DEF y, woken
<1>9. /\ ctx' \in [Keys -> FdContex] /\ ctx'[k] = y
      /\ \A l \in Keys : l # k => ctx'[l] = ctx[l]
  BY <1>1, <1>2, <1>8 DEF TypeOK
<1>10. /\ waiter' \in [Waiters -> {"new", "calling", "refused", "waiting",
                                   "deleted", "queued", "done"}]
       /\ wakes' \in [Waiters -> 0 .. 2]
       /\ waiter'[w] = IF waiter[w] = "waiting" THEN "queued" ELSE "deleted"
       /\ wakes'[w] = IF waiter[w] = "waiting" THEN 1 ELSE 0
       /\ \A v \in Waiters : v # w => waiter'[v] = waiter[v] /\ wakes'[v] = wakes[v]
  <2>1. wakes[w] = 0
    BY <1>1, <1>4 DEF WaiterOK
  <2>2. CASE waiter[w] = "waiting"
    <3>1. woken = {w}
      BY <1>5, <2>2
    <3> QED
      BY <1>1, <1>2, <2>1, <2>2, <3>1 DEF TypeOK
  <2>3. CASE waiter[w] = "deleted"
    <3>1. woken = {}
      BY <1>5, <2>3
    <3> QED
      BY <1>1, <1>2, <2>1, <2>3, <3>1 DEF TypeOK
  <2> QED
    BY <1>4, <2>2, <2>3
<1>11. ASSUME NEW v \in Waiters, v # w, NEW i \in Fills PROVE Ctx(v, i)' = Ctx(v, i)
  <2>1. <<Fd(v), i>> \in Keys /\ <<Fd(v), i>> # k
    BY <1>11, KeyOfWaiter DEF InTurns, Fd
  <2> QED
    BY <1>9, <2>1 DEF Ctx
<1>12. ContextOK(w)'
  <2>1. \A i \in Fills : i # j => <<Fd(w), i>> \in Keys /\ <<Fd(w), i>> # k
    BY KeyOfWaiter
  <2>2. \A i \in Fills : i # j => Ctx(w, i)' = Ctx(w, i) /\ Reg(w, i)' = FALSE
    BY <1>1, <1>9, <2>1 DEF Ctx, Reg, ContextOK
  <2>3. Ctx(w, j)' = y /\ Reg(w, j)' = FALSE
    BY <1>7, <1>9 DEF Ctx, Reg
  <2>4. ASSUME NEW i \in Fills
        PROVE  Ctx(w, i)'.event \subseteq {Ev(w)} /\ ~Reg(w, i)'
               /\ \A e \in Events : Ctx(w, i)'.slot[e].waiter \in {w, NoWaiter}
    <3>1. CASE i = j
      BY <1>1, <1>7, <2>3, <3>1 DEF ContextOK
    <3>2. CASE i # j
      BY <1>1, <2>2, <3>2 DEF ContextOK
    <3> QED
      BY <3>1, <3>2
  <2>5. waiter'[w] \in {"queued", "deleted"}
    BY <1>10
  <2> QED
    BY <2>4, <2>5 DEF ContextOK
<1>13. EntryOK(w)'
  BY <1>1, <1>10 DEF EntryOK
<1>14. pending' \in 0 .. MaxSize - 1
  BY <1>1, DecTyped
<1>15. (NothingDeleted => pending = Cardinality(RegisteredSet))'
  <2>1. SUFFICES ASSUME NothingDeleted' PROVE pending' = Cardinality(RegisteredSet')
    OBVIOUS
  <2>2. NothingDeleted
    BY <1>4, <1>10, <2>1 DEF NothingDeleted
  <2>3. \A l \in Keys : ctx'[l].event = IF l = <<Fd(w), j>> THEN {} ELSE ctx[l].event
    BY <1>7, <1>9
  <2> QED
    BY <2>2, <2>3, OneLess
<1> QED
  BY <1>2, <1>4, <1>9, <1>10, <1>11, <1>12, <1>13, <1>14, <1>15

LEMMA TriggerTInv == ASSUME InTurns, TInv, NEW t \in Threads, Trigger(t) PROVE TInv'
<1>1. In(t, "trigger") /\ UNCHANGED <<table, epoll, level, call, timer, stopped>>
  BY DEF Trigger
<1>2. /\ \A c \in Callers : call[c].op = "none"
      /\ \A u \in Threads : u = t
      /\ idler[t].pc = "trigger"
  BY <1>1, AloneInIdle
<1>3. TypeOK /\ IdlerOK(t) /\ idler[t] \in Idler
  BY DEF TInv, TypeOK
<1>4. PICK w \in Waiters, j \in Fills :
         /\ idler[t].key = <<Fd(w), j>> /\ idler[t].real = {Ev(w)} /\ Reg(w, j)
         /\ \A r \in idler[t].batch : r.key[1] # Fd(w)
  BY <1>2, <1>3 DEF IdlerOK
<1>5. /\ triggerEvent(<<Fd(w), j>>, {Ev(w)}) /\ Dec(1)
      /\ idler' = [idler EXCEPT ![t] = [NotIdle EXCEPT !.pc = "batch", !.batch = idler[t].batch]]
  BY <1>4, FS_Singleton DEF Trigger
<1>6. \A c \in Callers : call[c].pc = "none"
  BY <1>2 DEF TInv, CallOK
<1>7. PICK y : y = [NotIdle EXCEPT !.pc = "batch", !.batch = idler[t].batch]
  OBVIOUS
<1>8. y \in Idler /\ y.pc = "batch" /\ y.batch = idler[t].batch
  BY <1>3, <1>7 DEF Idler, NotIdle
<1>9. idler' = [idler EXCEPT ![t] = y] /\ idler'[t] = y
  BY <1>3, <1>5, <1>7 DEF TypeOK
<1>10. /\ abort' = abort
       /\ ctx' \in [Keys -> FdContex] /\ pending' \in 0 .. MaxSize - 1
       /\ waiter' \in [Waiters -> {"new", "calling", "refused", "waiting",
                                   "deleted", "queued", "done"}]
       /\ wakes' \in [Waiters -> 0 .. 2]
       /\ \A v \in Waiters : v # w =>
            /\ waiter'[v] = waiter[v] /\ wakes'[v] = wakes[v]
            /\ \A i \in Fills : Ctx(v, i)' = Ctx(v, i)
       /\ ContextOK(w)' /\ EntryOK(w)'
       /\ waiter'[w] = IF waiter[w] = "waiting" THEN "queued" ELSE "deleted"
       /\ wakes'[w] = IF waiter[w] = "waiting" THEN 1 ELSE 0
       /\ (NothingDeleted => pending = Cardinality(RegisteredSet))'
  BY <1>1, <1>4, <1>5, <1>6, TriggerFacts
<1>11. TypeOK'
  BY <1>1, <1>3, <1>8, <1>9, <1>10 DEF TypeOK
<1>12. ASSUME NEW v \in Waiters PROVE ContextOK(v)' /\ EntryOK(v)' /\ WaiterOK(v)'
  <2>1. CASE v = w
    BY <1>10, <2>1 DEF WaiterOK
  <2>2. CASE v # w
    <3>1. ASSUME Handled(Fd(v)) PROVE Handled(Fd(v))'
      <4>1. Fd(v) # Fd(w)
        BY <2>2 DEF InTurns, Fd
      <4>2. PICK r \in idler[t].batch : r.key[1] = Fd(v)
        BY <1>2, <1>4, <1>6, <3>1, <4>1 DEF Handled
      <4>3. r \in idler'[t].batch
        BY <1>8, <1>9
      <4> QED
        BY <4>2, <4>3 DEF Handled
    <3> QED
      BY <1>1, <1>10, <2>2, <3>1, Untouched
  <2> QED
    BY <2>1, <2>2
<1>13. \A c \in Callers : CallOK(c)'
  BY <1>1, <1>2, CallsKept
<1>14. IdlerOK(t)'
  <2>1. /\ \A r \in idler[t].batch : \E v \in Waiters :
              /\ r.key = <<Fd(v), epoll[Fd(v)].fill>> /\ epoll[Fd(v)].in
              /\ r.events # {} /\ r.events \subseteq {Ev(v), "HUP"}
        /\ \A r, q \in idler[t].batch : r.key[1] = q.key[1] => r = q
    BY <1>3 DEF IdlerOK
  <2> QED
    BY <1>1, <1>2, <1>8, <1>9, <2>1 DEF IdlerOK
<1>15. LeftOK'
  BY <1>2, <1>8, <1>9 DEF LeftOK
<1>16. \A u \in Threads : IdlerOK(u)'
  BY <1>2, <1>14
<1>17. abort' = "none"
  BY <1>10 DEF TInv
<1> QED
  BY <1>10, <1>11, <1>12, <1>13, <1>15, <1>16, <1>17 DEF TInv

-----------------------------------------------------------------------------
(* The calls.                                                              *)

\* What a call leaves alone: the threads and everything of other descriptors.
LEMMA CallFrame ==
  ASSUME InTurns, TInv, NEW c \in Callers, call[c].op # "none", UNCHANGED idler
  PROVE  /\ (\A t \in Threads : IdlerOK(t)') /\ LeftOK'
         /\ \A d \in Callers : d = c
         /\ \A w \in Waiters : Handled(Fd(w)) => call[c].pc = "finish" /\ call[c].key[1] = Fd(w)
<1>1. \A t \in Threads : idler[t].pc = "test" /\ idler[t].batch = {}
  BY InCall
<1>2. \A d \in Callers : d = c
  BY OneOfEach
<1>3. (\A t \in Threads : IdlerOK(t)') /\ LeftOK'
  BY <1>1, IdlersKept
<1> QED
  BY <1>1, <1>2, <1>3 DEF Handled

\* The caller returns: no call is made.
LEMMA Returned ==
  ASSUME NEW c \in Callers, TypeOK, call' = [call EXCEPT ![c] = NoCall]
  PROVE  call' \in [Callers -> Call] /\ CallOK(c)'
<1>1. NoCall \in Call
  BY DEF NoCall, Call, Events
<1>2. call' \in [Callers -> Call] /\ call'[c] = NoCall
  BY <1>1 DEF TypeOK
<1>3. NoCall.op = "none" /\ NoCall.pc = "none" /\ "none" \notin Calls
  BY IOAssumption DEF NoCall
<1> QED
  BY <1>2, <1>3 DEF CallOK

LEMMA BeginAddTInv ==
  ASSUME InTurns, TInv, NEW c \in Callers, NEW w \in Waiters, BeginAdd(c, w)
  PROVE  TInv'
<1> DEFINE new == Grown(Fd(w))
           y == [op |-> "addEvent", pc |-> "ctl", waiter |-> w,
                 key |-> <<Fd(w), new.fill>>, event |-> Ev(w)]
<1>1. /\ MayCall /\ call[c].op = "none" /\ waiter[w] = "new" /\ abort = "none" /\ ~stopped
      /\ new.fill <= MaxFills
      /\ table' = new
      /\ waiter' = [waiter EXCEPT ![w] = "calling"]
      /\ call' = [call EXCEPT ![c] = y]
      /\ abort' = IF new.size <= Fd(w) THEN "range" ELSE "none"
      /\ UNCHANGED <<ctx, pending, epoll, level, idler, wakes, timer, stopped>>
  BY DEF BeginAdd, Fd, Ev
<1>2. TypeOK /\ \A v \in Waiters : ContextOK(v) /\ EntryOK(v) /\ WaiterOK(v)
  BY DEF TInv
<1>3. \A t \in Threads : idler[t].pc = "test" /\ idler[t].batch = {}
  BY <1>1 DEF MayCall, InTurns, TInv, IdlerOK
<1>4. \A d \in Callers : d = c
  BY OneOfEach
<1>5. new \in [size : Nat, fill : Fills] /\ ~(new.size <= Fd(w))
  <2>1. Fd(w) \in Nat /\ Fd(w) >= 2
    BY KeyOfWaiter DEF InTurns, Fd
  <2>2. table \in [size : Nat, fill : 0 .. MaxFills] /\ MaxFills \in Nat
    BY <1>2, IOAssumption DEF TypeOK
  <2>3. (Fd(w) * 3) \div 2 \in Nat /\ (Fd(w) * 3) \div 2 > Fd(w)
    BY <2>1
  <2>4. CASE table.size <= Fd(w)
    <3>1. new = [size |-> (Fd(w) * 3) \div 2, fill |-> table.fill + 1]
      BY <2>4 DEF Grown
    <3>2. PICK s : s = (Fd(w) * 3) \div 2
      OBVIOUS
    <3>3. new = [size |-> s, fill |-> table.fill + 1] /\ s \in Nat /\ s > Fd(w)
      BY <2>3, <3>1, <3>2
    <3>4. new.size = s /\ new.fill = table.fill + 1
      BY <3>3
    <3>5. table.fill + 1 \in 0 .. MaxFills
      BY <1>1, <2>2, <3>4
    <3> QED
      BY <2>1, <3>3, <3>5 DEF Fills
  <2>5. CASE ~(table.size <= Fd(w))
    BY <2>2, <2>5 DEF Grown, Fills
  <2> QED
    BY <2>4, <2>5
<1>6. PICK j \in Fills : j = new.fill
  BY <1>5
<1>7. PICK z : z = [op |-> "addEvent", pc |-> "ctl", waiter |-> w,
                    key |-> <<Fd(w), j>>, event |-> Ev(w)]
  OBVIOUS
<1>8. z \in Call
  BY <1>7, KeyOfWaiter DEF Call
<1>9. call' = [call EXCEPT ![c] = z] /\ call'[c] = z
  BY <1>1, <1>2, <1>6, <1>7 DEF TypeOK
<1>10. abort' = "none"
  BY <1>1, <1>5
<1>11. /\ waiter'[w] = "calling" /\ \A v \in Waiters : v # w => waiter'[v] = waiter[v]
       /\ waiter' \in [Waiters -> {"new", "calling", "refused", "waiting",
                                   "deleted", "queued", "done"}]
  BY <1>1, <1>2 DEF TypeOK
<1>12. TypeOK'
  BY <1>1, <1>2, <1>5, <1>8, <1>9, <1>10, <1>11 DEF TypeOK, Fills
<1>13. ASSUME NEW v \in Waiters PROVE ContextOK(v)' /\ EntryOK(v)' /\ WaiterOK(v)'
  <2>1. CASE v = w
    <3>1. \A i \in Fills : Ctx(w, i)' = Ctx(w, i) /\ ~Reg(w, i)
      BY <1>1, <1>2 DEF ContextOK, Ctx, Reg
    <3>2. ContextOK(w)'
      BY <1>1, <1>2, <1>11, <3>1 DEF ContextOK, Reg
    <3>3. EntryOK(w)'
      BY <1>1, <1>2, <1>11 DEF EntryOK
    <3>4. WaiterOK(w)'
      BY <1>1, <1>2, <1>7, <1>9, <1>11 DEF WaiterOK
    <3> QED
      BY <2>1, <3>2, <3>3, <3>4
  <2>2. CASE v # w
    <3>1. Handled(Fd(v)) => Handled(Fd(v))'
      <4>1. \A d \in Callers : call[d].pc = "none"
        BY <1>1, <1>4 DEF TInv, CallOK
      <4> QED
        BY <1>3, <4>1 DEF Handled
    <3>2. \A d \in Callers : call[d].op # "addEvent"
      BY <1>1, <1>4
    <3> QED
      BY <1>1, <1>11, <2>2, <3>1, <3>2, Untouched DEF Ctx
  <2> QED
    BY <2>1, <2>2
<1>14. CallOK(c)'
  <2>1. ~epoll[Fd(w)].in
    BY <1>1, <1>2 DEF EntryOK
  <2>2. "addEvent" \notin Calls
    BY IOAssumption
  <2> QED
    BY <1>1, <1>7, <1>9, <1>11, <2>1, <2>2 DEF CallOK
<1>15. (\A t \in Threads : IdlerOK(t)') /\ LeftOK'
  BY <1>1, <1>3, IdlersKept
<1>16. \A d \in Callers : CallOK(d)'
  BY <1>4, <1>14
<1>17. \A v \in Waiters : waiter'[v] = "deleted" <=> waiter[v] = "deleted"
  BY <1>1, <1>11
<1> QED
  BY <1>1, <1>10, <1>12, <1>13, <1>15, <1>16, <1>17, CountKept DEF TInv

LEMMA BeginCallTInv ==
  ASSUME InTurns, TInv, NEW c \in Callers, NEW op \in Calls, NEW f \in Fds, NEW e \in Events,
         BeginCall(c, op, f, e)
  PROVE  TInv'
<1> DEFINE y == [op |-> op, pc |-> "ctl", waiter |-> NoWaiter,
                 key |-> <<f, table.fill>>, event |-> e]
<1>1. /\ MayCall /\ call[c].op = "none"
      /\ call' = [call EXCEPT ![c] = y]
      /\ UNCHANGED <<table, ctx, pending, epoll, level, idler, waiter, wakes, timer, stopped, abort>>
  BY DEF BeginCall
<1>2. TypeOK /\ \A d \in Callers : d = c
  BY OneOfEach DEF TInv
<1>3. \A t \in Threads : idler[t].pc = "test" /\ idler[t].batch = {}
  BY <1>1 DEF MayCall, InTurns, TInv, IdlerOK
<1>4. <<f, table.fill>> \in Keys
  BY <1>2 DEF TypeOK, Keys
<1>5. PICK z : z = y
  OBVIOUS
<1>6. z \in Call /\ z.op = op /\ z.pc = "ctl" /\ z.key \in Keys
  BY <1>4, <1>5 DEF Call
<1>7. call' = [call EXCEPT ![c] = z] /\ call'[c] = z
  BY <1>1, <1>2, <1>5 DEF TypeOK
<1>8. TypeOK'
  BY <1>1, <1>2, <1>6, <1>7 DEF TypeOK
<1>9. ASSUME NEW v \in Waiters PROVE ContextOK(v)' /\ EntryOK(v)' /\ WaiterOK(v)'
  <2>1. Handled(Fd(v)) => Handled(Fd(v))'
    <3>1. \A d \in Callers : call[d].pc = "none"
      BY <1>1, <1>2 DEF TInv, CallOK
    <3> QED
      BY <1>3, <3>1 DEF Handled
  <2>2. \A d \in Callers : call[d].op # "addEvent"
    BY <1>1, <1>2
  <2> QED
    BY <1>1, <2>1, <2>2, Untouched DEF Ctx
<1>10. CallOK(c)'
  <2>1. op # "none" /\ op # "addEvent"
    BY IOAssumption
  <2> QED
    BY <1>6, <1>7, <2>1 DEF CallOK
<1>11. (\A t \in Threads : IdlerOK(t)') /\ LeftOK'
  BY <1>1, <1>3, IdlersKept
<1>12. \A d \in Callers : CallOK(d)'
  BY <1>2, <1>10
<1> QED
  BY <1>1, <1>8, <1>9, <1>11, <1>12, CountKept DEF TInv

\* An addEvent in progress: its waiter and its context.
LEMMA AddFacts ==
  ASSUME InTurns, TInv, NEW c \in Callers, call[c].op = "addEvent"
  PROVE  \E w \in Waiters, j \in Fills :
           /\ call[c].waiter = w /\ call[c].key = <<Fd(w), j>> /\ call[c].event = Ev(w)
           /\ call[c].key[1] = Fd(w) /\ call[c].key[2] = j /\ call[c].key \in Keys
           /\ waiter[w] = "calling"
           /\ call[c].pc = "ctl" => ~epoll[Fd(w)].in
           /\ call[c].pc # "ctl" => Ready(w) /\ epoll[Fd(w)].fill = j
           /\ IF call[c].pc = "fill" THEN Ctx(w, j).event = {Ev(w)}
              ELSE \A i \in Fills : Ctx(w, i).event = {} /\ ~Reg(w, i)
           /\ Ctx(w, j).slot[Ev(w)] = FreeSlot
<1>1. PICK w \in Waiters, j \in Fills :
         /\ call[c].waiter = w /\ call[c].key = <<Fd(w), j>> /\ call[c].event = Ev(w)
         /\ waiter[w] = "calling"
         /\ call[c].pc = "ctl" => ~epoll[Fd(w)].in
         /\ call[c].pc # "ctl" => Ready(w) /\ epoll[Fd(w)].fill = j
         /\ call[c].pc = "fill" => Reg(w, j)
  BY DEF TInv, CallOK
<1>2. ContextOK(w) /\ \A d \in Callers : d = c
  BY OneOfEach DEF TInv
<1>3. call[c].pc = "fill" => Ctx(w, j).event = {Ev(w)}
  BY <1>1, <1>2 DEF ContextOK, Reg
<1>4. call[c].pc # "fill" => \A i \in Fills : Ctx(w, i).event = {} /\ ~Reg(w, i)
  <2>1. SUFFICES ASSUME call[c].pc # "fill", NEW i \in Fills PROVE Ctx(w, i).event = {} /\ ~Reg(w, i)
    OBVIOUS
  <2>2. ~Reg(w, i)
    BY <1>1, <1>2, <2>1 DEF ContextOK
  <2> QED
    BY <1>2, <2>2 DEF ContextOK, Reg
<1>5. Ctx(w, j).slot[Ev(w)] = FreeSlot
  BY <1>1, <1>2 DEF ContextOK
<1> QED
  BY <1>1, <1>3, <1>4, <1>5, KeyOfWaiter

LEMMA AddCtlTInv == ASSUME InTurns, TInv, NEW c \in Callers, AddCtl(c) PROVE TInv'
<1>1. /\ call[c].op = "addEvent" /\ call[c].pc = "ctl"
      /\ UNCHANGED <<table, ctx, pending, level, idler, wakes, timer, stopped, abort>>
  BY DEF AddCtl, At
<1>2. PICK w \in Waiters, j \in Fills :
           /\ call[c].waiter = w /\ call[c].key = <<Fd(w), j>> /\ call[c].event = Ev(w)
           /\ call[c].key[1] = Fd(w) /\ call[c].key[2] = j /\ call[c].key \in Keys
           /\ waiter[w] = "calling" /\ ~epoll[Fd(w)].in
           /\ \A i \in Fills : Ctx(w, i).event = {} /\ ~Reg(w, i)
  BY <1>1, AddFacts
<1>3. TypeOK /\ Fd(w) \in Fds /\ Ev(w) \in Events /\ ContextOK(w) /\ EntryOK(w) /\ WaiterOK(w)
  BY KeyOfWaiter DEF TInv
<1>4. /\ \A t \in Threads : IdlerOK(t)'
      /\ LeftOK' /\ \A d \in Callers : d = c
      /\ \A v \in Waiters : ~Handled(Fd(v))
  BY <1>1, CallFrame
<1>5. /\ call' = [call EXCEPT ![c].pc = "mark"]
      /\ epoll' = [epoll EXCEPT ![Fd(w)] = Entry(Fd(w), j, {Ev(w)}, TRUE)]
      /\ waiter' = waiter
  <2>1. ctx[call[c].key].event = {}
    BY <1>2 DEF Ctx
  <2>2. Interest(call[c].key, Ev(w)) = {Ev(w)}
    BY <2>1 DEF Interest
  <2>3. ~EpollFails("ADD", Fd(w))
    BY <1>2 DEF EpollFails
  <2>4. /\ Goto(c, "mark") /\ waiter' = waiter
        /\ EpollSet("ADD", Fd(w), Entry(Fd(w), j, {Ev(w)}, TRUE))
    BY <1>2, <2>1, <2>2, <2>3 DEF AddCtl
  <2> QED
    BY <2>4 DEF Goto, EpollSet
<1>6. PICK n : n = Entry(Fd(w), j, {Ev(w)}, TRUE)
  OBVIOUS
<1>7. /\ n \in EntryType /\ n.in /\ n.fill = j /\ n.interest = {Ev(w)}
      /\ Ev(w) \in level[Fd(w)] => n.ready
  BY <1>3, <1>6 DEF Entry, EntryType, Fills
<1>8. /\ epoll'[Fd(w)] = n /\ epoll' \in [Fds -> EntryType]
      /\ \A f \in Fds : f # Fd(w) => epoll'[f] = epoll[f]
  BY <1>3, <1>5, <1>6, <1>7 DEF TypeOK, EntryType
<1>9. PICK y : y = [call[c] EXCEPT !.pc = "mark"]
  OBVIOUS
<1>10. /\ y \in Call /\ y.pc = "mark" /\ y.op = "addEvent"
       /\ y.waiter = w /\ y.key = <<Fd(w), j>> /\ y.event = Ev(w)
  <2>1. call[c] \in Call
    BY <1>3 DEF TypeOK
  <2> QED
    BY <1>1, <1>2, <1>9, <2>1 DEF Call
<1>11. call' = [call EXCEPT ![c] = y] /\ call'[c] = y
  BY <1>3, <1>5, <1>9 DEF TypeOK
<1>12. TypeOK'
  <2>1. call' \in [Callers -> Call] /\ waiter' = waiter
    BY <1>3, <1>5, <1>10, <1>11 DEF TypeOK
  <2> QED
    BY <1>1, <1>3, <1>8, <2>1 DEF TypeOK, EntryType
<1>13. ASSUME NEW v \in Waiters PROVE ContextOK(v)' /\ EntryOK(v)' /\ WaiterOK(v)'
  <2>1. CASE v = w
    <3>1. \A i \in Fills : Ctx(w, i)' = Ctx(w, i) /\ ~Reg(w, i)'
      BY <1>1, <1>2 DEF Ctx, Reg
    <3>2. ContextOK(w)'
      BY <1>2, <1>3, <1>5, <3>1, ZenonT(40) DEF ContextOK
    <3>3. EntryOK(w)'
      BY <1>2, <1>5, <1>7, <1>8 DEF EntryOK
    <3>4. WaiterOK(w)'
      BY <1>1, <1>2, <1>3, <1>5, <1>10, <1>11 DEF WaiterOK
    <3> QED
      BY <2>1, <3>2, <3>3, <3>4
  <2>2. CASE v # w
    <3>1. epoll'[Fd(v)] = epoll[Fd(v)]
      BY <1>8, <2>2, KeyOfWaiter DEF InTurns, Fd
    <3> QED
      BY <1>1, <1>2, <1>4, <1>5, <2>2, <3>1, Untouched DEF Ctx
  <2> QED
    BY <2>1, <2>2
<1>14. CallOK(c)'
  <2>1. Ready(w)' /\ epoll'[Fd(w)].fill = j
    BY <1>1, <1>7, <1>8 DEF Ready
  <2>2. "addEvent" \notin Calls
    BY IOAssumption
  <2> QED
    BY <1>2, <1>5, <1>10, <1>11, <2>1, <2>2 DEF CallOK
<1>15. \A d \in Callers : CallOK(d)'
  BY <1>4, <1>14
<1>16. abort' = "none"
  BY <1>1 DEF TInv
<1> QED
  BY <1>1, <1>4, <1>5, <1>12, <1>13, <1>15, <1>16, CountKept DEF TInv

LEMMA AddMarkTInv == ASSUME InTurns, TInv, NEW c \in Callers, AddMark(c) PROVE TInv'
<1>1. /\ call[c].op = "addEvent" /\ call[c].pc = "mark"
      /\ pending' = (pending + 1) % MaxSize
      /\ ctx' = [ctx EXCEPT ![call[c].key].event = ctx[call[c].key].event \cup {call[c].event}]
      /\ call' = [call EXCEPT ![c].pc = "fill"]
      /\ UNCHANGED <<table, epoll, level, idler, waiter, wakes, timer, stopped, abort>>
  BY DEF AddMark, At, Goto, Inc
<1>2. PICK w \in Waiters, j \in Fills :
           /\ call[c].waiter = w /\ call[c].key = <<Fd(w), j>> /\ call[c].event = Ev(w)
           /\ call[c].key \in Keys
           /\ waiter[w] = "calling" /\ Ready(w) /\ epoll[Fd(w)].fill = j
           /\ \A i \in Fills : Ctx(w, i).event = {} /\ ~Reg(w, i)
  BY <1>1, AddFacts
<1>3. /\ TypeOK /\ Fd(w) \in Fds /\ Ev(w) \in Events
      /\ \A v \in Waiters : ContextOK(v) /\ EntryOK(v) /\ WaiterOK(v)
  BY KeyOfWaiter DEF TInv
<1>4. /\ \A t \in Threads : IdlerOK(t)'
      /\ LeftOK' /\ \A d \in Callers : d = c
      /\ \A v \in Waiters : ~Handled(Fd(v))
  BY <1>1, CallFrame
<1>5. PICK x : x = [ctx[call[c].key] EXCEPT !.event = {Ev(w)}]
  OBVIOUS
<1>6. ctx[call[c].key] = Ctx(w, j) /\ Ctx(w, j) \in FdContex
  BY <1>2, <1>3 DEF TypeOK, Ctx
<1>7. x \in FdContex /\ x.event = {Ev(w)} /\ x.slot = Ctx(w, j).slot
  BY <1>3, <1>5, <1>6 DEF FdContex
<1>8. ctx' = [ctx EXCEPT ![<<Fd(w), j>>] = x]
  <2>1. ctx[call[c].key].event \cup {call[c].event} = {Ev(w)}
    BY <1>2, <1>6
  <2> QED
    BY <1>1, <1>2, <1>5, <2>1
<1>9. /\ ctx' \in [Keys -> FdContex] /\ ctx'[<<Fd(w), j>>] = x
      /\ \A k \in Keys : k # <<Fd(w), j>> => ctx'[k] = ctx[k]
  BY <1>2, <1>3, <1>7, <1>8 DEF TypeOK
<1>10. PICK y : y = [call[c] EXCEPT !.pc = "fill"]
  OBVIOUS
<1>11. /\ y \in Call /\ y.pc = "fill" /\ y.op = "addEvent"
       /\ y.waiter = w /\ y.key = <<Fd(w), j>> /\ y.event = Ev(w)
  <2>1. call[c] \in Call
    BY <1>3 DEF TypeOK
  <2> QED
    BY <1>1, <1>2, <1>10, <2>1 DEF Call
<1>12. call' = [call EXCEPT ![c] = y] /\ call'[c] = y
  BY <1>1, <1>3, <1>10 DEF TypeOK
<1>13. pending' \in 0 .. MaxSize - 1
  <2>1. MaxSize \in Nat /\ MaxSize > 0
    BY FS_CardinalityType, IOAssumption
  <2> QED
    BY <1>1, <1>3, <2>1 DEF TypeOK
<1>14. TypeOK'
  BY <1>1, <1>3, <1>9, <1>11, <1>12, <1>13, ZenonT(40) DEF TypeOK
<1>15. \A i \in Fills : i # j => Ctx(w, i)' = Ctx(w, i) /\ ~Reg(w, i)'
  BY <1>2, <1>9, KeyOfWaiter DEF Ctx, Reg
<1>16. Ctx(w, j)' = x /\ Reg(w, j)'
  BY <1>7, <1>9 DEF Ctx, Reg
<1>17. ASSUME NEW v \in Waiters, v # w, NEW i \in Fills PROVE Ctx(v, i)' = Ctx(v, i)
  <2>1. <<Fd(v), i>> \in Keys /\ <<Fd(v), i>> # <<Fd(w), j>>
    BY <1>17, KeyOfWaiter DEF InTurns, Fd
  <2> QED
    BY <1>9, <2>1 DEF Ctx
<1>18. ASSUME NEW v \in Waiters PROVE ContextOK(v)' /\ EntryOK(v)' /\ WaiterOK(v)'
  <2>1. CASE v = w
    <3>1. ASSUME NEW i \in Fills
          PROVE  /\ Ctx(w, i)'.event \subseteq {Ev(w)}
                 /\ \A e \in Events : Ctx(w, i)'.slot[e].waiter \in {w, NoWaiter}
                 /\ Ctx(w, i)'.slot[Ev(w)] = FreeSlot
                 /\ Reg(w, i)' => i = j
      <4>1. /\ \A e \in Events : Ctx(w, i).slot[e].waiter \in {w, NoWaiter}
            /\ Ctx(w, i).slot[Ev(w)] = FreeSlot
        BY <1>2, <1>3 DEF ContextOK
      <4>2. CASE i = j
        BY <1>7, <1>16, <4>1, <4>2
      <4>3. CASE i # j
        BY <1>2, <1>15, <4>1, <4>3
      <4> QED
        BY <4>2, <4>3
    <3>2. ContextOK(w)'
      BY <1>1, <1>2, <1>11, <1>12, <3>1 DEF ContextOK
    <3>3. EntryOK(w)'
      BY <1>1, <1>3 DEF EntryOK
    <3>4. WaiterOK(w)'
      BY <1>1, <1>2, <1>3, <1>11, <1>12 DEF WaiterOK
    <3> QED
      BY <2>1, <3>2, <3>3, <3>4
  <2>2. CASE v # w
    BY <1>1, <1>2, <1>4, <1>17, <2>2, Untouched
  <2> QED
    BY <2>1, <2>2
<1>19. CallOK(c)'
  <2>1. Ready(w)' /\ epoll'[Fd(w)].fill = j
    BY <1>1, <1>2 DEF Ready
  <2>2. "addEvent" \notin Calls
    BY IOAssumption
  <2> QED
    BY <1>1, <1>2, <1>11, <1>12, <1>16, <2>1, <2>2 DEF CallOK
<1>20. \A d \in Callers : CallOK(d)'
  BY <1>4, <1>19
<1>21. abort' = "none"
  BY <1>1 DEF TInv
<1>22. (NothingDeleted => pending = Cardinality(RegisteredSet))'
  <2> DEFINE ke == <<<<Fd(w), j>>, Ev(w)>>
             R == RegisteredSet \cup {ke}
  <2>1. SUFFICES ASSUME NothingDeleted' PROVE pending' = Cardinality(RegisteredSet')
    OBVIOUS
  <2>2. pending = Cardinality(RegisteredSet)
    BY <1>1, <2>1 DEF TInv, NothingDeleted
  <2>3. ke \notin RegisteredSet
    BY <1>2, <1>6 DEF RegisteredSet
  <2>4. RegisteredSet' = R
    BY <1>2, <1>3, <1>6, <1>7, <1>9 DEF RegisteredSet
  <2>5. Cardinality(R) = Cardinality(RegisteredSet) + 1
    BY <2>3, RegisteredFinite, FS_AddElement
  <2>6. ASSUME NEW a \in RegisteredSet
        PROVE  \E v \in Waiters, i \in Fills : a = <<<<Fd(v), i>>, Ev(v)>> /\ v # w /\ Reg(v, i)
    <3>1. a = <<a[1], a[2]>> /\ a[1] \in Keys /\ a[2] \in ctx[a[1]].event
      BY DEF RegisteredSet
    <3>2. PICK v \in Waiters, i \in Fills : a[1] = <<Fd(v), i>>
      BY <3>1, WaiterOfKey
    <3>3. a[2] \in Ctx(v, i).event
      BY <3>1, <3>2 DEF Ctx
    <3>4. a[2] = Ev(v) /\ v # w
      BY <1>2, <1>3, <3>3 DEF ContextOK
    <3> QED
      BY <3>1, <3>2, <3>3, <3>4 DEF Reg
  <2>7. R \in SUBSET (Keys \X Events)
    BY <1>2, <1>3 DEF RegisteredSet
  <2>8. \A a \in R : \E v \in Waiters, i \in Fills : a = <<<<Fd(v), i>>, Ev(v)>>
    BY <2>6
  <2>9. ASSUME NEW a \in R, NEW b \in R, a[1][1] = b[1][1] PROVE a = b
    <3>1. ASSUME NEW q \in RegisteredSet PROVE q[1][1] # Fd(w)
      <4>1. PICK v \in Waiters, i \in Fills : q = <<<<Fd(v), i>>, Ev(v)>> /\ v # w
        BY <2>6
      <4>2. q[1][1] = Fd(v)
        BY <4>1
      <4> QED
        BY <4>1, <4>2 DEF InTurns, Fd
    <3>2. CASE a = ke \/ b = ke
      BY <2>9, <3>1, <3>2
    <3>3. CASE a # ke /\ b # ke
      <4>1. PICK v \in Waiters, i \in Fills : a = <<<<Fd(v), i>>, Ev(v)>> /\ Reg(v, i)
        BY <2>6, <3>3
      <4>2. PICK u \in Waiters, l \in Fills : b = <<<<Fd(u), l>>, Ev(u)>> /\ Reg(u, l)
        BY <2>6, <3>3
      <4>3. u = v
        BY <2>9, <4>1, <4>2 DEF InTurns, Fd
      <4>4. i = l
        BY <1>3, <4>1, <4>2, <4>3 DEF ContextOK
      <4> QED
        BY <4>1, <4>2, <4>3, <4>4
    <3> QED
      BY <3>2, <3>3
  <2> HIDE DEF R
  <2>10. Cardinality(R) \in Nat /\ Cardinality(R) <= Cardinality(Waiters)
    BY <2>7, <2>8, <2>9, OnePerWaiter
  <2>11. Cardinality(Waiters) \in Nat /\ MaxSize \in Nat /\ MaxSize > Cardinality(Waiters)
    BY FS_CardinalityType, IOAssumption
  <2>12. PICK n : n = Cardinality(R)
    OBVIOUS
  <2>13. n \in 0 .. MaxSize - 1 /\ pending + 1 = n
    BY <2>2, <2>5, <2>10, <2>11, <2>12
  <2>14. n % MaxSize = n
    BY <2>11, <2>13, SmallRemainder
  <2> QED
    BY <1>1, <2>4, <2>12, <2>13, <2>14
<1> QED
  BY <1>4, <1>14, <1>18, <1>20, <1>21, <1>22 DEF TInv

LEMMA AddFillTInv == ASSUME InTurns, TInv, NEW c \in Callers, AddFill(c) PROVE TInv'
<1>1. /\ call[c].op = "addEvent" /\ call[c].pc = "fill"
      /\ call' = [call EXCEPT ![c] = NoCall]
      /\ UNCHANGED <<table, pending, epoll, level, idler, wakes, timer, stopped>>
  BY DEF AddFill, At, Return
<1>2. PICK w \in Waiters, j \in Fills :
           /\ call[c].waiter = w /\ call[c].key = <<Fd(w), j>> /\ call[c].event = Ev(w)
           /\ call[c].key \in Keys
           /\ waiter[w] = "calling" /\ Ready(w) /\ epoll[Fd(w)].fill = j
           /\ Ctx(w, j).event = {Ev(w)} /\ Ctx(w, j).slot[Ev(w)] = FreeSlot
  BY <1>1, AddFacts
<1>3. /\ TypeOK /\ Fd(w) \in Fds /\ Ev(w) \in Events
      /\ \A v \in Waiters : ContextOK(v) /\ EntryOK(v) /\ WaiterOK(v)
  BY KeyOfWaiter DEF TInv
<1>4. /\ \A t \in Threads : IdlerOK(t)'
      /\ LeftOK' /\ \A d \in Callers : d = c
      /\ \A v \in Waiters : ~Handled(Fd(v))
  BY <1>1, CallFrame
<1>5. ctx[call[c].key] = Ctx(w, j) /\ Ctx(w, j) \in FdContex
  BY <1>2, <1>3 DEF TypeOK, Ctx
<1> DEFINE s == [waiter |-> w, scheduler |-> TRUE]
<1>6. /\ ctx' = [ctx EXCEPT ![<<Fd(w), j>>].slot[Ev(w)] = s]
      /\ waiter' = [waiter EXCEPT ![w] = "waiting"]
      /\ abort' = abort
  BY <1>2, <1>3, <1>5 DEF AddFill
<1>7. PICK x : x = [Ctx(w, j) EXCEPT !.slot[Ev(w)] = s]
  OBVIOUS
<1>8. /\ x \in FdContex /\ x.event = {Ev(w)} /\ x.slot[Ev(w)].waiter = w
      /\ \A e \in Events : e # Ev(w) => x.slot[e] = Ctx(w, j).slot[e]
  BY <1>2, <1>3, <1>5, <1>7 DEF FdContex
<1>9. ctx' = [ctx EXCEPT ![<<Fd(w), j>>] = x]
  BY <1>6, <1>7 DEF Ctx
<1>10. /\ ctx' \in [Keys -> FdContex] /\ ctx'[<<Fd(w), j>>] = x
       /\ \A k \in Keys : k # <<Fd(w), j>> => ctx'[k] = ctx[k]
  BY <1>2, <1>3, <1>8, <1>9 DEF TypeOK
<1>11. /\ waiter'[w] = "waiting" /\ \A v \in Waiters : v # w => waiter'[v] = waiter[v]
       /\ waiter' \in [Waiters -> {"new", "calling", "refused", "waiting",
                                   "deleted", "queued", "done"}]
  BY <1>3, <1>6 DEF TypeOK
<1>12. call' \in [Callers -> Call] /\ CallOK(c)'
  BY <1>1, <1>3, Returned
<1>13. TypeOK'
  <2>1. abort' = abort
    BY <1>6
  <2> QED
    BY <1>1, <1>3, <1>10, <1>11, <1>12, <2>1 DEF TypeOK
<1>14. \A i \in Fills : i # j => Ctx(w, i)' = Ctx(w, i) /\ Reg(w, i)' = Reg(w, i)
  BY <1>10, KeyOfWaiter DEF Ctx, Reg
<1>15. Ctx(w, j)' = x /\ Reg(w, j)' /\ Reg(w, j)
  BY <1>2, <1>8, <1>10 DEF Ctx, Reg
<1>16. ASSUME NEW v \in Waiters, v # w, NEW i \in Fills PROVE Ctx(v, i)' = Ctx(v, i)
  <2>1. <<Fd(v), i>> \in Keys /\ <<Fd(v), i>> # <<Fd(w), j>>
    BY <1>16, KeyOfWaiter DEF InTurns, Fd
  <2> QED
    BY <1>10, <2>1 DEF Ctx
<1>17. ASSUME NEW v \in Waiters PROVE ContextOK(v)' /\ EntryOK(v)' /\ WaiterOK(v)'
  <2>1. CASE v = w
    <3>1. ASSUME NEW i \in Fills
          PROVE  /\ Ctx(w, i)'.event \subseteq {Ev(w)}
                 /\ \A e \in Events : Ctx(w, i)'.slot[e].waiter \in {w, NoWaiter}
                 /\ Reg(w, i)' => i = j
                 /\ Reg(w, i)' => Ctx(w, i)'.slot[Ev(w)].waiter = w
      <4>1. /\ \A e \in Events : Ctx(w, i).slot[e].waiter \in {w, NoWaiter}
            /\ Ctx(w, i).event \subseteq {Ev(w)}
            /\ Reg(w, i) => i = j
        BY <1>3, <1>15 DEF ContextOK
      <4>2. CASE i = j
        BY <1>8, <1>15, <4>1, <4>2
      <4>3. CASE i # j
        BY <1>14, <4>1, <4>3
      <4> QED
        BY <4>2, <4>3
    <3>2. ContextOK(w)'
      <4>1. epoll'[Fd(w)].in => epoll'[Fd(w)].fill = j
        BY <1>1, <1>2
      <4> QED
        BY <1>11, <1>15, <3>1, <4>1 DEF ContextOK
    <3>3. EntryOK(w)'
      BY <1>1, <1>3, <1>11 DEF EntryOK
    <3>4. WaiterOK(w)'
      <4>1. Ready(w)'
        BY <1>1, <1>2 DEF Ready
      <4>2. wakes'[w] = 0
        BY <1>1, <1>2, <1>3 DEF WaiterOK
      <4> QED
        BY <1>11, <4>1, <4>2 DEF WaiterOK
    <3> QED
      BY <2>1, <3>2, <3>3, <3>4
  <2>2. CASE v # w
    BY <1>1, <1>2, <1>4, <1>11, <1>16, <2>2, Untouched
  <2> QED
    BY <2>1, <2>2
<1>18. \A d \in Callers : CallOK(d)'
  BY <1>4, <1>12
<1>19. abort' = "none"
  BY <1>6 DEF TInv
<1>20. (NothingDeleted => pending = Cardinality(RegisteredSet))'
  <2>1. RegisteredSet' = RegisteredSet
    BY <1>2, <1>5, <1>8, <1>10 DEF RegisteredSet
  <2>2. NothingDeleted' => NothingDeleted
    BY <1>2, <1>11 DEF NothingDeleted
  <2> QED
    BY <1>1, <2>1, <2>2 DEF TInv
<1> QED
  BY <1>4, <1>13, <1>17, <1>18, <1>19, <1>20 DEF TInv

\* A delEvent, cancelEvent or cancelAll in progress, and the waiter of its fd.
LEMMA CallFacts ==
  ASSUME InTurns, TInv, NEW c \in Callers, call[c].op \in Calls
  PROVE  \E w \in Waiters, j \in Fills :
           /\ call[c].key = <<Fd(w), j>> /\ call[c].key \in Keys
           /\ call[c].key[1] = Fd(w) /\ call[c].key[2] = j
           /\ ctx[call[c].key] = Ctx(w, j) /\ Ctx(w, j).event \subseteq {Ev(w)}
           /\ call[c].pc = "finish" =>
                /\ Reg(w, j) /\ Ctx(w, j).event = {Ev(w)}
                /\ call[c].op # "cancelAll" => call[c].event = Ev(w)
<1>1. CallOK(c)
  BY DEF TInv
<1>2. call[c].key \in Keys
  BY <1>1 DEF CallOK
<1>3. PICK w \in Waiters, j \in Fills :
        call[c].key = <<Fd(w), j>> /\ call[c].key[1] = Fd(w) /\ call[c].key[2] = j
  BY <1>2, WaiterOfKey
<1>4. Ctx(w, j).event \subseteq {Ev(w)}
  BY DEF TInv, ContextOK
<1>5. call[c].pc = "finish" =>
        IF call[c].op = "cancelAll" THEN ctx[call[c].key].event # {}
        ELSE call[c].event \in ctx[call[c].key].event
  BY <1>1 DEF CallOK
<1>6. ctx[call[c].key] = Ctx(w, j)
  BY <1>3 DEF Ctx
<1>7. call[c].pc = "finish" =>
        /\ Reg(w, j) /\ Ctx(w, j).event = {Ev(w)}
        /\ call[c].op # "cancelAll" => call[c].event = Ev(w)
  BY <1>4, <1>5, <1>6 DEF Reg
<1> QED
  BY <1>2, <1>3, <1>4, <1>6, <1>7

\* A call finds nothing to do and returns false.
LEMMA NothingToDo ==
  ASSUME InTurns, TInv, NEW c \in Callers, call[c].op \in Calls, call[c].pc = "ctl", Return(c),
         UNCHANGED <<table, ctx, pending, epoll, level, idler, waiter, wakes, timer, stopped, abort>>
  PROVE  TInv'
<1>1. call[c].op # "none" /\ call[c].op # "addEvent"
  BY IOAssumption
<1>2. /\ \A t \in Threads : IdlerOK(t)'
      /\ LeftOK' /\ \A d \in Callers : d = c
      /\ \A v \in Waiters : ~Handled(Fd(v))
  BY <1>1, CallFrame
<1>3. call' \in [Callers -> Call] /\ CallOK(c)'
  BY Returned DEF TInv, Return
<1>4. TypeOK'
  BY <1>3 DEF TInv, TypeOK
<1>5. \A v \in Waiters : ContextOK(v)' /\ EntryOK(v)' /\ WaiterOK(v)'
  BY <1>1, <1>2, Untouched DEF Ctx
<1> QED
  BY <1>2, <1>3, <1>4, <1>5, CountKept DEF TInv

\* A call has changed the entry and goes on: the waiter is dealt with.
LEMMA CtlMade ==
  ASSUME InTurns, TInv, NEW c \in Callers, call[c].op \in Calls, call[c].pc = "ctl",
         call' = [call EXCEPT ![c].pc = "finish"],
         UNCHANGED <<table, ctx, pending, level, idler, waiter, wakes, timer, stopped, abort>>,
         NEW w \in Waiters, NEW j \in Fills, call[c].key = <<Fd(w), j>>, Reg(w, j),
         IF call[c].op = "cancelAll" THEN TRUE ELSE call[c].event = Ev(w),
         NEW n \in EntryType, epoll' = [epoll EXCEPT ![Fd(w)] = n],
         n.in => n.interest = {Ev(w)} /\ n.fill = j, n.ready => n.in
  PROVE  TInv'
<1>1. call[c].op # "none" /\ call[c].op # "addEvent"
  BY IOAssumption
<1>2. /\ \A t \in Threads : IdlerOK(t)'
      /\ LeftOK' /\ \A d \in Callers : d = c
      /\ \A v \in Waiters : ~Handled(Fd(v))
  BY <1>1, CallFrame
<1>3. TypeOK /\ Fd(w) \in Fds /\ <<Fd(w), j>> \in Keys
  BY KeyOfWaiter DEF TInv
<1>4. PICK y : y = [call[c] EXCEPT !.pc = "finish"]
  OBVIOUS
<1>5. /\ y \in Call /\ y.pc = "finish" /\ y.op = call[c].op
      /\ y.key = <<Fd(w), j>> /\ y.key[1] = Fd(w) /\ y.event = call[c].event
  <2>1. call[c] \in Call
    BY <1>3 DEF TypeOK
  <2> QED
    BY <1>4, <2>1 DEF Call
<1>6. call' = [call EXCEPT ![c] = y] /\ call'[c] = y
  BY <1>3, <1>4 DEF TypeOK
<1>7. /\ epoll'[Fd(w)] = n /\ epoll' \in [Fds -> EntryType]
      /\ \A f \in Fds : f # Fd(w) => epoll'[f] = epoll[f]
  BY <1>3 DEF TypeOK, EntryType
<1>8. TypeOK'
  <2>1. call' \in [Callers -> Call]
    BY <1>3, <1>5, <1>6 DEF TypeOK
  <2> QED
    BY <1>3, <1>7, <2>1 DEF TypeOK, EntryType
<1>9. ASSUME NEW v \in Waiters PROVE ContextOK(v)' /\ EntryOK(v)' /\ WaiterOK(v)'
  <2>1. CASE v = w
    <3>1. \A i \in Fills : Ctx(w, i)' = Ctx(w, i) /\ Reg(w, i)' = Reg(w, i)
      BY DEF Ctx, Reg
    <3>2. ContextOK(w) /\ EntryOK(w) /\ WaiterOK(w)
      BY DEF TInv
    <3>3. \A d \in Callers : call[d].pc # "fill"
      BY <1>2
    <3>4. waiter[w] \in {"waiting", "deleted"} /\ \A i \in Fills : Reg(w, i) => i = j
      BY <3>2, <3>3 DEF ContextOK
    <3>5. ContextOK(w)'
      BY <1>7, <3>1, <3>2, <3>4 DEF ContextOK
    <3>6. EntryOK(w)'
      BY <1>7, <3>4 DEF EntryOK
    <3>7. Handled(Fd(w))'
      BY <1>5, <1>6 DEF Handled
    <3>8. WaiterOK(w)'
      BY <3>2, <3>4, <3>7 DEF WaiterOK
    <3> QED
      BY <2>1, <3>5, <3>6, <3>8
  <2>2. CASE v # w
    <3>1. epoll'[Fd(v)] = epoll[Fd(v)]
      BY <1>7, <2>2, KeyOfWaiter DEF InTurns, Fd
    <3>2. \A d \in Callers : call[d].op # "addEvent"
      BY <1>1, <1>2
    <3> QED
      BY <1>2, <2>2, <3>1, <3>2, Untouched DEF Ctx
  <2> QED
    BY <2>1, <2>2
<1>10. CallOK(c)'
  <2>1. Ctx(w, j)' = Ctx(w, j) /\ ctx'[y.key] = Ctx(w, j)
    BY <1>5 DEF Ctx
  <2> QED
    BY <1>1, <1>3, <1>5, <1>6, <2>1 DEF CallOK, Reg
<1>11. \A d \in Callers : CallOK(d)'
  BY <1>2, <1>10
<1> QED
  BY <1>2, <1>8, <1>9, <1>11, CountKept DEF TInv

LEMMA DelOrCancelCtlTInv ==
  ASSUME InTurns, TInv, NEW c \in Callers, NEW op \in Calls, DelOrCancelCtl(c, op)
  PROVE  TInv'
<1>1. /\ call[c].op = op /\ op # "cancelAll" /\ call[c].pc = "ctl"
      /\ UNCHANGED <<table, ctx, pending, level, idler, waiter, wakes, timer, stopped, abort>>
  BY DEF DelOrCancelCtl, At
<1>2. PICK w \in Waiters, j \in Fills :
           /\ call[c].key = <<Fd(w), j>> /\ call[c].key \in Keys
           /\ call[c].key[1] = Fd(w) /\ call[c].key[2] = j
           /\ ctx[call[c].key] = Ctx(w, j) /\ Ctx(w, j).event \subseteq {Ev(w)}
  BY <1>1, CallFacts
<1>3. CASE ~Registered(call[c].key, call[c].event) \/ EpollFails("MOD", call[c].key[1])
  <2>1. Return(c) /\ UNCHANGED epoll
    BY <1>3 DEF DelOrCancelCtl
  <2> QED
    BY <1>1, <2>1, NothingToDo
<1>4. CASE ~(~Registered(call[c].key, call[c].event) \/ EpollFails("MOD", call[c].key[1]))
  <2>1. call[c].event = Ev(w) /\ Reg(w, j) /\ ctx[call[c].key].event \cup {call[c].event} = {Ev(w)}
    BY <1>2, <1>4 DEF Registered, Reg
  <2>2. Goto(c, "finish") /\ EpollSet("MOD", Fd(w), Entry(Fd(w), j, {Ev(w)}, FALSE))
    BY <1>2, <1>4, <2>1 DEF DelOrCancelCtl
  <2>3. PICK n : n = Entry(Fd(w), j, {Ev(w)}, FALSE)
    OBVIOUS
  <2>4. n \in EntryType /\ n.in /\ n.fill = j /\ n.interest = {Ev(w)}
    BY <2>3, KeyOfWaiter DEF Entry, EntryType, Fills
  <2>5. epoll' = [epoll EXCEPT ![Fd(w)] = n] /\ call' = [call EXCEPT ![c].pc = "finish"]
    BY <2>2, <2>3 DEF EpollSet, Goto
  <2> QED
    BY <1>1, <1>2, <2>1, <2>4, <2>5, CtlMade
<1> QED
  BY <1>3, <1>4

LEMMA CancelAllCtlTInv ==
  ASSUME InTurns, TInv, NEW c \in Callers, CancelAllCtl(c)
  PROVE  TInv'
<1>1. /\ call[c].op = "cancelAll" /\ call[c].pc = "ctl"
      /\ UNCHANGED <<table, ctx, pending, level, idler, waiter, wakes, timer, stopped, abort>>
  BY DEF CancelAllCtl, At
<1>2. call[c].op \in Calls
  BY <1>1 DEF TInv, TypeOK, Call
<1>3. PICK w \in Waiters, j \in Fills :
           /\ call[c].key = <<Fd(w), j>> /\ call[c].key \in Keys
           /\ call[c].key[1] = Fd(w) /\ call[c].key[2] = j
           /\ ctx[call[c].key] = Ctx(w, j) /\ Ctx(w, j).event \subseteq {Ev(w)}
  BY <1>2, CallFacts
<1>4. CASE ctx[call[c].key].event = {} \/ EpollFails("DEL", call[c].key[1])
  <2>1. Return(c) /\ UNCHANGED epoll
    BY <1>4 DEF CancelAllCtl
  <2> QED
    BY <1>1, <1>2, <2>1, NothingToDo
<1>5. CASE ~(ctx[call[c].key].event = {} \/ EpollFails("DEL", call[c].key[1]))
  <2>1. Reg(w, j)
    BY <1>3, <1>5 DEF Reg
  <2>2. Goto(c, "finish") /\ EpollSet("DEL", Fd(w), NoEntry)
    BY <1>3, <1>5 DEF CancelAllCtl
  <2>3. PICK n : n = NoEntry
    OBVIOUS
  <2>4. n \in EntryType /\ ~n.in /\ ~n.ready
    BY <2>3, IOAssumption DEF NoEntry, EntryType
  <2>5. epoll' = [epoll EXCEPT ![Fd(w)] = n] /\ call' = [call EXCEPT ![c].pc = "finish"]
    BY <2>2, <2>3 DEF EpollSet, Goto
  <2> QED
    BY <1>1, <1>2, <1>3, <2>1, <2>4, <2>5, CtlMade
<1> QED
  BY <1>4, <1>5

\* delEvent takes the waiter out of its slot, and leaves the event registered.
LEMMA delEventTInv == ASSUME InTurns, TInv, NEW c \in Callers, delEvent(c) PROVE TInv'
<1>1. /\ call[c].op = "delEvent" /\ call[c].pc = "finish" /\ Dec(1)
      /\ call' = [call EXCEPT ![c] = NoCall]
      /\ UNCHANGED <<table, epoll, level, idler, wakes, timer, stopped, abort>>
  BY DEF delEvent, At, Return
<1>2. call[c].op \in Calls
  BY <1>1 DEF TInv, TypeOK, Call
<1>3. PICK w \in Waiters, j \in Fills :
           /\ call[c].key = <<Fd(w), j>> /\ call[c].key \in Keys /\ call[c].key[1] = Fd(w)
           /\ ctx[call[c].key] = Ctx(w, j)
           /\ Reg(w, j) /\ Ctx(w, j).event = {Ev(w)} /\ call[c].event = Ev(w)
  BY <1>1, <1>2, CallFacts
<1>4. /\ TypeOK /\ Fd(w) \in Fds /\ Ev(w) \in Events /\ ContextOK(w) /\ EntryOK(w) /\ WaiterOK(w)
      /\ Ctx(w, j) \in FdContex
  BY <1>3, KeyOfWaiter DEF TInv, TypeOK
<1>5. /\ \A t \in Threads : IdlerOK(t)'
      /\ LeftOK' /\ \A d \in Callers : d = c
      /\ \A v \in Waiters : Handled(Fd(v)) => Fd(v) = Fd(w)
  BY <1>1, <1>3, CallFrame
<1>6. waiter[w] \in {"waiting", "deleted"} /\ \A i \in Fills : Reg(w, i) => i = j
  BY <1>1, <1>3, <1>4, <1>5 DEF ContextOK
<1>7. PICK x : x = [event |-> ctx[call[c].key].event \cup {call[c].event},
                    slot |-> resetContex(ctx[call[c].key].slot, call[c].event)]
  OBVIOUS
<1>8. /\ x \in FdContex /\ x.event = {Ev(w)} /\ x.slot[Ev(w)].waiter = NoWaiter
      /\ \A e \in Events : e # Ev(w) => x.slot[e] = Ctx(w, j).slot[e]
  BY <1>3, <1>4, <1>7 DEF FdContex, resetContex, FreeSlot
<1>9. ctx' = [ctx EXCEPT ![<<Fd(w), j>>] = x]
  BY <1>3, <1>7 DEF delEvent
<1>10. /\ ctx' \in [Keys -> FdContex] /\ ctx'[<<Fd(w), j>>] = x
       /\ \A k \in Keys : k # <<Fd(w), j>> => ctx'[k] = ctx[k]
  BY <1>3, <1>4, <1>8, <1>9 DEF TypeOK
<1>11. PICK s : s = Ctx(w, j).slot[Ev(w)].waiter
  OBVIOUS
<1>12. s = IF waiter[w] = "waiting" THEN w ELSE NoWaiter
  BY <1>3, <1>4, <1>6, <1>11 DEF ContextOK
<1>13. waiter' = [v \in Waiters |->
                    IF v = s /\ waiter[v] = "waiting" THEN "deleted" ELSE waiter[v]]
  BY <1>3, <1>11 DEF delEvent
<1>14. /\ waiter'[w] = "deleted" /\ \A v \in Waiters : v # w => waiter'[v] = waiter[v]
       /\ waiter' \in [Waiters -> {"new", "calling", "refused", "waiting",
                                   "deleted", "queued", "done"}]
  BY <1>4, <1>6, <1>12, <1>13, IOAssumption DEF TypeOK
<1>15. call' \in [Callers -> Call] /\ CallOK(c)'
  BY <1>1, <1>4, Returned
<1>16. pending' \in 0 .. MaxSize - 1
  BY <1>1, <1>4, DecTyped
<1>17. TypeOK'
  BY <1>1, <1>4, <1>10, <1>14, <1>15, <1>16 DEF TypeOK
<1>18. ASSUME NEW v \in Waiters, v # w, NEW i \in Fills PROVE Ctx(v, i)' = Ctx(v, i)
  <2>1. <<Fd(v), i>> \in Keys /\ <<Fd(v), i>> # <<Fd(w), j>>
    BY <1>18, KeyOfWaiter DEF InTurns, Fd
  <2> QED
    BY <1>10, <2>1 DEF Ctx
<1>19. \A i \in Fills : i # j => Ctx(w, i)' = Ctx(w, i) /\ Reg(w, i)' = Reg(w, i)
  BY <1>10, KeyOfWaiter DEF Ctx, Reg
<1>20. Ctx(w, j)' = x
  BY <1>10 DEF Ctx
<1>21. ASSUME NEW v \in Waiters PROVE ContextOK(v)' /\ EntryOK(v)' /\ WaiterOK(v)'
  <2>1. CASE v = w
    <3>1. ASSUME NEW i \in Fills
          PROVE  /\ Ctx(w, i)'.event \subseteq {Ev(w)}
                 /\ \A e \in Events : Ctx(w, i)'.slot[e].waiter \in {w, NoWaiter}
                 /\ Reg(w, i)' => i = j
                 /\ Reg(w, i)' => Ctx(w, i)'.slot[Ev(w)].waiter = NoWaiter
      <4>1. /\ \A e \in Events : Ctx(w, i).slot[e].waiter \in {w, NoWaiter}
            /\ Ctx(w, i).event \subseteq {Ev(w)}
            /\ Reg(w, i) => i = j
        BY <1>4, <1>6 DEF ContextOK
      <4>2. CASE i = j
        BY <1>8, <1>20, <4>1, <4>2
      <4>3. CASE i # j
        BY <1>19, <4>1, <4>3
      <4> QED
        BY <4>2, <4>3
    <3>2. epoll'[Fd(w)].in => epoll'[Fd(w)].fill = j
      BY <1>1, <1>3, <1>4 DEF ContextOK
    <3>3. ContextOK(w)'
      BY <1>14, <3>1, <3>2 DEF ContextOK
    <3>4. EntryOK(w)'
      BY <1>1, <1>4, <1>14 DEF EntryOK
    <3>5. WaiterOK(w)'
      BY <1>1, <1>4, <1>6, <1>14 DEF WaiterOK
    <3> QED
      BY <2>1, <3>3, <3>4, <3>5
  <2>2. CASE v # w
    <3>1. ~Handled(Fd(v))
      BY <1>5, <2>2 DEF InTurns, Fd
    <3>2. \A d \in Callers : call[d].op # "addEvent"
      BY <1>1, <1>5
    <3> QED
      BY <1>1, <1>14, <1>18, <2>2, <3>1, <3>2, Untouched
  <2> QED
    BY <2>1, <2>2
<1>22. \A d \in Callers : CallOK(d)'
  BY <1>5, <1>15
<1>23. abort' = "none" /\ ~NothingDeleted'
  BY <1>1, <1>14 DEF TInv, NothingDeleted
<1> QED
  BY <1>5, <1>17, <1>21, <1>22, <1>23 DEF TInv

\* cancelEvent and cancelAll: the waiter is handed to the scheduler.
LEMMA CancelTInv ==
  ASSUME InTurns, TInv, NEW c \in Callers, call[c].op \in Calls, call[c].pc = "finish", Return(c),
         UNCHANGED <<table, epoll, level, idler, timer, stopped>>, Dec(1),
         NEW w \in Waiters, NEW j \in Fills, call[c].key[1] = Fd(w), Reg(w, j),
         triggerEvent(<<Fd(w), j>>, {Ev(w)})
  PROVE  TInv'
<1>1. call[c].op # "none" /\ call[c].op # "addEvent"
  BY IOAssumption
<1>2. /\ \A t \in Threads : IdlerOK(t)'
      /\ LeftOK' /\ \A d \in Callers : d = c
      /\ \A v \in Waiters : Handled(Fd(v)) => Fd(v) = Fd(w)
  BY <1>1, CallFrame
<1>3. /\ abort' = abort
      /\ ctx' \in [Keys -> FdContex] /\ pending' \in 0 .. MaxSize - 1
      /\ waiter' \in [Waiters -> {"new", "calling", "refused", "waiting",
                                  "deleted", "queued", "done"}]
      /\ wakes' \in [Waiters -> 0 .. 2]
      /\ \A v \in Waiters : v # w =>
           /\ waiter'[v] = waiter[v] /\ wakes'[v] = wakes[v]
           /\ \A i \in Fills : Ctx(v, i)' = Ctx(v, i)
      /\ ContextOK(w)' /\ EntryOK(w)'
      /\ waiter'[w] = IF waiter[w] = "waiting" THEN "queued" ELSE "deleted"
      /\ wakes'[w] = IF waiter[w] = "waiting" THEN 1 ELSE 0
      /\ (NothingDeleted => pending = Cardinality(RegisteredSet))'
  BY <1>2, TriggerFacts
<1>4. call' \in [Callers -> Call] /\ CallOK(c)'
  BY Returned DEF TInv, Return
<1>5. TypeOK'
  BY <1>3, <1>4 DEF TInv, TypeOK
<1>6. ASSUME NEW v \in Waiters PROVE ContextOK(v)' /\ EntryOK(v)' /\ WaiterOK(v)'
  <2>1. CASE v = w
    BY <1>3, <2>1 DEF WaiterOK
  <2>2. CASE v # w
    <3>1. ~Handled(Fd(v))
      BY <1>2, <2>2 DEF InTurns, Fd
    <3>2. \A d \in Callers : call[d].op # "addEvent"
      BY <1>1, <1>2
    <3> QED
      BY <1>3, <2>2, <3>1, <3>2, Untouched
  <2> QED
    BY <2>1, <2>2
<1>7. \A d \in Callers : CallOK(d)'
  BY <1>2, <1>4
<1>8. abort' = "none"
  BY <1>3 DEF TInv
<1> QED
  BY <1>2, <1>3, <1>5, <1>6, <1>7, <1>8 DEF TInv

LEMMA cancelEventTInv == ASSUME InTurns, TInv, NEW c \in Callers, cancelEvent(c) PROVE TInv'
<1>1. /\ call[c].op = "cancelEvent" /\ call[c].pc = "finish" /\ Dec(1) /\ Return(c)
      /\ triggerEvent(call[c].key, {call[c].event})
      /\ UNCHANGED <<table, epoll, level, idler, timer, stopped>>
  BY DEF cancelEvent, At
<1>2. call[c].op \in Calls
  BY <1>1 DEF TInv, TypeOK, Call
<1>3. PICK w \in Waiters, j \in Fills :
           /\ call[c].key = <<Fd(w), j>> /\ call[c].key[1] = Fd(w)
           /\ Reg(w, j) /\ call[c].event = Ev(w)
  BY <1>1, <1>2, CallFacts
<1>4. triggerEvent(<<Fd(w), j>>, {Ev(w)})
  BY <1>1, <1>3
<1> QED
  BY <1>1, <1>2, <1>3, <1>4, CancelTInv

LEMMA cancelAllTInv == ASSUME InTurns, TInv, NEW c \in Callers, cancelAll(c) PROVE TInv'
<1>1. /\ call[c].op = "cancelAll" /\ call[c].pc = "finish" /\ Return(c)
      /\ Dec(Cardinality(CancelAllEvents(call[c].key)))
      /\ triggerEvent(call[c].key, CancelAllEvents(call[c].key))
      /\ UNCHANGED <<table, epoll, level, idler, timer, stopped>>
  BY DEF cancelAll, At
<1>2. call[c].op \in Calls
  BY <1>1 DEF TInv, TypeOK, Call
<1>3. PICK w \in Waiters, j \in Fills :
           /\ call[c].key = <<Fd(w), j>> /\ call[c].key[1] = Fd(w)
           /\ ctx[call[c].key] = Ctx(w, j)
           /\ Reg(w, j) /\ Ctx(w, j).event = {Ev(w)}
  BY <1>1, <1>2, CallFacts
<1>4. Ev(w) = "READD"
  BY <1>1, <1>2 DEF InTurns, Ev
<1>5. CancelAllEvents(call[c].key) = {Ev(w)}
  BY <1>3, <1>4 DEF CancelAllEvents
<1>6. Cardinality({Ev(w)}) = 1
  BY FS_Singleton
<1>7. triggerEvent(<<Fd(w), j>>, {Ev(w)}) /\ Dec(1)
  BY <1>1, <1>3, <1>5, <1>6
<1> QED
  BY <1>1, <1>2, <1>3, <1>7, CancelTInv

-----------------------------------------------------------------------------
(* The theorems, for one thread in turns.                                  *)

\* The invariant the others are read off.
THEOREM TurnsInvariance == ASSUME InTurns PROVE Spec => []TInv
<1>1. Init => TInv
  BY InitTInv
<1>2. ASSUME TInv, [Next]_vars PROVE TInv'
  <2>1. CASE UNCHANGED vars
    <3>1. /\ UNCHANGED <<table, ctx, pending, epoll, level, call, idler>>
          /\ UNCHANGED <<waiter, wakes, timer, stopped, abort>>
      BY <2>1 DEF vars
    <3>2. TypeOK'
      BY <1>2, <3>1 DEF TInv, TypeOK
    <3>3. \A w \in Waiters : /\ epoll'[Fd(w)] = [epoll[Fd(w)] EXCEPT !.ready = epoll'[Fd(w)].ready]
                             /\ epoll'[Fd(w)].ready => epoll[Fd(w)].in
      BY <1>2, <3>1, EntryTyped DEF TInv, EntryOK, EntryType
    <3>4. \A w \in Waiters : Ready(w) => Ready(w)'
      BY <3>1 DEF Ready
    <3> QED
      BY <1>2, <3>1, <3>2, <3>3, <3>4, DescriptorTInv
  <2>2. ASSUME NEW c \in Callers, NEW w \in Waiters, BeginAdd(c, w) PROVE TInv'
    BY <1>2, <2>2, BeginAddTInv
  <2>3. ASSUME NEW c \in Callers, NEW op \in Calls, NEW f \in Fds, NEW e \in Events,
               BeginCall(c, op, f, e)
        PROVE  TInv'
    BY <1>2, <2>3, BeginCallTInv
  <2>4. ASSUME NEW c \in Callers, CallStep(c) PROVE TInv'
    BY <1>2, <2>4, AddCtlTInv, AddMarkTInv, AddFillTInv, DelOrCancelCtlTInv, delEventTInv,
       cancelEventTInv, CancelAllCtlTInv, cancelAllTInv DEF CallStep
  <2>5. ASSUME NEW t \in Threads, IdleStep(t) PROVE TInv'
    BY <1>2, <2>5, TestStopTInv, WaitTInv, LookTInv, CtlTInv, TriggerTInv, SwapOutTInv DEF IdleStep
  <2>6. ASSUME NEW w \in Waiters, RunTask(w) PROVE TInv'
    BY <1>2, <2>6, RunTaskTInv
  <2>7. CASE RunTimer
    BY <1>2, <2>7, RunTimerTInv
  <2>8. ASSUME NEW f \in Fds, NEW e \in Events \cup {"HUP"}, Arrive(f, e) \/ Drain(f, e)
        PROVE  TInv'
    BY <1>2, <2>8, ArriveTInv, DrainTInv
  <2>9. CASE Stop
    BY <1>2, <2>9, StopTInv
  <2> QED
    BY <1>2, <2>1, <2>2, <2>3, <2>4, <2>5, <2>6, <2>7, <2>8, <2>9 DEF Next
<1> QED
  BY <1>1, <1>2, PTL DEF Spec

\* No assertion of IOManager fails, no context outside the table is used, and
\* pending_Event_Size_ is the number of registered events, until a delEvent.
THEOREM TableIsRight == ASSUME InTurns PROVE Spec => []IOInv
<1>1. TInv => IOInv
  BY DEF TInv, IOInv, NoAbort, PendingExact, RegisteredSet
<1> QED
  BY <1>1, TurnsInvariance, PTL

\* No waiter is handed to the scheduler twice, by idle() and by a cancellation.
THEOREM WokenOnce == ASSUME InTurns PROVE Spec => []ScheduledOnce
<1>1. TInv => ScheduledOnce
  BY DEF TInv, WaiterOK, ScheduledOnce
<1> QED
  BY <1>1, TurnsInvariance, PTL

\* An edge that has been taken from epoll's ready list is acted upon.
THEOREM NoEdgeLost == ASSUME InTurns PROVE Spec => []NoLostEvent
<1>1. TInv => NoLostEvent
  <2> SUFFICES ASSUME TInv, NEW w \in Waiters, waiter[w] = "waiting", Ev(w) \in level[Fd(w)]
               PROVE  Handled(Fd(w)) \/ (epoll[Fd(w)].ready /\ Ev(w) \in Reported(Fd(w)))
    BY DEF NoLostEvent, Fd, Ev
  <2>1. Handled(Fd(w)) \/ Ready(w)
    BY DEF TInv, WaiterOK
  <2>2. epoll[Fd(w)].in => epoll[Fd(w)].interest = {Ev(w)}
    BY DEF TInv, EntryOK
  <2> QED
    BY <2>1, <2>2 DEF Ready, Reported
<1> QED
  BY <1>1, TurnsInvariance, PTL

\* A thread leaves idle() only when no waiter and no timer is left.
THEOREM LeavesNothing == ASSUME InTurns PROVE Spec => []StopsEmpty
<1>1. TInv => StopsEmpty
  <2> SUFFICES ASSUME TInv, NEW t \in Threads, idler[t].pc = "left", NothingDeleted
               PROVE  timer = "none" /\ \A w \in Waiters : waiter[w] \notin {"calling", "waiting", "queued"}
    BY DEF StopsEmpty
  <2>1. /\ timer = "none" /\ \A c \in Callers : call[c].op = "none"
        /\ \A w \in Waiters : waiter[w] # "queued" /\ waiter[w] # "waiting"
    BY DEF TInv, LeftOK
  <2>2. \A w \in Waiters : waiter[w] # "calling"
    BY <2>1 DEF TInv, WaiterOK
  <2> QED
    BY <2>1, <2>2
<1> QED
  BY <1>1, TurnsInvariance, PTL

-----------------------------------------------------------------------------
(* Any number of threads and callers, at any time.                         *)

\* The first growth of the table has room for every descriptor, the waiters of
\* one descriptor wait for the same event, and only cancelAll is called.
OneEventEach ==
  /\ MaxFills >= 1
  /\ \A v, w \in Waiters : Use[w].fd < (Use[v].fd * 3) \div 2
  /\ \A v, w \in Waiters : Use[v].fd = Use[w].fd => Use[v].event = Use[w].event
  /\ Calls \subseteq {"cancelAll"}

\* The event of f is registered, or about to be.
Kept(f) == \/ ctx[<<f, 1>>].event # {}
           \/ \E c \in Callers : call[c].pc = "mark" /\ call[c].key = <<f, 1>>

TypesOK ==
  /\ ctx \in [Keys -> FdContex] /\ epoll \in [Fds -> EntryType]
  /\ call \in [Callers -> Call] /\ idler \in [Threads -> Idler]

TableOK ==
  /\ table \in [size : Nat, fill : Nat]
  /\ table.size # 0 => table.fill = 1 /\ \A f \in Fds : f < table.size
  /\ table.size = 0 => table.fill = 0
  /\ \A w \in Waiters : Ctx(w, 1).event \subseteq {Ev(w)}

CallerOK(c) ==
  /\ call[c].op = "none" => call[c].pc = "none"
  /\ call[c].op = "addEvent" =>
       /\ call[c].pc \in {"ctl", "mark", "fill"}
       /\ \E w \in Waiters : call[c].key = <<Fd(w), 1>> /\ call[c].event = Ev(w)
  /\ call[c].op = "cancelAll" =>
       call[c].pc \in {"ctl", "finish"} /\ \E f \in Fds : call[c].key = <<f, 1>>
  /\ call[c].pc = "finish" => ~epoll[call[c].key[1]].in /\ Kept(call[c].key[1])
  /\ \A d \in Callers : d # c /\ call[c].pc \notin {"none", "ctl"}
                        /\ call[d].pc \notin {"none", "ctl"} => call[c].key # call[d].key

ThreadOK(t) ==
  /\ \A r \in idler[t].batch : r.key[2] = 1
  /\ idler[t].pc \in {"ctl", "trigger"} => \E f \in Fds : idler[t].key = <<f, 1>>
  /\ idler[t].pc = "ctl" => idler[t].rest = {}
  /\ idler[t].pc = "trigger" =>
       /\ ~epoll[idler[t].key[1]].in /\ Kept(idler[t].key[1])
       /\ \A u \in Threads : u # t /\ idler[u].pc = "trigger" => idler[u].key # idler[t].key
       /\ \A c \in Callers : call[c].pc = "finish" => call[c].key # idler[t].key

EpollOK == \A f \in Fds : /\ epoll[f].in => epoll[f].fill = 1 /\ Kept(f)
                          /\ epoll[f].ready => epoll[f].in

\* Whoever has taken the entry out of epoll is alone with its event.
HInv == /\ TypesOK /\ TableOK /\ EpollOK
        /\ \A c \in Callers : CallerOK(c)
        /\ \A t \in Threads : ThreadOK(t)

LEMMA KeptStays ==
  ASSUME NEW f, Kept(f), ctx[<<f, 1>>].event # {} => ctx'[<<f, 1>>].event # {},
         \A c \in Callers : call[c].pc = "mark" => call'[c] = call[c]
  PROVE  Kept(f)'
BY DEF Kept

LEMMA FirstKey ==
  ASSUME OneEventEach, NEW f \in Fds
  PROVE  <<f, 1>> \in Keys /\ <<f, 1>>[1] = f /\ <<f, 1>>[2] = 1 /\ 1 \in Fills
BY IOAssumption DEF Keys, OneEventEach, Fills

LEMMA InitHInv == ASSUME OneEventEach, Init PROVE HInv
<1>1. \A k \in Keys : ctx[k] = NewContex
  BY DEF Init
<1>2. TypesOK
  <2>1. TypeOK
    BY InitTInv DEF TInv
  <2> QED
    BY <2>1 DEF TypesOK, TypeOK, EntryType
<1>3. TableOK
  <2>1. ASSUME NEW w \in Waiters PROVE Ctx(w, 1).event = {}
    BY <1>1, KeyOfWaiter, FirstKey DEF Ctx, NewContex
  <2> QED
    BY <2>1 DEF Init, TableOK
<1>4. EpollOK
  BY DEF Init, NoEntry, EpollOK
<1>5. \A c \in Callers : CallerOK(c)
  BY DEF Init, NoCall, CallerOK
<1>6. \A t \in Threads : ThreadOK(t)
  BY DEF Init, NotIdle, ThreadOK
<1> QED
  BY <1>2, <1>3, <1>4, <1>5, <1>6 DEF HInv

\* The three steps in which a caller has the context's mutex.
LEMMA FinishKey ==
  ASSUME OneEventEach, HInv, NEW c \in Callers
  PROVE  /\ call[c].pc = "finish" =>
              call[c].op = "cancelAll" /\ \E f \in Fds : call[c].key = <<f, 1>> /\ call[c].key[1] = f
         /\ call[c].pc \in {"mark", "fill"} => call[c].op = "addEvent"
         /\ call[c].op \in {"none", "addEvent", "cancelAll"}
<1>1. CallerOK(c) /\ call[c] \in Call
  BY DEF HInv, TypesOK
<1>2. call[c].op \in {"none", "addEvent", "cancelAll"}
  BY <1>1 DEF Call, OneEventEach
<1> QED
  BY <1>1, <1>2 DEF CallerOK

\* Steps that take nothing out of epoll and register nothing.
LEMMA Quiet ==
  ASSUME OneEventEach, HInv, UNCHANGED <<table, ctx, call>>,
         epoll' \in [Fds -> EntryType], idler' \in [Threads -> Idler],
         \A f \in Fds : /\ epoll'[f].in = epoll[f].in /\ epoll'[f].fill = epoll[f].fill
                        /\ epoll'[f].ready => epoll[f].in,
         \A t \in Threads :
           \/ idler'[t] = idler[t]
           \/ /\ \A r \in idler'[t].batch : r.key[2] = 1
              /\ idler'[t].pc # "trigger"
              /\ idler'[t].pc = "ctl" =>
                   idler'[t].rest = {} /\ \E f \in Fds : idler'[t].key = <<f, 1>>
  PROVE  HInv'
<1>1. \A f : Kept(f)' = Kept(f)
  BY DEF Kept
<1>2. TypesOK' /\ TableOK' /\ EpollOK'
  BY <1>1 DEF HInv, TypesOK, TableOK, EpollOK, Ctx
<1>3. ASSUME NEW c \in Callers PROVE CallerOK(c)'
  <2>1. CallerOK(c) /\ call[c] \in Call
    BY DEF HInv, TypesOK
  <2>2. call[c].pc = "finish" => call[c].key[1] \in Fds
    BY FinishKey
  <2> QED
    BY <1>1, <2>1, <2>2 DEF CallerOK
<1>4. ASSUME NEW t \in Threads PROVE ThreadOK(t)'
  <2>1. \A u \in Threads : idler'[u].pc = "trigger" => idler'[u] = idler[u]
    OBVIOUS
  <2>2. ThreadOK(t)
    BY DEF HInv
  <2>3. CASE idler'[t].pc = "trigger"
    <3>1. idler'[t] = idler[t]
      BY <2>1, <2>3
    <3>2. PICK f \in Fds : idler[t].key = <<f, 1>> /\ idler[t].key[1] = f
      BY <2>2, <2>3, <3>1 DEF ThreadOK
    <3> QED
      BY <1>1, <2>1, <2>2, <2>3, <3>1, <3>2 DEF ThreadOK
  <2>4. CASE idler'[t].pc # "trigger"
    BY <2>2, <2>4 DEF ThreadOK
  <2> QED
    BY <2>3, <2>4
<1> QED
  BY <1>2, <1>3, <1>4 DEF HInv

LEMMA PoolHInv ==
  ASSUME OneEventEach, HInv,
         \/ \E w \in Waiters : RunTask(w)
         \/ RunTimer \/ Stop
         \/ \E f \in Fds, e \in Events \cup {"HUP"} : Drain(f, e)
         \/ UNCHANGED vars
  PROVE  HInv'
<1>1. UNCHANGED <<table, ctx, call, epoll, idler>>
  BY DEF RunTask, RunTimer, Stop, Drain, vars
<1>2. /\ epoll' \in [Fds -> EntryType] /\ idler' \in [Threads -> Idler]
      /\ \A f \in Fds : epoll[f].ready => epoll[f].in
  BY <1>1 DEF HInv, TypesOK, EpollOK
<1> QED
  BY <1>1, <1>2, Quiet

LEMMA ArriveHInv ==
  ASSUME OneEventEach, HInv, NEW f \in Fds, NEW e \in Events \cup {"HUP"}, Arrive(f, e)
  PROVE  HInv'
<1> DEFINE r == epoll[f].ready \/ (epoll[f].in /\ e \in epoll[f].interest \cup {"HUP"})
<1>1. /\ epoll' = [epoll EXCEPT ![f] = [epoll[f] EXCEPT !.ready = r]]
      /\ UNCHANGED <<table, ctx, call, idler>>
  BY DEF Arrive
<1>2. /\ epoll \in [Fds -> EntryType] /\ epoll[f] \in EntryType /\ r \in BOOLEAN
      /\ \A g \in Fds : epoll[g].ready => epoll[g].in
  BY DEF HInv, TypesOK, EpollOK, EntryType
<1>3. PICK x : x = [epoll[f] EXCEPT !.ready = r]
  OBVIOUS
<1>4. /\ x \in EntryType /\ x.in = epoll[f].in /\ x.fill = epoll[f].fill
      /\ x.ready => epoll[f].in
  BY <1>2, <1>3 DEF EntryType
<1>5. epoll' = [epoll EXCEPT ![f] = x]
  BY <1>1, <1>3
<1>6. /\ epoll' \in [Fds -> EntryType] /\ idler' \in [Threads -> Idler]
      /\ \A g \in Fds : /\ epoll'[g].in = epoll[g].in /\ epoll'[g].fill = epoll[g].fill
                        /\ epoll'[g].ready => epoll[g].in
  BY <1>1, <1>2, <1>4, <1>5 DEF HInv, TypesOK
<1> QED
  BY <1>1, <1>6, Quiet

LEMMA StayHInv ==
  ASSUME OneEventEach, HInv, NEW t \in Threads, TestStop(t) \/ SwapOut(t)
  PROVE  HInv'
<1>1. PICK pc \in {"left", "wait", "test"} : idler' = [idler EXCEPT ![t].pc = pc]
  BY DEF TestStop, SwapOut
<1>2. UNCHANGED <<table, ctx, call, epoll>>
  BY DEF TestStop, SwapOut
<1>3. /\ idler \in [Threads -> Idler] /\ idler[t] \in Idler /\ epoll' \in [Fds -> EntryType]
      /\ \A f \in Fds : epoll[f].ready => epoll[f].in
      /\ \A r \in idler[t].batch : r.key[2] = 1
  BY <1>2 DEF HInv, TypesOK, EpollOK, ThreadOK
<1>4. PICK y : y = [idler[t] EXCEPT !.pc = pc]
  OBVIOUS
<1>5. y \in Idler /\ y.pc = pc /\ y.batch = idler[t].batch
  BY <1>3, <1>4 DEF Idler
<1>6. idler' = [idler EXCEPT ![t] = y]
  BY <1>1, <1>4
<1>7. /\ idler' \in [Threads -> Idler] /\ idler'[t] = y
      /\ \A u \in Threads : u # t => idler'[u] = idler[u]
  BY <1>3, <1>5, <1>6
<1> QED
  BY <1>2, <1>3, <1>5, <1>7, Quiet

LEMMA WaitHInv == ASSUME OneEventEach, HInv, NEW t \in Threads, Wait(t) PROVE HInv'
<1> DEFINE S == {f \in Fds : epoll[f].ready /\ Reported(f) # {}}
           B == {[key |-> <<f, epoll[f].fill>>, events |-> Reported(f)] : f \in S}
<1>1. /\ idler' = [idler EXCEPT ![t].pc = "batch", ![t].batch = B]
      /\ epoll' = [f \in Fds |-> [epoll[f] EXCEPT !.ready = f \in S /\ ~epoll[f].et]]
      /\ UNCHANGED <<table, ctx, call>>
  BY DEF Wait
<1>2. /\ idler \in [Threads -> Idler] /\ idler[t] \in Idler
      /\ \A f \in Fds : /\ epoll[f].ready => epoll[f].in
                        /\ epoll[f].in => epoll[f].fill = 1
                        /\ epoll[f] \in EntryType
  BY DEF HInv, TypesOK, EpollOK
<1>3. ASSUME NEW r \in B PROVE r \in Reports /\ r.key[2] = 1
  <2>1. PICK f \in S : r = [key |-> <<f, epoll[f].fill>>, events |-> Reported(f)]
    OBVIOUS
  <2>2. epoll[f].fill = 1 /\ <<f, 1>> \in Keys
    BY <1>2, FirstKey
  <2>3. Reported(f) \in SUBSET (Events \cup {"HUP"})
    BY <1>2 DEF Reported, EntryType
  <2> QED
    BY <2>1, <2>2, <2>3 DEF Reports
<1>4. ASSUME NEW f \in Fds
      PROVE  /\ epoll'[f] \in EntryType
             /\ epoll'[f].in = epoll[f].in /\ epoll'[f].fill = epoll[f].fill
             /\ epoll'[f].ready => epoll[f].in
  <2>1. PICK b : b = (f \in S /\ ~epoll[f].et)
    OBVIOUS
  <2>2. b \in BOOLEAN /\ epoll'[f] = [epoll[f] EXCEPT !.ready = b] /\ (b => epoll[f].ready)
    BY <1>1, <2>1
  <2> QED
    BY <1>2, <2>2 DEF EntryType
<1>5. PICK y : y = [idler[t] EXCEPT !.pc = "batch", !.batch = B]
  OBVIOUS
<1>6. B \subseteq Reports
  BY <1>3
<1>7. y \in Idler /\ y.pc = "batch" /\ y.batch = B
  BY <1>2, <1>5, <1>6 DEF Idler
<1>8. /\ idler' \in [Threads -> Idler] /\ idler'[t] = y
      /\ \A u \in Threads : u # t => idler'[u] = idler[u]
  BY <1>1, <1>2, <1>5, <1>7
<1>9. epoll' \in [Fds -> EntryType]
  BY <1>1, <1>4
<1>10. \A r \in y.batch : r.key[2] = 1
  BY <1>3, <1>7
<1> HIDE DEF S, B
<1>11. UNCHANGED <<table, ctx, call>>
  BY <1>1
<1> QED
  BY <1>4, <1>7, <1>8, <1>9, <1>10, <1>11, Quiet

LEMMA LookHInv ==
  ASSUME OneEventEach, HInv, NEW t \in Threads, NEW r \in idler[t].batch, Look(t, r)
  PROVE  HInv'
<1> DEFINE real == Real(r)
           event == ctx[r.key].event
           skip == [idler[t] EXCEPT !.batch = idler[t].batch \ {r}]
           go == [pc |-> "ctl", batch |-> idler[t].batch \ {r}, key |-> r.key, real |-> real,
                  seen |-> r.events \cup real, rest |-> event \ real]
<1>1. /\ idler' = [idler EXCEPT ![t] = IF event \cap real = {} THEN skip ELSE go]
      /\ UNCHANGED <<table, ctx, call, epoll>> /\ idler[t].pc = "batch"
  BY DEF Look, In
<1>2. /\ idler \in [Threads -> Idler] /\ idler[t] \in Idler /\ epoll \in [Fds -> EntryType]
      /\ \A f \in Fds : epoll[f].ready => epoll[f].in
      /\ \A q \in idler[t].batch : q.key[2] = 1
  BY DEF HInv, TypesOK, EpollOK, ThreadOK
<1>3. r \in Reports /\ r.key \in Keys /\ r.events \in SUBSET (Events \cup {"HUP"})
  BY <1>2 DEF Idler, Reports
<1>4. PICK w \in Waiters, j \in Fills : r.key = <<Fd(w), j>> /\ r.key[2] = j
  BY <1>3, WaiterOfKey
<1>5. r.key = <<Fd(w), 1>> /\ Fd(w) \in Fds /\ Ev(w) \in Events
  BY <1>2, <1>4, KeyOfWaiter
<1>6. event \subseteq {Ev(w)} /\ event \in SUBSET Events
  BY <1>5 DEF HInv, TableOK, Ctx
<1>7. real \in SUBSET Events
  <2>1. CASE "HUP" \in r.events
    BY <1>6, <2>1 DEF Real
  <2>2. CASE "HUP" \notin r.events
    BY <1>3, <2>2 DEF Real
  <2> QED
    BY <2>1, <2>2
<1>8. PICK y : y = IF event \cap real = {} THEN skip ELSE go
  OBVIOUS
<1>9. idler[t].batch \ {r} \in SUBSET Reports
  BY <1>2 DEF Idler
<1>10. /\ y \in Idler /\ y.batch = idler[t].batch \ {r} /\ y.pc # "trigger"
       /\ y.pc = "ctl" => y.rest = {} /\ y.key = <<Fd(w), 1>>
  <2>1. CASE event \cap real = {}
    <3>1. y = skip
      BY <1>8, <2>1
    <3>2. skip \in Idler /\ skip.batch = idler[t].batch \ {r} /\ skip.pc = idler[t].pc
      BY <1>2, <1>9 DEF Idler
    <3> QED
      BY <1>1, <3>1, <3>2
  <2>2. CASE event \cap real # {}
    <3>1. event \ real = {}
      BY <1>6, <2>2
    <3>2. r.events \cup real \in SUBSET (Events \cup {"HUP"})
      BY <1>3, <1>7
    <3>3. y = go
      BY <1>8, <2>2
    <3> HIDE DEF real, event
    <3>4. go \in Idler
      BY <1>3, <1>7, <1>9, <3>1, <3>2 DEF Idler
    <3> QED
      BY <1>5, <3>1, <3>3, <3>4
  <2> QED
    BY <2>1, <2>2
<1>11. idler' = [idler EXCEPT ![t] = y]
  BY <1>1, <1>8
<1>12. /\ idler' \in [Threads -> Idler] /\ idler'[t] = y
       /\ \A u \in Threads : u # t => idler'[u] = idler[u]
  BY <1>2, <1>10, <1>11
<1>13. \A q \in y.batch : q.key[2] = 1
  BY <1>2, <1>10
<1>14. /\ y.pc = "ctl" => y.rest = {} /\ \E f \in Fds : y.key = <<f, 1>>
       /\ y.pc # "trigger"
  BY <1>5, <1>10
<1>15. UNCHANGED <<table, ctx, call, epoll>>
  BY <1>1
<1> HIDE DEF real, event, skip, go
<1> QED
  BY <1>2, <1>12, <1>13, <1>14, <1>15, Quiet

\* EPOLL_CTL_DEL succeeds for one of those that try.
LEMMA CtlHInv == ASSUME OneEventEach, HInv, NEW t \in Threads, Ctl(t) PROVE HInv'
<1>1. idler[t].pc = "ctl" /\ UNCHANGED <<table, ctx, call>>
  BY DEF Ctl, In
<1>2. /\ TypesOK /\ TableOK /\ EpollOK /\ ThreadOK(t) /\ idler[t] \in Idler
  BY DEF HInv, TypesOK
<1>3. PICK f \in Fds : idler[t].key = <<f, 1>> /\ idler[t].key[1] = f
  BY <1>1, <1>2 DEF ThreadOK
<1>4. idler[t].rest = {}
  BY <1>1, <1>2 DEF ThreadOK
<1>5. CASE ~epoll[f].in
  <2>1. CtlFailed("DEL", f)
    BY <1>2, <1>5 DEF CtlFailed, EpollFails, TypesOK, EntryType
  <2>2. idler' = [idler EXCEPT ![t].pc = "batch"] /\ UNCHANGED epoll
    BY <1>3, <1>4, <2>1 DEF Ctl
  <2>3. PICK y : y = [idler[t] EXCEPT !.pc = "batch"]
    OBVIOUS
  <2>4. y \in Idler /\ y.pc = "batch" /\ y.batch = idler[t].batch
    BY <1>2, <2>3 DEF Idler
  <2>5. /\ idler' \in [Threads -> Idler] /\ idler'[t] = y
        /\ \A u \in Threads : u # t => idler'[u] = idler[u]
    BY <1>2, <2>2, <2>3, <2>4 DEF TypesOK
  <2>6. \A r \in y.batch : r.key[2] = 1
    BY <1>2, <2>4 DEF ThreadOK
  <2>7. /\ epoll' \in [Fds -> EntryType]
        /\ \A g \in Fds : /\ epoll'[g].in = epoll[g].in /\ epoll'[g].fill = epoll[g].fill
                          /\ epoll'[g].ready => epoll[g].in
    BY <1>2, <2>2 DEF TypesOK, EpollOK
  <2> QED
    BY <1>1, <2>4, <2>5, <2>6, <2>7, Quiet
<1>6. CASE epoll[f].in
  <2>1. ~CtlFailed("DEL", f)
    BY <1>6 DEF CtlFailed, EpollFails
  <2>2. /\ idler' = [idler EXCEPT ![t].pc = "trigger"]
        /\ \E e : EpollSet("DEL", f, e)
    BY <1>3, <1>4, <2>1 DEF Ctl
  <2>3. epoll' = [epoll EXCEPT ![f] = NoEntry]
    BY <2>2 DEF EpollSet
  <2>4. /\ epoll' \in [Fds -> EntryType] /\ ~epoll'[f].in /\ ~epoll'[f].ready
        /\ \A g \in Fds : g # f => epoll'[g] = epoll[g]
    <3>1. NoEntry \in EntryType /\ ~NoEntry.in /\ ~NoEntry.ready
      BY IOAssumption DEF NoEntry, EntryType
    <3> QED
      BY <1>2, <2>3, <3>1 DEF TypesOK
  <2>5. PICK y : y = [idler[t] EXCEPT !.pc = "trigger"]
    OBVIOUS
  <2>6. y \in Idler /\ y.pc = "trigger" /\ y.batch = idler[t].batch /\ y.key = <<f, 1>> /\ y.key[1] = f
    BY <1>2, <1>3, <2>5 DEF Idler
  <2>7. /\ idler' \in [Threads -> Idler] /\ idler'[t] = y
        /\ \A u \in Threads : u # t => idler'[u] = idler[u]
    BY <1>2, <2>2, <2>5, <2>6 DEF TypesOK
  <2>8. \A g : Kept(g)' = Kept(g)
    BY <1>1 DEF Kept
  <2>9. TypesOK' /\ TableOK' /\ EpollOK'
    BY <1>1, <1>2, <2>4, <2>7, <2>8 DEF TypesOK, TableOK, EpollOK, Ctx
  <2>10. ASSUME NEW c \in Callers PROVE CallerOK(c)' /\ (call[c].pc = "finish" => call[c].key # <<f, 1>>)
    <3>1. CallerOK(c)
      BY DEF HInv
    <3>2. CASE call[c].pc = "finish"
      <4>1. PICK g \in Fds : call[c].key = <<g, 1>> /\ call[c].key[1] = g
        BY <3>2, FinishKey
      <4>2. ~epoll[g].in /\ g # f
        BY <1>6, <3>1, <3>2, <4>1 DEF CallerOK
      <4>3. ~epoll'[g].in /\ call[c].key # <<f, 1>>
        BY <2>4, <4>1, <4>2
      <4> QED
        BY <1>1, <2>8, <3>1, <4>1, <4>3 DEF CallerOK
    <3>3. CASE call[c].pc # "finish"
      BY <1>1, <3>1, <3>3 DEF CallerOK
    <3> QED
      BY <3>2, <3>3
  <2>11. ASSUME NEW u \in Threads, u # t
         PROVE  ThreadOK(u)' /\ (idler[u].pc = "trigger" => idler[u].key # <<f, 1>>)
    <3>1. ThreadOK(u) /\ idler'[u] = idler[u]
      BY <2>7, <2>11 DEF HInv
    <3>2. CASE idler[u].pc = "trigger"
      <4>1. PICK g \in Fds : idler[u].key = <<g, 1>> /\ idler[u].key[1] = g
        BY <3>1, <3>2 DEF ThreadOK
      <4>2. ~epoll[g].in /\ g # f
        BY <1>6, <3>1, <3>2, <4>1 DEF ThreadOK
      <4>3. ~epoll'[g].in /\ idler[u].key # <<f, 1>>
        BY <2>4, <4>1, <4>2
      <4>4. \A v \in Threads : v # u /\ idler'[v].pc = "trigger" => idler'[v].key # idler'[u].key
        BY <2>6, <2>7, <3>1, <3>2, <4>3 DEF ThreadOK
      <4> QED
        BY <1>1, <2>8, <3>1, <4>1, <4>3, <4>4 DEF ThreadOK
    <3>3. CASE idler[u].pc # "trigger"
      BY <3>1, <3>3 DEF ThreadOK
    <3> QED
      BY <3>2, <3>3
  <2>12. ThreadOK(t)'
    <3>1. Kept(f)' /\ ~epoll'[f].in
      BY <1>2, <1>6, <2>4, <2>8 DEF EpollOK
    <3>2. \A u \in Threads : u # t /\ idler'[u].pc = "trigger" => idler'[u].key # <<f, 1>>
      BY <2>7, <2>11
    <3>3. \A c \in Callers : call'[c].pc = "finish" => call'[c].key # <<f, 1>>
      BY <1>1, <2>10
    <3>4. \A r \in y.batch : r.key[2] = 1
      BY <1>2, <2>6 DEF ThreadOK
    <3> QED
      BY <2>6, <2>7, <3>1, <3>2, <3>3, <3>4 DEF ThreadOK
  <2> QED
    BY <2>9, <2>10, <2>11, <2>12 DEF HInv
<1> QED
  BY <1>5, <1>6

\* triggerEvent, whether its assertion fails or not: it can only take events
\* out of its context.
LEMMA TriggerTakes ==
  ASSUME TypesOK, NEW k \in Keys, NEW es \in SUBSET Events, triggerEvent(k, es)
  PROVE  /\ ctx' \in [Keys -> FdContex] /\ ctx'[k].event \subseteq ctx[k].event
         /\ \A l \in Keys : l # k => ctx'[l] = ctx[l]
<1> DEFINE slot == [e \in Events |->
                     IF e \in es THEN [ctx[k].slot[e] EXCEPT !.scheduler = FALSE] ELSE ctx[k].slot[e]]
           y == [event |-> EventLeft(ctx[k].event, es), slot |-> slot]
<1>1. ctx \in [Keys -> FdContex] /\ ctx[k] \in FdContex
  BY DEF TypesOK
<1>2. CASE es \subseteq ctx[k].event
  <2>1. ctx' = [ctx EXCEPT ![k] = y]
    BY <1>2 DEF triggerEvent
  <2>2. slot \in [Events -> [waiter : Waiters \cup {NoWaiter}, scheduler : BOOLEAN]]
    <3>1. ctx[k].slot \in [Events -> [waiter : Waiters \cup {NoWaiter}, scheduler : BOOLEAN]]
      BY <1>1 DEF FdContex
    <3> QED
      BY <3>1
  <2>3. PICK x : x = y
    OBVIOUS
  <2> HIDE DEF slot
  <2>4. x \in FdContex /\ x.event \subseteq ctx[k].event
    BY <1>1, <2>2, <2>3 DEF FdContex, EventLeft
  <2>5. ctx' = [ctx EXCEPT ![k] = x]
    BY <2>1, <2>3
  <2> QED
    BY <1>1, <2>4, <2>5
<1>3. CASE ~(es \subseteq ctx[k].event)
  <2>1. ctx' = ctx
    BY <1>3 DEF triggerEvent
  <2> QED
    BY <1>1, <2>1
<1> QED
  BY <1>2, <1>3

\* Whoever is alone with the event of f may take it.
LEMMA TakenAlone ==
  ASSUME OneEventEach, HInv, NEW f \in Fds,
         UNCHANGED <<table, epoll>>, ~epoll[f].in,
         ctx' \in [Keys -> FdContex], ctx'[<<f, 1>>].event \subseteq ctx[<<f, 1>>].event,
         \A l \in Keys : l # <<f, 1>> => ctx'[l] = ctx[l],
         call' \in [Callers -> Call], idler' \in [Threads -> Idler],
         \A c \in Callers : \/ call'[c] = NoCall /\ call[c].pc # "mark"
                            \/ /\ call'[c] = call[c]
                               /\ call[c].pc = "finish" => call[c].key # <<f, 1>>,
         \A t \in Threads : \/ /\ idler'[t].pc = "batch"
                               /\ idler'[t].batch = idler[t].batch
                            \/ /\ idler'[t] = idler[t]
                               /\ idler[t].pc = "trigger" => idler[t].key # <<f, 1>>
  PROVE  HInv'
<1>1. ASSUME NEW g \in Fds, g # f, Kept(g) PROVE Kept(g)'
  <2>1. <<g, 1>> \in Keys /\ <<g, 1>> # <<f, 1>>
    BY <1>1, FirstKey
  <2>2. ctx'[<<g, 1>>] = ctx[<<g, 1>>]
    BY <2>1
  <2>3. \A c \in Callers : call[c].pc = "mark" => call'[c] = call[c]
    OBVIOUS
  <2> QED
    BY <1>1, <2>2, <2>3, KeptStays
<1>2. TypesOK'
  BY DEF HInv, TypesOK
<1>3. TableOK'
  <2>1. ASSUME NEW w \in Waiters PROVE Ctx(w, 1)'.event \subseteq {Ev(w)}
    <3>1. Ctx(w, 1).event \subseteq {Ev(w)} /\ <<Fd(w), 1>> \in Keys
      BY KeyOfWaiter, FirstKey DEF HInv, TableOK
    <3>2. CASE Fd(w) = f
      BY <3>1, <3>2 DEF Ctx
    <3>3. CASE Fd(w) # f
      BY <3>1, <3>3 DEF Ctx
    <3> QED
      BY <3>2, <3>3
  <2> QED
    BY <2>1 DEF HInv, TableOK
<1>4. EpollOK'
  <2>1. EpollOK
    BY DEF HInv
  <2> QED
    BY <1>1, <2>1 DEF EpollOK
<1>5. ASSUME NEW c \in Callers PROVE CallerOK(c)'
  <2>1. CallerOK(c)
    BY DEF HInv
  <2>2. \A d \in Callers : call'[d].pc \notin {"none", "ctl"} => call'[d] = call[d]
    BY DEF NoCall
  <2>3. CASE call'[c] = NoCall
    BY <2>3 DEF CallerOK, NoCall
  <2>4. CASE call'[c] = call[c] /\ call[c].pc = "finish" /\ call[c].key # <<f, 1>>
    <3>1. PICK g \in Fds : call[c].key = <<g, 1>> /\ call[c].key[1] = g
      BY <2>4, FinishKey
    <3>2. ~epoll'[g].in /\ Kept(g)'
      BY <1>1, <2>1, <2>4, <3>1 DEF CallerOK
    <3> QED
      BY <2>1, <2>2, <2>4, <3>1, <3>2 DEF CallerOK
  <2>5. CASE call'[c] = call[c] /\ call[c].pc # "finish"
    BY <2>1, <2>2, <2>5 DEF CallerOK
  <2> QED
    BY <2>3, <2>4, <2>5
<1>6. ASSUME NEW t \in Threads PROVE ThreadOK(t)'
  <2>1. ThreadOK(t)
    BY DEF HInv
  <2>2. \A u \in Threads : idler'[u].pc = "trigger" => idler'[u] = idler[u]
    OBVIOUS
  <2>3. \A d \in Callers : call'[d].pc = "finish" => call'[d] = call[d]
    BY DEF NoCall
  <2>4. CASE idler'[t].pc = "batch" /\ idler'[t].batch = idler[t].batch
    BY <2>1, <2>4 DEF ThreadOK
  <2>5. CASE idler'[t] = idler[t] /\ idler[t].pc = "trigger" /\ idler[t].key # <<f, 1>>
    <3>1. PICK g \in Fds : idler[t].key = <<g, 1>> /\ idler[t].key[1] = g
      BY <2>1, <2>5 DEF ThreadOK
    <3>2. ~epoll'[g].in /\ Kept(g)'
      BY <1>1, <2>1, <2>5, <3>1 DEF ThreadOK
    <3> QED
      BY <2>1, <2>2, <2>3, <2>5, <3>1, <3>2 DEF ThreadOK
  <2>6. CASE idler'[t] = idler[t] /\ idler[t].pc # "trigger"
    BY <2>1, <2>6 DEF ThreadOK
  <2> QED
    BY <2>4, <2>5, <2>6
<1> QED
  BY <1>2, <1>3, <1>4, <1>5, <1>6 DEF HInv

LEMMA TriggerHInv == ASSUME OneEventEach, HInv, NEW t \in Threads, Trigger(t) PROVE HInv'
<1>1. /\ idler[t].pc = "trigger" /\ UNCHANGED <<table, epoll, call>>
      /\ triggerEvent(idler[t].key, idler[t].real)
      /\ idler' = [idler EXCEPT ![t] = [NotIdle EXCEPT !.pc = "batch", !.batch = idler[t].batch]]
  BY DEF Trigger, In
<1>2. TypesOK /\ ThreadOK(t) /\ idler[t] \in Idler
  BY DEF HInv, TypesOK
<1>3. PICK f \in Fds : idler[t].key = <<f, 1>> /\ idler[t].key[1] = f
  BY <1>1, <1>2 DEF ThreadOK
<1>4. ~epoll[f].in
  BY <1>1, <1>2, <1>3 DEF ThreadOK
<1>5. <<f, 1>> \in Keys /\ idler[t].real \in SUBSET Events
  BY <1>2, FirstKey DEF Idler
<1>6. /\ ctx' \in [Keys -> FdContex] /\ ctx'[<<f, 1>>].event \subseteq ctx[<<f, 1>>].event
      /\ \A l \in Keys : l # <<f, 1>> => ctx'[l] = ctx[l]
  BY <1>1, <1>2, <1>3, <1>5, TriggerTakes
<1>7. PICK y : y = [NotIdle EXCEPT !.pc = "batch", !.batch = idler[t].batch]
  OBVIOUS
<1>8. y \in Idler /\ y.pc = "batch" /\ y.batch = idler[t].batch
  BY <1>2, <1>7 DEF Idler, NotIdle
<1>9. /\ idler' \in [Threads -> Idler] /\ idler'[t] = y
      /\ \A u \in Threads : u # t => idler'[u] = idler[u]
  BY <1>1, <1>2, <1>7, <1>8 DEF TypesOK
<1>10. \A u \in Threads : u # t /\ idler[u].pc = "trigger" => idler[u].key # <<f, 1>>
  BY <1>1, <1>2, <1>3 DEF ThreadOK
<1>11. \A c \in Callers : call[c].pc = "finish" => call[c].key # <<f, 1>>
  BY <1>1, <1>2, <1>3 DEF ThreadOK
<1>12. call' \in [Callers -> Call] /\ \A c \in Callers : call'[c] = call[c]
  BY <1>1, <1>2 DEF TypesOK
<1> QED
  BY <1>1, <1>4, <1>6, <1>8, <1>9, <1>10, <1>11, <1>12, TakenAlone, ZenonT(40)

LEMMA cancelAllHInv == ASSUME OneEventEach, HInv, NEW c \in Callers, cancelAll(c) PROVE HInv'
<1>1. /\ call[c].pc = "finish" /\ UNCHANGED <<table, epoll, idler>>
      /\ triggerEvent(call[c].key, CancelAllEvents(call[c].key))
      /\ call' = [call EXCEPT ![c] = NoCall]
  BY DEF cancelAll, At, Return
<1>2. TypesOK /\ CallerOK(c)
  BY DEF HInv
<1>3. PICK f \in Fds : call[c].key = <<f, 1>> /\ call[c].key[1] = f
  BY <1>1, FinishKey
<1>4. ~epoll[f].in
  BY <1>1, <1>2, <1>3 DEF CallerOK
<1>5. <<f, 1>> \in Keys /\ CancelAllEvents(call[c].key) \in SUBSET Events
  BY FirstKey DEF CancelAllEvents, Events
<1>6. /\ ctx' \in [Keys -> FdContex] /\ ctx'[<<f, 1>>].event \subseteq ctx[<<f, 1>>].event
      /\ \A l \in Keys : l # <<f, 1>> => ctx'[l] = ctx[l]
  BY <1>1, <1>2, <1>3, <1>5, TriggerTakes
<1>7. /\ call' \in [Callers -> Call] /\ call'[c] = NoCall
      /\ \A d \in Callers : d # c => call'[d] = call[d]
  <2>1. NoCall \in Call
    BY DEF NoCall, Call, Events
  <2> QED
    BY <1>1, <1>2, <2>1 DEF TypesOK
<1>8. \A d \in Callers : d # c /\ call[d].pc = "finish" => call[d].key # <<f, 1>>
  BY <1>1, <1>2, <1>3 DEF CallerOK
<1>9. \A t \in Threads : idler[t].pc = "trigger" => idler[t].key # <<f, 1>>
  BY <1>1, <1>3 DEF HInv, ThreadOK
<1>10. idler' \in [Threads -> Idler] /\ \A t \in Threads : idler'[t] = idler[t]
  BY <1>1, <1>2 DEF TypesOK
<1> QED
  BY <1>1, <1>4, <1>6, <1>7, <1>8, <1>9, <1>10, TakenAlone

\* A call of which only the caller sees anything: it begins, or returns
\* without having taken anything.
LEMMA OwnCall ==
  ASSUME OneEventEach, HInv, NEW c \in Callers, NEW y \in Call, y.pc \in {"none", "ctl"},
         call[c].pc # "mark", call' = [call EXCEPT ![c] = y],
         y = NoCall \/ /\ y.pc = "ctl" /\ y.op \in {"addEvent", "cancelAll"}
                       /\ y.op = "addEvent" =>
                            \E w \in Waiters : y.key = <<Fd(w), 1>> /\ y.event = Ev(w)
                       /\ \E f \in Fds : y.key = <<f, 1>>,
         UNCHANGED <<epoll, idler>>,
         table' \in [size : Nat, fill : Nat],
         table'.size # 0 => table'.fill = 1 /\ \A f \in Fds : f < table'.size,
         table'.size = 0 => table'.fill = 0,
         ctx' \in [Keys -> FdContex], \A k \in Keys : ctx'[k].event = ctx[k].event
  PROVE  HInv'
<1>1. /\ call' \in [Callers -> Call] /\ call'[c] = y
      /\ \A d \in Callers : d # c => call'[d] = call[d]
  BY DEF HInv, TypesOK
<1>2. ASSUME NEW f \in Fds, Kept(f) PROVE Kept(f)'
  <2>1. ctx'[<<f, 1>>].event = ctx[<<f, 1>>].event
    BY FirstKey
  <2> QED
    BY <1>1, <1>2, <2>1, KeptStays
<1>3. TypesOK'
  BY <1>1 DEF HInv, TypesOK
<1>4. TableOK'
  <2>1. ASSUME NEW w \in Waiters PROVE Ctx(w, 1)'.event \subseteq {Ev(w)}
    BY KeyOfWaiter, FirstKey DEF HInv, TableOK, Ctx
  <2> QED
    BY <2>1 DEF TableOK
<1>5. EpollOK'
  BY <1>2 DEF HInv, EpollOK
<1>6. ASSUME NEW d \in Callers PROVE CallerOK(d)'
  <2>1. CallerOK(d)
    BY DEF HInv
  <2>2. \A e \in Callers : call'[e].pc \notin {"none", "ctl"} => call'[e] = call[e]
    BY <1>1
  <2>3. CASE d = c
    BY <1>1, <2>3 DEF CallerOK, NoCall
  <2>4. CASE d # c /\ call[d].pc = "finish"
    <3>1. PICK g \in Fds : call[d].key = <<g, 1>> /\ call[d].key[1] = g
      BY <2>4, FinishKey
    <3>2. ~epoll'[g].in /\ Kept(g)'
      BY <1>2, <2>1, <2>4, <3>1 DEF CallerOK
    <3> QED
      BY <1>1, <2>1, <2>2, <2>4, <3>1, <3>2 DEF CallerOK
  <2>5. CASE d # c /\ call[d].pc # "finish"
    BY <1>1, <2>1, <2>2, <2>5 DEF CallerOK
  <2> QED
    BY <2>3, <2>4, <2>5
<1>7. ASSUME NEW t \in Threads PROVE ThreadOK(t)'
  <2>1. ThreadOK(t)
    BY DEF HInv
  <2>2. \A e \in Callers : call'[e].pc = "finish" => call'[e] = call[e]
    BY <1>1
  <2>3. CASE idler[t].pc = "trigger"
    <3>1. PICK g \in Fds : idler[t].key = <<g, 1>> /\ idler[t].key[1] = g
      BY <2>1, <2>3 DEF ThreadOK
    <3>2. ~epoll'[g].in /\ Kept(g)'
      BY <1>2, <2>1, <2>3, <3>1 DEF ThreadOK
    <3> QED
      BY <2>1, <2>2, <2>3, <3>1, <3>2 DEF ThreadOK
  <2>4. CASE idler[t].pc # "trigger"
    BY <2>1, <2>4 DEF ThreadOK
  <2> QED
    BY <2>3, <2>4
<1> QED
  BY <1>3, <1>4, <1>5, <1>6, <1>7 DEF HInv

LEMMA NoCallTyped == NoCall \in Call /\ NoCall.pc = "none"
BY DEF NoCall, Call, Events

LEMMA BeginAddHInv ==
  ASSUME OneEventEach, HInv, NEW c \in Callers, NEW w \in Waiters, BeginAdd(c, w)
  PROVE  HInv'
<1> DEFINE new == Grown(Fd(w))
           y == [op |-> "addEvent", pc |-> "ctl", waiter |-> w,
                 key |-> <<Fd(w), new.fill>>, event |-> Ev(w)]
<1>1. /\ call[c].op = "none" /\ table' = new /\ call' = [call EXCEPT ![c] = y]
      /\ UNCHANGED <<ctx, epoll, idler>>
  BY DEF BeginAdd, Fd, Ev
<1>2. TypesOK /\ TableOK /\ CallerOK(c)
  BY DEF HInv
<1>3. Fd(w) \in Nat /\ Fd(w) \in Fds /\ Ev(w) \in Events /\ <<Fd(w), 1>> \in Keys
  BY KeyOfWaiter, FirstKey
<1>4. /\ new \in [size : Nat, fill : Nat] /\ new.fill = 1 /\ new.size # 0
      /\ \A f \in Fds : f < new.size
  <2>1. \A f \in Fds : f < (Fd(w) * 3) \div 2
    BY WaiterOfFd DEF OneEventEach, Fd
  <2>2. CASE table.size <= Fd(w)
    <3>1. table.size = 0 /\ table.fill = 0
      BY <1>2, <1>3, <2>2 DEF TableOK
    <3>2. new = [size |-> (Fd(w) * 3) \div 2, fill |-> 0 + 1]
      BY <2>2, <3>1 DEF Grown
    <3>3. PICK s : s = (Fd(w) * 3) \div 2
      OBVIOUS
    <3>4. new = [size |-> s, fill |-> 1]
      BY <3>2, <3>3
    <3>5. s \in Nat /\ s > Fd(w)
      BY <1>3, <2>1, <3>3
    <3>6. s # 0
      BY <1>3, <3>5
    <3> QED
      BY <2>1, <3>3, <3>4, <3>5, <3>6
  <2>3. CASE ~(table.size <= Fd(w))
    <3>1. new = table
      BY <2>3 DEF Grown
    <3>2. table.size # 0
      BY <1>2, <1>3, <2>3 DEF TableOK
    <3> QED
      BY <1>2, <3>1, <3>2 DEF TableOK
  <2> QED
    BY <2>2, <2>3
<1>5. PICK z : z = [op |-> "addEvent", pc |-> "ctl", waiter |-> w,
                    key |-> <<Fd(w), 1>>, event |-> Ev(w)]
  OBVIOUS
<1>6. z \in Call
  BY <1>3, <1>5 DEF Call
<1>7. call' = [call EXCEPT ![c] = z]
  BY <1>1, <1>4, <1>5
<1>8. call[c].pc # "mark"
  BY <1>1, <1>2 DEF CallerOK
<1>9. /\ table' \in [size : Nat, fill : Nat] /\ table'.size # 0 /\ table'.fill = 1
      /\ \A f \in Fds : f < table'.size
      /\ ctx' \in [Keys -> FdContex] /\ \A k \in Keys : ctx'[k].event = ctx[k].event
  BY <1>1, <1>2, <1>4 DEF TypesOK
<1>10. z.pc = "ctl" /\ z.op = "addEvent" /\ z.key = <<Fd(w), 1>> /\ z.event = Ev(w)
  BY <1>5
<1>11. z.pc \in {"none", "ctl"} /\ z.op \in {"addEvent", "cancelAll"}
  BY <1>10
<1>12. /\ z.op = "addEvent" => \E v \in Waiters : z.key = <<Fd(v), 1>> /\ z.event = Ev(v)
       /\ \E f \in Fds : z.key = <<f, 1>>
  BY <1>3, <1>10
<1>13. UNCHANGED <<epoll, idler>>
  BY <1>1
<1> HIDE DEF new, y
<1>14. z = NoCall \/ /\ z.pc = "ctl" /\ z.op \in {"addEvent", "cancelAll"}
                     /\ z.op = "addEvent" =>
                          \E v \in Waiters : z.key = <<Fd(v), 1>> /\ z.event = Ev(v)
                     /\ \E f \in Fds : z.key = <<f, 1>>
  BY <1>10, <1>11, <1>12
<1>15. /\ table' \in [size : Nat, fill : Nat]
       /\ table'.size # 0 => table'.fill = 1 /\ \A f \in Fds : f < table'.size
       /\ table'.size = 0 => table'.fill = 0
       /\ ctx' \in [Keys -> FdContex] /\ \A k \in Keys : ctx'[k].event = ctx[k].event
  BY <1>9
<1> QED
  BY <1>6, <1>7, <1>8, <1>11, <1>13, <1>14, <1>15, OwnCall

LEMMA BeginCallHInv ==
  ASSUME OneEventEach, HInv, NEW c \in Callers, NEW op \in Calls, NEW f \in Fds, NEW e \in Events,
         BeginCall(c, op, f, e)
  PROVE  HInv'
<1>1. /\ call[c].op = "none" /\ f < table.size
      /\ call' = [call EXCEPT ![c] = [op |-> op, pc |-> "ctl", waiter |-> NoWaiter,
                                      key |-> <<f, table.fill>>, event |-> e]]
      /\ UNCHANGED <<table, ctx, epoll, idler>>
  BY DEF BeginCall
<1>2. TypesOK /\ TableOK /\ CallerOK(c)
  BY DEF HInv
<1>3. f \in Nat /\ <<f, 1>> \in Keys
  <2>1. PICK w \in Waiters : f = Fd(w)
    BY WaiterOfFd
  <2> QED
    BY <2>1, KeyOfWaiter, FirstKey
<1>4. table.fill = 1
  BY <1>1, <1>2, <1>3 DEF TableOK
<1>5. PICK z : z = [op |-> op, pc |-> "ctl", waiter |-> NoWaiter, key |-> <<f, 1>>, event |-> e]
  OBVIOUS
<1>6. z \in Call
  BY <1>3, <1>5 DEF Call
<1>7. call' = [call EXCEPT ![c] = z]
  BY <1>1, <1>4, <1>5
<1>8. call[c].pc # "mark"
  BY <1>1, <1>2 DEF CallerOK
<1>9. z.pc = "ctl" /\ z.op = "cancelAll" /\ z.key = <<f, 1>>
  BY <1>5 DEF OneEventEach
<1>10. /\ table' \in [size : Nat, fill : Nat]
       /\ table'.size # 0 => table'.fill = 1 /\ \A g \in Fds : g < table'.size
       /\ table'.size = 0 => table'.fill = 0
       /\ ctx' \in [Keys -> FdContex] /\ \A k \in Keys : ctx'[k].event = ctx[k].event
  BY <1>1, <1>2 DEF TypesOK, TableOK
<1>11. z = NoCall \/ /\ z.pc = "ctl" /\ z.op \in {"addEvent", "cancelAll"}
                     /\ z.op = "addEvent" =>
                          \E v \in Waiters : z.key = <<Fd(v), 1>> /\ z.event = Ev(v)
                     /\ \E g \in Fds : z.key = <<g, 1>>
  BY <1>9
<1>12. UNCHANGED <<epoll, idler>> /\ z.pc \in {"none", "ctl"}
  BY <1>1, <1>9
<1> QED
  BY <1>6, <1>7, <1>8, <1>10, <1>11, <1>12, OwnCall

LEMMA AddFillHInv == ASSUME OneEventEach, HInv, NEW c \in Callers, AddFill(c) PROVE HInv'
<1>1. /\ call[c].pc = "fill" /\ call[c].op = "addEvent"
      /\ call' = [call EXCEPT ![c] = NoCall]
      /\ UNCHANGED <<table, epoll, idler>>
  BY DEF AddFill, At, Return
<1>2. TypesOK /\ TableOK /\ CallerOK(c) /\ call[c] \in Call
  BY DEF HInv, TypesOK
<1>3. PICK w \in Waiters : call[c].key = <<Fd(w), 1>> /\ call[c].event = Ev(w)
  BY <1>1, <1>2 DEF CallerOK
<1>4. call[c].key \in Keys /\ call[c].event \in Events
  BY <1>3, KeyOfWaiter, FirstKey
<1> DEFINE k == call[c].key
           s == [waiter |-> call[c].waiter, scheduler |-> TRUE]
<1>5. /\ ctx' \in [Keys -> FdContex] /\ \A l \in Keys : ctx'[l].event = ctx[l].event
  <2>1. CASE ctx' = ctx
    BY <1>2, <2>1 DEF TypesOK
  <2>2. CASE ctx' = [ctx EXCEPT ![k].slot[call[c].event] = s]
    <3>1. PICK x : x = [ctx[k] EXCEPT !.slot[call[c].event] = s]
      OBVIOUS
    <3>2. s \in [waiter : Waiters \cup {NoWaiter}, scheduler : BOOLEAN]
      BY <1>2 DEF Call
    <3>3. ctx[k] \in FdContex
      BY <1>2, <1>4 DEF TypesOK
    <3> HIDE DEF s
    <3>4. x \in FdContex /\ x.event = ctx[k].event
      BY <1>4, <3>1, <3>2, <3>3 DEF FdContex
    <3>5. ctx' = [ctx EXCEPT ![k] = x]
      BY <2>2, <3>1
    <3> QED
      BY <1>2, <1>4, <3>4, <3>5 DEF TypesOK
  <2>3. ctx' = ctx \/ ctx' = [ctx EXCEPT ![k].slot[call[c].event] = s]
    BY DEF AddFill
  <2> QED
    BY <2>1, <2>2, <2>3
<1>6. PICK z \in Call : z = NoCall /\ z.pc = "none"
  BY NoCallTyped
<1>7. /\ table' \in [size : Nat, fill : Nat]
      /\ table'.size # 0 => table'.fill = 1 /\ \A g \in Fds : g < table'.size
      /\ table'.size = 0 => table'.fill = 0
  BY <1>1, <1>2 DEF TableOK
<1>8. call' = [call EXCEPT ![c] = z] /\ call[c].pc # "mark" /\ UNCHANGED <<epoll, idler>>
  BY <1>1, <1>6
<1> QED
  BY <1>5, <1>6, <1>7, <1>8, OwnCall

LEMMA AddMarkHInv == ASSUME OneEventEach, HInv, NEW c \in Callers, AddMark(c) PROVE HInv'
<1>1. /\ call[c].op = "addEvent" /\ call[c].pc = "mark"
      /\ ctx' = [ctx EXCEPT ![call[c].key].event = ctx[call[c].key].event \cup {call[c].event}]
      /\ call' = [call EXCEPT ![c].pc = "fill"]
      /\ UNCHANGED <<table, epoll, idler>>
  BY DEF AddMark, At, Goto
<1>2. /\ TypesOK /\ TableOK /\ EpollOK /\ CallerOK(c) /\ call[c] \in Call
  BY DEF HInv, TypesOK
<1>3. PICK w \in Waiters : call[c].key = <<Fd(w), 1>> /\ call[c].event = Ev(w)
  BY <1>1, <1>2 DEF CallerOK
<1>4. Fd(w) \in Fds /\ <<Fd(w), 1>> \in Keys /\ Ev(w) \in Events /\ 1 \in Fills
  BY KeyOfWaiter, FirstKey
<1>5. Ctx(w, 1) \in FdContex /\ Ctx(w, 1).event \cup {Ev(w)} = {Ev(w)}
  BY <1>2, <1>4 DEF TypesOK, TableOK, Ctx
<1>6. PICK x : x = [Ctx(w, 1) EXCEPT !.event = {Ev(w)}]
  OBVIOUS
<1>7. x \in FdContex /\ x.event = {Ev(w)}
  BY <1>4, <1>5, <1>6 DEF FdContex
<1>8. ctx' = [ctx EXCEPT ![<<Fd(w), 1>>] = x]
  <2>1. ctx[call[c].key] = Ctx(w, 1)
    BY <1>3 DEF Ctx
  <2>2. ctx[call[c].key].event \cup {call[c].event} = {Ev(w)}
    BY <1>3, <1>5, <2>1
  <2> QED
    BY <1>1, <1>3, <1>6, <2>1, <2>2
<1>9. /\ ctx' \in [Keys -> FdContex] /\ ctx'[<<Fd(w), 1>>] = x
      /\ \A l \in Keys : l # <<Fd(w), 1>> => ctx'[l] = ctx[l]
  BY <1>2, <1>4, <1>7, <1>8 DEF TypesOK
<1>10. PICK y : y = [call[c] EXCEPT !.pc = "fill"]
  OBVIOUS
<1>11. /\ y \in Call /\ y.pc = "fill" /\ y.op = "addEvent" /\ y.key = <<Fd(w), 1>> /\ y.event = Ev(w)
  BY <1>1, <1>2, <1>3, <1>10 DEF Call
<1>12. /\ call' \in [Callers -> Call] /\ call'[c] = y
       /\ \A d \in Callers : d # c => call'[d] = call[d]
  BY <1>1, <1>2, <1>10, <1>11 DEF TypesOK
<1>13. Kept(Fd(w))'
  BY <1>7, <1>9 DEF Kept
<1>14. ASSUME NEW g \in Fds, Kept(g) PROVE Kept(g)'
  <2>1. CASE g = Fd(w)
    BY <1>13, <2>1
  <2>2. CASE g # Fd(w)
    <3>1. <<g, 1>> \in Keys /\ <<g, 1>> # <<Fd(w), 1>>
      BY <2>2, FirstKey
    <3>2. ctx'[<<g, 1>>] = ctx[<<g, 1>>]
      BY <1>9, <3>1
    <3>3. CASE ctx[<<g, 1>>].event # {}
      BY <3>2, <3>3 DEF Kept
    <3>4. CASE \E d \in Callers : call[d].pc = "mark" /\ call[d].key = <<g, 1>>
      <4>1. PICK d \in Callers : call[d].pc = "mark" /\ call[d].key = <<g, 1>>
        BY <3>4
      <4>2. d # c
        BY <1>3, <3>1, <4>1
      <4> QED
        BY <1>12, <4>1, <4>2 DEF Kept
    <3> QED
      BY <1>14, <3>3, <3>4 DEF Kept
  <2> QED
    BY <2>1, <2>2
<1>15. TypesOK'
  BY <1>1, <1>2, <1>9, <1>12 DEF TypesOK
<1>16. TableOK'
  <2>1. ASSUME NEW v \in Waiters PROVE Ctx(v, 1)'.event \subseteq {Ev(v)}
    <3>1. Ctx(v, 1).event \subseteq {Ev(v)} /\ <<Fd(v), 1>> \in Keys
      BY <1>2, KeyOfWaiter, FirstKey DEF TableOK
    <3>2. CASE Fd(v) = Fd(w)
      <4>1. Ev(v) = Ev(w)
        BY <3>2 DEF OneEventEach, Fd, Ev
      <4>2. Ctx(v, 1)' = x
        BY <1>9, <3>2 DEF Ctx
      <4> QED
        BY <1>7, <4>1, <4>2
    <3>3. CASE Fd(v) # Fd(w)
      BY <1>9, <3>1, <3>3 DEF Ctx
    <3> QED
      BY <3>2, <3>3
  <2> QED
    BY <1>1, <1>2, <2>1 DEF TableOK
<1>17. EpollOK'
  BY <1>1, <1>2, <1>14 DEF EpollOK
<1>18. ASSUME NEW d \in Callers PROVE CallerOK(d)'
  <2>1. CallerOK(d) /\ CallerOK(c)
    BY DEF HInv
  <2>2. \A e \in Callers : /\ call'[e].key = call[e].key
                           /\ call'[e].pc \in {"none", "ctl"} <=> call[e].pc \in {"none", "ctl"}
    BY <1>1, <1>3, <1>11, <1>12
  <2>3. CASE d = c
    BY <1>11, <1>12, <2>1, <2>2, <2>3 DEF CallerOK
  <2>4. CASE d # c /\ call[d].pc = "finish"
    <3>1. PICK g \in Fds : call[d].key = <<g, 1>> /\ call[d].key[1] = g
      BY <2>4, FinishKey
    <3>2. ~epoll'[g].in /\ Kept(g)'
      BY <1>1, <1>14, <2>1, <2>4, <3>1 DEF CallerOK
    <3> QED
      BY <1>12, <2>1, <2>2, <2>4, <3>1, <3>2 DEF CallerOK
  <2>5. CASE d # c /\ call[d].pc # "finish"
    BY <1>12, <2>1, <2>2, <2>5 DEF CallerOK
  <2> QED
    BY <2>3, <2>4, <2>5
<1>19. ASSUME NEW t \in Threads PROVE ThreadOK(t)'
  <2>1. ThreadOK(t)
    BY DEF HInv
  <2>2. \A e \in Callers : call'[e].pc = "finish" => call'[e] = call[e]
    BY <1>11, <1>12
  <2>3. CASE idler[t].pc = "trigger"
    <3>1. PICK g \in Fds : idler[t].key = <<g, 1>> /\ idler[t].key[1] = g
      BY <2>1, <2>3 DEF ThreadOK
    <3>2. ~epoll'[g].in /\ Kept(g)'
      BY <1>1, <1>14, <2>1, <2>3, <3>1 DEF ThreadOK
    <3> QED
      BY <1>1, <2>1, <2>2, <2>3, <3>1, <3>2 DEF ThreadOK
  <2>4. CASE idler[t].pc # "trigger"
    BY <1>1, <2>1, <2>4 DEF ThreadOK
  <2> QED
    BY <2>3, <2>4
<1> QED
  BY <1>15, <1>16, <1>17, <1>18, <1>19 DEF HInv

\* addEvent puts the entry in epoll, where nobody deals with its event.
LEMMA AddCtlHInv == ASSUME OneEventEach, HInv, NEW c \in Callers, AddCtl(c) PROVE HInv'
<1>1. /\ call[c].op = "addEvent" /\ call[c].pc = "ctl" /\ ~Locked(call[c].key)
      /\ UNCHANGED <<table, ctx, idler>>
  BY DEF AddCtl, At
<1>2. /\ TypesOK /\ TableOK /\ EpollOK /\ CallerOK(c) /\ call[c] \in Call
  BY DEF HInv, TypesOK
<1>3. PICK w \in Waiters : call[c].key = <<Fd(w), 1>> /\ call[c].event = Ev(w)
  BY <1>1, <1>2 DEF CallerOK
<1>4. PICK f \in Fds : f = Fd(w) /\ call[c].key = <<f, 1>> /\ call[c].key[1] = f /\ call[c].key[2] = 1
  BY <1>3, KeyOfWaiter
<1>5. /\ <<f, 1>> \in Keys /\ Ev(w) \in Events /\ 1 \in Fills
      /\ ctx[<<f, 1>>].event \subseteq {Ev(w)}
  BY <1>2, <1>4, KeyOfWaiter, FirstKey DEF TableOK, Ctx
<1> DEFINE e == call[c].event
           op == IF ctx[call[c].key].event = {} THEN "ADD" ELSE "MOD"
           refused == e \in ctx[call[c].key].event \/ EpollFails(op, f)
<1>6. CASE refused
  <2>1. call' = [call EXCEPT ![c] = NoCall] /\ UNCHANGED epoll
    BY <1>4, <1>6 DEF AddCtl, Return
  <2>2. PICK z \in Call : z = NoCall /\ z.pc = "none"
    BY NoCallTyped
  <2>3. /\ table' \in [size : Nat, fill : Nat]
        /\ table'.size # 0 => table'.fill = 1 /\ \A g \in Fds : g < table'.size
        /\ table'.size = 0 => table'.fill = 0
        /\ ctx' \in [Keys -> FdContex] /\ \A k \in Keys : ctx'[k].event = ctx[k].event
    BY <1>1, <1>2 DEF TableOK, TypesOK
  <2>4. call' = [call EXCEPT ![c] = z] /\ call[c].pc # "mark" /\ UNCHANGED <<epoll, idler>>
    BY <1>1, <2>1, <2>2
  <2> QED
    BY <2>2, <2>3, <2>4, OwnCall
<1>7. CASE ~refused
  <2>1. ctx[<<f, 1>>].event = {}
    BY <1>3, <1>4, <1>5, <1>7
  <2>2. ~epoll[f].in
    BY <1>2, <1>4, <1>7, <2>1 DEF EpollFails, TypesOK, EntryType
  <2>3. /\ call' = [call EXCEPT ![c].pc = "mark"]
        /\ epoll' = [epoll EXCEPT ![f] = Entry(f, 1, Interest(call[c].key, Ev(w)), TRUE)]
    <3>1. /\ Goto(c, "mark")
          /\ EpollSet("ADD", f, Entry(f, 1, Interest(call[c].key, Ev(w)), TRUE))
      BY <1>3, <1>4, <1>7, <2>1 DEF AddCtl
    <3> QED
      BY <3>1 DEF Goto, EpollSet
  <2>4. PICK n : n = Entry(f, 1, Interest(call[c].key, Ev(w)), TRUE)
    OBVIOUS
  <2>5. n \in EntryType /\ n.in /\ n.fill = 1
    <3>1. Interest(call[c].key, Ev(w)) \in SUBSET (Events \cup {"HUP"})
      BY <1>4, <1>5 DEF Interest
    <3> QED
      BY <1>5, <2>4, <3>1 DEF Entry, EntryType, Fills
  <2>6. /\ epoll' \in [Fds -> EntryType] /\ epoll'[f] = n
        /\ \A g \in Fds : g # f => epoll'[g] = epoll[g]
    BY <1>2, <2>3, <2>4, <2>5 DEF TypesOK
  <2>7. PICK y : y = [call[c] EXCEPT !.pc = "mark"]
    OBVIOUS
  <2>8. y \in Call /\ y.pc = "mark" /\ y.op = "addEvent" /\ y.key = <<f, 1>> /\ y.event = Ev(w)
    BY <1>1, <1>2, <1>3, <1>4, <2>7 DEF Call
  <2>9. /\ call' \in [Callers -> Call] /\ call'[c] = y
        /\ \A d \in Callers : d # c => call'[d] = call[d]
    BY <1>2, <2>3, <2>7, <2>8 DEF TypesOK
  <2>10. Kept(f)' /\ ~Kept(f)
    <3>1. Kept(f)'
      BY <2>8, <2>9 DEF Kept
    <3>2. \A d \in Callers : ~(call[d].pc = "mark" /\ call[d].key = <<f, 1>>)
      BY <1>1, <1>4 DEF Locked
    <3> QED
      BY <2>1, <3>1, <3>2 DEF Kept
  <2>11. ASSUME NEW g \in Fds, Kept(g) PROVE Kept(g)' /\ g # f
    <3>1. \A d \in Callers : call[d].pc = "mark" => call'[d] = call[d]
      BY <1>1, <2>9
    <3> QED
      BY <1>1, <2>10, <2>11, <3>1, KeptStays
  <2>12. TypesOK' /\ TableOK'
    BY <1>1, <1>2, <2>6, <2>9 DEF TypesOK, TableOK, Ctx
  <2>13. EpollOK'
    BY <1>2, <2>5, <2>6, <2>10, <2>11 DEF EpollOK
  <2>14. ASSUME NEW d \in Callers PROVE CallerOK(d)'
    <3>1. CallerOK(d) /\ CallerOK(c)
      BY DEF HInv
    <3>2. \A b \in Callers : call'[b].pc \notin {"none", "ctl"} => b = c \/ call'[b] = call[b]
      BY <2>9
    <3>3. \A b \in Callers : call[b].pc \notin {"none", "ctl"} => call[b].key # <<f, 1>>
      BY <1>1, <1>4 DEF Locked
    <3>4. CASE d = c
      <4>1. \A b \in Callers : b # c /\ call'[b].pc \notin {"none", "ctl"} => call'[b].key # <<f, 1>>
        BY <2>9, <3>3
      <4> QED
        BY <1>4, <2>8, <2>9, <3>4, <4>1 DEF CallerOK
    <3>5. CASE d # c
      <4>1. call'[d] = call[d]
        BY <2>9, <3>5
      <4>2. ASSUME call[d].pc = "finish"
            PROVE  \E g \in Fds : /\ call[d].key = <<g, 1>> /\ call[d].key[1] = g
                                  /\ ~epoll'[g].in /\ Kept(g)'
        <5>2. PICK g \in Fds : call[d].key = <<g, 1>> /\ call[d].key[1] = g
          BY <4>2, FinishKey
        <5>3. ~epoll[g].in /\ Kept(g)
          BY <3>1, <4>2, <5>2 DEF CallerOK
        <5>4. ~epoll'[g].in /\ Kept(g)'
          BY <2>6, <2>11, <5>3
        <5> QED
          BY <5>2, <5>4
      <4>3. \A b \in Callers : b # d /\ call[d].pc \notin {"none", "ctl"}
                               /\ call'[b].pc \notin {"none", "ctl"} => call[d].key # call'[b].key
        BY <2>8, <2>9, <3>1, <3>2, <3>3 DEF CallerOK
      <4>4. CASE call[d].pc = "finish"
        <5>1. PICK g \in Fds : /\ call[d].key = <<g, 1>> /\ call[d].key[1] = g
                               /\ ~epoll'[g].in /\ Kept(g)'
          BY <4>2, <4>4
        <5> QED
          BY <3>1, <4>1, <4>3, <5>1 DEF CallerOK
      <4> QED
        BY <3>1, <4>1, <4>3, <4>4 DEF CallerOK
    <3> QED
      BY <3>4, <3>5
  <2>15. ASSUME NEW t \in Threads PROVE ThreadOK(t)'
    <3>1. ThreadOK(t)
      BY DEF HInv
    <3>2. \A b \in Callers : call'[b].pc = "finish" => call'[b] = call[b]
      BY <2>8, <2>9
    <3>3. CASE idler[t].pc = "trigger"
      <4>1. PICK g \in Fds : idler[t].key = <<g, 1>> /\ idler[t].key[1] = g
        BY <3>1, <3>3 DEF ThreadOK
      <4>2. ~epoll[g].in /\ Kept(g)
        BY <3>1, <3>3, <4>1 DEF ThreadOK
      <4>3. ~epoll'[g].in /\ Kept(g)'
        BY <2>6, <2>11, <4>2
      <4> QED
        BY <1>1, <3>1, <3>2, <3>3, <4>1, <4>3 DEF ThreadOK
    <3>4. CASE idler[t].pc # "trigger"
      BY <1>1, <3>1, <3>4 DEF ThreadOK
    <3> QED
      BY <3>3, <3>4
  <2> QED
    BY <2>12, <2>13, <2>14, <2>15 DEF HInv
<1> QED
  BY <1>6, <1>7

\* cancelAll takes the entry out of epoll, as Ctl does.
LEMMA CancelAllCtlHInv == ASSUME OneEventEach, HInv, NEW c \in Callers, CancelAllCtl(c) PROVE HInv'
<1>1. /\ call[c].op = "cancelAll" /\ call[c].pc = "ctl" /\ ~Locked(call[c].key)
      /\ UNCHANGED <<table, ctx, idler>>
  BY DEF CancelAllCtl, At
<1>2. /\ TypesOK /\ TableOK /\ EpollOK /\ CallerOK(c) /\ call[c] \in Call
  BY DEF HInv, TypesOK
<1>3. PICK f \in Fds : call[c].key = <<f, 1>> /\ call[c].key[1] = f
  BY <1>1, <1>2 DEF CallerOK
<1> DEFINE nothing == ctx[call[c].key].event = {} \/ EpollFails("DEL", f)
<1>4. CASE nothing
  <2>1. call' = [call EXCEPT ![c] = NoCall] /\ UNCHANGED epoll
    BY <1>3, <1>4 DEF CancelAllCtl, Return
  <2>2. PICK z \in Call : z = NoCall /\ z.pc = "none"
    BY NoCallTyped
  <2>3. /\ table' \in [size : Nat, fill : Nat]
        /\ table'.size # 0 => table'.fill = 1 /\ \A g \in Fds : g < table'.size
        /\ table'.size = 0 => table'.fill = 0
        /\ ctx' \in [Keys -> FdContex] /\ \A k \in Keys : ctx'[k].event = ctx[k].event
    BY <1>1, <1>2 DEF TableOK, TypesOK
  <2>4. call' = [call EXCEPT ![c] = z] /\ call[c].pc # "mark" /\ UNCHANGED <<epoll, idler>>
    BY <1>1, <2>1, <2>2
  <2> QED
    BY <2>2, <2>3, <2>4, OwnCall
<1>5. CASE ~nothing
  <2>1. ctx[<<f, 1>>].event # {} /\ epoll[f].in
    BY <1>2, <1>3, <1>5 DEF EpollFails, TypesOK, EntryType
  <2>2. call' = [call EXCEPT ![c].pc = "finish"] /\ epoll' = [epoll EXCEPT ![f] = NoEntry]
    BY <1>3, <1>5 DEF CancelAllCtl, Goto, EpollSet
  <2>3. /\ epoll' \in [Fds -> EntryType] /\ ~epoll'[f].in /\ ~epoll'[f].ready
        /\ \A g \in Fds : g # f => epoll'[g] = epoll[g]
    <3>1. NoEntry \in EntryType /\ ~NoEntry.in /\ ~NoEntry.ready
      BY IOAssumption DEF NoEntry, EntryType
    <3> QED
      BY <1>2, <2>2, <3>1 DEF TypesOK
  <2>4. PICK y : y = [call[c] EXCEPT !.pc = "finish"]
    OBVIOUS
  <2>5. y \in Call /\ y.pc = "finish" /\ y.op = "cancelAll" /\ y.key = <<f, 1>> /\ y.key[1] = f
    BY <1>1, <1>2, <1>3, <2>4 DEF Call
  <2>6. /\ call' \in [Callers -> Call] /\ call'[c] = y
        /\ \A d \in Callers : d # c => call'[d] = call[d]
    BY <1>2, <2>2, <2>4, <2>5 DEF TypesOK
  <2>7. ASSUME NEW g \in Fds, Kept(g) PROVE Kept(g)'
    <3>1. \A d \in Callers : call[d].pc = "mark" => call'[d] = call[d]
      BY <1>1, <2>6
    <3> QED
      BY <1>1, <2>7, <3>1, KeptStays
  <2>8. Kept(f)'
    BY <1>1, <2>1 DEF Kept
  <2>9. TypesOK' /\ TableOK' /\ EpollOK'
    BY <1>1, <1>2, <2>3, <2>6, <2>7 DEF TypesOK, TableOK, EpollOK, Ctx
  <2>10. \A b \in Callers : call[b].pc \notin {"none", "ctl"} => call[b].key # <<f, 1>>
    BY <1>1, <1>3 DEF Locked
  <2>11. ASSUME NEW d \in Callers PROVE CallerOK(d)'
    <3>1. CallerOK(d)
      BY DEF HInv
    <3>2. CASE d = c
      <4>1. \A b \in Callers : b # c /\ call'[b].pc \notin {"none", "ctl"} => call'[b].key # <<f, 1>>
        BY <2>6, <2>10
      <4> QED
        BY <2>3, <2>5, <2>6, <2>8, <3>2, <4>1 DEF CallerOK
    <3>3. CASE d # c
      <4>1. call'[d] = call[d]
        BY <2>6, <3>3
      <4>2. ASSUME call[d].pc = "finish"
            PROVE  \E g \in Fds : /\ call[d].key = <<g, 1>> /\ call[d].key[1] = g
                                  /\ ~epoll'[g].in /\ Kept(g)'
        <5>2. PICK g \in Fds : call[d].key = <<g, 1>> /\ call[d].key[1] = g
          BY <4>2, FinishKey
        <5>3. ~epoll[g].in /\ Kept(g) /\ g # f
          BY <2>1, <3>1, <4>2, <5>2 DEF CallerOK
        <5>4. ~epoll'[g].in /\ Kept(g)'
          BY <2>3, <2>7, <5>3
        <5> QED
          BY <5>2, <5>4
      <4>3. \A b \in Callers : b # d /\ call[d].pc \notin {"none", "ctl"}
                               /\ call'[b].pc \notin {"none", "ctl"} => call[d].key # call'[b].key
        BY <2>5, <2>6, <2>10, <3>1 DEF CallerOK
      <4>4. CASE call[d].pc = "finish"
        <5>1. PICK g \in Fds : /\ call[d].key = <<g, 1>> /\ call[d].key[1] = g
                               /\ ~epoll'[g].in /\ Kept(g)'
          BY <4>2, <4>4
        <5> QED
          BY <3>1, <4>1, <4>3, <5>1 DEF CallerOK
      <4> QED
        BY <3>1, <4>1, <4>3, <4>4 DEF CallerOK
    <3> QED
      BY <3>2, <3>3
  <2>12. ASSUME NEW t \in Threads PROVE ThreadOK(t)'
    <3>1. ThreadOK(t)
      BY DEF HInv
    <3>2. CASE idler[t].pc = "trigger"
      <4>1. PICK g \in Fds : idler[t].key = <<g, 1>> /\ idler[t].key[1] = g
        BY <3>1, <3>2 DEF ThreadOK
      <4>2. ~epoll[g].in /\ Kept(g) /\ g # f
        BY <2>1, <3>1, <3>2, <4>1 DEF ThreadOK
      <4>3. ~epoll'[g].in /\ Kept(g)' /\ idler[t].key # <<f, 1>>
        BY <2>3, <2>7, <4>1, <4>2
      <4>4. \A b \in Callers : call'[b].pc = "finish" => call'[b].key # idler[t].key
        BY <2>5, <2>6, <3>1, <3>2, <4>3 DEF ThreadOK
      <4> QED
        BY <1>1, <3>1, <3>2, <4>1, <4>3, <4>4 DEF ThreadOK
    <3>3. CASE idler[t].pc # "trigger"
      BY <1>1, <3>1, <3>3 DEF ThreadOK
    <3> QED
      BY <3>2, <3>3
  <2> QED
    BY <2>9, <2>11, <2>12 DEF HInv
<1> QED
  BY <1>4, <1>5

THEOREM HandlersInvariance == ASSUME OneEventEach PROVE Spec => []HInv
<1>1. Init => HInv
  BY InitHInv
<1>2. ASSUME HInv, [Next]_vars PROVE HInv'
  <2>1. ASSUME NEW c \in Callers, CallStep(c) PROVE HInv'
    <3>1. ASSUME NEW op \in Calls, DelOrCancelCtl(c, op) PROVE FALSE
      BY <3>1 DEF DelOrCancelCtl, OneEventEach
    <3>2. call[c].op \in {"none", "addEvent", "cancelAll"}
      BY <1>2, FinishKey
    <3>3. ~delEvent(c) /\ ~cancelEvent(c)
      BY <3>2 DEF delEvent, cancelEvent, At
    <3> QED
      BY <1>2, <2>1, <3>1, <3>3, AddCtlHInv, AddMarkHInv, AddFillHInv, CancelAllCtlHInv,
         cancelAllHInv DEF CallStep
  <2>2. ASSUME NEW t \in Threads, IdleStep(t) PROVE HInv'
    BY <1>2, <2>2, StayHInv, WaitHInv, LookHInv, CtlHInv, TriggerHInv DEF IdleStep
  <2> QED
    BY <1>2, <2>1, <2>2, BeginAddHInv, BeginCallHInv, PoolHInv, ArriveHInv DEF Next
<1> QED
  BY <1>1, <1>2, PTL DEF Spec

\* Of the threads that look at the same event without the context's mutex, only
\* the one whose EPOLL_CTL_DEL succeeds triggers it.
THEOREM OneHandlerOnly == ASSUME OneEventEach PROVE Spec => []OneHandler
<1>1. HInv => OneHandler
  BY DEF HInv, ThreadOK, OneHandler
<1> QED
  BY <1>1, HandlersInvariance, PTL
=============================================================================
