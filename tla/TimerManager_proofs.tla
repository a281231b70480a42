------------------------ MODULE TimerManager_proofs -------------------------
(***************************************************************************)
(* Proofs about TimerManager: IInv is inductive, for any timers, periods,  *)
(* idlers and bounds, and the order of the set, the deadlines and the      *)
(* single delivery of callbacks follow from it.                            *)
(***************************************************************************)
EXTENDS TimerManager, WellFoundedInduction, TLAPS

-----------------------------------------------------------------------------
(* The set.                                                                *)

\* Every set of addresses has a first element, and Front is it.
LEMMA FrontIsFirst ==
  ASSUME NEW S \in SUBSET Timers, S # {}
  PROVE  Front(S) \in S /\ \A u \in S : Front(S) <= u
<1>1. S \subseteq Nat
  BY TimerAssumption
<1> DEFINE R == OpToRel(<, Nat)
<1>2. IsWellFoundedOn(R, Nat)
  BY NatLessThanWellFounded
<1>3. PICK t \in S : \A u \in S : <<u, t>> \notin R
  <2> HIDE DEF R
  <2> QED
    BY <1>1, <1>2, WFMin
<1>4. \A u \in S : ~(u < t)
  BY <1>1, <1>3 DEF OpToRel
<1>5. \A u \in S : t <= u
  BY <1>1, <1>4
<1> QED
  BY <1>5 DEF Front

\* In a chain the first timer has the latest deadline.
LEMMA FrontIsLatest ==
  ASSUME TypeOK, ChainOrdered, timers # {}
  PROVE  \A t \in timers : deadline[t] <= deadline[Front(timers)]
<1>1. timers \subseteq Timers /\ timers \subseteq Nat
  BY TimerAssumption DEF TypeOK
<1>2. Front(timers) \in timers /\ \A t \in timers : Front(timers) <= t
  BY <1>1, FrontIsFirst
<1>3. \A t \in timers : deadline[t] \in Nat
  BY <1>1 DEF TypeOK
<1> QED
  <2>1. SUFFICES ASSUME NEW t \in timers
                 PROVE  deadline[t] <= deadline[Front(timers)]
    OBVIOUS
  <2>2. deadline[t] \in Nat /\ t \in Nat /\ Front(timers) \in Nat
    BY <1>1, <1>2, <1>3, <2>1
  <2>3. Front(timers) = t \/ Front(timers) < t
    BY <1>2, <2>1, <2>2
  <2>4. Front(timers) < t => deadline[Front(timers)] >= deadline[t]
    BY <1>2, <2>1 DEF ChainOrdered
  <2> QED
    BY <1>2, <1>3, <2>2, <2>3, <2>4

\* The search finds an element of the set, and a timer that is in it itself.
LEMMA FindFacts ==
  ASSUME TypeOK, ChainOrdered, NEW t \in Timers
  PROVE  /\ Find(t) \in timers \cup {NoTimer}
         /\ t \in timers => Find(t) = t
<1> DEFINE E == {u \in timers : ~Before(u, t) /\ ~Before(t, u)}
<1>1. E \subseteq timers /\ timers \subseteq Timers /\ Timers \subseteq Nat
  BY TimerAssumption DEF TypeOK
<1>2. Find(t) = IF E = {} THEN NoTimer ELSE Front(E)
  BY DEF Find
<1>3. E # {} => Front(E) \in E
  BY <1>1, FrontIsFirst
<1>4. ASSUME t \in timers PROVE E = {t}
  <2>1. ~Before(t, t)
    BY <1>1 DEF Before, Precedes
  <2>2. ASSUME NEW u \in timers, u # t PROVE Before(u, t) \/ Before(t, u)
    BY <1>1, <1>4, <2>2 DEF ChainOrdered, Before, Precedes, TypeOK
  <2> QED
    BY <1>4, <2>1, <2>2
<1>5. Find(t) \in timers \cup {NoTimer}
  BY <1>1, <1>2, <1>3
<1>6. ASSUME t \in timers PROVE Find(t) = t
  BY <1>2, <1>3, <1>4, <1>6
<1> QED
  BY <1>5, <1>6

\* Insertion adds the timer or nothing, and only if it fits into the order.
LEMMA InsertFacts ==
  ASSUME TypeOK, NEW S \in SUBSET timers, NEW t \in Timers, t \notin S, NEW d \in Nat
  PROVE  /\ InsertInto(S, t, d) \in {S, S \cup {t}}
         /\ t \in InsertInto(S, t, d) =>
              \A u \in S : (u < t => deadline[u] >= d) /\ (t < u => d >= deadline[u])
<1>1. S \subseteq Timers /\ Timers \subseteq Nat
  BY TimerAssumption DEF TypeOK
<1>2. InsertInto(S, t, d) \in {S, S \cup {t}}
  BY DEF InsertInto
<1>3. ASSUME t \in InsertInto(S, t, d), NEW u \in S
      PROVE  (u < t => deadline[u] >= d) /\ (t < u => d >= deadline[u])
  <2>1. Precedes(u, deadline[u], t, d) \/ Precedes(t, d, u, deadline[u])
    BY <1>3 DEF InsertInto
  <2>2. deadline[u] \in Nat /\ u \in Nat /\ t \in Nat
    BY <1>1 DEF TypeOK
  <2> QED
    BY <2>1, <2>2 DEF Precedes
<1> QED
  BY <1>2, <1>3

\* upper_bound() of a timer with deadline 0 is end(): listExpiredCb takes all.
LEMMA AllExpire ==
  ASSUME TypeOK, OwnerOK, NEW n
  PROVE  Expired(n) = timers
<1>1. \A u \in timers : u \in Timers /\ deadline[u] \in Nat /\ 0 < deadline[u]
  BY DEF TypeOK, OwnerOK
<1> QED
  BY <1>1 DEF Expired, NowTimerDeadline

LEMMA HandedOutFacts ==
  ASSUME TypeOK, OwnerOK, NEW w \in Idlers
  PROVE  /\ HandedOut(w) \in {{}, timers}
         /\ HandedOut(w) # {} => timers # {} /\ Due(now[w])
  BY AllExpire DEF HandedOut, Due

-----------------------------------------------------------------------------
(* The invariant holds initially, and what it says apart from types depends *)
(* on few variables.                                                        *)

Core == ChainOrdered /\ ReinsertedIsArmed /\ IteratorOK /\ OwnerOK /\ SpentOK

coreVars == <<timers, deadline, cb, op, found, ran, cancelled>>

LEMMA IInvInit == Init => IInv
<1> SUFFICES ASSUME Init PROVE IInv
  OBVIOUS
<1>1. TypeOK
  <2>1. clock \in MinClock..MaxClock /\ previous \in MinClock..MaxClock /\ setbacks \in 0..MaxSetbacks
    BY TimerAssumption DEF Init, TimerAssumption
  <2>2. calls \in 0..MaxCalls /\ now \in [Idlers -> MinClock..MaxClock]
    BY TimerAssumption DEF Init, TimerAssumption
  <2> QED
    BY <2>1, <2>2 DEF Init, TypeOK
<1>2. ChainOrdered /\ SpentOK
  BY DEF Init, ChainOrdered, SpentOK
<1>3. ReinsertedIsArmed /\ IteratorOK /\ OwnerOK
  BY TimerAssumption DEF Init, ReinsertedIsArmed, IteratorOK, OwnerOK, InCall, TimerAssumption
<1> QED
  BY <1>1, <1>2, <1>3 DEF IInv

LEMMA CoreUnchanged == Core /\ UNCHANGED coreVars => Core'
  BY DEF Core, coreVars, ChainOrdered, ReinsertedIsArmed, IteratorOK, OwnerOK,
         SpentOK, InCall

\* Copying the set makes iterators stale, and does nothing else to them.
LEMMA CopyFacts ==
  ASSUME TypeOK
  PROVE  /\ FoundAfterCopy \in [Timers -> Timers \cup {NoTimer, Stale}]
         /\ \A t \in Timers : FoundAfterCopy[t] \in Timers => FoundAfterCopy[t] = found[t]
         /\ \A t \in Timers : FoundAfterCopy[t] = NoTimer <=> found[t] = NoTimer
  BY TimerAssumption DEF TypeOK, FoundAfterCopy

-----------------------------------------------------------------------------
(* Every step keeps the invariant: first the actions that Core depends on.  *)

\* No address is NoTimer or Stale.
LEMMA NoAddress == NoTimer \notin Timers /\ Stale \notin Timers
  BY TimerAssumption DEF TimerAssumption

LEMMA NewStep ==
  ASSUME IInv, NEW t \in Timers, New(t)
  PROVE  IInv'
<1>1. PICK m \in Periods :
        /\ clock + m <= MaxClock
        /\ ms' = [ms EXCEPT ![t] = m]
        /\ deadline' = [deadline EXCEPT ![t] = clock + m]
  BY DEF New, DeadlineAfter
<1>2. m \in Nat /\ clock + m \in Nat /\ clock + m > 0
  BY TimerAssumption DEF TimerAssumption, IInv, TypeOK
<1>3. /\ op[t] = "none" /\ op' = [op EXCEPT ![t] = "insert"]
      /\ cb' = [cb EXCEPT ![t] = TRUE]
      /\ UNCHANGED <<clockVars, setVars, found, calls, idleVars, history, corrupt>>
  BY DEF New
<1>4. t \notin timers /\ t \notin ran /\ t \notin cancelled
  BY <1>3 DEF IInv, OwnerOK
<1>5. TypeOK'
  BY <1>1, <1>2, <1>3 DEF IInv, TypeOK, clockVars, setVars, idleVars, history
<1>6. \A x \in Timers : x # t =>
        deadline'[x] = deadline[x] /\ op'[x] = op[x] /\ cb'[x] = cb[x]
  BY <1>1, <1>3 DEF IInv, TypeOK
<1>7. deadline'[t] = clock + m /\ op'[t] = "insert" /\ cb'[t] = TRUE
  BY <1>1, <1>3 DEF IInv, TypeOK
<1>8. timers' = timers /\ found' = found /\ ran' = ran /\ cancelled' = cancelled
  BY <1>3 DEF setVars, history
<1>9. timers \subseteq Timers /\ ran \subseteq Timers /\ cancelled \subseteq Timers
  BY DEF IInv, TypeOK
<1>10. ChainOrdered' /\ SpentOK'
  BY <1>4, <1>6, <1>8, <1>9 DEF IInv, ChainOrdered, SpentOK
<1>11. ReinsertedIsArmed'
  BY <1>4, <1>6, <1>7, <1>8 DEF IInv, ReinsertedIsArmed
<1>12. IteratorOK'
  BY <1>3, <1>6, <1>7, <1>8, NoAddress DEF IInv, IteratorOK, InCall
<1>13. OwnerOK'
  BY <1>2, <1>6, <1>7, <1>8 DEF IInv, OwnerOK
<1> QED
  BY <1>5, <1>10, <1>11, <1>12, <1>13 DEF IInv

LEMMA InsertStep ==
  ASSUME IInv, NEW t \in Timers, Insert(t)
  PROVE  IInv'
<1>1. /\ op[t] = "insert" /\ op' = [op EXCEPT ![t] = "free"]
      /\ found' = FoundAfterCopy /\ CopyOnWrite
      /\ timers' = InsertInto(timers, t, deadline[t])
      /\ UNCHANGED <<clockVars, previous, timerVars, calls, pc, front, now, history, corrupt>>
  BY DEF Insert
<1>2. /\ FoundAfterCopy \in [Timers -> Timers \cup {NoTimer, Stale}]
      /\ \A x \in Timers : FoundAfterCopy[x] \in Timers => FoundAfterCopy[x] = found[x]
      /\ \A x \in Timers : FoundAfterCopy[x] = NoTimer <=> found[x] = NoTimer
  BY CopyFacts DEF IInv
<1>3. cb[t] /\ t \notin timers
  BY <1>1 DEF IInv, ReinsertedIsArmed
<1>4. /\ timers' \in {timers, timers \cup {t}}
      /\ \A a, b \in timers' : a < b => deadline[a] >= deadline[b]
  <2>1. deadline[t] \in Nat /\ t \in Nat /\ timers \in SUBSET timers /\ TypeOK
    BY TimerAssumption DEF TimerAssumption, IInv, TypeOK
  <2>2. /\ timers' \in {timers, timers \cup {t}}
        /\ t \in timers' =>
             \A u \in timers : /\ u < t => deadline[u] >= deadline[t]
                               /\ t < u => deadline[t] >= deadline[u]
    BY <1>1, <1>3, <2>1, InsertFacts
  <2>3. \A a, b \in timers : a < b => deadline[a] >= deadline[b]
    BY DEF IInv, ChainOrdered
  <2>4. ~(t < t)
    BY <2>1
  <2> QED
    BY <2>2, <2>3, <2>4
<1>5. deadline' = deadline /\ cb' = cb /\ ran' = ran /\ cancelled' = cancelled
  BY <1>1 DEF timerVars, history
<1>6. op'[t] = "free" /\ \A x \in Timers : x # t => op'[x] = op[x]
  BY <1>1 DEF IInv, TypeOK
<1>7. TypeOK'
  BY <1>1, <1>2, <1>4 DEF IInv, TypeOK, CopyOnWrite, clockVars, timerVars, history
<1>8. ChainOrdered' /\ SpentOK'
  BY <1>4, <1>5 DEF IInv, ChainOrdered, SpentOK
<1>9. ReinsertedIsArmed'
  BY <1>4, <1>5, <1>6 DEF IInv, ReinsertedIsArmed
<1>10. IteratorOK'
  BY <1>1, <1>2, <1>4, <1>6, NoAddress DEF IInv, IteratorOK, InCall
<1>11. OwnerOK'
  BY <1>1, <1>2, <1>4, <1>5, <1>6 DEF IInv, OwnerOK
<1> QED
  BY <1>7, <1>8, <1>9, <1>10, <1>11 DEF IInv

\* The searches of cancel, reset and refresh: the callback of t is cleared, or
\* is there and is kept.
LEMMA SearchStep ==
  ASSUME IInv, NEW t \in Timers, NEW name \in InCall, Call(t), Search(t, name),
         \/ cb' = [cb EXCEPT ![t] = FALSE] /\ name # "reset"
         \/ cb' = cb /\ cb[t],
         cancelled' = cancelled \/ (cancelled' = cancelled \cup {t} /\ ~cb'[t]),
         UNCHANGED <<clockVars, setVars, deadline, ms, idleVars, ran, corrupt>>
  PROVE  IInv'
<1>1. op[t] = "free" /\ calls' \in 0..MaxCalls
  BY TimerAssumption DEF Call, IInv, TypeOK, TimerAssumption
<1>2. Find(t) \in timers \cup {NoTimer} /\ (t \in timers => Find(t) = t)
  BY FindFacts DEF IInv
<1>3. /\ found' = [found EXCEPT ![t] = Find(t)]
      /\ op' = [op EXCEPT ![t] = IF Find(t) = NoTimer THEN "free" ELSE name]
  BY DEF Search
<1>4. /\ found'[t] = Find(t) /\ op'[t] = (IF Find(t) = NoTimer THEN "free" ELSE name)
      /\ \A x \in Timers : x # t => found'[x] = found[x] /\ op'[x] = op[x]
  BY <1>3 DEF IInv, TypeOK
<1>5. timers' = timers /\ deadline' = deadline /\ ran' = ran
  BY DEF setVars
<1>6. TypeOK'
  BY <1>1, <1>2, <1>3 DEF IInv, TypeOK, InCall, clockVars, setVars, idleVars
<1>7. \A x \in Timers : x # t => cb'[x] = cb[x]
  BY DEF IInv, TypeOK
<1>8. name = "reset" => cb'[t]
  OBVIOUS
<1>9. ChainOrdered'
  BY <1>5 DEF IInv, ChainOrdered
<1>10. SpentOK'
  <2>1. ~cb[t] => ~cb'[t]
    BY DEF IInv, TypeOK
  <2> QED
    BY <1>5, <1>7, <2>1 DEF IInv, SpentOK, TypeOK
<1>11. ReinsertedIsArmed'
  BY <1>4, <1>5, <1>7 DEF IInv, ReinsertedIsArmed, InCall
<1>12. IteratorOK'
  BY <1>2, <1>4, <1>5, NoAddress DEF IInv, IteratorOK, InCall
<1>13. OwnerOK'
  BY <1>1, <1>4, <1>5, <1>7, <1>8 DEF IInv, OwnerOK, InCall
<1> QED
  BY <1>6, <1>9, <1>10, <1>11, <1>12, <1>13 DEF IInv

\* What an erase leaves of the other iterators: none points at what is gone.
LEMMA EraseFacts ==
  ASSUME IInv, NEW t \in Timers, Erase(t), op[t] \in InCall
  PROVE  /\ found' \in [Timers -> Timers \cup {NoTimer, Stale}]
         /\ front' \in [Idlers -> Timers \cup {NoTimer, Stale}]
         /\ found[t] \in timers /\ (t \in timers => found[t] = t)
         /\ t \notin timers \ {found[t]}
         /\ found'[t] = NoTimer
         /\ \A x \in Timers \ {t} :
              /\ found'[x] = NoTimer <=> found[x] = NoTimer
              /\ found'[x] \in Timers => found'[x] = found[x] /\ found[x] # found[t]
<1>1. found[t] \in timers /\ (t \in timers => found[t] = t)
  BY DEF IInv, IteratorOK, Erase
<1>2. /\ found' \in [Timers -> Timers \cup {NoTimer, Stale}]
      /\ front' \in [Idlers -> Timers \cup {NoTimer, Stale}]
  BY DEF IInv, TypeOK, Erase
<1>3. /\ found'[t] = NoTimer
      /\ \A x \in Timers \ {t} :
           found'[x] = IF found[x] = found[t] THEN Stale ELSE found[x]
  BY DEF Erase
<1>4. found[t] # NoTimer /\ Stale # NoTimer
  BY TimerAssumption, NoAddress DEF TimerAssumption, Erase
<1>5. \A x \in Timers \ {t} :
        /\ found'[x] = NoTimer <=> found[x] = NoTimer
        /\ found'[x] \in Timers => found'[x] = found[x] /\ found[x] # found[t]
  BY <1>3, <1>4, NoAddress
<1> QED
  BY <1>1, <1>2, <1>3, <1>5

\* The erases of cancel, reset and refresh, with or without what follows.
LEMMA EraseStep ==
  ASSUME IInv, NEW t \in Timers, op[t] \in InCall, Erase(t),
         NEW o \in {"free", "insert"}, op' = [op EXCEPT ![t] = o],
         o = "insert" => op[t] = "reset",
         NEW d \in Nat, d > 0, deadline' = [deadline EXCEPT ![t] = d],
         \/ timers' = timers \ {found[t]}
         \/ o = "free" /\ timers' = InsertInto(timers \ {found[t]}, t, d),
         ms' \in [Timers -> Nat],
         UNCHANGED <<clockVars, previous, cb, calls, pc, hold, now, history, corrupt>>
  PROVE  IInv'
<1> DEFINE S == timers \ {found[t]}
<1>1. /\ found' \in [Timers -> Timers \cup {NoTimer, Stale}]
      /\ front' \in [Idlers -> Timers \cup {NoTimer, Stale}]
      /\ found[t] \in timers /\ (t \in timers => found[t] = t)
      /\ t \notin S
      /\ found'[t] = NoTimer
      /\ \A x \in Timers \ {t} :
           /\ found'[x] = NoTimer <=> found[x] = NoTimer
           /\ found'[x] \in Timers => found'[x] = found[x] /\ found[x] # found[t]
  BY EraseFacts
<1>2. /\ op'[t] = o /\ deadline'[t] = d
      /\ \A x \in Timers : x # t => op'[x] = op[x] /\ deadline'[x] = deadline[x]
      /\ deadline' \in [Timers -> Nat] /\ S \subseteq Timers /\ S \subseteq timers
  BY DEF IInv, TypeOK
<1>3. cb' = cb /\ ran' = ran /\ cancelled' = cancelled
  BY DEF history
<1>4. /\ S \subseteq timers' /\ timers' \subseteq S \cup {t}
      /\ t \in timers' => o = "free"
      /\ \A a, b \in timers' : a < b => deadline'[a] >= deadline'[b]
  <2>1. CASE timers' = S
    BY <1>1, <1>2, <2>1 DEF IInv, ChainOrdered, TypeOK
  <2>2. CASE o = "free" /\ timers' = InsertInto(S, t, d)
    <3>1. TypeOK /\ t \in Nat /\ S \in SUBSET timers
      BY TimerAssumption DEF TimerAssumption, IInv
    <3>2. \A a, b \in S : a < b => deadline'[a] >= deadline'[b]
      BY <1>1, <1>2 DEF IInv, ChainOrdered
    <3>3. \A u \in S : deadline'[u] = deadline[u]
      BY <1>1, <1>2
    <3> HIDE DEF S
    <3>4. /\ timers' \in {S, S \cup {t}}
          /\ t \in timers' => \A u \in S : (u < t => deadline[u] >= d) /\ (t < u => d >= deadline[u])
      BY <1>1, <2>2, <3>1, InsertFacts
    <3> QED
      BY <1>2, <2>2, <3>1, <3>2, <3>3, <3>4
  <2> QED
    BY <2>1, <2>2
<1>5. TypeOK'
  <2>1. timers' \subseteq Timers
    BY <1>2, <1>4
  <2> QED
    BY <1>1, <1>2, <2>1 DEF IInv, TypeOK, clockVars, history
<1>6. ChainOrdered' /\ SpentOK'
  BY <1>3, <1>4 DEF IInv, ChainOrdered, SpentOK
<1>7. ReinsertedIsArmed'
  <2>1. op[t] = "reset" => cb[t]
    BY <1>1, <1>2 DEF IInv, OwnerOK, Erase
  <2> QED
    BY <1>2, <1>3, <1>4, <2>1 DEF IInv, ReinsertedIsArmed
<1>8. IteratorOK'
  <2>1. SUFFICES ASSUME NEW x \in Timers
                 PROVE  /\ op'[x] \notin InCall => found'[x] = NoTimer
                        /\ op'[x] \in InCall => found'[x] # NoTimer
                        /\ found'[x] \in Timers =>
                             found'[x] \in timers' /\ (x \in timers' => found'[x] = x)
    BY DEF IteratorOK, InCall
  <2>2. CASE x = t
    BY <1>1, <1>2, <2>2, NoAddress DEF InCall
  <2>3. CASE x # t
    BY <1>1, <1>2, <1>4, <2>3 DEF IInv, IteratorOK
  <2> QED
    BY <2>2, <2>3
<1>9. OwnerOK'
  <2>1. SUFFICES ASSUME NEW x \in Timers
                 PROVE  /\ op'[x] = "none" => x \notin timers' \cup ran' \cup cancelled'
                        /\ op'[x] # "none" => deadline'[x] > 0
                        /\ op'[x] = "reset" /\ found'[x] \in Timers => cb'[x]
    BY DEF OwnerOK
  <2>2. CASE x = t
    BY <1>2, <2>2
  <2>3. CASE x # t
    BY <1>1, <1>2, <1>3, <1>4, <2>3 DEF IInv, OwnerOK
  <2> QED
    BY <2>2, <2>3
<1> QED
  BY <1>5, <1>6, <1>7, <1>8, <1>9 DEF IInv

\* listExpiredCb.
LEMMA ExpireStep ==
  ASSUME IInv, NEW w \in Idlers, Expire(w)
  PROVE  IInv'
<1> DEFINE E == HandedOut(w)
           R == E \cap Recurring
<1>1. E \in {{}, timers}
  BY HandedOutFacts DEF IInv
<1>2. /\ Step(w, "expire", "next") /\ CopyOnWrite
      /\ found' = [t \in Timers |-> IF found[t] \in E THEN Stale ELSE FoundAfterCopy[t]]
      /\ previous' = IF timers = {} THEN previous ELSE now[w]
      /\ deadline' = [t \in Timers |-> IF t \in R THEN now[w] + ms[t] ELSE deadline[t]]
      /\ cb' = [t \in Timers |-> IF t \in E THEN CallbackAfter(t) ELSE cb[t]]
      /\ timers' = (timers \ E) \cup PutBack(R)
      /\ ran' = ran \cup {t \in E \ Recurring : cb[t]}
      /\ now' = [now EXCEPT ![w] = MinClock]
      /\ UNCHANGED <<clockVars, ms, op, calls, front, cancelled, corrupt>>
  BY DEF Expire
<1>3. timers \subseteq Timers /\ E \subseteq timers /\ R \subseteq E /\ PutBack(R) \subseteq R
  BY <1>1 DEF IInv, TypeOK, PutBack
<1>4. /\ now[w] \in Nat /\ now[w] > 0 /\ now[w] \in MinClock..MaxClock
      /\ MinClock \in MinClock..MaxClock
  BY TimerAssumption DEF TimerAssumption, IInv, TypeOK
<1>5. \A t \in Timers : now[w] + ms[t] \in Nat /\ now[w] + ms[t] > 0
  BY <1>4 DEF IInv, TypeOK
<1>6. /\ FoundAfterCopy \in [Timers -> Timers \cup {NoTimer, Stale}]
      /\ \A x \in Timers : FoundAfterCopy[x] \in Timers => FoundAfterCopy[x] = found[x]
      /\ \A x \in Timers : FoundAfterCopy[x] = NoTimer <=> found[x] = NoTimer
  BY CopyFacts DEF IInv
<1> HIDE DEF E, R
<1>7. /\ found' \in [Timers -> Timers \cup {NoTimer, Stale}]
      /\ \A x \in Timers : found'[x] \in Timers => found'[x] = found[x] /\ found[x] \notin E
      /\ \A x \in Timers : found'[x] = NoTimer <=> found[x] = NoTimer
  <2>1. NoTimer \notin E /\ Stale # NoTimer
    BY <1>3, NoAddress, TimerAssumption DEF TimerAssumption
  <2> QED
    BY <1>2, <1>6, <2>1, NoAddress
<1>8. TypeOK'
  <2>1. deadline' \in [Timers -> Nat] /\ cb' \in [Timers -> BOOLEAN]
    BY <1>2, <1>5 DEF IInv, TypeOK, CallbackAfter
  <2>2. timers' \subseteq Timers /\ ran' \subseteq Timers \ Recurring
    BY <1>2, <1>3 DEF IInv, TypeOK
  <2>3. hold' \in [Idlers -> {"none", "shared", "own"}]
    BY <1>2 DEF IInv, TypeOK, CopyOnWrite
  <2>4. previous' \in MinClock..MaxClock /\ now' \in [Idlers -> MinClock..MaxClock]
    BY <1>2, <1>4 DEF IInv, TypeOK
  <2>5. pc' \in [Idlers -> {"next", "look", "answer", "wait", "expire"}]
    BY <1>2 DEF IInv, TypeOK, Step
  <2> QED
    BY <1>2, <1>7, <2>1, <2>2, <2>3, <2>4, <2>5 DEF IInv, TypeOK, clockVars
<1>9. timers' \subseteq timers
  BY <1>2, <1>3
<1>10. ChainOrdered'
  <2>1. CASE E = {}
    <3>1. R = {} /\ PutBack(R) = {}
      BY <1>3, <2>1
    <3>2. timers' = timers /\ deadline' = deadline
      BY <1>2, <2>1, <3>1 DEF IInv, TypeOK
    <3> QED
      BY <3>2 DEF IInv, ChainOrdered
  <2>2. CASE E = timers
    <3>1. timers' = PutBack(R)
      BY <1>2, <2>2
    <3>2. SUFFICES ASSUME NEW a \in timers', NEW b \in timers', a < b
                   PROVE  deadline'[a] >= deadline'[b]
      BY DEF ChainOrdered
    <3>3. a \in R /\ b \in R /\ ms[a] >= ms[b]
      BY <3>1, <3>2 DEF PutBack
    <3>4. a \in Timers /\ b \in Timers
      BY <1>3, <3>3
    <3>5. deadline'[a] = now[w] + ms[a] /\ deadline'[b] = now[w] + ms[b]
      BY <1>2, <3>3, <3>4
    <3>6. ms[a] \in Nat /\ ms[b] \in Nat
      BY <3>4 DEF IInv, TypeOK
    <3> QED
      BY <1>4, <3>3, <3>5, <3>6
  <2> QED
    BY <1>1, <2>1, <2>2
<1>11. ReinsertedIsArmed'
  BY <1>2, <1>3, <1>9 DEF IInv, ReinsertedIsArmed
<1>12. IteratorOK'
  <2>1. \A x \in timers \ E : x \in timers'
    BY <1>2
  <2>2. op' = op
    BY <1>2
  <2> QED
    BY <1>7, <1>9, <2>1, <2>2 DEF IInv, IteratorOK, InCall
<1>13. OwnerOK'
  <2>1. SUFFICES ASSUME NEW x \in Timers
                 PROVE  /\ op'[x] = "none" => x \notin timers' \cup ran' \cup cancelled'
                        /\ op'[x] # "none" => deadline'[x] > 0
                        /\ op'[x] = "reset" /\ found'[x] \in Timers => cb'[x]
    BY DEF OwnerOK
  <2>2. op'[x] = "none" => x \notin timers' \cup ran' \cup cancelled'
    BY <1>2, <1>3, <1>9 DEF IInv, OwnerOK
  <2>3. op'[x] # "none" => deadline'[x] > 0
    BY <1>2, <1>5 DEF IInv, OwnerOK
  <2>4. ASSUME op'[x] = "reset", found'[x] \in Timers PROVE cb'[x]
    <3>1. found'[x] = found[x] /\ found[x] \notin E
      BY <1>7, <2>4
    <3>2. x \notin E
      BY <1>3, <2>4, <3>1 DEF IInv, IteratorOK
    <3> QED
      BY <1>2, <2>4, <3>1, <3>2 DEF IInv, OwnerOK
  <2> QED
    BY <2>2, <2>3, <2>4
<1>14. SpentOK'
  <2>1. \A t \in Timers : t \in E /\ t \notin Recurring => ~cb'[t]
    BY <1>2 DEF CallbackAfter
  <2>2. \A t \in Timers : ~cb[t] => ~cb'[t]
    BY <1>2 DEF CallbackAfter
  <2>3. ran \subseteq Timers /\ cancelled \subseteq Timers
    BY DEF IInv, TypeOK
  <2> QED
    BY <1>2, <1>3, <2>1, <2>2, <2>3 DEF IInv, SpentOK
<1> QED
  BY <1>8, <1>10, <1>11, <1>12, <1>13, <1>14 DEF IInv

\* Every other action leaves what Core depends on alone.
LEMMA OtherStep ==
  ASSUME IInv,
         \/ Tick \/ SetBack \/ Corrupted
         \/ \E t \in Timers : EraseStale(t)
         \/ \E w \in Idlers : Snapshot(w) \/ Look(w) \/ Answer(w) \/ AnswerStale(w) \/ ReadClock(w)
  PROVE  IInv'
<1>1. UNCHANGED coreVars
  BY DEF coreVars, Tick, SetBack, Corrupted, EraseStale, Snapshot, Look, Answer,
         AnswerStale, ReadClock, vars, clockVars, setVars, timerVars, callVars,
         idleVars, history
<1>2. Core'
  BY <1>1, CoreUnchanged DEF Core, IInv
<1>3. TypeOK'
  <2> USE DEF clockVars, setVars, timerVars, callVars, idleVars, history
  <2>1. CASE Tick
    BY <2>1, TimerAssumption DEF TimerAssumption, IInv, TypeOK, Tick
  <2>2. CASE SetBack
    BY <2>2, TimerAssumption DEF TimerAssumption, IInv, TypeOK, SetBack
  <2>3. CASE Corrupted
    BY <2>3 DEF IInv, TypeOK, Corrupted, vars
  <2>4. CASE \E t \in Timers : EraseStale(t)
    BY <2>4 DEF IInv, TypeOK, EraseStale
  <2>5. ASSUME NEW w \in Idlers,
               Snapshot(w) \/ Answer(w) \/ AnswerStale(w) \/ ReadClock(w)
        PROVE  TypeOK'
    <3>1. CASE Snapshot(w)
      BY <3>1 DEF IInv, TypeOK, Snapshot, Step
    <3>2. CASE Answer(w)
      BY <3>2 DEF IInv, TypeOK, Answer, Step
    <3>3. CASE AnswerStale(w)
      BY <3>3 DEF IInv, TypeOK, AnswerStale
    <3>4. CASE ReadClock(w)
      BY <3>4 DEF IInv, TypeOK, ReadClock, Step
    <3> QED
      BY <2>5, <3>1, <3>2, <3>3, <3>4
  <2>6. ASSUME NEW w \in Idlers, Look(w) PROVE TypeOK'
    <3>1. timers # {} => Front(timers) \in Timers
      BY FrontIsFirst DEF IInv, TypeOK
    <3> QED
      BY <2>6, <3>1 DEF IInv, TypeOK, Look, Step
  <2> QED
    BY <2>1, <2>2, <2>3, <2>4, <2>5, <2>6
<1> QED
  BY <1>2, <1>3 DEF Core, IInv

LEMMA IInvStep == IInv /\ [Next]_vars => IInv'
<1> SUFFICES ASSUME IInv, [Next]_vars PROVE IInv'
  OBVIOUS
<1>1. ASSUME NEW t \in Timers, Owner(t) PROVE IInv'
  <2>1. CASE New(t)
    BY <2>1, NewStep
  <2>2. CASE Insert(t)
    BY <2>2, InsertStep
  <2>3. CASE Cancel(t)
    <3>1. /\ Call(t) /\ Search(t, "cancel") /\ "cancel" \in InCall /\ "cancel" # "reset"
          /\ cb' = [cb EXCEPT ![t] = FALSE] /\ cancelled' = cancelled \cup {t}
          /\ UNCHANGED <<clockVars, setVars, deadline, ms, idleVars, ran, corrupt>>
      BY <2>3 DEF Cancel, ClearCallback, InCall
    <3>2. ~cb'[t]
      BY <3>1 DEF IInv, TypeOK
    <3> QED
      BY <3>1, <3>2, SearchStep
  <2>4. CASE Reset(t)
    <3>1. /\ Call(t) /\ Search(t, "reset") /\ "reset" \in InCall /\ cb[t] /\ cb' = cb
          /\ cancelled' = cancelled
          /\ UNCHANGED <<clockVars, setVars, deadline, ms, idleVars, ran, corrupt>>
      BY <2>4 DEF Reset, InCall, timerVars, history
    <3> QED
      BY <3>1, SearchStep
  <2>5. CASE Refresh(t)
    <3>1. /\ Call(t) /\ Search(t, "refresh") /\ "refresh" \in InCall /\ "refresh" # "reset"
          /\ cb' = [cb EXCEPT ![t] = FALSE] /\ cancelled' = cancelled
          /\ UNCHANGED <<clockVars, setVars, deadline, ms, idleVars, ran, corrupt>>
      BY <2>5 DEF Refresh, InCall, history
    <3> QED
      BY <3>1, SearchStep
  <2>6. CASE CancelErase(t)
    <3>1. /\ op[t] \in InCall /\ op[t] # "none" /\ Erase(t) /\ timers' = timers \ {found[t]}
          /\ op' = [op EXCEPT ![t] = "free"] /\ deadline' = deadline /\ ms' = ms
          /\ UNCHANGED <<clockVars, previous, cb, calls, pc, hold, now, history, corrupt>>
      BY <2>6 DEF CancelErase, InCall, timerVars
    <3>2. /\ deadline[t] \in Nat /\ deadline[t] > 0 /\ ms' \in [Timers -> Nat]
          /\ deadline' = [deadline EXCEPT ![t] = deadline[t]]
      BY <3>1 DEF IInv, TypeOK, OwnerOK
    <3> QED
      BY <3>1, <3>2, EraseStep
  <2>7. CASE ResetErase(t)
    <3>1. PICK m \in Periods :
            /\ ms' = [ms EXCEPT ![t] = m]
            /\ deadline' = [deadline EXCEPT ![t] = clock + m]
      BY <2>7 DEF ResetErase, DeadlineAfter
    <3>2. /\ op[t] = "reset" /\ Erase(t) /\ timers' = timers \ {found[t]}
          /\ op' = [op EXCEPT ![t] = "insert"]
          /\ UNCHANGED <<clockVars, previous, cb, calls, pc, hold, now, history, corrupt>>
      BY <2>7 DEF ResetErase
    <3>3. /\ clock + m \in Nat /\ clock + m > 0 /\ ms' \in [Timers -> Nat]
          /\ op[t] \in InCall
      BY <3>1, <3>2, TimerAssumption DEF TimerAssumption, IInv, TypeOK, InCall
    <3> QED
      BY <3>1, <3>2, <3>3, EraseStep
  <2>8. CASE RefreshErase(t)
    <3>1. /\ op[t] \in InCall /\ Erase(t) /\ op' = [op EXCEPT ![t] = "free"] /\ ms' = ms
          /\ deadline' = [deadline EXCEPT ![t] = clock + ms[t]]
          /\ timers' = InsertInto(timers \ {found[t]}, t, clock + ms[t])
          /\ UNCHANGED <<clockVars, previous, cb, calls, pc, hold, now, history, corrupt>>
      BY <2>8 DEF RefreshErase, InCall, DeadlineAfter
    <3>2. /\ clock + ms[t] \in Nat /\ clock + ms[t] > 0 /\ ms' \in [Timers -> Nat]
      BY <3>1, TimerAssumption DEF TimerAssumption, IInv, TypeOK
    <3> QED
      BY <3>1, <3>2, EraseStep
  <2>9. CASE EraseStale(t)
    BY <2>9, OtherStep
  <2> QED
    BY <1>1, <2>1, <2>2, <2>3, <2>4, <2>5, <2>6, <2>7, <2>8, <2>9 DEF Owner
<1>2. ASSUME NEW w \in Idlers, Idle(w) PROVE IInv'
  BY <1>2, ExpireStep, OtherStep DEF Idle
<1>3. CASE Tick \/ SetBack \/ Corrupted
  BY <1>3, OtherStep
<1>4. CASE UNCHANGED vars
  BY <1>4, OtherStep DEF Corrupted, IInv, TypeOK, ChainOrdered, ReinsertedIsArmed,
     IteratorOK, OwnerOK, SpentOK, InCall, vars, clockVars, setVars, timerVars,
     callVars, idleVars, history
<1> QED
  BY <1>1, <1>2, <1>3, <1>4 DEF Next

-----------------------------------------------------------------------------
(* The theorems.                                                           *)

\* The inductive invariant: in every reachable state the timers in the set are
\* a chain, iterators point into the set or are known to be stale, and timers
\* that were delivered or cancelled have no callback.
THEOREM TimerInvariant == Spec => []IInv
<1>1. Init => IInv
  BY IInvInit
<1>2. IInv /\ [Next]_vars => IInv'
  BY IInvStep
<1> QED
  BY <1>1, <1>2, PTL DEF Spec

\* The values of TimerManager's members, of its timers and of its users.
THEOREM TimerTypeCorrect == Spec => []TypeOK
<1>1. IInv => TypeOK
  BY DEF IInv
<1> QED
  BY <1>1, TimerInvariant, PTL

\* Any two timers in the set are ordered by the comparator: std::set's
\* requirement, which Timer::Comparator does not give by itself.
THEOREM SetStaysOrdered == Spec => []ChainOrdered
<1>1. IInv => ChainOrdered
  BY DEF IInv
<1> QED
  BY <1>1, TimerInvariant, PTL

\* The assertions of reset and addTimer on cb_ hold, although the idle threads
\* clear cb_ without the timer's mutex.
THEOREM ReinsertsAreArmed == Spec => []ReinsertedIsArmed
<1>1. IInv => ReinsertedIsArmed
  BY DEF IInv
<1> QED
  BY <1>1, TimerInvariant, PTL

\* listExpiredCb hands out no callback before its deadline, for any number of
\* idle threads, unless the clock was set back by more than an hour.
THEOREM NothingFiresEarly == Spec => NoEarlyFire
<1>1. ASSUME IInv, NEW w \in Idlers, Expire(w), now[w] >= previous - Hour
      PROVE  \A t \in HandedOut(w) : deadline[t] <= now[w]
  <2>1. HandedOut(w) \in {{}, timers} /\ (HandedOut(w) # {} => timers # {} /\ Due(now[w]))
    BY <1>1, HandedOutFacts DEF IInv
  <2>2. ~RolledOver(now[w])
    <3>1. now[w] \in Nat /\ previous \in Nat /\ Hour \in Nat
      BY <1>1, TimerAssumption DEF TimerAssumption, IInv, TypeOK
    <3> QED
      BY <1>1, <3>1 DEF RolledOver
  <2>3. SUFFICES ASSUME NEW t \in HandedOut(w) PROVE deadline[t] <= now[w]
    OBVIOUS
  <2>4. t \in timers /\ deadline[Front(timers)] <= now[w]
    BY <2>1, <2>2, <2>3 DEF Due
  <2>5. Front(timers) \in timers /\ deadline[t] <= deadline[Front(timers)]
    BY <1>1, <2>4, FrontIsFirst, FrontIsLatest DEF IInv, TypeOK
  <2>6. deadline[t] \in Nat /\ deadline[Front(timers)] \in Nat /\ now[w] \in Nat
    <3>1. timers \subseteq Timers /\ now[w] \in MinClock..MaxClock /\ MinClock \in Nat
      BY <1>1, TimerAssumption DEF TimerAssumption, IInv, TypeOK
    <3>2. \A u \in timers : deadline[u] \in Nat
      BY <1>1, <3>1 DEF IInv, TypeOK
    <3> QED
      BY <2>4, <2>5, <3>1, <3>2
  <2> QED
    BY <2>4, <2>5, <2>6
<1>2. IInv => [\A w \in Idlers : Expire(w) /\ now[w] >= previous - Hour =>
                 \A t \in HandedOut(w) : deadline[t] <= now[w]]_vars
  BY <1>1
<1> QED
  BY <1>2, TimerInvariant, PTL DEF NoEarlyFire

\* A callback that does not recur is handed to the scheduler once at most,
\* whatever its owner and the owners of other timers call.
THEOREM OneShotsFireOnce == Spec => FiresOnce
<1>1. IInv => [\A w \in Idlers, t \in Timers \ Recurring :
                 Expire(w) /\ t \in HandedOut(w) /\ cb[t] => t \notin ran]_vars
  BY DEF IInv, SpentOK
<1> QED
  BY <1>1, TimerInvariant, PTL DEF FiresOnce

\* The callback of a timer is not handed out any more once cancel was called.
THEOREM CancelledStaysSilent == Spec => CancelIsFinal
<1>1. IInv => [\A w \in Idlers, t \in Timers :
                 Expire(w) /\ t \in HandedOut(w) /\ cb[t] => t \notin cancelled]_vars
  BY DEF IInv, SpentOK
<1> QED
  BY <1>1, TimerInvariant, PTL DEF CancelIsFinal
=============================================================================
