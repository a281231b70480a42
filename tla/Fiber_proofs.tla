---------------------------- MODULE Fiber_proofs ----------------------------
(***************************************************************************)
(* For any threads and fibers: where fibers are used as the scheduler uses *)
(* them, each thread runs on the stack its Current_Fiber names, no stack   *)
(* is entered through an old context, and no fiber is destroyed too soon.  *)
(***************************************************************************)
EXTENDS Fiber, TLAPS

\* Fibers are swapped in by threads with a scheduler, yield only themselves,
\* and are reset only if they were made for swapIn: what the repository does
\* otherwise are findings of their own.
AsScheduled == ~SwapPlain /\ ~MainYields /\ Resettable \cap Collers = {}

Begun == {"READY", "HOLD", "EXEC"}

\* The fiber a thread runs, and what it left to run it: its own stack, and a
\* caller its root fiber as well.
ThreadOK(t) ==
  /\ cur[t] = None => on[t] = t /\ main[t] = None
  /\ cur[t] # None =>
       /\ cur[t] = on[t] /\ state[t] = "EXEC"
       /\ main[t] = IF t \in Pool THEN t ELSE IF t \in Callers THEN Root[t] ELSE None
  /\ ctx[on[t]] = "stale"
  /\ on[t] \in Threads => on[t] = t
  /\ on[t] # t => ctx[t] = t /\ t \notin freed
  /\ on[t] \in Fibers \ Collers => t \in Pool \cup Callers
  /\ t \in Callers => on[t] \in {t, Root[t]} \cup (Fibers \ Collers)
  /\ t \in Callers /\ on[t] \notin {t, Root[t]} =>
       /\ ctx[Root[t]] = Root[t] /\ state[Root[t]] = "EXEC" /\ owned[Root[t]]

\* A fiber's state says where its context points, whether its stack has a
\* pointer to it, and who may destroy it.
FiberOK(f) ==
  /\ fun[f] = Entry(f)
  /\ ctx[f] \in {Entry(f), f, "stale"}
  /\ self[f] <=> state[f] \in Begun
  /\ ended[f] <=> state[f] \in Dead
  /\ state[f] = "INIT" => ctx[f] = Entry(f)
  /\ state[f] \in Begun /\ RunBy(f) = {} => ctx[f] = f
  /\ RunBy(f) # {} => state[f] = "EXEC" /\ owned[f]
  /\ ~owned[f] => (f \in freed <=> ~self[f])
  /\ owned[f] => f \notin freed
  /\ f \in Collers => state[f] \in {"INIT", "EXEC", "TERM", "EXCET"}
  /\ f \in Collers /\ state[f] = "EXEC" => 
       \E t \in Threads : on[t] = f \/ (t \in Callers /\ f = Root[t] /\ on[t] # t)

IInv ==
  /\ TypeOK
  /\ wrong = {}
  /\ \A t \in Threads : ThreadOK(t) /\ ctx[t] \in {t, "stale"}
  /\ \A f \in Fibers : FiberOK(f)
  /\ \A t, u \in Threads : on[t] = on[u] => t = u
  /\ \A t \in Callers, u \in Threads : on[u] = Root[t] => u = t

-----------------------------------------------------------------------------
(* Switching.                                                              *)

\* swapcontext from the stack a thread is on to one whose context is valid:
\* the one is saved, the other runs and has no context any more.
LEMMA SwitchFacts ==
  ASSUME IInv, NEW t \in Threads, NEW to \in Stacks, to # on[t],
         NEW own \in [Fibers -> BOOLEAN],
         ctx[to] = to \/ (to \in Fibers /\ ctx[to] = Entry(to)),
         to \in Fibers => ~ended'[to],
         Switch(t, on[t], to, own)
  PROVE  /\ on' = [on EXCEPT ![t] = to] /\ cur' = [cur EXCEPT ![t] = to]
         /\ ctx' = [x \in Stacks |-> IF x = to THEN "stale" ELSE IF x = on[t] THEN x ELSE ctx[x]]
         /\ fun' = fun /\ wrong' = {}
         /\ self' = IF ctx[to] = to THEN own ELSE [own EXCEPT ![to] = TRUE]
<1> DEFINE saved == [ctx EXCEPT ![on[t]] = on[t]]
<1>1. on[t] \in Stacks /\ ctx \in [Stacks -> Stacks \cup Functions \cup {"stale"}]
  BY DEF IInv, TypeOK
<1>2. saved[to] = ctx[to]
  BY <1>1
<1>3. cur' = [cur EXCEPT ![t] = to]
  BY DEF Switch, SetTo
<1>4. CASE ctx[to] = to
  <2>1. to \notin Functions
    BY FiberAssumption
  <2>2. /\ on' = [on EXCEPT ![t] = to]
        /\ ctx' = [x \in Stacks |-> IF saved[x] = to THEN "stale" ELSE saved[x]]
        /\ self' = own /\ fun' = fun
        /\ wrong' = wrong \cup {} \cup (IF to \in Fibers /\ ended'[to] THEN {"here"} ELSE {})
    BY <1>2, <1>4, <2>1, Zenon DEF Switch
  <2>3. ASSUME NEW x \in Stacks, x # to PROVE saved[x] # to
    <3>1. x \in Threads => ctx[x] \in {x, "stale"}
      BY DEF IInv
    <3>2. x \in Fibers => ctx[x] \in {Entry(x), x, "stale"}
      BY DEF IInv, FiberOK
    <3> QED
      BY <1>1, <2>3, <3>1, <3>2, FiberAssumption DEF Stacks, Entry, Functions
  <2>4. ctx' = [x \in Stacks |-> IF x = to THEN "stale" ELSE IF x = on[t] THEN x ELSE ctx[x]]
    BY <1>1, <1>2, <1>4, <2>2, <2>3
  <2>5. wrong' = {}
    BY <2>2 DEF IInv
  <2> QED
    BY <1>3, <1>4, <2>2, <2>4, <2>5
<1>5. CASE ctx[to] # to
  <2>1. to \in Fibers /\ ctx[to] = Entry(to) /\ ctx[to] \in Functions /\ fun[to] = Entry(to)
    BY <1>5 DEF Entry, Functions, IInv, FiberOK
  <2>2. /\ on' = [on EXCEPT ![t] = to]
        /\ ctx' = [saved EXCEPT ![to] = "stale"]
        /\ fun' = [fun EXCEPT ![to] = ctx[to]]
        /\ self' = [own EXCEPT ![to] = TRUE]
        /\ wrong' = wrong
    BY <1>2, <2>1, Zenon DEF Switch, WithPointer
  <2>3. fun' = fun
    BY <2>1, <2>2 DEF IInv, TypeOK
  <2>4. ctx' = [x \in Stacks |-> IF x = to THEN "stale" ELSE IF x = on[t] THEN x ELSE ctx[x]]
    BY <1>1, <2>2
  <2> QED
    BY <1>3, <1>5, <2>2, <2>3, <2>4 DEF IInv
<1> QED
  BY <1>4, <1>5

\* A switch of thread t from one stack to another, after which only the state
\* of one of their fibers is another.
Moves(t, to, f) ==
  /\ to # on[t] /\ f \in {to, on[t]}
  /\ to \in Threads => to = t /\ (t \in Callers => on[t] = Root[t])
  /\ to \in Fibers => RunBy(to) = {}
  /\ \A v \in Callers : to = Root[v] => v = t
  /\ on' = [on EXCEPT ![t] = to] /\ cur' = [cur EXCEPT ![t] = to]
  /\ ctx' = [x \in Stacks |-> IF x = to THEN "stale" ELSE IF x = on[t] THEN x ELSE ctx[x]]
  /\ fun' = fun /\ main' = main /\ freed' = freed /\ owned' = owned /\ wrong' = {}
  /\ \A x \in Stacks : x # f => state'[x] = state[x]
  /\ \A g \in Fibers : g # f => ended'[g] = ended[g] /\ self'[g] = self[g]

\* It concerns no other thread and no other fiber.
LEMMA OthersKept ==
  ASSUME IInv, NEW t \in Threads, NEW to \in Stacks, NEW f \in Fibers, Moves(t, to, f)
  PROVE  /\ \A u \in Threads : u # t => (ThreadOK(u) /\ ctx[u] \in {u, "stale"})'
         /\ \A g \in Fibers : g \notin {to, on[t]} => FiberOK(g)'
         /\ (\A u, v \in Threads : on[u] = on[v] => u = v)'
         /\ (\A v \in Callers, u \in Threads : on[u] = Root[v] => u = v)'
<1>1. on[t] \in Stacks /\ on'[t] = to /\ \A u \in Threads : u # t => on'[u] = on[u] /\ cur'[u] = cur[u]
  BY DEF Moves, IInv, TypeOK
<1>2. \A u \in Threads : u # t => on[u] # to
  BY <1>1, FiberAssumption DEF Moves, IInv, TypeOK, RunBy, Stacks, ThreadOK
<1>3. ASSUME NEW u \in Threads, u # t PROVE (ThreadOK(u) /\ ctx[u] \in {u, "stale"})'
  <2>1. ThreadOK(u) /\ ctx[u] \in {u, "stale"} /\ ThreadOK(t) /\ f \notin Threads /\ u \in Stacks
    BY FiberAssumption DEF IInv, Stacks
  <2>2. on[u] # on[t] /\ on[u] \in Stacks /\ u # to /\ u # on[t]
    BY <1>3, <2>1 DEF IInv, TypeOK, ThreadOK, Moves
  <2>3. /\ ctx'[on[u]] = ctx[on[u]] /\ ctx'[u] = ctx[u] /\ state'[u] = state[u]
        /\ main'[u] = main[u] /\ freed' = freed /\ owned' = owned
    BY <1>2, <1>3, <2>1, <2>2 DEF Moves
  <2>4. u \in Callers => /\ Root[u] # to /\ Root[u] # on[t] /\ Root[u] \in Stacks
                         /\ ctx'[Root[u]] = ctx[Root[u]] /\ state'[Root[u]] = state[Root[u]]
    BY <1>3, <2>1, FiberAssumption DEF Moves, IInv, Stacks
  <2> QED
    BY <1>1, <1>3, <2>1, <2>3, <2>4 DEF ThreadOK
<1>4. ASSUME NEW g \in Fibers, g \notin {to, on[t]} PROVE FiberOK(g)'
  <2>1. FiberOK(g) /\ g \in Stacks /\ g # f
    BY <1>4 DEF IInv, Stacks, Moves
  <2>2. RunBy(g)' = RunBy(g)
    BY <1>1, <1>4 DEF RunBy
  <2>3. /\ ctx'[g] = ctx[g] /\ state'[g] = state[g] /\ self'[g] = self[g] /\ ended'[g] = ended[g]
        /\ fun' = fun /\ freed' = freed /\ owned' = owned
    BY <1>4, <2>1 DEF Moves
  <2>4. g \in Collers /\ state[g] = "EXEC" =>
          \E u \in Threads : on'[u] = g \/ (u \in Callers /\ g = Root[u] /\ on'[u] # u)
    <3>1. SUFFICES ASSUME NEW u \in Threads, on[u] = g \/ (u \in Callers /\ g = Root[u] /\ on[u] # u)
                   PROVE  on'[u] = g \/ (u \in Callers /\ g = Root[u] /\ on'[u] # u)
      BY <2>1 DEF FiberOK
    <3>2. CASE u = t
      BY <1>1, <1>4, <3>1, <3>2 DEF Moves
    <3>3. CASE u # t
      BY <1>1, <3>1, <3>3
    <3> QED
      BY <3>2, <3>3
  <2> QED
    BY <2>1, <2>2, <2>3, <2>4 DEF FiberOK
<1>5. (\A u, v \in Threads : on[u] = on[v] => u = v)'
  BY <1>1, <1>2 DEF IInv
<1>6. (\A v \in Callers, u \in Threads : on[u] = Root[v] => u = v)'
  BY <1>1 DEF IInv, Moves
<1> QED
  BY <1>3, <1>4, <1>5, <1>6

-----------------------------------------------------------------------------
(* The actions.                                                            *)

\* Nobody has begun yet.
LEMMA InitIInv == Init => IInv
<1> SUFFICES ASSUME Init PROVE IInv
  OBVIOUS
<1>1. TypeOK
  BY FiberAssumption DEF Init, TypeOK, Stacks, Entry, Functions
<1>2. \A x \in Threads : on[x] = x /\ cur[x] = None /\ main[x] = None /\ ctx[x] = "stale"
  BY FiberAssumption DEF Init, Stacks
<1>3. ASSUME NEW t \in Threads PROVE ThreadOK(t) /\ ctx[t] \in {t, "stale"}
  BY <1>2, FiberAssumption DEF ThreadOK, Threads
<1>4. ASSUME NEW f \in Fibers PROVE FiberOK(f)
  <2>1. RunBy(f) = {}
    BY <1>2, FiberAssumption DEF RunBy
  <2>2. /\ fun[f] = Entry(f) /\ ctx[f] = Entry(f) /\ state[f] = "INIT"
        /\ ended[f] = FALSE /\ owned[f] = TRUE /\ self[f] = FALSE /\ freed = {}
    BY DEF Init, Stacks
  <2> QED
    BY <2>1, <2>2 DEF FiberOK, Begun, Dead
<1>5. \A t \in Callers, u \in Threads : on[u] = Root[t] => u = t
  BY <1>2, FiberAssumption DEF Threads
<1> QED
  BY <1>1, <1>2, <1>3, <1>4, <1>5 DEF IInv, Init

\* Scheduler::run resumes a fiber from the main fiber of its thread, which
\* the fiber is not, and which no thread can resume meanwhile.
LEMMA SwapInIInv ==
  ASSUME AsScheduled, IInv, NEW t \in Threads, NEW f \in Fibers, swapIn(t, f)
  PROVE  IInv'
<1>1. /\ on[t] = main[t] /\ cur[t] # None /\ cur[t] = on[t] /\ on[t] # f /\ f \notin Collers
      /\ t \in Pool => on[t] = t
      /\ t \notin Pool => t \in Callers /\ on[t] = Root[t]
  <2>1. on[t] = main[t] /\ cur[t] # None /\ f # main[t] /\ f \notin Collers
    BY DEF swapIn, AsScheduled
  <2>2. ThreadOK(t) /\ on[t] \in Stacks
    BY DEF IInv, TypeOK
  <2> QED
    BY <2>1, <2>2, FiberAssumption DEF ThreadOK
<1>2. RunBy(f) = {} /\ owned[f] /\ state[f] \notin Dead
  BY DEF swapIn, MayResume
<1>3. /\ state' = [state EXCEPT ![f] = "EXEC"] /\ ended' = ended
      /\ main' = main /\ owned' = owned /\ freed' = freed
  BY DEF swapIn
<1>4. ctx[f] = f \/ ctx[f] = Entry(f)
  BY <1>2 DEF IInv, FiberOK, TypeOK, Begun, Dead, Stacks
<1>5. /\ on' = [on EXCEPT ![t] = f] /\ cur' = [cur EXCEPT ![t] = f]
      /\ ctx' = [x \in Stacks |-> IF x = f THEN "stale" ELSE IF x = on[t] THEN x ELSE ctx[x]]
      /\ fun' = fun /\ wrong' = {}
      /\ self' = IF ctx[f] = f THEN self ELSE [self EXCEPT ![f] = TRUE]
  <2>1. Switch(t, on[t], f, self)
    BY <1>1, FiberAssumption DEF swapIn, MainFiber, IInv, TypeOK
  <2>2. ~ended'[f]
    BY <1>2, <1>3 DEF IInv, FiberOK
  <2>3. f \in Stacks /\ self \in [Fibers -> BOOLEAN]
    BY DEF Stacks, IInv, TypeOK
  <2> QED
    BY <1>1, <1>4, <2>1, <2>2, <2>3, SwitchFacts
<1>6. self' = [self EXCEPT ![f] = TRUE]
  <2>1. ctx[f] = f => self[f]
    BY <1>2, FiberAssumption DEF IInv, FiberOK, TypeOK, Begun, Dead, Stacks, Entry, Functions
  <2> QED
    BY <1>5, <2>1 DEF IInv, TypeOK
<1>7. TypeOK'
  BY <1>3, <1>5, <1>6 DEF IInv, TypeOK, Stacks
<1>8. Moves(t, f, f)
  BY <1>1, <1>2, <1>3, <1>5, <1>6, FiberAssumption DEF Moves, IInv, TypeOK, Stacks
<1>9. (ThreadOK(t) /\ ctx[t] \in {t, "stale"})'
  <2>1. ThreadOK(t) /\ ctx[t] \in {t, "stale"} /\ f \notin Threads /\ f \in Stacks /\ f # None
    BY FiberAssumption DEF IInv, Stacks
  <2>2. t \notin freed /\ on'[t] = f /\ cur'[t] = f /\ ctx'[t] = t /\ state'[t] = state[t] /\ ctx'[f] = "stale"
    BY <1>1, <1>3, <1>5, <2>1 DEF ThreadOK, Alive, swapIn, IInv, TypeOK, Stacks
  <2>3. ASSUME t \in Callers
        PROVE  ctx'[Root[t]] = Root[t] /\ state'[Root[t]] = "EXEC" /\ owned'[Root[t]]
    <3>1. Root[t] \in Fibers /\ Root[t] # f /\ on[t] = Root[t] /\ Root[t] \in Stacks
      BY <1>1, <2>3, FiberAssumption DEF Stacks
    <3>2. RunBy(Root[t]) # {} /\ FiberOK(Root[t])
      BY <3>1 DEF RunBy, IInv
    <3> QED
      BY <1>3, <1>5, <3>1, <3>2 DEF FiberOK, IInv, TypeOK
  <2> QED
    BY <1>1, <1>3, <2>1, <2>2, <2>3, FiberAssumption DEF ThreadOK
<1>10. FiberOK(f)'
  <2>1. FiberOK(f) /\ f \in Stacks
    BY DEF IInv, Stacks
  <2> QED
    BY <1>1, <1>2, <1>3, <1>5, <1>6, <2>1 DEF FiberOK, IInv, TypeOK, Begun, Dead, RunBy
<1>11. ASSUME NEW g \in Fibers, g = on[t] PROVE FiberOK(g)'
  <2>1. FiberOK(g) /\ g \in Stacks /\ g # f
    BY <1>1, <1>11 DEF IInv, Stacks
  <2>2. RunBy(g) # {} /\ t \in Callers /\ g = Root[t] /\ on'[t] # t /\ g \in Collers
    BY <1>1, <1>5, <1>11, FiberAssumption DEF RunBy, IInv, TypeOK, Threads
  <2>3. ctx'[g] = g /\ state'[g] = state[g] /\ self'[g] = self[g] /\ RunBy(g)' = {}
    BY <1>3, <1>5, <1>6, <1>11, <2>1 DEF IInv, TypeOK, RunBy
  <2> QED
    BY <1>3, <1>5, <1>11, <2>1, <2>2, <2>3 DEF FiberOK, Entry, Begun, Dead
<1> QED
  BY <1>5, <1>7, <1>8, <1>9, <1>10, <1>11, OthersKept DEF IInv, Stacks

\* call() enters a fiber that has not begun: a root fiber that has is below
\* the stack its own thread is on.
LEMMA CallIInv ==
  ASSUME AsScheduled, IInv, NEW t \in Threads, NEW f \in Fibers, call(t, f)
  PROVE  IInv'
<1>1. /\ on[t] = t /\ cur[t] # None /\ f \in Collers /\ RunBy(f) = {} /\ owned[f]
      /\ t \in Callers => f = Root[t]
      /\ \A v \in Callers : f = Root[v] => v = t
  BY FiberAssumption DEF call, MayResume
<1>2. state[f] = "INIT" /\ ctx[f] = Entry(f)
  <2>1. FiberOK(f) /\ state[f] \notin Dead
    BY DEF IInv, call, MayResume
  <2>2. state[f] # "EXEC"
    BY <1>1, <2>1 DEF FiberOK, RunBy
  <2> QED
    BY <1>1, <2>1, <2>2 DEF FiberOK, Dead
<1>3. /\ state' = [state EXCEPT ![f] = "EXEC"] /\ ended' = ended
      /\ main' = main /\ owned' = owned /\ freed' = freed
  BY DEF call
<1>4. f # t /\ f \in Stacks /\ f # None /\ t \in Stacks /\ ctx[f] # f
  BY <1>2, FiberAssumption DEF Stacks, Entry, Functions
<1>5. /\ on' = [on EXCEPT ![t] = f] /\ cur' = [cur EXCEPT ![t] = f]
      /\ ctx' = [x \in Stacks |-> IF x = f THEN "stale" ELSE IF x = on[t] THEN x ELSE ctx[x]]
      /\ fun' = fun /\ wrong' = {} /\ self' = [self EXCEPT ![f] = TRUE]
  <2>1. Switch(t, on[t], f, self)
    BY <1>1 DEF call
  <2>2. ~ended'[f]
    BY <1>2, <1>3 DEF IInv, FiberOK, Dead
  <2>3. self \in [Fibers -> BOOLEAN]
    BY DEF IInv, TypeOK
  <2> QED
    BY <1>1, <1>2, <1>4, <2>1, <2>2, <2>3, SwitchFacts
<1>6. TypeOK'
  BY <1>3, <1>4, <1>5 DEF IInv, TypeOK, Stacks
<1>7. Moves(t, f, f)
  BY <1>1, <1>3, <1>4, <1>5, FiberAssumption DEF Moves, IInv, TypeOK
<1>8. (ThreadOK(t) /\ ctx[t] \in {t, "stale"})'
  <2>1. ThreadOK(t) /\ t \notin freed
    BY DEF IInv, call, Alive
  <2>2. on'[t] = f /\ cur'[t] = f /\ ctx'[t] = t /\ state'[t] = state[t] /\ ctx'[f] = "stale"
    BY <1>1, <1>3, <1>4, <1>5 DEF IInv, TypeOK
  <2> QED
    BY <1>1, <1>3, <1>4, <2>1, <2>2, FiberAssumption DEF ThreadOK
<1>9. FiberOK(f)'
  <2>1. FiberOK(f)
    BY DEF IInv
  <2>2. on'[t] = f /\ ctx'[f] = "stale" /\ state'[f] = "EXEC" /\ self'[f] = TRUE
    BY <1>3, <1>4, <1>5 DEF IInv, TypeOK
  <2> QED
    BY <1>1, <1>2, <1>3, <1>5, <2>1, <2>2 DEF FiberOK, Begun, Dead, RunBy, Entry
<1> QED
  BY <1>1, <1>4, <1>5, <1>6, <1>7, <1>8, <1>9, OthersKept, FiberAssumption DEF IInv

\* What a fiber that yields or ends goes back to: its thread's main fiber, a
\* thread's own or a root fiber, is where it was left.
LEMMA MainIsLeft ==
  ASSUME IInv, NEW t \in Threads, on[t] \in Fibers \ Collers
  PROVE  /\ main[t] \in Stacks /\ main[t] # None /\ main[t] # on[t]
         /\ ctx[main[t]] = main[t] /\ state[main[t]] = "EXEC"
         /\ main[t] \in Threads => main[t] = t /\ t \notin Callers
         /\ main[t] \in Fibers => RunBy(main[t]) = {}
         /\ \A v \in Callers : main[t] = Root[v] => v = t
         /\ \/ t \in Pool /\ main[t] = t
            \/ /\ t \in Callers /\ main[t] = Root[t] /\ Root[t] \in Collers
               /\ RunBy(Root[t]) = {} /\ owned[Root[t]] /\ ~ended[Root[t]]
<1>1. ThreadOK(t) /\ on[t] # t /\ cur[t] # None
  BY FiberAssumption DEF IInv, ThreadOK
<1>2. CASE t \in Pool
  BY <1>1, <1>2, FiberAssumption DEF ThreadOK, Stacks
<1>3. CASE t \in Callers
  <2>1. Root[t] \in Collers /\ Root[t] \in Fibers /\ Root[t] \in Stacks /\ Root[t] # None
    BY <1>3, FiberAssumption DEF Stacks
  <2>2. main[t] = Root[t] /\ on[t] \notin {t, Root[t]}
    BY <1>1, <1>3, <2>1, FiberAssumption DEF ThreadOK
  <2>3. ctx[Root[t]] = Root[t] /\ state[Root[t]] = "EXEC" /\ owned[Root[t]]
    BY <1>1, <1>3, <2>2 DEF ThreadOK
  <2>4. RunBy(Root[t]) = {}
    BY <1>3, <2>2 DEF IInv, RunBy
  <2>5. ~ended[Root[t]]
    BY <2>1, <2>3 DEF IInv, FiberOK, Dead
  <2> QED
    BY <1>3, <2>1, <2>2, <2>3, <2>4, <2>5, FiberAssumption
<1> QED
  BY <1>1, <1>2, <1>3 DEF ThreadOK

\* After a switch back to it, the thread and its main fiber are as they were
\* before the fiber was resumed.
LEMMA BackAtMain ==
  ASSUME IInv, NEW t \in Threads, on[t] \in Fibers \ Collers, Moves(t, main[t], on[t])
  PROVE  /\ (ThreadOK(t) /\ ctx[t] \in {t, "stale"})'
         /\ \A g \in Fibers : g = main[t] => FiberOK(g)'
<1>1. ThreadOK(t) /\ on[t] # t /\ cur[t] # None /\ t \in Stacks /\ on[t] \in Stacks
  BY FiberAssumption DEF IInv, ThreadOK, Stacks, TypeOK
<1>2. /\ on'[t] = main[t] /\ cur'[t] = main[t] /\ ctx'[main[t]] = "stale"
      /\ ctx'[t] \in {t, "stale"} /\ (main[t] # t => ctx'[t] = t)
      /\ state'[t] = state[t] /\ state'[main[t]] = state[main[t]]
      /\ fun' = fun /\ main' = main /\ freed' = freed /\ owned' = owned
  BY <1>1, MainIsLeft DEF Moves, IInv, TypeOK, ThreadOK
<1>3. (ThreadOK(t) /\ ctx[t] \in {t, "stale"})'
  BY <1>1, <1>2, MainIsLeft, FiberAssumption DEF ThreadOK
<1>4. ASSUME NEW g \in Fibers, g = main[t] PROVE FiberOK(g)'
  <2>1. FiberOK(g) /\ g \in Collers /\ state[g] = "EXEC" /\ owned[g]
    BY <1>4, MainIsLeft, FiberAssumption DEF IInv
  <2>2. self'[g] = self[g] /\ ended'[g] = ended[g] /\ RunBy(g)' # {} /\ on'[t] = g
    BY <1>2, <1>4 DEF Moves, RunBy
  <2> QED
    BY <1>2, <1>4, <2>1, <2>2 DEF FiberOK, Entry, Begun, Dead
<1> QED
  BY <1>3, <1>4

\* A yield: the fiber is in EXEC, since its thread runs it.
LEMMA YieldIInv ==
  ASSUME AsScheduled, IInv, NEW t \in Threads, NEW newState \in {"READY", "EXEC"},
         Yield(t, newState)
  PROVE  IInv'
<1> DEFINE f == on[t]
<1>1. f \in Fibers \ Collers /\ cur[t] = f /\ f \in Stacks
  BY DEF Yield, AsScheduled, IInv, ThreadOK, Stacks
<1>2. FiberOK(f) /\ state[f] = "EXEC" /\ owned[f]
  BY <1>1 DEF IInv, FiberOK, RunBy
<1>3. /\ state' = [state EXCEPT ![f] = newState] /\ ended' = ended
      /\ main' = main /\ owned' = owned /\ freed' = freed
      /\ Switch(t, f, main[t], self)
  BY <1>1, <1>2, MainIsLeft DEF Yield
<1>4. /\ on' = [on EXCEPT ![t] = main[t]] /\ cur' = [cur EXCEPT ![t] = main[t]]
      /\ ctx' = [x \in Stacks |-> IF x = main[t] THEN "stale" ELSE IF x = f THEN x ELSE ctx[x]]
      /\ fun' = fun /\ wrong' = {} /\ self' = self
  <2>1. main[t] \in Fibers => ~ended'[main[t]]
    BY <1>1, <1>3, MainIsLeft, FiberAssumption
  <2>2. self \in [Fibers -> BOOLEAN]
    BY DEF IInv, TypeOK
  <2> QED
    BY <1>1, <1>3, <2>1, <2>2, MainIsLeft, SwitchFacts
<1>5. TypeOK'
  BY <1>1, <1>3, <1>4, MainIsLeft DEF IInv, TypeOK
<1>6. Moves(t, main[t], f)
  BY <1>1, <1>3, <1>4, MainIsLeft, FiberAssumption DEF Moves, IInv, TypeOK
<1>7. ASSUME NEW g \in Fibers, g = f PROVE FiberOK(g)'
  <2>1. ctx'[g] = g /\ state'[g] = newState /\ RunBy(g)' = {}
    BY <1>1, <1>3, <1>4, <1>7, MainIsLeft DEF IInv, TypeOK, RunBy
  <2> QED
    BY <1>1, <1>2, <1>3, <1>4, <1>7, <2>1 DEF FiberOK, Entry, Begun, Dead
<1> QED
  BY <1>1, <1>4, <1>5, <1>6, <1>7, MainIsLeft, BackAtMain, OthersKept, SMTT(30) DEF IInv

\* The end of a fiber: MainFunc goes back to the main fiber, BackExternFunc to
\* the thread's own.
LEMMA EndIInv ==
  ASSUME AsScheduled, IInv, NEW t \in Threads, NEW newState \in Dead, End(t, newState)
  PROVE  IInv'
<1> DEFINE f == on[t]
           to == IF f \in Collers THEN t ELSE main[t]
<1>1. f \in Fibers /\ f \in Stacks /\ t \in Stacks /\ f # t /\ ThreadOK(t) /\ cur[t] = f /\ cur[t] # None
  BY FiberAssumption DEF End, IInv, ThreadOK, Stacks
<1>2. FiberOK(f) /\ state[f] = "EXEC" /\ owned[f] /\ f \notin freed
  BY <1>1 DEF IInv, FiberOK, RunBy
<1>3. /\ state' = [state EXCEPT ![f] = newState] /\ ended' = [ended EXCEPT ![f] = TRUE]
      /\ main' = main /\ owned' = owned /\ freed' = freed
      /\ Switch(t, f, to, Dropped(f))
  BY <1>1, <1>2, MainIsLeft DEF End, FiberOK, Entry
<1>4. to \in Stacks /\ to # f /\ ctx[to] = to /\ (to \in Fibers => ~ended'[to])
  <2>1. CASE f \in Collers
    BY <1>1, <2>1, FiberAssumption DEF ThreadOK
  <2>2. CASE f \notin Collers
    BY <1>1, <1>3, <2>2, MainIsLeft, FiberAssumption DEF IInv, TypeOK
  <2> QED
    BY <2>1, <2>2
<1>5. /\ on' = [on EXCEPT ![t] = to] /\ cur' = [cur EXCEPT ![t] = to]
      /\ ctx' = [x \in Stacks |-> IF x = to THEN "stale" ELSE IF x = f THEN x ELSE ctx[x]]
      /\ fun' = fun /\ wrong' = {} /\ self' = [self EXCEPT ![f] = FALSE]
  <2>1. PICK own \in [Fibers -> BOOLEAN] : /\ own = [self EXCEPT ![f] = FALSE]
                                           /\ Switch(t, on[t], to, own)
    BY <1>3 DEF IInv, TypeOK, Dropped
  <2>2. PICK x \in Stacks : x = to /\ x # on[t] /\ ctx[x] = x /\ (x \in Fibers => ~ended'[x])
    BY <1>4
  <2>3. Switch(t, on[t], x, own)
    BY <2>1, <2>2
  <2>4. /\ on' = [on EXCEPT ![t] = x] /\ cur' = [cur EXCEPT ![t] = x]
        /\ ctx' = [y \in Stacks |-> IF y = x THEN "stale" ELSE IF y = on[t] THEN y ELSE ctx[y]]
        /\ fun' = fun /\ wrong' = {} /\ self' = own
    BY <2>2, <2>3, SwitchFacts
  <2> QED
    BY <2>1, <2>2, <2>4
<1>6. TypeOK'
  BY <1>1, <1>3, <1>4, <1>5 DEF IInv, TypeOK, Dead
<1>7. Moves(t, to, f)
  <2>1. CASE f \in Collers
    BY <1>1, <1>3, <1>4, <1>5, <2>1, FiberAssumption DEF Moves, IInv, TypeOK, ThreadOK
  <2>2. CASE f \notin Collers
    BY <1>1, <1>3, <1>4, <1>5, <2>2, MainIsLeft, FiberAssumption DEF Moves, IInv, TypeOK
  <2> QED
    BY <2>1, <2>2
<1>8. ASSUME NEW g \in Fibers, g = f PROVE FiberOK(g)'
  <2>1. ctx'[g] = g /\ state'[g] = newState /\ RunBy(g)' = {} /\ self'[g] = FALSE /\ ended'[g] = TRUE
    BY <1>1, <1>3, <1>4, <1>5, <1>8 DEF IInv, TypeOK, RunBy
  <2> QED
    BY <1>1, <1>2, <1>3, <1>5, <1>8, <2>1 DEF FiberOK, Entry, Begun, Dead
<1>9. CASE f \notin Collers
  <2>1. to = main[t]
    BY <1>9
  <2> QED
    BY <1>1, <1>5, <1>6, <1>7, <1>8, <1>9, <2>1, MainIsLeft, BackAtMain, OthersKept, SMTT(60) DEF IInv
<1>10. CASE f \in Collers
  <2>1. to = t /\ t \notin Fibers
    BY <1>10, FiberAssumption
  <2>2. on'[t] = t /\ cur'[t] = t /\ ctx'[t] = "stale" /\ state'[t] = state[t]
    BY <1>1, <1>3, <1>5, <2>1 DEF IInv, TypeOK
  <2>3. (ThreadOK(t) /\ ctx[t] \in {t, "stale"})'
    BY <1>1, <1>3, <2>1, <2>2, FiberAssumption DEF ThreadOK
  <2> QED
    BY <1>1, <1>4, <1>5, <1>6, <1>7, <1>8, <2>1, <2>3, OthersKept, SMTT(30) DEF IInv
<1> QED
  BY <1>9, <1>10

\* A thread makes its own fiber and takes its main fiber.
LEMMA BeginIInv == ASSUME IInv, NEW t \in Threads, Begin(t) PROVE IInv'
<1>1. /\ cur' = [cur EXCEPT ![t] = t] /\ state' = [state EXCEPT ![t] = "EXEC"]
      /\ main' = [main EXCEPT ![t] =
                     IF t \in Pool THEN t ELSE IF t \in Callers THEN Root[t] ELSE None]
      /\ UNCHANGED <<on, ctx, fun, ended, owned, self, freed, wrong>>
  BY DEF Begin
<1>2. t \in Stacks /\ t # None /\ on[t] = t
  BY FiberAssumption DEF Stacks, Begin, IInv, ThreadOK
<1>3. TypeOK'
  BY <1>1, <1>2, FiberAssumption DEF IInv, TypeOK, Stacks
<1>4. \A f \in Fibers : f \in Stacks /\ state'[f] = state[f]
  BY <1>1, FiberAssumption DEF IInv, TypeOK, Stacks
<1>5. ASSUME NEW u \in Threads PROVE (ThreadOK(u) /\ ctx[u] \in {u, "stale"})'
  <2>1. ThreadOK(u) /\ ctx[u] \in {u, "stale"}
    BY DEF IInv
  <2>2. u \in Callers => state'[Root[u]] = state[Root[u]]
    BY <1>4, FiberAssumption
  <2>3. CASE u = t
    BY <1>1, <1>2, <2>1, <2>2, <2>3, FiberAssumption DEF ThreadOK, IInv, TypeOK
  <2>4. CASE u # t
    <3>1. cur'[u] = cur[u] /\ main'[u] = main[u] /\ state'[u] = state[u]
      BY <1>1, <2>4 DEF IInv, TypeOK, Stacks
    <3> QED
      BY <1>1, <2>1, <2>2, <3>1 DEF ThreadOK
  <2> QED
    BY <2>3, <2>4
<1>6. ASSUME NEW f \in Fibers PROVE FiberOK(f)'
  BY <1>1, <1>4 DEF IInv, FiberOK, RunBy
<1> QED
  BY <1>1, <1>3, <1>5, <1>6 DEF IInv

\* A thread ends on its own stack: its fiber is in EXEC.
LEMMA ExitIInv == ASSUME IInv, NEW t \in Threads, Exit(t) PROVE IInv'
<1>1. state[t] = "EXEC" /\ on[t] = t /\ t \in Stacks /\ t \notin Fibers
  BY FiberAssumption DEF Exit, IInv, ThreadOK, Stacks
<1>2. /\ freed' = freed \cup {t} /\ wrong' = wrong
      /\ UNCHANGED <<on, cur, main, state, ctx, fun, ended, owned, self>>
  BY <1>1 DEF Exit, Wrong
<1>3. TypeOK'
  BY <1>1, <1>2 DEF IInv, TypeOK
<1>4. ASSUME NEW u \in Threads PROVE (ThreadOK(u) /\ ctx[u] \in {u, "stale"})'
  BY <1>1, <1>2 DEF IInv, ThreadOK
<1>5. ASSUME NEW f \in Fibers PROVE FiberOK(f)'
  <2>1. f \in freed' <=> f \in freed
    BY <1>1, <1>2
  <2> QED
    BY <1>2, <2>1 DEF IInv, FiberOK, RunBy
<1> QED
  BY <1>2, <1>3, <1>4, <1>5 DEF IInv

\* run() and reset() change a fiber that no thread is on and that is no root
\* fiber: the threads find what they left.
LEMMA ThreadsUntouched ==
  ASSUME IInv, NEW f \in Fibers \ Collers, RunBy(f) = {},
         \A x \in Stacks : x # f => state'[x] = state[x] /\ ctx'[x] = ctx[x],
         UNCHANGED <<on, cur, main, freed, owned>>
  PROVE  \A u \in Threads : (ThreadOK(u) /\ ctx[u] \in {u, "stale"})'
<1> SUFFICES ASSUME NEW u \in Threads PROVE (ThreadOK(u) /\ ctx[u] \in {u, "stale"})'
  OBVIOUS
<1>1. ThreadOK(u) /\ ctx[u] \in {u, "stale"} /\ u # f /\ u \in Stacks
  BY FiberAssumption DEF IInv, Stacks
<1>2. on[u] # f /\ on[u] \in Stacks
  BY DEF RunBy, IInv, TypeOK
<1>3. u \in Callers => Root[u] # f /\ Root[u] \in Stacks
  BY FiberAssumption DEF Stacks
<1> QED
  BY <1>1, <1>2, <1>3 DEF ThreadOK

LEMMA HoldIInv == ASSUME IInv, NEW f \in Fibers, Hold(f) PROVE IInv'
<1>1. f \in Fibers \ Collers /\ RunBy(f) = {} /\ state[f] = "EXEC" /\ f \in Stacks
  BY DEF Hold, Stacks
<1>2. /\ state' = [state EXCEPT ![f] = "HOLD"]
      /\ UNCHANGED <<on, cur, main, ctx, fun, ended, owned, self, freed, wrong>>
  BY DEF Hold
<1>3. TypeOK'
  BY <1>2 DEF IInv, TypeOK
<1>4. \A u \in Threads : (ThreadOK(u) /\ ctx[u] \in {u, "stale"})'
  BY <1>1, <1>2, ThreadsUntouched DEF IInv, TypeOK
<1>5. ASSUME NEW g \in Fibers PROVE FiberOK(g)'
  <2>1. FiberOK(g) /\ RunBy(g)' = RunBy(g) /\ g \in Stacks
    BY <1>2 DEF IInv, RunBy, Stacks
  <2>2. state'[g] = IF g = f THEN "HOLD" ELSE state[g]
    BY <1>2, <2>1 DEF IInv, TypeOK
  <2> QED
    BY <1>1, <1>2, <2>1, <2>2 DEF FiberOK, Entry, Begun, Dead
<1> QED
  BY <1>2, <1>3, <1>4, <1>5 DEF IInv

LEMMA ResetIInv == ASSUME AsScheduled, IInv, NEW f \in Fibers, reset(f) PROVE IInv'
<1>1. /\ f \in Fibers \ Collers /\ RunBy(f) = {} /\ state[f] \in {"INIT", "TERM"}
      /\ owned[f] /\ f \in Stacks /\ Entry(f) = "MainFunc"
  BY DEF reset, ResetAccepts, AsScheduled, Stacks, Entry
<1>2. /\ ctx' = [ctx EXCEPT ![f] = "MainFunc"] /\ state' = [state EXCEPT ![f] = "INIT"]
      /\ ended' = [ended EXCEPT ![f] = FALSE]
      /\ UNCHANGED <<on, cur, main, fun, owned, self, freed, wrong>>
  BY DEF reset
<1>3. TypeOK'
  <2>1. /\ ctx' \in [Stacks -> Stacks \cup Functions \cup {"stale"}]
        /\ state' \in [Stacks -> {"INIT", "READY", "HOLD", "EXEC", "TERM", "EXCET"}]
    BY <1>1, <1>2 DEF IInv, TypeOK, Functions
  <2>2. {ended', owned', self'} \subseteq [Fibers -> BOOLEAN]
    BY <1>2 DEF IInv, TypeOK
  <2> QED
    BY <1>2, <2>1, <2>2 DEF IInv, TypeOK
<1>4. \A u \in Threads : (ThreadOK(u) /\ ctx[u] \in {u, "stale"})'
  BY <1>1, <1>2, ThreadsUntouched DEF IInv, TypeOK
<1>5. ASSUME NEW g \in Fibers PROVE FiberOK(g)'
  <2>1. FiberOK(g) /\ RunBy(g)' = RunBy(g) /\ g \in Stacks
    BY <1>2 DEF IInv, RunBy, Stacks
  <2>2. CASE g = f
    <3>1. ctx'[g] = "MainFunc" /\ state'[g] = "INIT" /\ ended'[g] = FALSE
      BY <1>2, <2>1, <2>2 DEF IInv, TypeOK
    <3> QED
      BY <1>1, <1>2, <2>1, <2>2, <3>1 DEF FiberOK, Entry, Begun, Dead
  <2>3. CASE g # f
    <3>1. ctx'[g] = ctx[g] /\ state'[g] = state[g] /\ ended'[g] = ended[g]
      BY <1>2, <2>1, <2>3 DEF IInv, TypeOK
    <3> QED
      BY <1>2, <2>1, <3>1 DEF FiberOK
  <2> QED
    BY <2>2, <2>3
<1> QED
  BY <1>2, <1>3, <1>4, <1>5 DEF IInv

\* The last pointer from outside: a caller's root fiber stays until its thread
\* has ended, so that no thread comes back to a fiber that is gone.
LEMMA ReleaseIInv == ASSUME IInv, NEW f \in Fibers, Release(f) PROVE IInv'
<1>1. /\ owned[f] /\ RunBy(f) = {} /\ f \in Stacks
      /\ \A t \in Callers : f = Root[t] => t \in freed
      /\ owned' = [owned EXCEPT ![f] = FALSE]
      /\ freed' = IF self[f] THEN freed ELSE freed \cup {f}
      /\ UNCHANGED <<on, cur, main, state, ctx, fun, ended, self, wrong>>
  BY DEF Release, Stacks
<1>2. TypeOK'
  BY <1>1 DEF IInv, TypeOK
<1>3. \A x \in Stacks : x # f => (x \in freed' <=> x \in freed)
  BY <1>1
<1>4. ASSUME NEW u \in Threads PROVE (ThreadOK(u) /\ ctx[u] \in {u, "stale"})'
  <2>1. ThreadOK(u) /\ ctx[u] \in {u, "stale"} /\ u # f /\ u \in Stacks
    BY FiberAssumption DEF IInv, Stacks
  <2>2. ASSUME u \in Callers, on[u] # u
        PROVE  Root[u] # f /\ owned'[Root[u]] = owned[Root[u]]
    <3>1. Root[u] # f /\ Root[u] \in Fibers
      BY <1>1, <2>1, <2>2, FiberAssumption DEF ThreadOK
    <3> QED
      BY <1>1, <3>1 DEF IInv, TypeOK
  <2> QED
    BY <1>1, <1>3, <2>1, <2>2 DEF ThreadOK
<1>5. ASSUME NEW g \in Fibers PROVE FiberOK(g)'
  <2>1. FiberOK(g) /\ RunBy(g)' = RunBy(g) /\ g \in Stacks
    BY <1>1 DEF IInv, RunBy, Stacks
  <2>2. owned'[g] = IF g = f THEN FALSE ELSE owned[g]
    BY <1>1 DEF IInv, TypeOK
  <2> QED
    BY <1>1, <1>3, <2>1, <2>2 DEF FiberOK
<1> QED
  BY <1>1, <1>2, <1>4, <1>5 DEF IInv

-----------------------------------------------------------------------------
(* The theorems.                                                           *)

\* The inductive invariant: what each thread left to run the fiber it runs,
\* and for each fiber what its state says of its context and its pointers.
THEOREM FiberInvariance == ASSUME AsScheduled PROVE Spec => []IInv
<1>1. IInv /\ [Next]_vars => IInv'
  <2> SUFFICES ASSUME IInv, [Next]_vars PROVE IInv'
    OBVIOUS
  <2>1. ASSUME NEW t \in Threads, Begin(t) \/ Exit(t) PROVE IInv'
    BY <2>1, BeginIInv, ExitIInv
  <2>2. ASSUME NEW t \in Threads, YieldToReady(t) \/ YieldToHold(t) PROVE IInv'
    BY <2>2, YieldIInv DEF YieldToReady, YieldToHold
  <2>3. ASSUME NEW t \in Threads, NEW newState \in Dead, End(t, newState) PROVE IInv'
    BY <2>3, EndIInv
  <2>4. ASSUME NEW t \in Threads, NEW f \in Fibers, swapIn(t, f) \/ call(t, f) PROVE IInv'
    BY <2>4, SwapInIInv, CallIInv
  <2>5. ASSUME NEW f \in Fibers, Hold(f) \/ reset(f) \/ Release(f) PROVE IInv'
    BY <2>5, HoldIInv, ResetIInv, ReleaseIInv
  <2>6. CASE UNCHANGED vars
    BY <2>6 DEF vars, IInv, TypeOK, ThreadOK, FiberOK, RunBy
  <2> QED
    BY <2>1, <2>2, <2>3, <2>4, <2>5, <2>6 DEF Next
<1> QED
  BY <1>1, InitIInv, PTL DEF Spec

\* fiber.cpp:141 and 148, 183 and 208: the assertions hold where fibers are used
\* as the scheduler does, and swapcontext always finds a valid context.
THEOREM SwitchesAreRight == ASSUME AsScheduled PROVE Spec => []FiberInv
<1>1. IInv => FiberInv
  BY DEF IInv, FiberInv, SwitchesRightly, NeverComeToHere
<1> QED
  BY <1>1, FiberInvariance, PTL

\* Current_Fiber is the fiber on whose stack its thread runs, no two threads
\* run on one stack, and a running stack has no context to be entered by.
THEOREM OwnStackOnly == ASSUME AsScheduled PROVE Spec => []RunsItsOwnStack
<1>1. IInv => RunsItsOwnStack
  <2> SUFFICES ASSUME IInv PROVE RunsItsOwnStack
    OBVIOUS
  <2>1. ASSUME NEW t \in Threads, NEW x \in Stacks PROVE ctx[x] # on[t]
    <3>1. on[t] \in Stacks /\ ctx[on[t]] = "stale"
      BY DEF IInv, TypeOK, ThreadOK
    <3>2. x \in Threads => ctx[x] \in {x, "stale"}
      BY DEF IInv
    <3>3. x \in Fibers => ctx[x] \in {Entry(x), x, "stale"}
      BY DEF IInv, FiberOK
    <3> QED
      BY <3>1, <3>2, <3>3, FiberAssumption DEF Stacks, Entry, Functions
  <2> QED
    BY <2>1 DEF RunsItsOwnStack, IInv, ThreadOK
<1> QED
  BY <1>1, FiberInvariance, PTL

\* fiber.cpp:75: ~Fiber finds a fiber that has not begun or has ended, and one
\* that has ended goes with the last pointer to it.
THEOREM DestroyedInTime == ASSUME AsScheduled PROVE Spec => []FreedInTime
<1>1. IInv => FreedInTime
  BY DEF IInv, TypeOK, FiberOK, FreedInTime, Begun, Dead, Stacks
<1> QED
  BY <1>1, FiberInvariance, PTL
=============================================================================
