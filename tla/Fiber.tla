------------------------------- MODULE Fiber --------------------------------
(***************************************************************************)
(* sylar::Fiber (sylar/fiber.cpp, fiber.h): stacks, the contexts that are  *)
(* saved of them, and the thread-local pointers by which a fiber finds     *)
(* back to the thread that resumed it.                                     *)
(*                                                                         *)
(* swapcontext saves the running stack in one fiber's contex_ and goes on  *)
(* with what another's holds; a saved context is good once, until its      *)
(* stack runs again.  Which thread resumes a fiber, and that it has left   *)
(* its stack by then, is the scheduler's task (module Scheduler): here a   *)
(* fiber is resumed only when no thread runs it, and released only then.   *)
(* Each function of Fiber is one step.  An assertion that fails and an     *)
(* access that is invalid are recorded in wrong.                           *)
(***************************************************************************)
EXTENDS Naturals

CONSTANTS
  Pool,        \* the threads that run Scheduler::run
  Callers,     \* the threads that made a Scheduler with use_caller
  Plain,       \* the threads without a scheduler
  Fibers,      \* the fibers with a stack of their own
  Collers,     \* those made with use_coller, to be entered by call()
  Root,        \* root_Fiber_ of each caller's scheduler
  Resettable,  \* the fibers reset() is called on
  SwapPlain,   \* whether Plain threads call swapIn
  MainYields,  \* whether a thread yields outside of any fiber
  None         \* nullptr

Threads == Pool \cup Callers \cup Plain
Stacks == Threads \cup Fibers
Functions == {"MainFunc", "BackExternFunc"}

\* Each scheduler with use_caller makes a root fiber of its own.
ASSUME FiberAssumption ==
  /\ Pool \cap Callers = {} /\ Pool \cap Plain = {} /\ Callers \cap Plain = {}
  /\ Threads \cap Fibers = {} /\ None \notin Stacks
  /\ Stacks \cap (Functions \cup {"stale"}) = {}
  /\ Collers \subseteq Fibers /\ Resettable \subseteq Fibers
  /\ Root \in [Callers -> Collers]
  /\ \A t, u \in Callers : Root[t] = Root[u] => t = u
  /\ {SwapPlain, MainYields} \subseteq BOOLEAN

VARIABLES
  on,      \* the stack each thread runs on, its own or a fiber's
  cur,     \* Current_Fiber; a thread's own fiber, t_threadFiber, is the thread
  main,    \* Scheduler::GetMainFiber() of each thread
  state,   \* state_
  ctx,     \* contex_: a stack, one of the two functions, or nothing valid
  fun,     \* the function at the bottom of each fiber's stack
  ended,   \* whether it is in its last swapOut or back
  owned,   \* whether somebody else has a Fiber::ptr
  self,    \* whether the fiber's own stack has one
  freed,   \* the fibers and threads that were destroyed
  wrong

vars == <<on, cur, main, state, ctx, fun, ended, owned, self, freed, wrong>>

Dead == {"TERM", "EXCET"}

TypeOK ==
  /\ on \in [Threads -> Stacks]
  /\ cur \in [Threads -> Stacks \cup {None}]
  /\ main \in [Threads -> Stacks \cup {None}]
  /\ state \in [Stacks -> {"INIT", "READY", "HOLD", "EXEC", "TERM", "EXCET"}]
  /\ ctx \in [Stacks -> Stacks \cup Functions \cup {"stale"}]
  /\ fun \in [Fibers -> Functions]
  /\ {ended, owned, self} \subseteq [Fibers -> BOOLEAN]
  /\ freed \subseteq Stacks
  /\ wrong \subseteq {"context", "null", "here", "yield", "main"}

\* Fiber::Fiber(cb, stack_size, use_coller).  Mutant: use_coller is
\* not looked at.
MainEntry(f) == "MainFunc"
Entry(f) == IF f \in Collers THEN "BackExternFunc" ELSE "MainFunc"

Init ==
  /\ on = [t \in Threads |-> t]
  /\ cur = [t \in Threads |-> None]
  /\ main = [t \in Threads |-> None]
  /\ state = [x \in Stacks |-> "INIT"]
  /\ ctx = [x \in Stacks |-> IF x \in Fibers THEN Entry(x) ELSE "stale"]
  /\ fun = [f \in Fibers |-> Entry(f)]
  /\ ended = [f \in Fibers |-> FALSE]
  /\ owned = [f \in Fibers |-> TRUE]
  /\ self = [f \in Fibers |-> FALSE]
  /\ freed = {}
  /\ wrong = {}

Wrong(kind, happens) == wrong' = IF happens THEN wrong \cup {kind} ELSE wrong
Alive(t) == wrong = {} /\ t \notin freed
RunBy(x) == {t \in Threads : on[t] = x}

-----------------------------------------------------------------------------
(* Switching.                                                              *)

\* Current_Fiber after a switch.  Mutant: it is not set.
NotSet(t, to) == cur[t]
SetTo(t, to) == to

\* The stack's own Fiber::ptr, which MainFunc has from its first line on.
WithPointer(own, f) == [own EXCEPT ![f] = TRUE]

\* Thread t saves what it runs in from.contex_ and goes on with to.contex_;
\* own is self as it is before.
Switch(t, from, to, own) ==
  LET saved == [ctx EXCEPT ![from] = on[t]]
      next == saved[to]
  IN  /\ cur' = [cur EXCEPT ![t] = SetTo(t, to)]
      /\ IF next \in Functions
         THEN /\ on' = [on EXCEPT ![t] = to]
              /\ ctx' = [saved EXCEPT ![to] = "stale"]
              /\ fun' = [fun EXCEPT ![to] = next]
              /\ self' = WithPointer(own, to)
              /\ UNCHANGED wrong
         ELSE /\ on' = [on EXCEPT ![t] = IF next \in Stacks THEN next ELSE @]
              /\ ctx' = [x \in Stacks |-> IF saved[x] = next THEN "stale" ELSE saved[x]]
              /\ self' = own
              /\ wrong' = wrong \cup (IF next \in Stacks THEN {} ELSE {"context"})
                                \cup (IF next \in Fibers /\ ended'[next] THEN {"here"} ELSE {})
              /\ UNCHANGED fun

\* The main fiber is a null pointer in a thread without a scheduler.
NullMain == wrong' = wrong \cup {"null"} /\ UNCHANGED <<on, cur, ctx, fun, self>>

\* Resumed by somebody who has a Fiber::ptr, when it has not ended and has
\* left its stack.
MayResume(f) == owned[f] /\ state[f] \notin Dead /\ RunBy(f) = {}

\* Where swapIn saves what it leaves.
MainFiber(t) == main[t]

swapIn(t, f) ==
  /\ Alive(t) /\ cur[t] # None
  /\ on[t] = main[t] \/ (SwapPlain /\ t \in Plain)
  /\ MayResume(f) /\ f # main[t] /\ f \notin Collers
  /\ state' = [state EXCEPT ![f] = "EXEC"]
  /\ UNCHANGED ended
  /\ IF main[t] = None THEN NullMain ELSE Switch(t, MainFiber(t), f, self)
  /\ UNCHANGED <<main, owned, freed>>

call(t, f) ==
  /\ Alive(t) /\ cur[t] # None /\ on[t] = t
  /\ MayResume(f) /\ f \in Collers
  /\ t \in Callers => f = Root[t]
  /\ f \in {Root[u] : u \in Callers} => t \in Callers
  /\ state' = [state EXCEPT ![f] = "EXEC"]
  /\ UNCHANGED ended
  /\ Switch(t, t, f, self)
  /\ UNCHANGED <<main, owned, freed>>

\* YieldToReady and YieldToHold of the current fiber, with swapOut.
Yield(t, newState) ==
  /\ Alive(t) /\ cur[t] # None
  /\ (on[t] \in Fibers \ Collers) \/ (MainYields /\ on[t] = t)
  /\ LET x == cur[t]
     IN  IF state[x] # "EXEC"
         THEN wrong' = wrong \cup {"yield"} /\ UNCHANGED <<on, cur, state, ctx, fun, ended, self>>
         ELSE /\ state' = [state EXCEPT ![x] = newState]
              /\ UNCHANGED ended
              /\ IF main[t] = None THEN NullMain ELSE Switch(t, x, main[t], self)
  /\ UNCHANGED <<main, owned, freed>>

YieldToReady(t) == Yield(t, "READY")
YieldToHold(t) == Yield(t, "EXEC")

\* cur.reset() before the last switch.  Mutant: it is forgotten.
StillHeld(f) == self
Dropped(f) == [self EXCEPT ![f] = FALSE]

\* The end of MainFunc, with swapOut, or of BackExternFunc, with back: the
\* callback has returned or thrown.
End(t, newState) ==
  /\ Alive(t) /\ on[t] \in Fibers
  /\ LET f == on[t]
     IN  /\ state' = [state EXCEPT ![f] = newState]
         /\ ended' = [ended EXCEPT ![f] = TRUE]
         /\ IF fun[f] = "BackExternFunc" THEN Switch(t, f, t, Dropped(f))
            ELSE IF main[t] = None THEN NullMain
            ELSE Switch(t, f, main[t], Dropped(f))
  /\ UNCHANGED <<main, owned, freed>>

-----------------------------------------------------------------------------
(* The life of fibers.                                                     *)

\* GetCurrentFiber makes the thread's own fiber, whose context is that of a
\* constructor that has returned; Scheduler::run takes it as its main fiber,
\* the constructor of a Scheduler with use_caller its root fiber.
Begin(t) ==
  /\ Alive(t) /\ cur[t] = None
  /\ cur' = [cur EXCEPT ![t] = t]
  /\ state' = [state EXCEPT ![t] = "EXEC"]
  /\ main' = [main EXCEPT ![t] =
                IF t \in Pool THEN t ELSE IF t \in Callers THEN Root[t] ELSE None]
  /\ UNCHANGED <<on, ctx, fun, ended, owned, self, freed, wrong>>

\* Scheduler::run, back from swapIn: a fiber that has not ended holds.
Hold(f) ==
  /\ wrong = {} /\ f \notin Collers /\ RunBy(f) = {} /\ state[f] = "EXEC"
  /\ state' = [state EXCEPT ![f] = "HOLD"]
  /\ UNCHANGED <<on, cur, main, ctx, fun, ended, owned, self, freed, wrong>>

\* reset() accepts a fiber that has not begun or has ended, and makes a context
\* that starts in MainFunc, whatever the fiber was made with.
ResetAccepts(f) == state[f] \in {"INIT", "TERM"}

reset(f) ==
  /\ wrong = {} /\ f \in Resettable /\ owned[f] /\ RunBy(f) = {} /\ ResetAccepts(f)
  /\ ctx' = [ctx EXCEPT ![f] = "MainFunc"]
  /\ state' = [state EXCEPT ![f] = "INIT"]
  /\ ended' = [ended EXCEPT ![f] = FALSE]
  /\ UNCHANGED <<on, cur, main, fun, owned, self, freed, wrong>>

\* The last Fiber::ptr outside of the fiber goes; ~Fiber, if its own stack has
\* none either.  A caller's scheduler, with its root fiber, is destroyed last.
Release(f) ==
  /\ wrong = {} /\ owned[f] /\ RunBy(f) = {}
  /\ \A t \in Callers : f = Root[t] => t \in freed
  /\ owned' = [owned EXCEPT ![f] = FALSE]
  /\ freed' = IF self[f] THEN freed ELSE freed \cup {f}
  /\ UNCHANGED <<on, cur, main, state, ctx, fun, ended, self, wrong>>

\* A thread ends, and with it its own fiber: ~Fiber.
Exit(t) ==
  /\ Alive(t) /\ on[t] = t /\ cur[t] # None
  /\ Wrong("main", state[t] # "EXEC")
  /\ freed' = freed \cup {t}
  /\ UNCHANGED <<on, cur, main, state, ctx, fun, ended, owned, self>>

-----------------------------------------------------------------------------
Next ==
  \/ \E t \in Threads :
       \/ Begin(t) \/ Exit(t) \/ YieldToReady(t) \/ YieldToHold(t)
       \/ \E newState \in Dead : End(t, newState)
       \/ \E f \in Fibers : swapIn(t, f) \/ call(t, f)
  \/ \E f \in Fibers : Hold(f) \/ reset(f) \/ Release(f)

Spec == Init /\ [][Next]_vars

-----------------------------------------------------------------------------
\* Current_Fiber is the fiber on whose stack its thread is, so that a yield
\* saves the right one; no two threads are on one stack, and no context is
\* kept of a stack that runs.
RunsItsOwnStack ==
  /\ \A t \in Threads : cur[t] # None => cur[t] = on[t]
  /\ \A t \in Threads, x \in Stacks : ctx[x] # on[t]
  /\ \A t, u \in Threads : on[t] = on[u] => t = u

\* No stack is entered through a context that is not its latest, or through
\* none; fiber.cpp:141 and 148, a fiber that yields is in EXEC.
SwitchesRightly == wrong \cap {"context", "null", "yield"} = {}

\* fiber.cpp:75: a fiber is destroyed when it has not begun or has ended, and
\* nobody runs it; one that has ended is destroyed with the last pointer to it.
FreedInTime ==
  \A f \in Fibers :
    /\ f \in freed => state[f] \in {"INIT", "TERM", "EXCET"} /\ RunBy(f) = {}
    /\ ~owned[f] /\ state[f] \in Dead => f \in freed

\* fiber.cpp:183 and 208: a fiber that has ended is not switched to again.
NeverComeToHere == "here" \notin wrong

\* The invariant of threads and fibers.
FiberInv == TypeOK /\ SwitchesRightly /\ NeverComeToHere

\* fiber.cpp:83: a thread's own fiber is in EXEC when it is destroyed.
MainEndsExec == "main" \notin wrong

\* test_Fiber.cpp:6-12: a thread that has called GetCurrentFiber may swap a
\* fiber in and is swapped back to.
MainFiberExists == "null" \notin wrong
=============================================================================
