----------------------------- MODULE MutexLock ------------------------------
(***************************************************************************)
(* sylar::MutexLock and MutexLockGuard (sylar/thread.cpp, thread.h): a     *)
(* pthread mutex and the id of the thread that holds it, which is stored   *)
(* after locking and cleared before unlocking, in steps of their own.      *)
(* The last user of a lock destroys it, as a Timer, a ConfigVar or a       *)
(* Scheduler that is destroyed does: ~MutexLock reads holder_ unlocked.    *)
(*                                                                         *)
(* The pthread mutex itself is external.  holder_ is narrower than the     *)
(* pthread_t it is given, so that two threads may have the same value, or  *)
(* one of them 0.                                                          *)
(***************************************************************************)
EXTENDS Naturals

CONSTANTS
  Threads,  \* the threads that use the lock
  Id,       \* pthread_self of a thread, cut down to the width of holder_
  None      \* nobody

ASSUME MutexLockAssumption ==
  /\ Id \in [Threads -> Nat]
  /\ None \notin Threads

VARIABLES
  mutex,    \* who holds the pthread mutex
  holder,   \* holder_
  pc,       \* where each thread is in lock, its critical section and unlock
  users     \* the threads that may still use the lock

vars == <<mutex, holder, pc, users>>

TypeOK ==
  /\ mutex \in Threads \cup {None}
  /\ holder \in Nat
  /\ pc \in [Threads -> {"out", "locked", "in", "cleared"}]
  /\ users \subseteq Threads

Init ==
  /\ mutex = None
  /\ holder = 0
  /\ pc = [t \in Threads |-> "out"]
  /\ users = Threads

Goto(t, step) == pc' = [pc EXCEPT ![t] = step]

-----------------------------------------------------------------------------
\* pthread_mutex_lock, then the assignment of holder_.
Acquire(t) ==
  /\ pc[t] = "out" /\ t \in users /\ mutex = None
  /\ mutex' = t
  /\ Goto(t, "locked")
  /\ UNCHANGED <<holder, users>>

SetHolder(t) ==
  /\ pc[t] = "locked"
  /\ holder' = Id[t]
  /\ Goto(t, "in")
  /\ UNCHANGED <<mutex, users>>

\* unlock, called by the guard's destructor.  Mutants: in the other order;
\* without clearing holder_.
UnlockThenClear(t) ==
  \/ pc[t] = "in" /\ mutex' = None /\ Goto(t, "cleared") /\ UNCHANGED <<holder, users>>
  \/ pc[t] = "cleared" /\ holder' = 0 /\ Goto(t, "out") /\ UNCHANGED <<mutex, users>>
UnlockOnly(t) ==
  \/ pc[t] = "in" /\ Goto(t, "cleared") /\ UNCHANGED <<mutex, holder, users>>
  \/ pc[t] = "cleared" /\ mutex' = None /\ Goto(t, "out") /\ UNCHANGED <<holder, users>>

Unlock(t) ==
  \/ pc[t] = "in" /\ holder' = 0 /\ Goto(t, "cleared") /\ UNCHANGED <<mutex, users>>
  \/ pc[t] = "cleared" /\ mutex' = None /\ Goto(t, "out") /\ UNCHANGED <<holder, users>>

\* A thread drops its reference to what the lock protects.
Drop(t) ==
  /\ pc[t] = "out" /\ t \in users
  /\ users' = users \ {t}
  /\ UNCHANGED <<mutex, holder, pc>>

Next == \E t \in Threads : Acquire(t) \/ SetHolder(t) \/ Unlock(t) \/ Drop(t)

Spec == Init /\ [][Next]_vars

-----------------------------------------------------------------------------
\* While a thread is between lock and unlock, holder_ is its id: no thread
\* that has left overwrites it.
HolderIsOwner == \A t \in Threads : pc[t] = "in" => mutex = t /\ holder = Id[t]

\* thread.cpp:92: when nobody uses the lock any longer, the assertion of
\* ~MutexLock holds and the mutex that is destroyed is not locked.
DestroyedFree == users = {} => holder = 0 /\ mutex = None

\* The inductive invariant: holder_ is 0 unless a thread is at work, which is
\* then the one that has the mutex.
IInv ==
  /\ TypeOK
  /\ \A t \in Threads : pc[t] # "out" => mutex = t /\ t \in users
  /\ \A t \in Threads : pc[t] = "in" => holder = Id[t]
  /\ mutex # None => pc[mutex] # "out"
  /\ (\A t \in Threads : pc[t] # "in") => holder = 0
=============================================================================
