------------------------------ MODULE MCThread ------------------------------
(***************************************************************************)
(* Small instances of what thread.cpp defines: four threads with a         *)
(* MutexLock, two of them with the same id and one with id 0, and a few    *)
(* Thread objects made by main and by the threads they start, one of them  *)
(* without a name.  The two share nothing: a behaviour is one of either.   *)
(***************************************************************************)
EXTENDS MutexLock

CONSTANTS
  t1, t2, t3, t4, o1, o2, o3,
  Objects, Main, Unnamed, Renames, MaxFailures, Empty, UNKNOW, SchedName

VARIABLES part, obj, maker, call, run, sys, cur, curName, failures, misuse

T == INSTANCE Thread

threadVars == <<obj, maker, call, run, sys, cur, curName, failures, misuse>>

ASSUME MCThreadAssumption == T!ThreadAssumption

Ids == [t \in Threads |-> CASE t = t1 -> 0 [] t = t2 -> 2 [] OTHER -> 3]

MCInit == part \in {"lock", "threads"} /\ Init /\ T!Init

MCNext ==
  \/ part = "lock" /\ Next /\ UNCHANGED <<part, threadVars>>
  \/ part = "threads" /\ T!Next /\ UNCHANGED <<part, vars>>

MCSpec == MCInit /\ [][MCNext]_<<part, vars, threadVars>>
MCFairSpec == MCSpec /\ (part = "threads" => T!Fairness)

-----------------------------------------------------------------------------
(* The properties of Thread.                                               *)

\* A new thread uses its object only while that exists, and is released once.
ThreadInv == T!ThreadInv
\* A thread starts under its name, also if its maker is renamed meanwhile.
StartsUnderItsName == T!StartsUnderItsName
\* A constructor returns unless pthread_create failed.
ConstructorReturns == T!ConstructorReturns
\* The name that a Scheduler sets is not written to a destroyed object.
RenamesExisting == T!RenamesExisting
=============================================================================
