------------------------------- MODULE MCFiber ------------------------------
(***************************************************************************)
(* Small instances of Fiber: pool threads, a caller's thread with its root *)
(* fiber, and fibers that any of them resumes.                             *)
(***************************************************************************)
EXTENDS Fiber

CONSTANTS p1, p2, c1, x1, f1, f2, f3, r1

RootOfCaller == [t \in Callers |-> r1]
=============================================================================
