---------------------------- MODULE MCScheduler -----------------------------
(***************************************************************************)
(* Small instances of Scheduler: a pool of two threads and a few tasks.    *)
(***************************************************************************)
EXTENDS Scheduler

CONSTANTS w1, w2, a, b, c

\* a is for the first worker, the others for any.
MCPinFirst == [t \in Tasks |-> IF t = a THEN w1 ELSE AnyThread]

\* No task is for a thread of its own.
MCPinNone == [t \in Tasks |-> AnyThread]
=============================================================================
