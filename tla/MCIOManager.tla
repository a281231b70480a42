---------------------------- MODULE MCIOManager -----------------------------
(***************************************************************************)
(* Small instances of IOManager: one or two threads, two waiters.          *)
(***************************************************************************)
EXTENDS IOManager, TLC

CONSTANTS t1, t2, c1, c2, w1, w2

R(fd) == [fd |-> fd, event |-> "READD"]
W(fd) == [fd |-> fd, event |-> "WRITE"]

\* Readers of two descriptors; the table is made anew for 3 if 2 is first.
UseReaders == w1 :> R(2) @@ w2 :> R(3)
\* Both events of one descriptor, as tests/test_IOManager.cpp does.
UseBothEvents == w1 :> R(2) @@ w2 :> W(2)
\* The same event again after the first waiter was woken.
UseAgain == w1 :> R(2) @@ w2 :> R(2)
UseOne == w1 :> R(2)
UseWriter == w1 :> W(2)
=============================================================================
