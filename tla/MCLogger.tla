------------------------------ MODULE MCLogger ------------------------------
(***************************************************************************)
(* Small instances of Logger: two loggers, two threads, definitions with   *)
(* one and two appenders.                                                  *)
(***************************************************************************)
EXTENDS Logger

CONSTANTS t1, t2, n1, n2

Stdout(level) == [type |-> 1, level |-> level]
File(level) == [type |-> 2, level |-> level]

Plain == [level |-> 1, appenders |-> {Stdout(1)}]
Both == [level |-> 2, appenders |-> {Stdout(2), File(1)}]
PlainAndBoth == {Plain, Both}
=============================================================================
