--------------------------- MODULE MCTimerManager ---------------------------
(***************************************************************************)
(* Small instances of TimerManager: three timers, one or two idle threads, *)
(* a clock of a few ticks.                                                 *)
(***************************************************************************)
EXTENDS TimerManager

CONSTANTS i1, i2

=============================================================================
