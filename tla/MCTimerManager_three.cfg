SPECIFICATION Spec
CONSTANTS
  Timers = {1, 2, 3}
  Recurring = {2}
  Periods = {1}
  Idlers = {i1}
  i1 = i1
  i2 = i2
  NoTimer = NoTimer
  Stale = Stale
  Hour = 1
  MinClock = 1
  MaxClock = 3
  MaxCalls = 2
  MaxSetbacks = 1
INVARIANT
  ChainOrdered
PROPERTIES
  NoEarlyFire
  CancelIsFinal
