SPECIFICATION FairSpec
CONSTANTS
  Timers = {1, 2}
  Recurring = {2}
  Periods = {1, 2}
  Idlers = {i1, i2}
  i1 = i1
  i2 = i2
  NoTimer = NoTimer
  Stale = Stale
  Hour = 1
  MinClock = 1
  MaxClock = 3
  MaxCalls = 1
  MaxSetbacks = 0
PROPERTIES
  EveryTimerLeaves
  FiresOnce
