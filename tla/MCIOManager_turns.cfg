SPECIFICATION FairSpec
CONSTANTS
  Threads = {t1}
  Callers = {c1}
  Waiters = {w1, w2}
  Use <- UseReaders
  Calls = {"cancelAll", "delEvent", "cancelEvent"}
  Conditions = {"READD"}
  Overlap = FALSE
  t1 = t1
  t2 = t2
  c1 = c1
  c2 = c2
  w1 = w1
  w2 = w2
  NoWaiter = NoWaiter
  MaxSize = 3
  MaxFills = 2
INVARIANTS
  IOInv
  ScheduledOnce
  NoLostEvent
  StopsEmpty

  
  
CHECK_DEADLOCK FALSE
