SPECIFICATION Spec
CONSTANTS
  Threads = {t1}
  Callers = {c1}
  Waiters = {w1}
  Use <- UseOne
  Calls = {}
  Conditions = {"READD"}
  Overlap = TRUE
  t1 = t1
  t2 = t2
  c1 = c1
  c2 = c2
  w1 = w1
  w2 = w2
  NoWaiter = NoWaiter
  MaxSize = 16
  MaxFills = 2
INVARIANTS
  AddedIsRegistered
CHECK_DEADLOCK FALSE
