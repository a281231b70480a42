SPECIFICATION Spec
CONSTANTS
  w1 = w1
  w2 = w2
  a = a
  b = b
  c = c
  Workers = {w1, w2}
  Caller = Caller
  AnyThread = AnyThread
  Tasks = {a, b}
  NoTask = NoTask
  FiberTasks = {b}
  ReadyTasks = {a, b}
  HoldTasks = {b}
  Pin <- MCPinFirst
  IntMax = 2
  MaxStarts = 1
INVARIANTS
  ExclusiveExecution
  NoLostWakeup
  IInv
  PinnedStaysHome
PROPERTIES
  ImplementsPool
