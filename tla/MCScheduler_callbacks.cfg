SPECIFICATION FairSpec
CONSTANTS
  w1 = w1
  w2 = w2
  a = a
  b = b
  c = c
  Workers = {w1, w2}
  Caller = Caller
  AnyThread = AnyThread
  Tasks = {a, b, c}
  NoTask = NoTask
  FiberTasks = {}
  ReadyTasks = {}
  HoldTasks = {}
  Pin <- MCPinFirst
  IntMax = 2
  MaxStarts = 2
INVARIANTS
  ActiveExact
  QuiescentExit
PROPERTIES
  StopDrains
  StopReturns
  EveryTaskRuns
