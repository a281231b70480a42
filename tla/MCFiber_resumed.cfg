SPECIFICATION Spec
CONSTANTS
  p1 = p1
  p2 = p2
  c1 = c1
  x1 = x1
  f1 = f1
  f2 = f2
  f3 = f3
  r1 = r1
  Pool = {p1, p2}
  Callers = {c1}
  Plain = {x1}
  Fibers = {f1, f2, f3, r1}
  Collers = {r1, f3}
  Root <- RootOfCaller
  Resettable = {f1, f2}
  SwapPlain = FALSE
  MainYields = FALSE
  None = None
INVARIANTS
  FiberInv
  RunsItsOwnStack
  FreedInTime
CHECK_DEADLOCK FALSE
