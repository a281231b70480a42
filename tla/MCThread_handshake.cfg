SPECIFICATION MCFairSpec
CONSTANTS
  t1 = t1
  t2 = t2
  t3 = t3
  t4 = t4
  Threads = {t1, t2, t3, t4}
  Id <- Ids
  None = None
  o1 = o1
  o2 = o2
  o3 = o3
  Objects = {o1, o2}
  Main = Main
  Unnamed = {o1}
  Renames = TRUE
  MaxFailures = 1
  Empty = Empty
  UNKNOW = UNKNOW
  SchedName = SchedName
INVARIANTS
  HolderIsOwner
  DestroyedFree
  ThreadInv
PROPERTIES
  StartsUnderItsName
  ConstructorReturns
CHECK_DEADLOCK FALSE
