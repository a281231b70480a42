SPECIFICATION FairSpec
CONSTANTS
  Threads = {t1, t2}
  Names = {"port", "Port", "?"}
  Lower <- UpperLower
  Invalid = {"?"}
  Objects = {o1}
  Types = {"int"}
  Values = {0, 1}
  Listeners = {l1, l2}
  Does <- Throwing
  Document <- OneEntry
  Default = 0
  None = None
  t1 = t1
  t2 = t2
  o1 = o1
  o2 = o2
  l1 = l1
  l2 = l2
  l3 = l3
  l4 = l4
INVARIANTS
  ConfigInv
  SubscriberUpToDate
PROPERTIES
  StoredIsTold
  CallsReturn
