SPECIFICATION FairSpec
CONSTANTS
  Threads = {t1, t2}
  Names = {n1, n2}
  Levels = {1, 2}
  Defs <- PlainAndBoth
  Direct = TRUE
  Deletes = FALSE
  MaxConfigs = 2
  None = None
  t1 = t1
  t2 = t2
  n1 = n1
  n2 = n2
INVARIANTS
  LoggerInv
  MessageSeesOneConfiguration
PROPERTIES
  CallsEnd
CHECK_DEADLOCK FALSE
