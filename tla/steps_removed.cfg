SPECIFICATION FairSpec
CONSTANTS
  j1 = j1
  j2 = j2
  j3 = j3
  t1 = t1
  t2 = t2
  None = None
  Jobs = {j1}
  PrepThreads = {t1}
  Max <- Tight
  ReadErrors = FALSE
  Files = 0
  Operator = FALSE
PROPERTIES RemovedGoes
CHECK_DEADLOCK FALSE
