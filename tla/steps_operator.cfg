SPECIFICATION Spec
CONSTANTS
  j1 = j1
  j2 = j2
  j3 = j3
  t1 = t1
  t2 = t2
  None = None
  Jobs = {j1}
  PrepThreads = {t1, t2}
  Max <- Tight
  ReadErrors = TRUE
  Files = 2
  Operator = TRUE
PROPERTIES GoneForGood
CHECK_DEADLOCK FALSE
