SPECIFICATION FairSpec
CONSTANTS
  p1 = p1
  p2 = p2
  p3 = p3
  j1 = j1
  j2 = j2
  h1 = h1
  h2 = h2
  Jobs = {j1, j2}
  Patches = {p1, p2}
  JobOf <- TwoJobs
  Hosts = {h1}
  Wips = {1, 2, 3, 4}
  None = None
  MaxRemote = 2
  MaxReturns = 1
  MaxLoss = 1
  MaxCrash = 0
  MaxEarly = 0
  Timely = TRUE
PROPERTIES EveryJobDone
CHECK_DEADLOCK FALSE
