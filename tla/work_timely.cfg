SPECIFICATION FairSpec
CONSTANTS
  p1 = p1
  p2 = p2
  p3 = p3
  j1 = j1
  j2 = j2
  h1 = h1
  h2 = h2
  Jobs = {j1}
  Patches = {p1, p2}
  JobOf <- OneJob
  Hosts = {h1, h2}
  Wips = {1, 2, 3}
  None = None
  MaxRemote = 2
  MaxReturns = 2
  MaxLoss = 1
  MaxCrash = 1
  MaxEarly = 1
  Timely = TRUE
INVARIANTS TypeOK DoneMeansAllParts ProgressExact ResultForOwnPart IndInv
PROPERTIES LedgerSpec EveryJobDone
CHECK_DEADLOCK FALSE
