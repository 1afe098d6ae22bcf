\* As in calib.cfg, but the two channels of a job share a list of two dark files, and all can be read.
SPECIFICATION Spec
CONSTANTS
  j1 = j1  j2 = j2  j3 = j3  c1 = c1  c2 = c2  c3 = c3  c4 = c4  d1 = d1  d2 = d2  d3 = d3  d4 = d4  g1 = g1  g2 = g2
  b1 = b1  b2 = b2  b3 = b3  b4 = b4  b5 = b5
  Jobs = {j1, j2, j3}
  Channels = {c1, c2, c3, c4}
  Files = {d1, d2, d3, d4, g1, g2}
  JobOf <- Owner
  DarkFiles <- SharedDarks
  GainFile <- Gains
  Blocks = {b1, b2, b3, b4, b5}
  Unreadable = {}
INVARIANT DarkExact
CHECK_DEADLOCK FALSE
