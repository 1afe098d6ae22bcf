\* Three jobs, four channels, a list of three darks and one of two of them, shared gains and a shared dark.
SPECIFICATION Spec
CONSTANTS
  j1 = j1  j2 = j2  j3 = j3  c1 = c1  c2 = c2  c3 = c3  c4 = c4  d1 = d1  d2 = d2  d3 = d3  d4 = d4  g1 = g1  g2 = g2
  b1 = b1  b2 = b2  b3 = b3  b4 = b4  b5 = b5
  Jobs = {j1, j2, j3}
  Channels = {c1, c2, c3, c4}
  Files = {d1, d2, d3, d4, g1, g2}
  JobOf <- Owner
  DarkFiles <- LongDarks
  GainFile <- Gains
  Blocks = {b1, b2, b3, b4, b5}
  Unreadable = {d2, g2}
SYMMETRY Symmetry
INVARIANTS TypeOK GainSafe DarkSafe ShortErased
CHECK_DEADLOCK FALSE
