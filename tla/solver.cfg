\* Two objects, four images in three chunks, two threads.
SPECIFICATION FairSpec
CONSTANTS
  o1 = o1  o2 = o2  i1 = i1  i2 = i2  i3 = i3  i4 = i4  t1 = t1  t2 = t2
  Objects = {o1, o2}
  Images = {i1, i2, i3, i4}
  ObjectOf <- Owner
  Chunks = {{i1, i2}, {i3}, {i4}}
  Threads = {t1, t2}
  MaxEvals = 4
INVARIANTS TypeOK Quiet MetricExact GradientFresh ImagesFresh
PROPERTY EvaluationsEnd
CHECK_DEADLOCK FALSE
