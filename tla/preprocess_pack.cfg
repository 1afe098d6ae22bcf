\* As in preprocess.cfg, but nothing fails: a queued job is started and packed at any time.
SPECIFICATION Spec
CONSTANTS
  o1 = o1  o2 = o2  c1 = c1  c2 = c2  c3 = c3  f1 = f1  f2 = f2  f3 = f3  t1 = t1  t2 = t2
  Job = job
  Objects = {o1, o2}
  Channels = {c1, c2, c3}
  Files = {f1, f2, f3}
  ObjectOf <- Owner
  ChannelOf <- Source
  Frames <- Depth
  Patches = {p1}
  SaveFF = {o1}
  Threads = {t1, t2}
  Unreadable = {}
  Misfits = {}
  Throwing = {}
CHECK_DEADLOCK FALSE
INVARIANT PackedReady
