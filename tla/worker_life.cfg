SPECIFICATION Spec
\* The daemon ends: runMode leaves LOOP and its threads stop.
CHECK_DEADLOCK FALSE
CONSTANTS
  s1 = s1
  s2 = s2
  r1 = r1
  r2 = r2
  Starters = {s1, s2}
  Runs = {r1, r2}
INVARIANTS TypeOK OneRun NotStranded
PROPERTIES KeepsAsking WhenDoneEnds
