SPECIFICATION Spec
CONSTANTS
  t1 = t1
  t2 = t2
  t3 = t3
  t4 = t4
  Threads = {t1, t2, t3, t4}
  Limits = {0, 1, 2, 3, 4}
  Start = 7
  Modulus = 8
INVARIANTS TypeOK SlotsConserved
PROPERTIES GetWithinLimit
