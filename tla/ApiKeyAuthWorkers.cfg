SPECIFICATION Spec
CONSTANTS
  k1 = k1
  k2 = k2
  f1 = f1
  p1 = p1
  p2 = p2
  w1 = w1
  w2 = w2
  t1 = t1
  t2 = t2
  Keys = {k1}
  Forged = {}
  Projects = {p1, p2}
  Seed = {k1}
  Workers = {w1, w2}
  Threads = {t1, t2}
  WorkerOf <- TwoWorkers
  TTL = 2
  NegativeCap = 1
  MaxEntries = 2
  Lifetimes <- ShortLives
  MaxTime = 3
  MaxLag = 1
  None = None
  Absent = Absent
  Never = Never
SYMMETRY WorkersSymmetry
CHECK_DEADLOCK FALSE
INVARIANTS
  NoFalseRejection
  StaleAcceptanceBounded
PROPERTIES
  ExpiredKeyNotServed
