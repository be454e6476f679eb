SPECIFICATION Spec
CONSTANTS
  k1 = k1
  k2 = k2
  f1 = f1
  p1 = p1
  p2 = p2
  w1 = w1
  w2 = w2
  t1 = t1
  t2 = t2
  Keys = {k1, k2}
  Forged = {f1}
  Projects = {p1, p2}
  Seed = {k1, k2}
  Workers = {w1}
  Threads = {t1, t2}
  WorkerOf <- OneWorker
  TTL = 1
  NegativeCap = 1
  MaxEntries = 1
  Lifetimes = {1, Never}
  MaxTime = 1
  MaxLag = 1
  None = None
  Absent = Absent
  Never = Never
SYMMETRY ThreadsSymmetry
CHECK_DEADLOCK FALSE
INVARIANTS
  TypeOK
  PrincipalMatchesRow
  CacheBounded
  CleanRevokeIsImmediate
PROPERTIES
  RevokeStaysInProject
