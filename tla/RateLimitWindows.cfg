SPECIFICATION Spec
CONSTANTS
  p1 = p1
  p2 = p2
  p3 = p3
  t1 = t1
  t2 = t2
  None = None
  Projects = {p1}
  Threads = {t1, t2}
  Limit = 2
  WindowSeconds = 2
  TicksPerSecond = 2
  MaxProjects = 2
  MaxTime = 9
  MaxLag = 2
SYMMETRY Symmetric
CHECK_DEADLOCK FALSE
INVARIANTS
  TypeOK
  SlidingBound
  RetryAfterTight
PROPERTIES
  PromiseKept
