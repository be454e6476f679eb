SPECIFICATION Spec
CONSTANTS
  p1 = p1
  p2 = p2
  p3 = p3
  t1 = t1
  t2 = t2
  None = None
  Projects = {p1, p2, p3}
  Threads = {t1, t2}
  Limit = 1
  WindowSeconds = 1
  TicksPerSecond = 1
  MaxProjects = 2
  MaxTime = 3
  MaxLag = 1
SYMMETRY Symmetric
CHECK_DEADLOCK FALSE
INVARIANTS
  WindowsBounded
PROPERTIES
  EvictsOldestAdmission
  ProjectsIndependent
