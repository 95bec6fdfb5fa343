CONSTANTS
  s1 = s1
  s2 = s2
  e1 = e1
  e2 = e2
  g1 = g1
  Sessions = {s1, s2}
  Exposures = {e1, e2}
  Guides = {g1}
  Setter = Setter
  None = None
  MaxGen = 2
  MaxTasks = 3
  Grouped = {e1, e2}
SPECIFICATION MCSpec
CHECK_DEADLOCK FALSE
INVARIANTS
  ControlCoversWork
  SupervisorInv
PROPERTIES
  TasksKeepTheirOwn
SYMMETRY Symmetry
