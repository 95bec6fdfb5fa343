CONSTANTS
  s1 = s1
  e1 = e1
  g1 = g1
  Sessions = {s1}
  Exposures = {e1}
  Guides = {g1}
  Setter = Setter
  None = None
  MaxGen = 1
  Grouped = {}
SPECIFICATION Spec
CHECK_DEADLOCK FALSE
INVARIANT
  Covered
