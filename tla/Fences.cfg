CONSTANTS
  Confirmation = 1
  SafeAge = 2
  Hold = 0
  SafeReadings = 1
  UnsafeReadings = 1
  FailedCycles = 1
  Sources = {s1}
  RingCap = 1
  Backdates = {0}
  Readings = {"safe", "unsafe", "fault"}
  MaxTime = 1
  MaxSeq = 2
  MaxGen = 2
  MaxEpoch = 1
  l1 = l1
  l2 = l2
  Leases = {l1, l2}
  Nobody = Nobody
SPECIFICATION MCSpec
CHECK_DEADLOCK FALSE
INVARIANTS
  SafetyInv
  LastWordHeeded
  WritesToldTrue
PROPERTIES
  WritesFenced
SYMMETRY Symmetry
