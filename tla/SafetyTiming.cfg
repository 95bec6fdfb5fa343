SPECIFICATION MCSpec
CONSTANTS
  Confirmation = 1
  SafeAge = 2
  Hold = 1
  SafeReadings = 2
  UnsafeReadings = 2
  FailedCycles = 2
  Sources = {s1}
  RingCap = 1
  Backdates = {0, 1}
  Readings = {"safe", "unsafe", "attemptFailed", "cycleFailed"}
  MaxTime = 4
  MaxSeq = 3
  MaxGen = 2
  MaxEpoch = 1
  MaxChanges = 1
  MaxChangeTime = 1
INVARIANTS SafeIsProven
PROPERTIES GrantIsEarned
