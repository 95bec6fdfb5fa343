CONSTANTS
  Nil = Nil
  QhyBackends = {"direct", "sdk"}
  QhySlots = {0, 1}
  QhyGains = {30, 60}
  QhyDefault = 30
  MaxQhyFaults = 2
  MaxQhyStarts = 2
  MaxQhyMoves = 2
  ImTasks = {k1, k2}
  ImBudget = 7
  ImDecoders = 1
  MaxImages = 2
  UbClients = {u1, u2}
  UbCameras = {m1}
  UbTargets = 1
  UbCall = 1
  UbOperation = 1
  MaxUbArrivals = 2
  MaxUbTime = 1
  MaxUbRequests = 3
  MaxAcquisitions = 3
  MaxInnerGens = 3
SPECIFICATION Spec
INVARIANTS QhyHonest ImagesHonest UsbHonest ImportsHonest
SYMMETRY Symmetry
CHECK_DEADLOCK FALSE
