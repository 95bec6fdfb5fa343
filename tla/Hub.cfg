CONSTANTS
  f1 = f1
  f2 = f2
  ga = ga
  gb = gb
  c1 = c1
  c2 = c2
  Nobody = Nobody
  Groups = {ga, gb}
  MembersOf <- MCMembersOf
  MaxMoves = 1
  Cameras = {c1, c2}
  CameraOrder <- MCCameraOrder
  HubClients = {k1}
  MaxRuntimes = 2
  MaxTokens = 2
  UsesCredential = {2}
  IpcRequests = {q1, q2, q3}
  Mutating = {q1, q2}
  MaxInFlight = 2
  Pipe = 1
SPECIFICATION Spec
INVARIANTS GroupReportsTrue OneOwner RevisionServed IpcAnswersTrue
PROPERTY HubLive
CHECK_DEADLOCK FALSE
