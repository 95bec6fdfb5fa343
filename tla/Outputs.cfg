CONSTANTS
  Callers = {k1, k2}
  Reach = 2
  MaxGens = 2
  Arguments = {2}
  Classes = {"focuser", "wheel", "panel", "rotator", "switch", "setup"}
  SampleKeys <- MCSampleKeys
  AgedKeys = {"position", "temperature"}
  Depends <- MCDepends
  SampleAttempts = 2
  MaxSampleTime = 2
  MaxSampleFailures = 1
  CameraClients = {c1, c2}
  WheelClients = {w1}
  MaxExposures = 2
  MaxChanges = 3
  NetClients = {k1, k2}
  PairSlots = {s1, s2}
  PanelSlot = s1
  Serials = {x}
  Ids = {1}
  HttpCalls = {k1, k2}
  HubOutputs = {11, 12}
  MaxSessions = 2
  MaxAsks = 3
  MaxClients = 1
  MaxReaders = 1
  Families = {"asi6200", "asi2600", "bayer", "guide"}
  MaxShots = 2
  MaxFaults = 2
  ReadRetries = 1
  MaxSets = 1
SPECIFICATION Spec
INVARIANTS AgesHonest AlpacaServerHonest PublisherHonest DirectHonest
PROPERTY TypedHonest
SYMMETRY Symmetry
CHECK_DEADLOCK FALSE
