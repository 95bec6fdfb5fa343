CONSTANTS
  l1 = l1
  Leases = {l1}
  Nobody = Nobody
  QueueCap = 1
  Ops = {"claim", "yield", "simulate", "refresh", "read", "image", "write"}
  Sources = {s1}
SPECIFICATION MCSpec
CHECK_DEADLOCK FALSE
INVARIANTS
  ActorSound
PROPERTIES
  RetryWaitKept
  EverythingResumes
