CONSTANTS
  WxSources <- MCWxSources
  WxAge = 2
  WxAverage = 1
  MaxWxTime = 3
  MaxWxSamples = 3
  MaxWxBreaks = 1
  Turn = 3
  MaxSyncs = 2
  MaxMoves = 1
  MaxConfigs = 3
  MaxNativeOps = 4
  s1 = s1
  s2 = s2
  Pair = {s1, s2}
SPECIFICATION Spec
INVARIANTS NothingStale SavedReference NativeOwnerHonest
PROPERTIES NoBlindCommand GrantIsEarnedByBoth
CHECK_DEADLOCK FALSE
