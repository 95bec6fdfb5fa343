CONSTANTS
  MaxRetries = 2
  Preparations = 2
  Rereads = 1
  ResetThreshold = 2
  SdkFallback = TRUE
  FenceEnabled = TRUE
  RetainedReads = TRUE
  FailureCap = 3
  MaxCaptures = 2
SPECIFICATION Spec
INVARIANTS
  CaptureInv
PROPERTIES
  StartsRestored
  CaptureEnds
  ImplementsExposureContract
