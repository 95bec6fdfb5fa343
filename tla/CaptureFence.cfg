CONSTANTS
  MaxRetries = 1
  Preparations = 2
  Rereads = 0
  ResetThreshold = 1
  SdkFallback = FALSE
  FenceEnabled = TRUE
  RetainedReads = FALSE
  FailureCap = 1
  MaxCaptures = 1
SPECIFICATION Spec
PROPERTIES
  NoStartWhileBlocked
