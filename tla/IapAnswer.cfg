CONSTANTS
  Erased = Erased
  Garbage = Garbage
  PartLen <- MCPartLen
  PageLen = 2
  SyncCap = 3
  Target = "download"
  ImageLen = 5
  PktLen = 2
  LineCap = 2
  MaxFaults = 1
  MaxReboots = 0
  MaxLosses = 1
  Spent <- BothFail
SPECIFICATION Spec
INVARIANT SuccessMeansWritten
CHECK_DEADLOCK FALSE
