CONSTANTS
  Erased = Erased
  Garbage = Garbage
  PartLen <- MCPartLen
  PageLen = 2
  SyncCap = 3
  Target = "download"
  ImageLen = 5
  PktLen = 2
  LineCap = 4
  MaxFaults = 2
  MaxReboots = 2
  MaxLosses = 3
  Spent <- EitherFails
SPECIFICATION FairSpec
INVARIANTS AckedInFlash QuitMeansComplete
PROPERTY TransferCompletes
CHECK_DEADLOCK FALSE
