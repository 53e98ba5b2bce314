CONSTANTS
  Erased = Erased
  Garbage = Garbage
  PartLen <- MCPartLen
  PageLen = 2
  SyncCap = 3
  MaxFaults = 1
  MaxReboots = 1
  Files <- MCFiles
  Sessions = {"s1"}
  MaxUploads = 2
  Mixes <- MCMixes
SPECIFICATION UploadersSpec
INVARIANTS ErasedStepMeansBlank
PROPERTIES AcceptedStays SuccessMeansStored FittingFileAccepted
