CONSTANTS
  Erased = Erased
  Garbage = Garbage
  PartLen = 4
  PageLen = 2
  SectorLen = 2
  Ranges <- MCRanges
  MaxFaults = 1
SPECIFICATION FairSpec
INVARIANTS BusyAlone AlignedReturnHonest
PROPERTIES StaysInRange IrqComesBack
