CONSTANTS
  Erased <- MCErased
  Garbage <- MCGarbage
  Header <- MCHeader
  Firms <- MCFirms
  Masks <- MCMasks
  Offsets = {0, 1}
  CardFirms <- MCCardFirms
  PartLen = 6
  PageLen = 2
  FirmBufSize = 2
  MaxFaults = 1
SPECIFICATION Spec
INVARIANTS OkMeansStored CutShortAtWorst IntactAccepted OkMeansWhole
PROPERTY Ends
CHECK_DEADLOCK FALSE
