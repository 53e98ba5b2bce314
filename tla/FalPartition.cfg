CONSTANTS
  Erased = Erased
  Garbage = Garbage
  FlashLen = 6
  PageLen = 2
  BlkSize = 2
  LineLen = 3
  Offset <- MCOffset
  PartLen <- MCPartLen
  ReportedLens = {6, 4}
  Calls <- MCCalls
  Values = {v}
  Word = 16
  MaxFaults = 1
SPECIFICATION Spec
INVARIANTS ReadIsFresh EraseIsWhole
PROPERTY OwnCellsOnly
