CONSTANTS
  Tmp = 3
  Small = 2
  Big = 6
  Buf = 9
  Lengths = {2, 5}
  MaxFrames = 3
SPECIFICATION FairSpec
INVARIANTS OnceInOrder IntactStays
PROPERTY IntactHandled
CHECK_DEADLOCK FALSE
