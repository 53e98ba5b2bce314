CONSTANTS
  HwCap = 2
  RingCap = 3
  BufSz = 2
  SemMax = 2
  MaxBytes = 6
  Size = 3
  Byte = {1, 2, 3, 4, 5, 6}
  MaxBlock = 2
SPECIFICATION ReceptionSpec
INVARIANTS NoByteUnseen InOrder BufferAgrees
PROPERTY Delivered
