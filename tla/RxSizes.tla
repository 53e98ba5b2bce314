-------------------------------- MODULE RxSizes --------------------------------
(***************************************************************************)
(* The sizes of the buffers between the RS485 line and iap_process.        *)
(***************************************************************************)
EXTENDS Naturals

CONSTANTS
  HwCap,     \* bytes the controller's FIFO holds
  RingCap,   \* BSP_UART6_RX_BUFSIZE
  BufSz,     \* sizeof(tmp_buf)
  SemMax,    \* RT_SEM_VALUE_MAX
  MaxBytes   \* bound: bytes on the line

ASSUME RxAssumption ==
  /\ HwCap \in Nat \ {0} /\ RingCap \in Nat \ {0} /\ BufSz \in Nat \ {0}
  /\ SemMax \in Nat \ {0} /\ MaxBytes \in Nat
=============================================================================
