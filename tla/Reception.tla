------------------------------- MODULE Reception -------------------------------
(***************************************************************************)
(* The reception of Rs485Rx with the ring buffer of RingBuffer under it:   *)
(* the interrupt handler's rt_ringbuffer_putchar and the thread's          *)
(* rt_ringbuffer_get are the calls of RingBuffer, in step with the queue   *)
(* `ring' that Rs485Rx takes the buffer for.                               *)
(***************************************************************************)
EXTENDS RxSizes, RingBuffer

(* The buffer of the port stores the bytes of the line; 1 is what it holds *)
(* before any of them.                                                     *)
ASSUME SameBuffer == Size = RingCap /\ (1 .. MaxBytes) \cup {1} \subseteq Byte

VARIABLES sent, hw, ring, sem, pc, bufsz, received, lost, masked   \* of Rs485Rx

Rx == INSTANCE Rs485Rx

all == <<vars, Rx!vars>>

ReceptionInit ==
  /\ Rx!Init
  /\ pool = [j \in Slots |-> 1] /\ got = << >>
  /\ read_index = 0 /\ read_mirror = FALSE
  /\ write_index = 0 /\ write_mirror = FALSE

IsrPuts == Rx!Isr /\ Put(<<Head(hw)>>)

ThreadGets == Rx!Read /\ Get(bufsz)

ThreadGoesOn == (Rx!Call \/ Rx!ResetSem \/ Rx!Take \/ Rx!Timeout) /\ UNCHANGED vars

Elsewhere == (Rx!Arrive \/ Rx!Mask \/ Rx!Unmask) /\ UNCHANGED vars

ReceptionNext == IsrPuts \/ ThreadGets \/ ThreadGoesOn \/ Elsewhere

(* Between two flash operations a pending interrupt is taken and the main  *)
(* thread, which waits for nothing but the semaphore, runs; the flash      *)
(* operations end.                                                         *)
ReceptionSpec ==
  /\ ReceptionInit /\ [][ReceptionNext]_all
  /\ WF_all(Rx!Unmask /\ UNCHANGED vars)
  /\ SF_all(IsrPuts) /\ SF_all(ThreadGets \/ ThreadGoesOn)

(***************************************************************************)
(* Properties                                                              *)
(***************************************************************************)

(* rs485_receive never sleeps over a byte of the ring buffer, whenever it  *)
(* was put there: Rs485Rx's NoByteUnseen.                                  *)
NoByteUnseen == Rx!NoByteUnseen

(* The indices and mirror bits always say what Rs485Rx's queue says: the   *)
(* bytes between them are the queue's, wherever they have wrapped, and     *)
(* what was handed out last is the end of what the thread has received.    *)
BufferAgrees ==
  /\ Stock = ring
  /\ got = SubSeq(received, Len(received) - Len(got) + 1, Len(received))

(* Bytes are handed over in the order of the line, none twice, and none    *)
(* disappears but by an overrun: Rs485Rx's InOrder.                        *)
InOrder == Rx!InOrder

(* Every byte is handed over in the end, or was overrun: none waits in the *)
(* FIFO or in the ring buffer for the next one to push it.                 *)
Delivered == Rx!Delivered
=============================================================================
