------------------------------- MODULE Rs485Rx --------------------------------
(***************************************************************************)
(* How bytes of the RS485 line reach the loader: the interrupt handler of  *)
(* the port (drv_uart_v2.c, serial_v2.c) moves them one by one from the    *)
(* controller's FIFO to the ring buffer and releases a semaphore;          *)
(* rs485_receive (iap.c) resets the semaphore, reads, and sleeps on it     *)
(* when there was nothing.                                                 *)
(*                                                                         *)
(* Bytes are numbered in the order of the line.  The ring buffer is the    *)
(* bounded queue that RingBuffer is shown to be.  While another user masks *)
(* the interrupts (a flash operation, FlashPort) neither the handler nor   *)
(* the thread runs, and the line does not wait.  Reception runs it.        *)
(***************************************************************************)
EXTENDS RxSizes, Sequences

VARIABLES
  sent,       \* bytes the line has carried
  hw,         \* the controller's FIFO
  ring,       \* serial_rx->rb
  sem,        \* _rx_notice->value
  pc,         \* where rs485_receive is; "idle" outside a call
  bufsz,      \* room left in the caller's buffer
  received,   \* bytes handed over, over all calls
  lost,
  masked      \* the interrupts are masked

vars == <<sent, hw, ring, sem, pc, bufsz, received, lost, masked>>

Init ==
  /\ sent = 0 /\ hw = << >> /\ ring = << >> /\ sem = 0
  /\ pc = "idle" /\ bufsz = BufSz
  /\ received = << >> /\ lost = {} /\ masked = FALSE

(* The line: a byte that finds the controller's FIFO full is overrun. *)
Arrive ==
  /\ sent < MaxBytes
  /\ sent' = sent + 1
  /\ IF Len(hw) < HwCap THEN hw' = Append(hw, sent + 1) /\ UNCHANGED lost
                        ELSE lost' = lost \cup {sent + 1} /\ UNCHANGED hw
  /\ UNCHANGED <<ring, sem, pc, bufsz, received, masked>>

Mask   == masked = FALSE /\ masked' = TRUE
          /\ UNCHANGED <<sent, hw, ring, sem, pc, bufsz, received, lost>>
Unmask == masked = TRUE /\ masked' = FALSE
          /\ UNCHANGED <<sent, hw, ring, sem, pc, bufsz, received, lost>>

(* rt_sem_release: a sleeper is woken, otherwise the count goes up until   *)
(* it is full.                                                             *)
Release ==
  IF pc = "asleep" THEN pc' = "reset" /\ UNCHANGED sem
  ELSE /\ sem' = IF sem < SemMax THEN sem + 1 ELSE sem
       /\ UNCHANGED pc

(* Slip: the controller interrupts when its FIFO is full.  (Operators      *)
(* introduced as "Slip:" are never used: each is a plausible mistake in    *)
(* the definition after it, kept to show that the properties would         *)
(* notice.)                                                                *)
IsrAtFullFifo ==
  /\ masked = FALSE /\ Len(hw) = HwCap
  /\ hw' = Tail(hw)
  /\ IF Len(ring) < RingCap THEN ring' = Append(ring, Head(hw)) /\ UNCHANGED lost
                            ELSE lost' = lost \cup {Head(hw)} /\ UNCHANGED ring
  /\ Release
  /\ UNCHANGED <<sent, bufsz, received, masked>>

(* One byte per interrupt; a full ring buffer leaves the new byte out.     *)
Isr ==
  /\ masked = FALSE /\ hw # << >>
  /\ hw' = Tail(hw)
  /\ IF Len(ring) < RingCap THEN ring' = Append(ring, Head(hw)) /\ UNCHANGED lost
                            ELSE lost' = lost \cup {Head(hw)} /\ UNCHANGED ring
  /\ Release
  /\ UNCHANGED <<sent, bufsz, received, masked>>

At(place) == masked = FALSE /\ pc = place

Call ==
  /\ At("idle")
  /\ pc' = "reset" /\ bufsz' = BufSz
  /\ UNCHANGED <<sent, hw, ring, sem, received, lost, masked>>

ResetSem ==
  /\ At("reset")
  /\ sem' = 0 /\ pc' = "read"
  /\ UNCHANGED <<sent, hw, ring, bufsz, received, lost, masked>>

Least(a, b) == IF a < b THEN a ELSE b

(* Slip: a read that fills the caller's buffer leaves the bytes where they *)
(* are.                                                                    *)
ReadLeavesLast ==
  LET n == Least(bufsz, Len(ring))
  IN  /\ At("read")
      /\ received' = received \o SubSeq(ring, 1, n)
      /\ ring' = IF n = bufsz THEN ring ELSE SubSeq(ring, n + 1, Len(ring))
      /\ bufsz' = bufsz - n
      /\ pc' = CASE n = 0       -> "take"
                 [] n = bufsz   -> "idle"
                 [] OTHER       -> "reset"
      /\ UNCHANGED <<sent, hw, sem, lost, masked>>

Read ==
  LET n == Least(bufsz, Len(ring))
  IN  /\ At("read")
      /\ received' = received \o SubSeq(ring, 1, n)
      /\ ring' = SubSeq(ring, n + 1, Len(ring))
      /\ bufsz' = bufsz - n
      /\ pc' = CASE n = 0       -> "take"
                 [] n = bufsz   -> "idle"
                 [] OTHER       -> "reset"
      /\ UNCHANGED <<sent, hw, sem, lost, masked>>

(* Slip: the semaphore is reset when there was nothing to read, not before *)
(* the read.                                                               *)
TakeAfterReset ==
  /\ At("take")
  /\ sem' = 0 /\ pc' = "asleep"
  /\ UNCHANGED <<sent, hw, ring, bufsz, received, lost, masked>>

(* rt_sem_take: a count lets the thread go on at once. *)
Take ==
  /\ At("take")
  /\ IF sem > 0 THEN sem' = sem - 1 /\ pc' = "reset"
                ELSE pc' = "asleep" /\ UNCHANGED sem
  /\ UNCHANGED <<sent, hw, ring, bufsz, received, lost, masked>>

(* 15 ms without a byte: the call returns. *)
Timeout ==
  /\ At("asleep")
  /\ pc' = "idle"
  /\ UNCHANGED <<sent, hw, ring, sem, bufsz, received, lost, masked>>

Thread == Call \/ ResetSem \/ Read \/ Take \/ Timeout

Next == Arrive \/ Mask \/ Unmask \/ Isr \/ Thread

Spec == Init /\ [][Next]_vars

(***************************************************************************)
(* Properties                                                              *)
(***************************************************************************)

TypeOK ==
  /\ sent \in 0 .. MaxBytes
  /\ hw \in Seq(1 .. MaxBytes) /\ Len(hw) <= HwCap
  /\ ring \in Seq(1 .. MaxBytes) /\ Len(ring) <= RingCap
  /\ sem \in 0 .. SemMax
  /\ pc \in {"idle", "reset", "read", "take", "asleep"}
  /\ bufsz \in 0 .. BufSz
  /\ pc \in {"reset", "read", "take", "asleep"} => bufsz > 0
  /\ received \in Seq(1 .. MaxBytes)
  /\ lost \subseteq 1 .. MaxBytes
  /\ masked \in BOOLEAN

(* rs485_receive never sleeps over a byte it could read: whenever the byte *)
(* came, between the reset and the read, or between the read and the take, *)
(* the semaphore tells.  A call that times out therefore ends in silence,  *)
(* which iap_process takes for the end of a frame.                         *)
NoByteUnseen == pc = "asleep" => ring = << >>

(* The bytes are handed over in the order of the line, none twice, and     *)
(* none disappears but by an overrun of the FIFO or of the ring buffer.    *)
InOrder ==
  LET kept == received \o ring \o hw
  IN  /\ \A i, j \in DOMAIN kept : i < j => kept[i] < kept[j]
      /\ {kept[i] : i \in DOMAIN kept} = (1 .. sent) \ lost

(* Every byte is handed over in the end, or was overrun: none waits in the *)
(* FIFO or in the ring buffer for the next one to push it.                 *)
Delivered ==
  \A b \in 1 .. MaxBytes :
    (sent >= b) ~> (b \in lost \/ \E i \in DOMAIN received : received[i] = b)
=============================================================================
