------------------------------- MODULE RingBuffer ------------------------------
(***************************************************************************)
(* rt-thread/components/drivers/src/ringbuffer.c: the buffer between the   *)
(* interrupt handler of the RS485 port, which puts single bytes, and the   *)
(* thread that gets them in blocks, and between any other two users.       *)
(*                                                                         *)
(* Each index has a mirror bit that flips when the index wraps: equal      *)
(* indices mean empty when the bits agree and full when they differ.  The  *)
(* callers mask the interrupts around a call or are an interrupt handler,  *)
(* so a call is one step.                                                  *)
(***************************************************************************)
EXTENDS Naturals, Sequences

CONSTANTS
  Size,      \* buffer_size
  Byte,
  MaxBlock   \* bound: the longest block of one call

ASSUME RingAssumption == Size \in Nat \ {0} /\ MaxBlock \in Nat

VARIABLES
  pool,                        \* buffer_ptr[0 .. Size - 1]
  read_index, read_mirror,
  write_index, write_mirror,
  got                          \* the bytes the last call handed out

reader == <<read_index, read_mirror>>
writer == <<write_index, write_mirror>>
vars   == <<pool, reader, writer, got>>

Slots == 0 .. Size - 1

Empty == read_index = write_index /\ read_mirror = write_mirror
Full  == read_index = write_index /\ read_mirror # write_mirror

DataLen ==
  CASE Empty -> 0
    [] Full  -> Size
    [] OTHER -> IF write_index > read_index THEN write_index - read_index
                ELSE Size - (read_index - write_index)

Space == Size - DataLen

Least(a, b) == IF a < b THEN a ELSE b

(* The slot n places after slot i, and how far slot j is after slot i. *)
Slot(i, n)     == IF Size - i > n THEN i + n ELSE n - (Size - i)
Distance(i, j) == IF j >= i THEN j - i ELSE j + Size - i

(* The mirror bit of an index at i that moves on by n. *)
Mirror(bit, i, n) == IF Size - i > n THEN bit ELSE ~bit

(* memcpy to the write index, in two parts when it passes the end. *)
Stored(s) ==
  [j \in Slots |-> IF Distance(write_index, j) < Len(s)
                   THEN s[Distance(write_index, j) + 1] ELSE pool[j]]

Advance(n) ==
  /\ write_index' = Slot(write_index, n)
  /\ write_mirror' = Mirror(write_mirror, write_index, n)

(* rt_ringbuffer_put, and rt_ringbuffer_putchar for a block of one. *)
Put(s) ==
  LET kept == SubSeq(s, 1, Least(Len(s), Space))
  IN  /\ pool' = Stored(kept)
      /\ Advance(Len(kept))
      /\ got' = << >>
      /\ UNCHANGED reader

(* A writer that took more than the space drags the reader along. *)
Follow(n) ==
  IF n > Space
    THEN /\ read_index' = write_index'
         /\ read_mirror' = IF write_mirror' # write_mirror /\ write_index' <= read_index
                           THEN ~read_mirror ELSE read_mirror
    ELSE UNCHANGED reader

(* rt_ringbuffer_put_force, and rt_ringbuffer_putchar_force for a block of *)
(* one.                                                                    *)
PutForce(s) ==
  LET kept == IF Len(s) > Size THEN SubSeq(s, Len(s) - Size + 1, Len(s)) ELSE s
  IN  /\ pool' = Stored(kept)
      /\ Advance(Len(kept))
      /\ Follow(Len(kept))
      /\ got' = << >>

HandOut(n) ==
  /\ got' = [k \in 1 .. n |-> pool[Slot(read_index, k - 1)]]
  /\ read_index' = Slot(read_index, n)
  /\ read_mirror' = Mirror(read_mirror, read_index, n)
  /\ UNCHANGED <<pool, writer>>

(* Slip: all that was asked for is handed out.  (Operators introduced as   *)
(* "Slip:" are never used: each is a plausible mistake in the definition   *)
(* after it, kept to show that the properties would notice.)               *)
GetUnclipped(n) == HandOut(Least(n, Size))

(* rt_ringbuffer_get, and rt_ringbuffer_getchar for a block of one. *)
Get(n) == HandOut(Least(n, DataLen))

(* rt_ringbuffer_peak: the stored bytes up to the end of the pool. *)
Peak == HandOut(Least(DataLen, Size - read_index))

Reset ==
  /\ read_index' = 0 /\ read_mirror' = FALSE
  /\ write_index' = 0 /\ write_mirror' = FALSE
  /\ got' = << >>
  /\ UNCHANGED pool

Init ==
  /\ pool \in [Slots -> Byte]
  /\ read_index = 0 /\ read_mirror = FALSE
  /\ write_index = 0 /\ write_mirror = FALSE
  /\ got = << >>

Blocks == UNION {[1 .. n -> Byte] : n \in 0 .. MaxBlock}

Next ==
  \/ \E s \in Blocks : Put(s) \/ PutForce(s)
  \/ \E n \in 0 .. MaxBlock : Get(n)
  \/ Peak
  \/ Reset

Spec == Init /\ [][Next]_vars

(***************************************************************************)
(* Properties                                                              *)
(***************************************************************************)

(* The indices stay in the pool, and the writer is at most one lap ahead   *)
(* of the reader: the same mirror means that the reader is not past it,    *)
(* different mirrors that the writer is not past the reader.               *)
TypeOK ==
  /\ pool \in [Slots -> Byte]
  /\ read_index \in Slots /\ write_index \in Slots
  /\ read_mirror \in BOOLEAN /\ write_mirror \in BOOLEAN
  /\ got \in Seq(Byte)
  /\ read_mirror = write_mirror => read_index <= write_index
  /\ read_mirror # write_mirror => write_index <= read_index

(* The bytes between the indices, oldest first. *)
Stock == [k \in 1 .. DataLen |-> pool[Slot(read_index, k - 1)]]

(* The buffer is a bounded queue: bytes come out once, in the order they   *)
(* were put, whatever the mixture of calls and wherever the indices wrap;  *)
(* a put that does not fit leaves out its end, a forced one pushes out the *)
(* oldest bytes.                                                           *)
Queue == INSTANCE ByteQueue WITH queue <- Stock, Capacity <- Size

IsAQueue == Queue!Spec
=============================================================================
