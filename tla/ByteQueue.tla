------------------------------- MODULE ByteQueue -------------------------------
(***************************************************************************)
(* What a ring buffer of RT-Thread promises: a bounded queue of bytes.     *)
(* RingBuffer is shown to implement it.                                    *)
(***************************************************************************)
EXTENDS Naturals, Sequences

CONSTANTS
  Blocks,    \* the sequences of bytes that are put
  Capacity

VARIABLES
  queue,   \* the bytes stored, oldest first
  got      \* the bytes the last call handed out

First(s, n) == SubSeq(s, 1, n)
After(s, n) == SubSeq(s, n + 1, Len(s))
Least(a, b) == IF a < b THEN a ELSE b

Init == queue = << >> /\ got = << >>

(* What does not fit is left out. *)
Put(s) ==
  /\ queue' = queue \o First(s, Least(Len(s), Capacity - Len(queue)))
  /\ got' = << >>

(* What does not fit pushes out the oldest. *)
PutForce(s) ==
  LET all == queue \o s
  IN  /\ queue' = IF Len(all) > Capacity THEN After(all, Len(all) - Capacity) ELSE all
      /\ got' = << >>

Take(n) ==
  /\ n <= Len(queue)
  /\ got' = First(queue, n)
  /\ queue' = After(queue, n)

Reset == queue' = << >> /\ got' = << >>

Next ==
  \/ \E s \in Blocks : Put(s) \/ PutForce(s)
  \/ \E n \in 0 .. Capacity : Take(n)
  \/ Reset

Spec == Init /\ [][Next]_<<queue, got>>
=============================================================================
