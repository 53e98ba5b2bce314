------------------------------- MODULE RxFraming -------------------------------
(***************************************************************************)
(* How iap_process (iap.c) finds the Modbus frames in the bytes of the     *)
(* RS485 line: it collects what rs485_receive hands over behind what was   *)
(* left, takes whole frames off the front, and gives up bytes, one at a    *)
(* time, when there are more than a frame can have or the line is silent.  *)
(*                                                                         *)
(* A cell is the kth byte of frame id, which has n bytes; Noise is a byte  *)
(* of no frame.  agile_modbus takes the front for a frame when all its     *)
(* bytes are there, in order: the CRC is taken to reject everything else,  *)
(* and a frame not to contain another.                                     *)
(***************************************************************************)
EXTENDS Naturals, Sequences

CONSTANTS
  Tmp,         \* sizeof(tmp_buf)
  Small, Big,  \* max_frame, before and after a SYNC: 50, 4200
  Buf,         \* sizeof(_ctx_read_buf)
  Lengths,     \* lengths of the frames on the line
  MaxFrames    \* bound: frames on the line

ASSUME FramingAssumption ==
  /\ Tmp \in Nat \ {0} /\ Small \in Nat /\ Big \in Nat /\ Buf \in Nat
  /\ Small <= Big /\ Big + Tmp <= Buf
  /\ Lengths \subseteq 1 .. Big
  /\ MaxFrames \in Nat

VARIABLES
  line,        \* bytes on the line that rs485_receive has not handed over
  tail,        \* end of a frame that pauses
  sent,        \* frames the line has carried
  pending,     \* ctx->read_buf, total_len bytes
  pc,          \* "receive", or "parse" in the loop of iap_process
  is_reset,
  is_remain,   \* g_system.is_remain
  intact,      \* frames on the line whole, without a pause, no longer than the loader expects
  handled      \* frames taken, in order

vars == <<line, tail, sent, pending, pc, is_reset, is_remain, intact, handled>>

Noise == [id |-> 0, k |-> 0, n |-> 0]
Frame(id, n) == [k \in 1 .. n |-> [id |-> id, k |-> k, n |-> n]]

Init ==
  /\ line = << >> /\ tail = << >> /\ sent = 0
  /\ pending = << >> /\ pc = "receive" /\ is_reset = FALSE
  /\ is_remain = FALSE
  /\ intact = {} /\ handled = << >>

MaxFrame == IF is_remain THEN Big ELSE Small

(***************************************************************************)
(* The line                                                                *)
(***************************************************************************)

Without(s, k) == SubSeq(s, 1, k - 1) \o SubSeq(s, k + 1, Len(s))

(* The next frame comes, whole; with a byte damaged or lost; or it pauses  *)
(* in the middle, at least until rs485_receive has waited in vain.         *)
Whole(f) ==
  /\ line' = line \o f
  /\ intact' = IF Len(f) <= MaxFrame THEN intact \cup {sent + 1} ELSE intact
  /\ UNCHANGED tail
Damaged(f) ==
  /\ \E k \in DOMAIN f : line' = line \o [f EXCEPT ![k] = Noise] \/ line' = line \o Without(f, k)
  /\ UNCHANGED <<tail, intact>>
Paused(f) ==
  /\ \E k \in 1 .. Len(f) - 1 : line' = line \o SubSeq(f, 1, k) /\ tail' = SubSeq(f, k + 1, Len(f))
  /\ UNCHANGED intact

Arrive ==
  /\ sent < MaxFrames /\ tail = << >>
  /\ sent' = sent + 1
  /\ \E n \in Lengths : \/ Whole(Frame(sent + 1, n))
                        \/ Damaged(Frame(sent + 1, n))
                        \/ Paused(Frame(sent + 1, n))
  /\ UNCHANGED <<pending, pc, is_reset, is_remain, handled>>

GoOn ==
  /\ tail # << >>
  /\ line' = line \o tail /\ tail' = << >>
  /\ UNCHANGED <<sent, pending, pc, is_reset, is_remain, intact, handled>>

(***************************************************************************)
(* iap_process                                                             *)
(***************************************************************************)

Least(a, b) == IF a < b THEN a ELSE b

(* is_reset: bytes are pending and nothing came for 15 ms. *)
Silent(rt) == rt = 0 /\ pending # << >>

(* rs485_receive hands over a full buffer, or all there is after 15 ms of  *)
(* silence; what does not fit behind the pending bytes is left out.        *)
Receive ==
  LET rt       == Least(Tmp, Len(line))
      read_len == Least(rt, Buf - Len(pending))
  IN  /\ pc = "receive"
      /\ pending' = pending \o SubSeq(line, 1, read_len)
      /\ line' = SubSeq(line, rt + 1, Len(line))
      /\ is_reset' = Silent(rt)
      /\ pc' = "parse"
      /\ UNCHANGED <<tail, sent, is_remain, intact, handled>>

(* agile_modbus_receive_judge: the front is a whole frame. *)
FrameAtFront ==
  /\ pending # << >>
  /\ pending[1].n <= Len(pending)
  /\ pending[1] # Noise
  /\ SubSeq(pending, 1, pending[1].n) = Frame(pending[1].id, pending[1].n)

(* Slip: the rest of the buffer is cleared with the frame.  (Operators     *)
(* introduced as "Slip:" are never used: each is a plausible mistake in    *)
(* the definition after it, kept to show that the properties would         *)
(* notice.)                                                                *)
HandleAndClear ==
  /\ pc = "parse" /\ FrameAtFront
  /\ pending' = << >>
  /\ handled' = Append(handled, pending[1].id)
  /\ is_remain' \in {is_remain, TRUE}
  /\ UNCHANGED <<line, tail, sent, pc, is_reset, intact>>

(* Slip: the frame stays in the buffer when nothing is behind it. *)
HandleInPlace ==
  /\ pc = "parse" /\ FrameAtFront
  /\ pending' = IF pending[1].n = Len(pending) THEN pending
                ELSE SubSeq(pending, pending[1].n + 1, Len(pending))
  /\ handled' = Append(handled, pending[1].id)
  /\ is_remain' \in {is_remain, TRUE}
  /\ UNCHANGED <<line, tail, sent, pc, is_reset, intact>>

(* agile_modbus_slave_handle; the frame may be a SYNC. *)
HandleFrame ==
  /\ pc = "parse" /\ FrameAtFront
  /\ pending' = SubSeq(pending, pending[1].n + 1, Len(pending))
  /\ handled' = Append(handled, pending[1].id)
  /\ is_remain' \in {is_remain, TRUE}
  /\ UNCHANGED <<line, tail, sent, pc, is_reset, intact>>

(* Slip: only the length counts. *)
GiveUpTooLong == Len(pending) > MaxFrame

GiveUp == Len(pending) > MaxFrame \/ is_reset

DropByte ==
  /\ pc = "parse" /\ pending # << >> /\ ~FrameAtFront /\ GiveUp
  /\ pending' = Tail(pending)
  /\ UNCHANGED <<line, tail, sent, pc, is_reset, is_remain, intact, handled>>

(* What is left moves to the front of the buffer and waits for more; or    *)
(* nothing is left.                                                        *)
PassEnds ==
  /\ pc = "parse"
  /\ pending = << >> \/ (~FrameAtFront /\ ~GiveUp)
  /\ pc' = "receive"
  /\ UNCHANGED <<line, tail, sent, pending, is_reset, is_remain, intact, handled>>

Pass == Receive \/ HandleFrame \/ DropByte \/ PassEnds

Next == Arrive \/ GoOn \/ Pass

Spec == Init /\ [][Next]_vars

(* system_process calls iap_process in every pass; a frame that pauses     *)
(* goes on.                                                                *)
FairSpec == Spec /\ WF_vars(Pass) /\ WF_vars(GoOn)

(***************************************************************************)
(* Properties                                                              *)
(***************************************************************************)

TypeOK ==
  /\ sent \in 0 .. MaxFrames
  /\ pc \in {"receive", "parse"}
  /\ is_reset \in BOOLEAN /\ is_remain \in BOOLEAN
  /\ intact \subseteq 1 .. sent
  /\ Len(pending) <= Buf /\ (pc = "receive" => Len(pending) <= MaxFrame)

(* Every frame is handled at most once, and in the order of the line:      *)
(* dropping bytes or moving them to the front never brings one back.       *)
OnceInOrder == \A i, j \in DOMAIN handled : i < j => handled[i] < handled[j]

(* No byte of an intact frame is given up, whatever noise, damage or cut   *)
(* frame is before it, and however the frame is split over calls: until    *)
(* the frame is handled, all its bytes are pending or on the line.         *)
IntactStays ==
  \A id \in intact :
    \/ \E i \in DOMAIN handled : handled[i] = id
    \/ LET all == pending \o line
       IN  \E n \in Lengths : \E i \in 0 .. Len(all) - n :
             SubSeq(all, i + 1, i + n) = Frame(id, n)

(* What is kept from one pass to the next leaves room for a whole call:    *)
(* the clipping of read_len never happens, no byte is lost there.          *)
RoomForACall == pc = "receive" => Len(pending) + Tmp <= Buf

(* Every intact frame is handled: noise before it can delay it until the   *)
(* line is silent, never for good.                                         *)
IntactHandled ==
  \A id \in 1 .. MaxFrames :
    (id \in intact) ~> (\E i \in DOMAIN handled : handled[i] = id)
=============================================================================
