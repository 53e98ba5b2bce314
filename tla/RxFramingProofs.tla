---------------------------- MODULE RxFramingProofs ----------------------------
(***************************************************************************)
(* Proofs about RxFraming: for buffers of any size with Big + Tmp <= Buf,  *)
(* what is kept between two passes leaves room for a whole call, so that   *)
(* the clipping of read_len never loses a byte.  From that: frames are     *)
(* handled in order and none of them twice, and no byte of an intact frame *)
(* is given up, whatever noise and damaged frames come before it.          *)
(***************************************************************************)
EXTENDS RxFraming, SequenceTheorems, TLAPS

Byte == [id : Nat, k : Nat, n : Nat]

(* The invariant: the bytes are in sequences, and a pass leaves at most    *)
(* the longest frame behind.                                               *)
Inv ==
  /\ TypeOK
  /\ line \in Seq(Byte) /\ tail \in Seq(Byte) /\ pending \in Seq(Byte)

LEMMA Constants ==
  /\ Tmp \in Nat \ {0} /\ Small \in Nat /\ Big \in Nat /\ Buf \in Nat
  /\ Small <= Big /\ Big + Tmp <= Buf /\ MaxFrames \in Nat
  /\ MaxFrame \in Nat /\ MaxFrame <= Big
BY FramingAssumption DEF MaxFrame

LEMMA FrameType ==
  ASSUME NEW id \in Nat, NEW n \in Lengths
  PROVE  Frame(id, n) \in Seq(Byte) /\ Len(Frame(id, n)) = n
<1>1. n \in Nat
  BY FramingAssumption
<1> QED
  BY <1>1 DEF Frame, Byte

(* What is cut out of a sequence is one. *)
LEMMA PartType ==
  ASSUME NEW s \in Seq(Byte), NEW a \in 1 .. Len(s) + 1, NEW b \in 0 .. Len(s)
  PROVE  /\ SubSeq(s, a, b) \in Seq(Byte)
         /\ Len(SubSeq(s, a, b)) = IF a <= b THEN b - a + 1 ELSE 0
BY SubSeqProperties

LEMMA InitInv == Init => Inv
<1> SUFFICES ASSUME Init PROVE Inv
  OBVIOUS
<1>1. line \in Seq(Byte) /\ tail \in Seq(Byte) /\ pending \in Seq(Byte) /\ Len(pending) = 0
  BY DEF Init
<1>2. sent \in 0 .. MaxFrames /\ intact \subseteq 1 .. sent
  BY Constants DEF Init
<1>3. 0 <= Buf /\ 0 <= MaxFrame
  BY Constants
<1> QED
  BY <1>1, <1>2, <1>3 DEF Init, Inv, TypeOK

LEMMA ArriveInv == Inv /\ Arrive => Inv'
<1> SUFFICES ASSUME Inv, Arrive PROVE Inv'
  OBVIOUS
<1>1. sent \in Nat /\ MaxFrames \in Nat /\ sent + 1 \in 1 .. MaxFrames
      /\ intact \subseteq 1 .. sent
  BY Constants DEF Inv, TypeOK, Arrive
<1>2. PICK n \in Lengths : \/ Whole(Frame(sent + 1, n))
                           \/ Damaged(Frame(sent + 1, n))
                           \/ Paused(Frame(sent + 1, n))
  BY DEF Arrive
<1> DEFINE f == Frame(sent + 1, n)
<1>3. f \in Seq(Byte) /\ n \in Nat /\ Len(f) = n
  BY <1>1, FrameType, FramingAssumption
<1> HIDE DEF f
<1>4. line' \in Seq(Byte) /\ tail' \in Seq(Byte)
  <2>1. CASE Whole(f)
    BY <1>3, <2>1 DEF Whole, Inv
  <2>2. CASE Damaged(f)
    <3>1. PICK k \in DOMAIN f : line' = line \o [f EXCEPT ![k] = Noise] \/ line' = line \o Without(f, k)
      BY <2>2 DEF Damaged
    <3>2. k \in 1 .. Len(f)
      BY <1>3
    <3>3. [f EXCEPT ![k] = Noise] \in Seq(Byte)
      <4>1. Noise \in Byte
        BY DEF Noise, Byte
      <4> QED
        BY <1>3, <3>2, <4>1, ExceptSeq
    <3>4. SubSeq(f, 1, k - 1) \in Seq(Byte) /\ SubSeq(f, k + 1, Len(f)) \in Seq(Byte)
      BY <1>3, <3>2, PartType
    <3>5. Without(f, k) \in Seq(Byte)
      BY <3>4 DEF Without
    <3>6. line \in Seq(Byte) /\ tail \in Seq(Byte) /\ tail' = tail
      BY <2>2 DEF Damaged, Inv
    <3>7. CASE line' = line \o [f EXCEPT ![k] = Noise]
      <4> DEFINE g == [f EXCEPT ![k] = Noise]
      <4>1. g \in Seq(Byte) /\ line' = line \o g
        BY <3>3, <3>7
      <4> HIDE DEF g
      <4> QED
        BY <3>6, <4>1
    <3>8. CASE line' = line \o Without(f, k)
      BY <3>5, <3>6, <3>8
    <3> QED
      BY <3>1, <3>7, <3>8
  <2>3. CASE Paused(f)
    <3>1. PICK k \in 1 .. Len(f) - 1 : line' = line \o SubSeq(f, 1, k) /\ tail' = SubSeq(f, k + 1, Len(f))
      BY <2>3 DEF Paused
    <3>2. SubSeq(f, 1, k) \in Seq(Byte) /\ SubSeq(f, k + 1, Len(f)) \in Seq(Byte)
      BY <1>3, PartType
    <3> QED
      BY <3>1, <3>2 DEF Inv
  <2> QED
    BY <1>2, <2>1, <2>2, <2>3 DEF f
<1>5. intact' \subseteq 1 .. sent'
  <2>1. intact' = intact \/ intact' = intact \cup {sent + 1}
    BY <1>2 DEF Whole, Damaged, Paused
  <2>2. intact \subseteq 1 .. sent + 1 /\ sent + 1 \in 1 .. sent + 1
    BY <1>1
  <2>3. sent' = sent + 1
    BY DEF Arrive
  <2> QED
    BY <2>1, <2>2, <2>3
<1>6. sent' = sent + 1 /\ UNCHANGED <<pending, pc, is_reset, is_remain>>
  BY DEF Arrive
<1> QED
  BY <1>1, <1>4, <1>5, <1>6 DEF Inv, TypeOK, MaxFrame

LEMMA ReceiveInv == Inv /\ Receive => Inv'
<1> SUFFICES ASSUME Inv, Receive PROVE Inv'
  OBVIOUS
<1> DEFINE rt       == Least(Tmp, Len(line))
           read_len == Least(rt, Buf - Len(pending))
<1>1. /\ Len(pending) \in Nat /\ Len(line) \in Nat /\ Len(pending) <= MaxFrame
  BY DEF Inv, TypeOK, Receive
<1>2. /\ rt \in 0 .. Len(line) /\ rt <= Tmp
      /\ read_len \in 0 .. Len(line) /\ Len(pending) + read_len <= Buf
  BY <1>1, Constants DEF Least
<1>3. /\ pending' = pending \o SubSeq(line, 1, read_len)
      /\ line' = SubSeq(line, rt + 1, Len(line))
      /\ is_reset' = Silent(rt) /\ pc' = "parse"
      /\ UNCHANGED <<tail, sent, is_remain, intact, handled>>
  BY DEF Receive
<1> HIDE DEF rt, read_len
<1>4. SubSeq(line, 1, read_len) \in Seq(Byte) /\ Len(SubSeq(line, 1, read_len)) = read_len
  BY <1>1, <1>2, PartType DEF Inv
<1>5. line' \in Seq(Byte)
  BY <1>1, <1>2, <1>3, PartType DEF Inv
<1>6. pending' \in Seq(Byte) /\ Len(pending') = Len(pending) + read_len
  BY <1>3, <1>4 DEF Inv
<1> QED
  BY <1>2, <1>3, <1>5, <1>6 DEF Inv, TypeOK, Silent

LEMMA StepInv == Inv /\ [Next]_vars => Inv'
<1> SUFFICES ASSUME Inv, [Next]_vars PROVE Inv'
  OBVIOUS
<1>1. CASE Arrive
  BY <1>1, ArriveInv
<1>2. CASE GoOn
  BY <1>2 DEF GoOn, Inv, TypeOK, MaxFrame
<1>3. CASE Receive
  BY <1>3, ReceiveInv
<1>4. CASE HandleFrame
  <2>1. pending \in Seq(Byte) /\ pending # << >> /\ pending[1].n <= Len(pending)
    BY <1>4 DEF HandleFrame, FrameAtFront, Inv
  <2>2. pending[1].n \in Nat /\ Len(pending) \in Nat
    <3>1. Len(pending) \in Nat /\ 1 \in 1 .. Len(pending)
      BY <2>1
    <3>2. pending[1] \in Byte
      BY <2>1, <3>1
    <3> QED
      BY <3>1, <3>2 DEF Byte
  <2>3. pending' \in Seq(Byte) /\ Len(pending') <= Len(pending)
    BY <1>4, <2>1, <2>2, PartType DEF HandleFrame
  <2>4. /\ pc = "parse" /\ UNCHANGED <<line, tail, sent, pc, is_reset, intact>>
        /\ is_remain' \in {is_remain, TRUE}
    BY <1>4 DEF HandleFrame
  <2>5. Len(pending') <= Buf
    BY <2>2, <2>3, Constants DEF Inv, TypeOK
  <2> QED
    BY <2>3, <2>4, <2>5 DEF Inv, TypeOK
<1>5. CASE DropByte
  <2>1. pending' \in Seq(Byte) /\ Len(pending') <= Len(pending) /\ Len(pending) \in Nat
    BY <1>5 DEF DropByte, Inv
  <2> QED
    BY <1>5, <2>1, Constants DEF DropByte, Inv, TypeOK
<1>6. CASE PassEnds
  <2>1. pending = << >> \/ Len(pending) <= MaxFrame
    BY <1>6, Constants DEF PassEnds, GiveUp, Inv
  <2> QED
    BY <1>6, <2>1, Constants DEF PassEnds, Inv, TypeOK, MaxFrame
<1>7. CASE UNCHANGED vars
  BY <1>7 DEF vars, Inv, TypeOK, MaxFrame
<1> QED
  BY <1>1, <1>2, <1>3, <1>4, <1>5, <1>6, <1>7 DEF Next, Pass

LEMMA AlwaysInv == Spec => []Inv
BY InitInv, StepInv, PTL DEF Spec

(* The variables keep to their types, and the pending bytes to the buffer. *)
THEOREM FramingTypeCorrect == Spec => []TypeOK
<1>1. Inv => TypeOK
  BY DEF Inv
<1> QED
  BY <1>1, AlwaysInv, PTL

(* Between two passes there is room for all that one call of rs485_receive *)
(* may return.                                                             *)
THEOREM AlwaysRoomForACall == Spec => []RoomForACall
<1>1. Inv => RoomForACall
  BY Constants DEF Inv, TypeOK, RoomForACall
<1> QED
  BY <1>1, AlwaysInv, PTL

(***************************************************************************)
(* Order of the frames                                                     *)
(***************************************************************************)

(* All bytes that are still to be looked at. *)
Stream == (pending \o line) \o tail

(* The bytes of frames, noise left aside, are in the order in which they   *)
(* were sent; they are of the first m frames; and none is of a frame that  *)
(* was taken before, but for the end of one. *)
Before(a, b) == a.id < b.id \/ (a.id = b.id /\ a.k < b.k)
Ordered(s) == \A i, j \in 1 .. Len(s) :
                i < j /\ s[i].id # 0 /\ s[j].id # 0 => Before(s[i], s[j])
Genuine(s, m) == \A i \in 1 .. Len(s) :
                   s[i] = Noise \/ (s[i].id \in 1 .. m /\ s[i].k >= 1 /\ s[i].n >= 1)
Past(h, s) == \A g \in 1 .. Len(h), i \in 1 .. Len(s) :
                s[i].id # 0 => h[g] < s[i].id \/ (h[g] = s[i].id /\ s[i].k > 1)
Rising(h) == \A i, j \in 1 .. Len(h) : i < j => h[i] < h[j]

OrderInv ==
  /\ Inv
  /\ Ordered(Stream) /\ Genuine(Stream, sent)
  /\ handled \in Seq(1 .. sent)
  /\ Rising(handled) /\ Past(handled, Stream)

(* t is s without its first d elements. *)
Behind(s, t, d) ==
  Len(t) = Len(s) - d /\ \A i \in 1 .. Len(t) : i + d \in 1 .. Len(s) /\ t[i] = s[i + d]

LEMMA BehindKeeps ==
  ASSUME NEW s, NEW t, NEW d \in Nat, Behind(s, t, d), NEW m, NEW h, Len(t) \in Nat
  PROVE  /\ Ordered(s) => Ordered(t)
         /\ Genuine(s, m) => Genuine(t, m)
         /\ Past(h, s) => Past(h, t)
<1>1. ASSUME Ordered(s) PROVE Ordered(t)
  <2>1. ASSUME NEW i \in 1 .. Len(t), NEW j \in 1 .. Len(t), i < j, t[i].id # 0, t[j].id # 0
        PROVE  Before(t[i], t[j])
    <3>1. /\ i + d \in 1 .. Len(s) /\ j + d \in 1 .. Len(s)
          /\ t[i] = s[i + d] /\ t[j] = s[j + d]
      BY DEF Behind
    <3>2. i + d < j + d
      BY <2>1
    <3> QED
      BY <1>1, <2>1, <3>1, <3>2 DEF Ordered
  <2> QED
    BY <2>1 DEF Ordered
<1>2. Genuine(s, m) => Genuine(t, m)
  BY DEF Genuine, Behind
<1>3. Past(h, s) => Past(h, t)
  BY DEF Past, Behind
<1> QED
  BY <1>1, <1>2, <1>3

LEMMA Streams ==
  Inv => /\ pending \in Seq(Byte) /\ line \in Seq(Byte) /\ tail \in Seq(Byte)
         /\ pending \o line \in Seq(Byte) /\ Stream \in Seq(Byte)
         /\ Len(pending) \in Nat /\ Len(line) \in Nat /\ Len(tail) \in Nat
         /\ Len(pending \o line) = Len(pending) + Len(line)
         /\ Len(Stream) = Len(pending) + Len(line) + Len(tail)
         /\ \A i \in 1 .. Len(pending) : (pending \o line)[i] = pending[i] /\ Stream[i] = pending[i]
<1> SUFFICES ASSUME Inv
    PROVE  /\ pending \in Seq(Byte) /\ line \in Seq(Byte) /\ tail \in Seq(Byte)
           /\ pending \o line \in Seq(Byte) /\ Stream \in Seq(Byte)
           /\ Len(pending) \in Nat /\ Len(line) \in Nat /\ Len(tail) \in Nat
           /\ Len(pending \o line) = Len(pending) + Len(line)
           /\ Len(Stream) = Len(pending) + Len(line) + Len(tail)
           /\ \A i \in 1 .. Len(pending) : (pending \o line)[i] = pending[i] /\ Stream[i] = pending[i]
  OBVIOUS
<1>1. /\ pending \in Seq(Byte) /\ line \in Seq(Byte) /\ tail \in Seq(Byte)
      /\ Len(pending) \in Nat /\ Len(line) \in Nat /\ Len(tail) \in Nat
  BY LenProperties DEF Inv
<1>2. /\ pending \o line \in Seq(Byte) /\ Len(pending \o line) = Len(pending) + Len(line)
      /\ \A i \in 1 .. Len(pending) + Len(line) :
           (pending \o line)[i] = IF i <= Len(pending) THEN pending[i] ELSE line[i - Len(pending)]
  BY <1>1, ConcatProperties
<1> DEFINE both == pending \o line
<1>3. both \in Seq(Byte) /\ Len(both) = Len(pending) + Len(line)
  BY <1>2
<1>4. Stream = both \o tail
  BY DEF Stream
<1> HIDE DEF both
<1>5. /\ Stream \in Seq(Byte) /\ Len(Stream) = Len(both) + Len(tail)
      /\ \A i \in 1 .. Len(both) + Len(tail) : Stream[i] = IF i <= Len(both) THEN both[i] ELSE tail[i - Len(both)]
  <2>1. \A p, q \in Seq(Byte) :
          /\ p \o q \in Seq(Byte) /\ Len(p \o q) = Len(p) + Len(q)
          /\ \A i \in 1 .. Len(p) + Len(q) : (p \o q)[i] = IF i <= Len(p) THEN p[i] ELSE q[i - Len(p)]
    BY ConcatProperties
  <2> QED
    BY <1>1, <1>3, <1>4, <2>1
<1>6. \A i \in 1 .. Len(pending) : both[i] = pending[i]
  BY <1>1, <1>2 DEF both
<1>7. \A i \in 1 .. Len(pending) : Stream[i] = pending[i]
  BY <1>1, <1>3, <1>5, <1>6
<1> QED
  BY <1>1, <1>2, <1>3, <1>5, <1>6, <1>7 DEF both

(* What one step puts behind the stream: a frame, a byte damaged or lost. *)
OfFrame(g, m) ==
  /\ \A i \in 1 .. Len(g) : g[i] = Noise \/ (g[i].id = m /\ g[i].k >= 1 /\ g[i].n >= 1 /\ g[i].k \in Nat)
  /\ \A i, j \in 1 .. Len(g) : i < j /\ g[i].id # 0 /\ g[j].id # 0 => g[i].k < g[j].k

LEMMA Regrouped ==
  \A p, q, r \in Seq(Byte) : (p \o q) \o r = p \o (q \o r)
BY ConcatAssociative

LEMMA ArrivesBehind ==
  ASSUME Inv, Arrive
  PROVE  \E g \in Seq(Byte) : Stream' = Stream \o g /\ OfFrame(g, sent + 1)
<1>1. sent \in Nat /\ tail = << >> /\ pending' = pending
  BY DEF Inv, TypeOK, Arrive
<1>2. PICK n \in Lengths : \/ Whole(Frame(sent + 1, n))
                           \/ Damaged(Frame(sent + 1, n))
                           \/ Paused(Frame(sent + 1, n))
  BY DEF Arrive
<1> DEFINE f == Frame(sent + 1, n)
<1>3. /\ f \in Seq(Byte) /\ n \in Nat /\ Len(f) = n /\ DOMAIN f = 1 .. n
      /\ \A k \in 1 .. n : f[k].id = sent + 1 /\ f[k].k = k /\ f[k].n = n
  <2>1. f \in Seq(Byte) /\ n \in Nat /\ Len(f) = n
    BY <1>1, FrameType, FramingAssumption
  <2> QED
    BY <2>1, LenProperties DEF Frame
<1> HIDE DEF f
<1>4. OfFrame(f, sent + 1)
  BY <1>3 DEF OfFrame
<1>5. ASSUME NEW x \in Seq(Byte), NEW rest \in Seq(Byte), line' = line \o x, tail' = rest
      PROVE  Stream' = Stream \o (x \o rest) /\ x \o rest \in Seq(Byte)
  <2>1. /\ pending \in Seq(Byte) /\ line \in Seq(Byte) /\ pending \o line \in Seq(Byte)
    BY Streams
  <2>2. \A p, q, r \in Seq(Byte) : (p \o q) \o r = p \o (q \o r)
    BY Regrouped
  <2>20. \A p, q \in Seq(Byte) : p \o q \in Seq(Byte)
    BY ConcatProperties
  <2>21. (pending \o line) \o x = pending \o (line \o x)
    BY <2>1, <2>2
  <2>3. Stream = pending \o line
    BY <1>1, <2>1, ConcatEmptySeq DEF Stream
  <2>4. Stream' = (pending \o (line \o x)) \o rest
    BY <1>1, <1>5 DEF Stream
  <2>5. pending \o (line \o x) = Stream \o x
    BY <2>3, <2>21
  <2>6. (Stream \o x) \o rest = Stream \o (x \o rest)
    BY <2>1, <2>2, <2>3
  <2> QED
    BY <2>20, <2>4, <2>5, <2>6
<1>6. ASSUME NEW x \in Seq(Byte), line' = line \o x, tail' = tail, OfFrame(x, sent + 1)
      PROVE  \E g \in Seq(Byte) : Stream' = Stream \o g /\ OfFrame(g, sent + 1)
  <2>1. << >> \in Seq(Byte) /\ x \o << >> = x
    BY EmptySeq, ConcatEmptySeq
  <2> QED
    BY <1>1, <1>5, <1>6, <2>1
<1>7. CASE Whole(f)
  BY <1>3, <1>4, <1>6, <1>7 DEF Whole
<1>8. CASE Damaged(f)
  <2>1. PICK k \in DOMAIN f : line' = line \o [f EXCEPT ![k] = Noise] \/ line' = line \o Without(f, k)
    BY <1>8 DEF Damaged
  <2>2. k \in 1 .. n /\ tail' = tail
    BY <1>3, <1>8 DEF Damaged
  <2>3. CASE line' = line \o [f EXCEPT ![k] = Noise]
    <3> DEFINE x == [f EXCEPT ![k] = Noise]
    <3>1. Noise \in Byte /\ Noise.id = 0
      BY DEF Noise, Byte
    <3>2. /\ x \in Seq(Byte) /\ Len(x) = n
          /\ \A j \in 1 .. n : x[j] = IF j = k THEN Noise ELSE f[j]
      BY <1>3, <2>2, <3>1, ExceptSeq
    <3>3. line' = line \o x
      BY <2>3
    <3> HIDE DEF x
    <3>4. OfFrame(x, sent + 1)
      BY <1>3, <3>1, <3>2 DEF OfFrame
    <3> QED
      BY <1>6, <2>2, <3>2, <3>3, <3>4
  <2>4. CASE line' = line \o Without(f, k)
    <3> DEFINE front == SubSeq(f, 1, k - 1)
               back  == SubSeq(f, k + 1, n)
               x     == front \o back
    <3>1. \A i \in 1 .. n : f[i] \in Byte
      BY <1>3, ElementOfSeq
    <3>2. /\ front \in Seq(Byte) /\ Len(front) = k - 1
          /\ \A i \in 1 .. k - 1 : front[i] = f[i]
      <4>1. /\ 1 \in Int /\ k - 1 \in Int /\ \A i \in 1 .. k - 1 : f[i] \in Byte
        BY <1>3, <2>2, <3>1
      <4>2. /\ front \in Seq(Byte) /\ Len(front) = IF 1 <= k - 1 THEN k - 1 - 1 + 1 ELSE 0
            /\ \A i \in 1 .. k - 1 - 1 + 1 : front[i] = f[1 + i - 1]
        BY <4>1, SubSeqProperties
      <4> HIDE DEF front
      <4> QED
        BY <1>3, <2>2, <4>2
    <3>3. /\ back \in Seq(Byte) /\ Len(back) = n - k
          /\ \A i \in 1 .. n - k : back[i] = f[k + i]
      <4>1. /\ k + 1 \in Int /\ n \in Int /\ \A i \in k + 1 .. n : f[i] \in Byte
        BY <1>3, <2>2, <3>1
      <4>2. /\ back \in Seq(Byte) /\ Len(back) = IF k + 1 <= n THEN n - (k + 1) + 1 ELSE 0
            /\ \A i \in 1 .. n - (k + 1) + 1 : back[i] = f[k + 1 + i - 1]
        BY <4>1, SubSeqProperties
      <4>3. /\ n - (k + 1) + 1 = n - k /\ \A i \in 1 .. n - k : k + 1 + i - 1 = k + i
            /\ k + 1 <= n \/ n - k = 0
        BY <1>3, <2>2
      <4> HIDE DEF back
      <4> QED
        BY <4>2, <4>3
    <3>4. line' = line \o x
      BY <1>3, <2>4 DEF Without
    <3> HIDE DEF front, back
    <3>5. /\ x \in Seq(Byte) /\ Len(x) = n - 1
          /\ \A i \in 1 .. n - 1 : x[i] = IF i <= k - 1 THEN front[i] ELSE back[i - (k - 1)]
      <4>1. /\ x \in Seq(Byte) /\ Len(x) = Len(front) + Len(back)
            /\ \A i \in 1 .. Len(front) + Len(back) :
                 x[i] = IF i <= Len(front) THEN front[i] ELSE back[i - Len(front)]
        BY <3>2, <3>3, ConcatProperties
      <4>2. (k - 1) + (n - k) = n - 1
        BY <1>3, <2>2
      <4> HIDE DEF x
      <4> QED
        BY <3>2, <3>3, <4>1, <4>2
    <3> HIDE DEF x
    <3>6. \A i \in 1 .. n - 1 : i \in 1 .. n /\ i + 1 \in 1 .. n
                                /\ x[i] = IF i <= k - 1 THEN f[i] ELSE f[i + 1]
      <4>1. ASSUME NEW i \in 1 .. n - 1
            PROVE  i \in 1 .. n /\ i + 1 \in 1 .. n
                   /\ x[i] = IF i <= k - 1 THEN f[i] ELSE f[i + 1]
        <5>1. /\ i \in 1 .. n /\ i + 1 \in 1 .. n
              /\ i <= k - 1 => i \in 1 .. k - 1
              /\ ~(i <= k - 1) => i - (k - 1) \in 1 .. n - k /\ k + (i - (k - 1)) = i + 1
          BY <1>3, <2>2
        <5> QED
          BY <3>2, <3>3, <3>5, <5>1
      <4> QED
        BY <4>1
    <3>7. OfFrame(x, sent + 1)
      <4>1. ASSUME NEW i \in 1 .. Len(x)
            PROVE  x[i].id = sent + 1 /\ x[i].n = n /\ x[i].k = IF i <= k - 1 THEN i ELSE i + 1
        BY <1>3, <3>5, <3>6
      <4>2. \A i, j \in 1 .. Len(x) : i < j => x[i].k < x[j].k
        <5>1. ASSUME NEW i \in 1 .. Len(x), NEW j \in 1 .. Len(x), i < j
              PROVE  x[i].k < x[j].k
          <6>1. /\ x[i].k = IF i <= k - 1 THEN i ELSE i + 1
                /\ x[j].k = IF j <= k - 1 THEN j ELSE j + 1
            BY <4>1
          <6>2. i \in Int /\ j \in Int /\ k \in Int
            BY <1>3, <2>2, <3>5
          <6> QED
            BY <5>1, <6>1, <6>2
        <5> QED
          BY <5>1
      <4>3. ASSUME NEW i \in 1 .. Len(x) PROVE x[i].k >= 1 /\ x[i].k \in Nat /\ n >= 1
        <5>1. x[i].k = IF i <= k - 1 THEN i ELSE i + 1
          BY <4>1
        <5>2. i \in Nat /\ i >= 1 /\ k \in Int /\ n >= 1
          BY <1>3, <2>2, <3>5
        <5> QED
          BY <5>1, <5>2
      <4> QED
        BY <4>1, <4>2, <4>3 DEF OfFrame
    <3> QED
      BY <1>6, <2>2, <3>4, <3>5, <3>7
  <2> QED
    BY <2>1, <2>3, <2>4
<1>9. CASE Paused(f)
  <2>1. PICK k \in 1 .. Len(f) - 1 : line' = line \o SubSeq(f, 1, k) /\ tail' = SubSeq(f, k + 1, Len(f))
    BY <1>9 DEF Paused
  <2>2. SubSeq(f, 1, k) \in Seq(Byte) /\ SubSeq(f, k + 1, Len(f)) \in Seq(Byte)
    BY <1>3, PartType
  <2>3. SubSeq(f, 1, k) \o SubSeq(f, k + 1, Len(f)) = f
    <3>1. 1 \in 1 .. Len(f) + 1 /\ k \in 1 - 1 .. Len(f) /\ Len(f) \in k .. Len(f)
      BY <1>3
    <3>2. SubSeq(f, 1, k) \o SubSeq(f, k + 1, Len(f)) = SubSeq(f, 1, Len(f))
      BY <1>3, <3>1, ConcatAdjacentSubSeq
    <3> QED
      BY <1>3, <3>2, SubSeqFull
  <2>4. Stream' = Stream \o f
    BY <1>5, <2>1, <2>2, <2>3
  <2> QED
    BY <1>3, <1>4, <2>4
<1> QED
  BY <1>2, <1>7, <1>8, <1>9 DEF f

LEMMA OrderAppend ==
  ASSUME NEW s \in Seq(Byte), NEW g \in Seq(Byte), NEW m \in Nat, NEW h \in Seq(1 .. m),
         Ordered(s), Genuine(s, m), Past(h, s), OfFrame(g, m + 1)
  PROVE  Ordered(s \o g) /\ Genuine(s \o g, m + 1) /\ Past(h, s \o g)
<1> DEFINE t == s \o g
<1>1. /\ Len(s) \in Nat /\ Len(g) \in Nat /\ Len(t) = Len(s) + Len(g)
      /\ \A i \in 1 .. Len(s) + Len(g) : t[i] = IF i <= Len(s) THEN s[i] ELSE g[i - Len(s)]
  BY ConcatProperties, LenProperties
<1> HIDE DEF t
<1>2. ASSUME NEW i \in 1 .. Len(t)
      PROVE  \/ i \in 1 .. Len(s) /\ t[i] = s[i]
             \/ i > Len(s) /\ i - Len(s) \in 1 .. Len(g) /\ t[i] = g[i - Len(s)]
  BY <1>1
<1>3. \A i \in 1 .. Len(g) : g[i].id # 0 => g[i].id = m + 1 /\ g[i].k >= 1 /\ g[i].n >= 1
  BY DEF OfFrame, Noise
<1>4. \A i \in 1 .. Len(s) : s[i].id # 0 => s[i].id \in 1 .. m
  BY DEF Genuine, Noise
<1>5. Ordered(t)
  <2>1. ASSUME NEW i \in 1 .. Len(t), NEW j \in 1 .. Len(t), i < j, t[i].id # 0, t[j].id # 0
        PROVE  Before(t[i], t[j])
    <3>1. CASE j \in 1 .. Len(s) /\ t[j] = s[j]
      <4>1. i \in 1 .. Len(s) /\ t[i] = s[i]
        BY <1>1, <1>2, <2>1, <3>1
      <4> QED
        BY <2>1, <3>1, <4>1 DEF Ordered
    <3>2. CASE j > Len(s) /\ j - Len(s) \in 1 .. Len(g) /\ t[j] = g[j - Len(s)]
      <4>1. t[j].id = m + 1
        BY <1>3, <2>1, <3>2
      <4>2. CASE i \in 1 .. Len(s) /\ t[i] = s[i]
        <5>1. t[i].id \in 1 .. m
          BY <1>4, <2>1, <4>2
        <5> QED
          BY <4>1, <5>1 DEF Before
      <4>3. CASE i > Len(s) /\ i - Len(s) \in 1 .. Len(g) /\ t[i] = g[i - Len(s)]
        <5>1. t[i].id = m + 1
          BY <1>3, <2>1, <4>3
        <5>2. i - Len(s) < j - Len(s)
          BY <1>1, <2>1
        <5>3. t[i].k < t[j].k
          BY <2>1, <3>2, <4>3, <5>2 DEF OfFrame
        <5> QED
          BY <4>1, <5>1, <5>3 DEF Before
      <4> QED
        BY <1>2, <4>2, <4>3
    <3> QED
      BY <1>2, <3>1, <3>2
  <2> QED
    BY <2>1 DEF Ordered
<1>6. Genuine(t, m + 1)
  <2>1. ASSUME NEW i \in 1 .. Len(t)
        PROVE  t[i] = Noise \/ (t[i].id \in 1 .. m + 1 /\ t[i].k >= 1 /\ t[i].n >= 1)
    <3>1. CASE i \in 1 .. Len(s) /\ t[i] = s[i]
      <4>1. s[i] = Noise \/ (s[i].id \in 1 .. m /\ s[i].k >= 1 /\ s[i].n >= 1)
        BY <3>1 DEF Genuine
      <4> QED
        BY <3>1, <4>1
    <3>2. CASE i > Len(s) /\ i - Len(s) \in 1 .. Len(g) /\ t[i] = g[i - Len(s)]
      <4>1. m + 1 \in 1 .. m + 1
        OBVIOUS
      <4> QED
        BY <3>2, <4>1 DEF OfFrame
    <3> QED
      BY <1>2, <3>1, <3>2
  <2> QED
    BY <2>1 DEF Genuine
<1>7. Past(h, t)
  <2>1. ASSUME NEW c \in 1 .. Len(h), NEW i \in 1 .. Len(t), t[i].id # 0
        PROVE  h[c] < t[i].id \/ (h[c] = t[i].id /\ t[i].k > 1)
    <3>1. CASE i \in 1 .. Len(s) /\ t[i] = s[i]
      BY <2>1, <3>1 DEF Past
    <3>2. CASE i > Len(s) /\ i - Len(s) \in 1 .. Len(g) /\ t[i] = g[i - Len(s)]
      <4>1. h[c] \in 1 .. m /\ t[i].id = m + 1
        BY <1>3, <2>1, <3>2, ElementOfSeq
      <4> QED
        BY <4>1
    <3> QED
      BY <1>2, <3>1, <3>2
  <2> QED
    BY <2>1 DEF Past
<1> QED
  BY <1>5, <1>6, <1>7 DEF t

(* What comes off the front of p comes off the front of p \o q. *)
LEMMA OffTheFront ==
  ASSUME NEW p \in Seq(Byte), NEW q \in Seq(Byte), NEW d \in 0 .. Len(p)
  PROVE  Behind(p \o q, SubSeq(p, d + 1, Len(p)) \o q, d)
<1> DEFINE r == SubSeq(p, d + 1, Len(p))
           s == p \o q
           t == r \o q
<1>1. Len(p) \in Nat /\ Len(q) \in Nat /\ \A i \in 1 .. Len(p) : p[i] \in Byte
  BY LenProperties, ElementOfSeq
<1>2. /\ r \in Seq(Byte) /\ Len(r) = Len(p) - d
      /\ \A i \in 1 .. Len(p) - d : r[i] = p[i + d]
  <2>1. /\ d + 1 \in Int /\ Len(p) \in Int /\ \A i \in d + 1 .. Len(p) : p[i] \in Byte
    BY <1>1
  <2>2. /\ r \in Seq(Byte) /\ Len(r) = IF d + 1 <= Len(p) THEN Len(p) - (d + 1) + 1 ELSE 0
        /\ \A i \in 1 .. Len(p) - (d + 1) + 1 : r[i] = p[d + 1 + i - 1]
    BY <2>1, SubSeqProperties
  <2>3. /\ Len(p) - (d + 1) + 1 = Len(p) - d /\ \A i \in 1 .. Len(p) - d : d + 1 + i - 1 = i + d
        /\ d + 1 <= Len(p) \/ Len(p) - d = 0
    BY <1>1
  <2> HIDE DEF r
  <2> QED
    BY <2>2, <2>3
<1> HIDE DEF r
<1>3. /\ Len(s) = Len(p) + Len(q)
      /\ \A i \in 1 .. Len(p) + Len(q) : s[i] = IF i <= Len(p) THEN p[i] ELSE q[i - Len(p)]
  BY ConcatProperties
<1>4. /\ Len(t) = Len(r) + Len(q)
      /\ \A i \in 1 .. Len(r) + Len(q) : t[i] = IF i <= Len(r) THEN r[i] ELSE q[i - Len(r)]
  BY <1>2, ConcatProperties
<1> HIDE DEF s, t
<1>5. ASSUME NEW i \in 1 .. Len(t) PROVE i + d \in 1 .. Len(s) /\ t[i] = s[i + d]
  <2>1. /\ i \in 1 .. Len(r) + Len(q) /\ i + d \in 1 .. Len(p) + Len(q)
        /\ i <= Len(r) => i + d <= Len(p) /\ i \in 1 .. Len(p) - d
        /\ ~(i <= Len(r)) => ~(i + d <= Len(p)) /\ (i + d) - Len(p) = i - Len(r)
    BY <1>1, <1>2, <1>4
  <2> QED
    BY <1>2, <1>3, <1>4, <2>1
<1>6. Len(t) = Len(s) - d
  BY <1>1, <1>2, <1>3, <1>4
<1>7. Behind(s, t, d)
  BY <1>5, <1>6 DEF Behind
<1> QED
  BY <1>7 DEF s, t, r

(* A step that takes the first d pending bytes away. *)
LEMMA FrontTaken ==
  ASSUME Inv, NEW d \in 0 .. Len(pending), pending' = SubSeq(pending, d + 1, Len(pending)),
         UNCHANGED <<line, tail>>
  PROVE  Behind(pending \o line, (pending \o line)', d) /\ Behind(Stream, Stream', d)
<1>1. /\ pending \in Seq(Byte) /\ line \in Seq(Byte) /\ tail \in Seq(Byte)
      /\ line \o tail \in Seq(Byte) /\ pending' \in Seq(Byte)
  <2>1. pending \in Seq(Byte) /\ line \in Seq(Byte) /\ tail \in Seq(Byte) /\ Len(pending) \in Nat
    BY Streams
  <2>2. line \o tail \in Seq(Byte)
    BY <2>1, ConcatProperties
  <2>3. d + 1 \in 1 .. Len(pending) + 1 /\ Len(pending) \in 0 .. Len(pending)
    BY <2>1
  <2>4. pending' \in Seq(Byte)
    BY <2>1, <2>3, PartType
  <2> QED
    BY <2>1, <2>2, <2>4
<1>2. Behind(pending \o line, pending' \o line, d)
  BY <1>1, OffTheFront
<1>3. Behind(pending \o (line \o tail), pending' \o (line \o tail), d)
  BY <1>1, OffTheFront
<1>4. Stream = pending \o (line \o tail)
  BY <1>1, Regrouped DEF Stream
<1>5. Stream' = (pending' \o line) \o tail
  BY DEF Stream
<1>6. (pending' \o line) \o tail = pending' \o (line \o tail)
  BY <1>1, Regrouped
<1>7. (pending \o line)' = pending' \o line
  OBVIOUS
<1> QED
  BY <1>2, <1>3, <1>4, <1>5, <1>6, <1>7

(* What is handed over moves from the line to the pending bytes. *)
LEMMA ReceiveMoves ==
  ASSUME Inv, Receive
  PROVE  /\ (pending \o line)' = pending \o line /\ Stream' = Stream
         /\ is_reset' => line = << >> /\ pending' = pending
<1> DEFINE rt       == Least(Tmp, Len(line))
           read_len == Least(rt, Buf - Len(pending))
<1>1. /\ pending \in Seq(Byte) /\ line \in Seq(Byte)
      /\ Len(pending) \in Nat /\ Len(line) \in Nat /\ Len(pending) <= MaxFrame
  BY Streams DEF Inv, TypeOK, Receive
<1>2. rt \in 0 .. Len(line) /\ rt <= Tmp /\ read_len = rt /\ (rt = 0 => Len(line) = 0)
  BY <1>1, Constants DEF Least
<1>3. /\ pending' = pending \o SubSeq(line, 1, read_len)
      /\ line' = SubSeq(line, rt + 1, Len(line)) /\ is_reset' = Silent(rt) /\ tail' = tail
  BY DEF Receive
<1> HIDE DEF rt, read_len
<1>4. SubSeq(line, 1, rt) \in Seq(Byte) /\ SubSeq(line, rt + 1, Len(line)) \in Seq(Byte)
  BY <1>1, <1>2, PartType
<1>5. SubSeq(line, 1, rt) \o SubSeq(line, rt + 1, Len(line)) = line
  <2>1. 1 \in 1 .. Len(line) + 1 /\ rt \in 1 - 1 .. Len(line) /\ Len(line) \in rt .. Len(line)
    BY <1>1, <1>2
  <2>2. SubSeq(line, 1, rt) \o SubSeq(line, rt + 1, Len(line)) = SubSeq(line, 1, Len(line))
    BY <1>1, <2>1, ConcatAdjacentSubSeq
  <2> QED
    BY <1>1, <2>2, SubSeqFull
<1>6. pending' \o line' = pending \o line
  <2>1. pending' = pending \o SubSeq(line, 1, rt) /\ line' = SubSeq(line, rt + 1, Len(line))
    BY <1>2, <1>3
  <2>2. (pending \o SubSeq(line, 1, rt)) \o SubSeq(line, rt + 1, Len(line))
           = pending \o (SubSeq(line, 1, rt) \o SubSeq(line, rt + 1, Len(line)))
    BY <1>1, <1>4, Regrouped
  <2> QED
    BY <1>5, <2>1, <2>2
<1>7. Stream' = Stream
  BY <1>3, <1>6 DEF Stream
<1>8. ASSUME is_reset' PROVE line = << >> /\ pending' = pending
  <2>1. rt = 0 /\ line = << >>
    BY <1>1, <1>2, <1>3, <1>8, EmptySeq DEF Silent
  <2>2. SubSeq(line, 1, 0) = << >>
    BY SubSeqEmpty
  <2> QED
    BY <1>1, <1>2, <1>3, <2>1, <2>2, ConcatEmptySeq
<1> QED
  BY <1>6, <1>7, <1>8

(* The frame at the front, byte by byte. *)
LEMMA FrontFrame ==
  ASSUME Inv, Genuine(Stream, sent), FrameAtFront
  PROVE  /\ 1 \in 1 .. Len(pending) /\ 1 \in 1 .. Len(Stream) /\ Stream[1] = pending[1]
         /\ pending[1].id \in 1 .. sent /\ pending[1].k = 1
         /\ pending[1].n \in 1 .. Len(pending)
         /\ \A k \in 1 .. pending[1].n :
              pending[k] = [id |-> pending[1].id, k |-> k, n |-> pending[1].n]
<1>1. /\ pending \in Seq(Byte) /\ Len(pending) \in Nat /\ Len(pending) >= 1
      /\ Len(line) \in Nat /\ Len(tail) \in Nat /\ Len(Stream) = Len(pending) + Len(line) + Len(tail)
      /\ \A i \in 1 .. Len(pending) : Stream[i] = pending[i]
  <2>1. pending \in Seq(Byte) /\ pending # << >>
    BY Streams DEF FrameAtFront
  <2>2. Len(pending) >= 1
    BY <2>1, EmptySeq
  <2> QED
    BY <2>1, <2>2, Streams
<1>2. 1 \in 1 .. Len(pending) /\ 1 \in 1 .. Len(Stream) /\ Stream[1] = pending[1] /\ pending[1] \in Byte
  BY <1>1, ElementOfSeq
<1>3. pending[1].id \in 1 .. sent /\ pending[1].n >= 1 /\ pending[1].n \in Nat
  BY <1>2 DEF Genuine, FrameAtFront, Byte
<1> DEFINE n0 == pending[1].n
           i0 == pending[1].id
<1>4. n0 <= Len(pending) /\ SubSeq(pending, 1, n0) = Frame(i0, n0)
  BY DEF FrameAtFront
<1>5. \A k \in 1 .. n0 : Frame(i0, n0)[k] = [id |-> i0, k |-> k, n |-> n0]
  BY DEF Frame
<1> HIDE DEF n0, i0
<1>6. \A k \in 1 .. n0 : pending[k] = [id |-> i0, k |-> k, n |-> n0]
  <2>1. 1 \in Int /\ n0 \in Int /\ \A i \in 1 .. n0 : pending[i] \in Byte
    BY <1>1, <1>3, <1>4, ElementOfSeq DEF n0
  <2>2. \A i \in 1 .. n0 - 1 + 1 : SubSeq(pending, 1, n0)[i] = pending[1 + i - 1]
    BY <2>1, SubSeqProperties
  <2>3. \A i \in 1 .. n0 : SubSeq(pending, 1, n0)[i] = pending[i]
    <3>1. n0 - 1 + 1 = n0 /\ \A i \in 1 .. n0 : 1 + i - 1 = i
      BY <2>1
    <3> QED
      BY <2>2, <3>1
  <2> QED
    BY <1>4, <1>5, <2>3
<1>7. 1 \in 1 .. n0
  BY <1>3 DEF n0
<1>8. pending[1].k = 1
  <2>1. pending[1] = [id |-> i0, k |-> 1, n |-> n0]
    BY <1>6, <1>7
  <2>2. [id |-> i0, k |-> 1, n |-> n0].k = 1
    OBVIOUS
  <2> QED
    BY <2>1, <2>2
<1> QED
  BY <1>1, <1>2, <1>3, <1>4, <1>6, <1>8 DEF n0, i0

LEMMA OrderInit == Init => OrderInv
<1> SUFFICES ASSUME Init PROVE OrderInv
  OBVIOUS
<1>1. Inv
  BY InitInv
<1>2. Len(Stream) = 0
  <2>1. Len(pending) = 0 /\ Len(line) = 0 /\ Len(tail) = 0
    BY DEF Init
  <2> QED
    BY <1>1, <2>1, Streams
<1>3. handled \in Seq(1 .. sent) /\ Len(handled) = 0
  BY EmptySeq DEF Init
<1>4. 1 .. 0 = {}
  BY SMT
<1> QED
  BY <1>1, <1>2, <1>3, <1>4 DEF OrderInv, Ordered, Genuine, Past, Rising

LEMMA OrderStep == OrderInv /\ [Next]_vars => OrderInv'
<1> SUFFICES ASSUME OrderInv, [Next]_vars PROVE OrderInv'
  OBVIOUS
<1>1. Inv /\ Inv'
  BY StepInv DEF OrderInv
<1>2. /\ Ordered(Stream) /\ Genuine(Stream, sent) /\ handled \in Seq(1 .. sent)
      /\ Rising(handled) /\ Past(handled, Stream)
      /\ Stream \in Seq(Byte) /\ sent \in Nat
  BY <1>1, Streams DEF OrderInv, Inv, TypeOK
<1>3. Stream' \in Seq(Byte) /\ Len(Stream') \in Nat
  <2>1. (Inv => /\ pending \in Seq(Byte) /\ line \in Seq(Byte) /\ tail \in Seq(Byte)
         /\ pending \o line \in Seq(Byte) /\ Stream \in Seq(Byte)
         /\ Len(pending) \in Nat /\ Len(line) \in Nat /\ Len(tail) \in Nat
         /\ Len(pending \o line) = Len(pending) + Len(line)
         /\ Len(Stream) = Len(pending) + Len(line) + Len(tail)
         /\ \A i \in 1 .. Len(pending) : (pending \o line)[i] = pending[i] /\ Stream[i] = pending[i])'
    BY Streams, PTL
  <2>2. Stream' \in Seq(Byte)
    BY <1>1, <2>1
  <2> QED
    BY <2>2, LenProperties
<1>4. ASSUME Stream' = Stream, UNCHANGED <<sent, handled>> PROVE OrderInv'
  BY <1>1, <1>2, <1>4 DEF OrderInv, Ordered, Genuine, Rising, Past
<1>5. ASSUME NEW d \in Nat, Behind(Stream, Stream', d), UNCHANGED sent
      PROVE  Ordered(Stream') /\ Genuine(Stream', sent') /\ Past(handled, Stream')
  BY <1>2, <1>3, <1>5, BehindKeeps
<1>6. CASE Arrive
  <2>1. PICK g \in Seq(Byte) : Stream' = Stream \o g /\ OfFrame(g, sent + 1)
    BY <1>1, <1>6, ArrivesBehind
  <2>2. sent' = sent + 1 /\ UNCHANGED handled
    BY <1>6 DEF Arrive
  <2>3. Ordered(Stream') /\ Genuine(Stream', sent + 1) /\ Past(handled, Stream')
    BY <1>2, <2>1, OrderAppend
  <2>4. handled \in Seq(1 .. sent + 1)
    <3>1. 1 .. sent \subseteq 1 .. sent + 1
      BY <1>2
    <3> QED
      BY <1>2, <3>1, SeqMonotonic
  <2> QED
    BY <1>1, <1>2, <2>2, <2>3, <2>4 DEF OrderInv, Rising, Ordered, Genuine, Past
<1>7. CASE GoOn
  <2>1. line' = line \o tail /\ tail' = << >> /\ UNCHANGED <<pending, sent, handled>>
    BY <1>7 DEF GoOn
  <2>2. pending \in Seq(Byte) /\ line \in Seq(Byte) /\ tail \in Seq(Byte) /\ Stream \in Seq(Byte)
    BY <1>1, Streams
  <2>3. Stream' = (pending \o (line \o tail)) \o << >>
    BY <2>1 DEF Stream
  <2>4. pending \o (line \o tail) = Stream
    BY <2>2, Regrouped DEF Stream
  <2>5. Stream' = Stream
    BY <2>2, <2>3, <2>4, ConcatEmptySeq
  <2> QED
    BY <1>4, <2>1, <2>5
<1>8. CASE Receive
  <2>1. UNCHANGED <<sent, handled>>
    BY <1>8 DEF Receive
  <2> QED
    BY <1>1, <1>4, <1>8, <2>1, ReceiveMoves
<1>9. CASE HandleFrame
  <2> DEFINE d == pending[1].n
             c == pending[1].id
  <2>1. /\ FrameAtFront /\ pending' = SubSeq(pending, d + 1, Len(pending))
        /\ handled' = Append(handled, c) /\ UNCHANGED <<line, tail, sent>>
    BY <1>9 DEF HandleFrame
  <2>2. /\ 1 \in 1 .. Len(Stream) /\ Stream[1].id = c /\ Stream[1].k = 1
        /\ c \in 1 .. sent /\ d \in 0 .. Len(pending) /\ d \in Nat /\ d >= 1
    <3>1. /\ 1 \in 1 .. Len(Stream) /\ Stream[1] = pending[1]
          /\ c \in 1 .. sent /\ pending[1].k = 1 /\ d \in 1 .. Len(pending)
      BY <1>1, <1>2, <2>1, FrontFrame
    <3> QED
      BY <3>1
  <2> HIDE DEF d, c
  <2>3. Behind(Stream, Stream', d)
    BY <1>1, <2>1, <2>2, FrontTaken
  <2>4. Ordered(Stream') /\ Genuine(Stream', sent') /\ Past(handled, Stream')
    BY <1>5, <2>1, <2>2, <2>3
  <2>5. /\ handled' \in Seq(1 .. sent') /\ Len(handled') = Len(handled) + 1 /\ Len(handled) \in Nat
        /\ handled'[Len(handled) + 1] = c
        /\ \A i \in 1 .. Len(handled) : handled'[i] = handled[i] /\ handled[i] \in 1 .. sent
    <3>1. /\ Append(handled, c) \in Seq(1 .. sent) /\ Len(Append(handled, c)) = Len(handled) + 1
          /\ Append(handled, c)[Len(handled) + 1] = c
          /\ \A i \in 1 .. Len(handled) : Append(handled, c)[i] = handled[i]
      BY <1>2, <2>2, AppendProperties
    <3>2. Len(handled) \in Nat /\ \A i \in 1 .. Len(handled) : handled[i] \in 1 .. sent
      BY <1>2, LenProperties, ElementOfSeq
    <3> QED
      BY <2>1, <3>1, <3>2
  <2>6. \A i \in 1 .. Len(handled') : i \in 1 .. Len(handled) \/ i = Len(handled) + 1
    BY <2>5
  <2>7. \A i \in 1 .. Len(handled) : handled[i] < c
    BY <2>2 , <1>2 DEF Past
  <2>8. Rising(handled')
    <3>1. ASSUME NEW i \in 1 .. Len(handled'), NEW j \in 1 .. Len(handled'), i < j
          PROVE  handled'[i] < handled'[j]
      <4>1. i \in 1 .. Len(handled)
        BY <2>5, <3>1
      <4>2. CASE j \in 1 .. Len(handled)
        BY <1>2, <2>5, <3>1, <4>1, <4>2 DEF Rising
      <4>3. CASE j = Len(handled) + 1
        BY <2>5, <2>7, <4>1, <4>3
      <4> QED
        BY <2>6, <4>2, <4>3
    <3> QED
      BY <3>1 DEF Rising
  <2>9. ASSUME NEW i \in 1 .. Len(Stream'), Stream'[i].id # 0
        PROVE  c < Stream'[i].id \/ (c = Stream'[i].id /\ Stream'[i].k > 1)
    <3>1. i + d \in 1 .. Len(Stream) /\ Stream'[i] = Stream[i + d] /\ 1 < i + d
      BY <2>2, <2>3 DEF Behind
    <3>2. Stream[1].id # 0 /\ Stream[i + d].id # 0
      BY <1>2, <2>2, <2>9, <3>1
    <3>3. Before(Stream[1], Stream[i + d])
      BY <1>2, <2>2, <3>1, <3>2 DEF Ordered
    <3> QED
      BY <2>2, <3>1, <3>3 DEF Before
  <2>10. Past(handled', Stream')
    <3>1. ASSUME NEW g \in 1 .. Len(handled'), NEW i \in 1 .. Len(Stream'), Stream'[i].id # 0
          PROVE  handled'[g] < Stream'[i].id \/ (handled'[g] = Stream'[i].id /\ Stream'[i].k > 1)
      <4>1. CASE g \in 1 .. Len(handled)
        BY <2>4, <2>5, <3>1, <4>1 DEF Past
      <4>2. CASE g = Len(handled) + 1
        BY <2>5, <2>9, <3>1, <4>2
      <4> QED
        BY <2>6, <4>1, <4>2
    <3> QED
      BY <3>1 DEF Past
  <2> QED
    BY <1>1, <2>4, <2>5, <2>8, <2>10 DEF OrderInv, Rising, Ordered, Genuine, Past
<1>10. CASE DropByte
  <2>1. /\ pending # << >> /\ pending' = Tail(pending) /\ UNCHANGED <<line, tail, sent, handled>>
    BY <1>10 DEF DropByte
  <2>2. pending \in Seq(Byte) /\ Len(pending) \in Nat /\ 1 \in 0 .. Len(pending)
    BY <1>1, <2>1, Streams, EmptySeq
  <2>3. pending' = SubSeq(pending, 1 + 1, Len(pending))
    BY <2>1, <2>2, TailIsSubSeq
  <2>4. Behind(Stream, Stream', 1)
    BY <1>1, <2>1, <2>2, <2>3, FrontTaken
  <2>5. Ordered(Stream') /\ Genuine(Stream', sent') /\ Past(handled, Stream')
    BY <1>5, <2>1, <2>4
  <2> QED
    BY <1>1, <1>2, <2>1, <2>5 DEF OrderInv, Rising, Ordered, Genuine, Past
<1>11. CASE PassEnds
  BY <1>4, <1>11 DEF PassEnds, Stream
<1>12. CASE UNCHANGED vars
  BY <1>4, <1>12 DEF vars, Stream
<1> QED
  BY <1>6, <1>7, <1>8, <1>9, <1>10, <1>11, <1>12 DEF Next, Pass

(* Every frame is handled at most once, and in the order of the line.      *)
THEOREM AlwaysOnceInOrder == Spec => []OnceInOrder
<1>1. OrderInv => OnceInOrder
  <2> SUFFICES ASSUME OrderInv PROVE OnceInOrder
    OBVIOUS
  <2>1. DOMAIN handled = 1 .. Len(handled)
    BY LenProperties DEF OrderInv
  <2> QED
    BY <2>1 DEF OrderInv, OnceInOrder, Rising
<1> QED
  BY <1>1, OrderInit, OrderStep, PTL DEF Spec

(***************************************************************************)
(* No byte of an intact frame is given up                                  *)
(***************************************************************************)

All == pending \o line

(* s has the n bytes of frame id from place i + 1 on. *)
At(s, id, n, i) ==
  i + n <= Len(s) /\ \A k \in 1 .. n : s[i + k] = [id |-> id, k |-> k, n |-> n]

(* The frame is there, it is not longer than what the loader expects, and  *)
(* a call that found the line silent left no end of it on the line.        *)
Here(id) ==
  \E n \in Lengths, i \in Nat :
    /\ n <= MaxFrame
    /\ At(All, id, n, i)
    /\ pc = "parse" /\ is_reset => i + n <= Len(pending) \/ i >= Len(pending)

Handled(id) == \E g \in 1 .. Len(handled) : handled[g] = id

IntactInv ==
  /\ OrderInv
  /\ \A id \in intact : Handled(id) \/ Here(id)

LEMMA AtPrefix ==
  ASSUME NEW s, NEW t, Len(s) \in Nat, Len(t) \in Nat, Len(s) <= Len(t),
         \A j \in 1 .. Len(s) : t[j] = s[j],
         NEW id, NEW n \in Nat, NEW i \in Nat, At(s, id, n, i)
  PROVE  At(t, id, n, i)
<1>1. \A k \in 1 .. n : i + k \in 1 .. Len(s)
  BY DEF At
<1> QED
  BY <1>1 DEF At

LEMMA AtBehind ==
  ASSUME NEW s, NEW t, Len(s) \in Nat, Len(t) \in Nat, NEW d \in Nat, Behind(s, t, d),
         NEW id, NEW n \in Nat, NEW i \in Nat, At(s, id, n, i), i >= d
  PROVE  i - d \in Nat /\ At(t, id, n, i - d)
<1>1. i - d \in Nat /\ (i - d) + n <= Len(t)
  BY DEF At, Behind
<1>2. ASSUME NEW k \in 1 .. n PROVE t[(i - d) + k] = [id |-> id, k |-> k, n |-> n]
  <2>1. (i - d) + k \in 1 .. Len(t) /\ ((i - d) + k) + d = i + k
    BY <1>1
  <2>2. t[(i - d) + k] = s[i + k]
    BY <2>1 DEF Behind
  <2> QED
    BY <2>2 DEF At
<1> QED
  BY <1>1, <1>2 DEF At

(* A frame that is all in the pending bytes, from the first on, is at the  *)
(* front.                                                                  *)
LEMMA AtFront ==
  ASSUME Inv, NEW id \in Nat \ {0}, NEW n \in Nat \ {0}, At(All, id, n, 0), n <= Len(pending)
  PROVE  FrameAtFront
<1>1. /\ pending \in Seq(Byte) /\ Len(pending) \in Nat
      /\ \A k \in 1 .. Len(pending) : All[k] = pending[k] /\ pending[k] \in Byte
  BY Streams, ElementOfSeq DEF All
<1>2. \A k \in 1 .. n : 0 + k = k /\ k \in 1 .. Len(pending)
  BY <1>1
<1>3. \A k \in 1 .. n : pending[k] = [id |-> id, k |-> k, n |-> n]
  BY <1>1, <1>2 DEF At
<1>4. 1 \in 1 .. n
  OBVIOUS
<1>5. pending[1] = [id |-> id, k |-> 1, n |-> n]
  BY <1>3, <1>4
<1>6. pending[1].id = id /\ pending[1].n = n /\ pending[1] # Noise
  BY <1>5 DEF Noise
<1>7. SubSeq(pending, 1, n) = Frame(id, n)
  <2>1. 1 \in Int /\ n \in Int /\ \A k \in 1 .. n : pending[k] \in Byte
    BY <1>1, <1>2
  <2>2. /\ SubSeq(pending, 1, n) \in Seq(Byte) /\ Len(SubSeq(pending, 1, n)) = IF 1 <= n THEN n - 1 + 1 ELSE 0
        /\ \A k \in 1 .. n - 1 + 1 : SubSeq(pending, 1, n)[k] = pending[1 + k - 1]
    BY <2>1, SubSeqProperties
  <2> DEFINE a == SubSeq(pending, 1, n)
  <2> HIDE DEF a
  <2>3. a \in Seq(Byte) /\ Len(a) = n /\ \A k \in 1 .. n : a[k] = pending[k]
    <3>1. n - 1 + 1 = n /\ 1 <= n /\ \A k \in 1 .. n : 1 + k - 1 = k
      OBVIOUS
    <3> QED
      BY <2>2, <3>1 DEF a
  <2>4. a = [k \in 1 .. n |-> a[k]]
    BY <2>3, LenProperties
  <2>5. a = Frame(id, n)
    BY <1>3, <2>3, <2>4 DEF Frame
  <2> QED
    BY <2>5 DEF a
<1>8. pending # << >>
  BY <1>1, <1>2, <1>4, EmptySeq
<1> QED
  BY <1>6, <1>7, <1>8 DEF FrameAtFront

LEMMA AllTypes ==
  Inv => /\ All \in Seq(Byte) /\ Len(All) \in Nat /\ Len(pending) \in Nat /\ Len(line) \in Nat
         /\ Len(All) = Len(pending) + Len(line)
BY Streams, LenProperties DEF All

(* What comes behind the bytes leaves the frame where it is. *)
LEMMA StaysPut ==
  ASSUME Inv, Inv', NEW id, Here(id), UNCHANGED <<pending, pc, is_reset, is_remain>>,
         Len(All) <= Len(All'), \A j \in 1 .. Len(All) : All'[j] = All[j]
  PROVE  Here(id)'
<1>1. PICK n \in Lengths, i \in Nat :
        /\ n <= MaxFrame /\ At(All, id, n, i)
        /\ pc = "parse" /\ is_reset => i + n <= Len(pending) \/ i >= Len(pending)
  BY DEF Here
<1>2. n \in Nat /\ Len(All) \in Nat
  BY AllTypes, FramingAssumption
<1>3. (Inv => /\ All \in Seq(Byte) /\ Len(All) \in Nat /\ Len(pending) \in Nat /\ Len(line) \in Nat
              /\ Len(All) = Len(pending) + Len(line))'
  BY AllTypes, PTL
<1>4. PICK t : t = All'
  OBVIOUS
<1>5. At(t, id, n, i)
  BY <1>1, <1>2, <1>3, <1>4, AtPrefix
<1>6. MaxFrame' = MaxFrame
  BY DEF MaxFrame
<1> QED
  BY <1>1, <1>4, <1>5, <1>6 DEF Here

(* What is put behind the line leaves every byte where it is. *)
LEMMA LineGrows ==
  ASSUME Inv, Inv', UNCHANGED pending, NEW x \in Seq(Byte), line' = line \o x
  PROVE  /\ Len(All) <= Len(All') /\ \A j \in 1 .. Len(All) : All'[j] = All[j]
         /\ Len(All') = Len(All) + Len(x)
         /\ \A j \in 1 .. Len(x) : All'[Len(All) + j] = x[j]
<1>1. pending \in Seq(Byte) /\ line \in Seq(Byte) /\ All \in Seq(Byte)
  BY Streams DEF All
<1>2. All' = All \o x
  <2>1. (pending \o line) \o x = pending \o (line \o x)
    BY <1>1, Regrouped
  <2> QED
    BY <2>1 DEF All
<1>3. PICK s \in Seq(Byte) : s = All
  BY <1>1
<1>4. /\ Len(s \o x) = Len(s) + Len(x) /\ Len(s) \in Nat /\ Len(x) \in Nat
      /\ \A j \in 1 .. Len(s) + Len(x) : (s \o x)[j] = IF j <= Len(s) THEN s[j] ELSE x[j - Len(s)]
  BY <1>3, ConcatProperties, LenProperties
<1>5. \A j \in 1 .. Len(x) : /\ Len(s) + j \in 1 .. Len(s) + Len(x)
                             /\ ~(Len(s) + j <= Len(s)) /\ (Len(s) + j) - Len(s) = j
  BY <1>4
<1>6. \A j \in 1 .. Len(s) : j \in 1 .. Len(s) + Len(x) /\ j <= Len(s)
  BY <1>4
<1>7. Len(s) <= Len(s) + Len(x)
  BY <1>4
<1> QED
  BY <1>2, <1>3, <1>4, <1>5, <1>6, <1>7

LEMMA IntactArrive ==
  ASSUME IntactInv, Inv', Arrive, NEW id \in intact'
  PROVE  Handled(id)' \/ Here(id)'
<1>1. /\ Inv /\ sent \in Nat /\ tail = << >>
      /\ UNCHANGED <<pending, pc, is_reset, is_remain, handled>>
  BY DEF IntactInv, OrderInv, Inv, TypeOK, Arrive
<1>2. PICK n \in Lengths : \/ Whole(Frame(sent + 1, n))
                           \/ Damaged(Frame(sent + 1, n))
                           \/ Paused(Frame(sent + 1, n))
  BY DEF Arrive
<1> DEFINE f == Frame(sent + 1, n)
<1>3. /\ f \in Seq(Byte) /\ n \in Nat /\ Len(f) = n
      /\ \A k \in 1 .. n : f[k] = [id |-> sent + 1, k |-> k, n |-> n]
  <2>1. f \in Seq(Byte) /\ n \in Nat /\ Len(f) = n
    BY <1>1, FrameType, FramingAssumption
  <2> QED
    BY <2>1 DEF Frame
<1>4. DOMAIN f = 1 .. n
  BY <1>3, LenProperties
<1> HIDE DEF f
<1>5. ASSUME NEW x \in Seq(Byte), line' = line \o x, id \in intact
      PROVE  Handled(id)' \/ Here(id)'
  <2>1. Len(All) <= Len(All') /\ \A j \in 1 .. Len(All) : All'[j] = All[j]
    BY <1>1, <1>5, LineGrows
  <2>2. CASE Handled(id)
    BY <1>1, <2>2 DEF Handled
  <2>3. CASE Here(id)
    BY <1>1, <2>1, <2>3, StaysPut
  <2> QED
    BY <1>5, <2>2, <2>3 DEF IntactInv
<1>6. CASE Whole(f)
  <2>1. line' = line \o f
    BY <1>6 DEF Whole
  <2>2. CASE id \in intact
    BY <1>3, <1>5, <2>1, <2>2
  <2>3. CASE id \notin intact
    <3>1. id = sent + 1 /\ n <= MaxFrame
      BY <1>3, <1>6, <2>3 DEF Whole
    <3>2. /\ Len(All') = Len(All) + n
          /\ \A j \in 1 .. n : All'[Len(All) + j] = f[j]
      BY <1>1, <1>3, <2>1, LineGrows
    <3>3. /\ Len(All) \in Nat /\ Len(pending) \in Nat /\ Len(line) \in Nat
          /\ Len(All) = Len(pending) + Len(line)
      BY <1>1, AllTypes
    <3>4. At(All', id, n, Len(All))
      BY <1>3, <3>1, <3>2, <3>3 DEF At
    <3>5. MaxFrame' = MaxFrame /\ pending' = pending /\ Len(All) >= Len(pending)
      BY <1>1, <3>3 DEF MaxFrame
    <3>6. PICK i \in Nat : i = Len(All)
      BY <3>3
    <3>7. Here(id)'
      BY <3>1, <3>4, <3>5, <3>6 DEF Here
    <3> QED
      BY <3>7
  <2> QED
    BY <2>2, <2>3
<1>7. CASE Damaged(f)
  <2>1. PICK k \in DOMAIN f : line' = line \o [f EXCEPT ![k] = Noise] \/ line' = line \o Without(f, k)
    BY <1>7 DEF Damaged
  <2>2. id \in intact /\ k \in 1 .. n
    BY <1>4, <1>7 DEF Damaged
  <2>3. [f EXCEPT ![k] = Noise] \in Seq(Byte)
    <3>1. Noise \in Byte
      BY DEF Noise, Byte
    <3> QED
      BY <1>3, <2>2, <3>1, ExceptSeq
  <2>4. Without(f, k) \in Seq(Byte)
    <3>1. SubSeq(f, 1, k - 1) \in Seq(Byte) /\ SubSeq(f, k + 1, Len(f)) \in Seq(Byte)
      BY <1>3, <2>2, PartType
    <3>2. \A p, q \in Seq(Byte) : p \o q \in Seq(Byte)
      BY ConcatProperties
    <3> QED
      BY <3>1, <3>2 DEF Without
  <2> QED
    BY <1>5, <2>1, <2>2, <2>3, <2>4
<1>8. CASE Paused(f)
  <2>1. PICK k \in 1 .. Len(f) - 1 : line' = line \o SubSeq(f, 1, k)
    BY <1>8 DEF Paused
  <2>2. id \in intact
    BY <1>8 DEF Paused
  <2>3. SubSeq(f, 1, k) \in Seq(Byte)
    BY <1>3, PartType
  <2> QED
    BY <1>5, <2>1, <2>2, <2>3
<1> QED
  BY <1>2, <1>6, <1>7, <1>8 DEF f

(* The frame moves forward with the bytes in front of it. *)
LEMMA MovesUp ==
  ASSUME Inv, Inv', NEW d \in 0 .. Len(pending), pending' = SubSeq(pending, d + 1, Len(pending)),
         UNCHANGED <<line, tail, pc, is_reset>>, MaxFrame' >= MaxFrame,
         NEW id, NEW n \in Lengths, NEW i \in Nat, n <= MaxFrame, At(All, id, n, i), i >= d,
         pc = "parse" /\ is_reset => i + n <= Len(pending) \/ i >= Len(pending)
  PROVE  Here(id)'
<1>1. n \in Nat /\ d \in Nat /\ Len(All) \in Nat /\ Len(pending) \in Nat /\ MaxFrame \in Nat /\ MaxFrame' \in Nat
  BY AllTypes, FramingAssumption, Constants DEF MaxFrame
<1>2. Behind(All, All', d)
  BY FrontTaken DEF All
<1>3. (Inv => /\ All \in Seq(Byte) /\ Len(All) \in Nat /\ Len(pending) \in Nat /\ Len(line) \in Nat
              /\ Len(All) = Len(pending) + Len(line))'
  BY AllTypes, PTL
<1>4. PICK t : t = All'
  OBVIOUS
<1>5. i - d \in Nat /\ At(t, id, n, i - d)
  BY <1>1, <1>2, <1>3, <1>4, AtBehind
<1>6. Len(pending') = Len(pending) - d
  <2>1. pending \in Seq(Byte) /\ d + 1 \in 1 .. Len(pending) + 1 /\ Len(pending) \in 0 .. Len(pending)
    BY <1>1 DEF Inv
  <2>2. Len(pending') = IF d + 1 <= Len(pending) THEN Len(pending) - (d + 1) + 1 ELSE 0
    BY <2>1, PartType
  <2> QED
    BY <1>1, <2>2
<1>7. n <= MaxFrame'
  BY <1>1
<1>8. pc' = "parse" /\ is_reset' => (i - d) + n <= Len(pending') \/ i - d >= Len(pending')
  BY <1>1, <1>6
<1> QED
  BY <1>4, <1>5, <1>7, <1>8 DEF Here

LEMMA IntactHandle ==
  ASSUME IntactInv, Inv', HandleFrame, NEW id \in intact'
  PROVE  Handled(id)' \/ Here(id)'
<1> DEFINE n0 == pending[1].n
           i0 == pending[1].id
<1>1. /\ Inv /\ Genuine(Stream, sent) /\ FrameAtFront /\ id \in intact /\ handled \in Seq(1 .. sent)
      /\ pending' = SubSeq(pending, n0 + 1, Len(pending)) /\ handled' = Append(handled, i0)
      /\ is_remain' \in {is_remain, TRUE} /\ UNCHANGED <<line, tail, pc, is_reset>>
  BY DEF IntactInv, OrderInv, HandleFrame
<1>2. /\ i0 \in 1 .. sent /\ n0 \in 1 .. Len(pending)
      /\ \A k \in 1 .. n0 : pending[k] = [id |-> i0, k |-> k, n |-> n0]
  BY <1>1, FrontFrame
<1>3. Len(pending) \in Nat /\ \A j \in 1 .. Len(pending) : All[j] = pending[j]
  BY <1>1, Streams DEF All
<1> HIDE DEF n0, i0
<1>4. /\ Len(handled') = Len(handled) + 1 /\ Len(handled) \in Nat
      /\ handled'[Len(handled) + 1] = i0
      /\ \A g \in 1 .. Len(handled) : handled'[g] = handled[g]
  <2>1. i0 \in 1 .. sent
    BY <1>2
  <2> QED
    BY <1>1, <2>1, AppendProperties, LenProperties
<1>5. CASE Handled(id)
  BY <1>4, <1>5 DEF Handled
<1>6. CASE Here(id)
  <2>1. PICK n \in Lengths, i \in Nat :
          /\ n <= MaxFrame /\ At(All, id, n, i)
          /\ pc = "parse" /\ is_reset => i + n <= Len(pending) \/ i >= Len(pending)
    BY <1>6 DEF Here
  <2>2. n \in Nat /\ n >= 1
    BY FramingAssumption
  <2>3. CASE i >= n0
    <3>1. MaxFrame' >= MaxFrame
      <4>1. MaxFrame' = MaxFrame \/ MaxFrame' = Big
        <5>1. is_remain' = is_remain \/ is_remain' = TRUE
          BY <1>1
        <5>2. ASSUME is_remain' = is_remain PROVE MaxFrame' = MaxFrame
          BY <5>2 DEF MaxFrame
        <5>3. ASSUME is_remain' = TRUE PROVE MaxFrame' = Big
          BY <5>3 DEF MaxFrame
        <5> QED
          BY <5>1, <5>2, <5>3
      <4> QED
        BY <4>1, Constants
    <3>2. n0 \in 0 .. Len(pending)
      BY <1>2, <1>3
    <3> QED
      BY <1>1, <2>1, <2>3, <3>1, <3>2, MovesUp
  <2>4. CASE i < n0
    <3>1. i + 1 \in 1 .. n0 /\ i + 1 \in 1 .. Len(pending) /\ 1 \in 1 .. n
      BY <1>2, <1>3, <2>2, <2>4
    <3>2. All[i + 1] = [id |-> id, k |-> 1, n |-> n]
      BY <2>1, <3>1 DEF At
    <3>3. All[i + 1] = [id |-> i0, k |-> i + 1, n |-> n0]
      BY <1>2, <1>3, <3>1
    <3>4. id = i0
      BY <3>2, <3>3
    <3>5. Len(handled) + 1 \in 1 .. Len(handled')
      BY <1>4
    <3> QED
      BY <1>4, <3>4, <3>5 DEF Handled
  <2> QED
    BY <1>2, <1>3, <2>3, <2>4
<1> QED
  BY <1>1, <1>5, <1>6 DEF IntactInv

(* A byte is given up only when the front is not the frame: it is longer   *)
(* than what is pending only when the loader still waits.                  *)
LEMMA IntactDrop ==
  ASSUME IntactInv, Inv', DropByte, NEW id \in intact'
  PROVE  Handled(id)' \/ Here(id)'
<1>1. /\ Inv /\ id \in intact /\ pending # << >> /\ ~FrameAtFront /\ GiveUp /\ pc = "parse"
      /\ pending' = Tail(pending) /\ UNCHANGED <<line, tail, pc, is_reset, is_remain, handled>>
  BY DEF IntactInv, OrderInv, DropByte
<1>2. /\ pending \in Seq(Byte) /\ Len(pending) \in Nat /\ 1 \in 0 .. Len(pending)
      /\ intact \subseteq 1 .. sent
  BY <1>1, Streams, EmptySeq DEF Inv, TypeOK
<1>3. pending' = SubSeq(pending, 1 + 1, Len(pending))
  BY <1>1, <1>2, TailIsSubSeq
<1>4. CASE Handled(id)
  BY <1>1, <1>4 DEF Handled
<1>5. CASE Here(id)
  <2>1. PICK n \in Lengths, i \in Nat :
          /\ n <= MaxFrame /\ At(All, id, n, i)
          /\ pc = "parse" /\ is_reset => i + n <= Len(pending) \/ i >= Len(pending)
    BY <1>5 DEF Here
  <2>2. n \in Nat \ {0} /\ MaxFrame \in Nat /\ id \in Nat \ {0}
    BY <1>1, <1>2, FramingAssumption, Constants
  <2>3. CASE i = 0
    <3>1. At(All, id, n, 0)
      BY <2>1, <2>3
    <3>2. n <= Len(pending)
      BY <1>1, <1>2, <2>1, <2>2, <2>3 DEF GiveUp
    <3> QED
      BY <1>1, <2>2, <3>1, <3>2, AtFront
  <2>4. CASE i >= 1
    <3>1. MaxFrame' >= MaxFrame
      BY <1>1, <2>2 DEF MaxFrame
    <3> QED
      BY <1>1, <1>2, <1>3, <2>1, <2>4, <3>1, MovesUp
  <2> QED
    BY <2>3, <2>4
<1> QED
  BY <1>1, <1>4, <1>5 DEF IntactInv

LEMMA IntactReceive ==
  ASSUME IntactInv, Inv', Receive, NEW id \in intact'
  PROVE  Handled(id)' \/ Here(id)'
<1>1. /\ Inv /\ id \in intact /\ pc = "receive" /\ UNCHANGED <<is_remain, handled>>
  BY DEF IntactInv, OrderInv, Receive
<1>2. All' = All /\ (is_reset' => line = << >> /\ pending' = pending)
  BY <1>1, ReceiveMoves DEF All
<1>3. CASE Handled(id)
  BY <1>1, <1>3 DEF Handled
<1>4. CASE Here(id)
  <2>1. PICK n \in Lengths, i \in Nat : n <= MaxFrame /\ At(All, id, n, i)
    BY <1>4 DEF Here
  <2>2. is_reset' => i + n <= Len(pending')
    <3> SUFFICES ASSUME is_reset' PROVE i + n <= Len(pending')
      OBVIOUS
    <3>1. Len(line) = 0 /\ Len(pending) \in Nat /\ Len(All) = Len(pending) + Len(line)
      BY <1>1, <1>2, AllTypes
    <3>2. Len(All) = Len(pending')
      BY <1>2, <3>1
    <3> QED
      BY <2>1, <3>2 DEF At
  <2>3. MaxFrame' = MaxFrame
    BY <1>1 DEF MaxFrame
  <2>4. At(All', id, n, i)
    BY <1>2, <2>1
  <2> QED
    BY <2>1, <2>2, <2>3, <2>4 DEF Here
<1> QED
  BY <1>1, <1>3, <1>4 DEF IntactInv

LEMMA IntactInit == Init => IntactInv
BY OrderInit DEF Init, IntactInv

LEMMA IntactStep == IntactInv /\ [Next]_vars => IntactInv'
<1> SUFFICES ASSUME IntactInv, [Next]_vars PROVE IntactInv'
  OBVIOUS
<1>1. OrderInv /\ OrderInv' /\ Inv /\ Inv'
  BY OrderStep DEF IntactInv, OrderInv
<1>2. ASSUME NEW id \in intact' PROVE Handled(id)' \/ Here(id)'
  <2>1. CASE Arrive
    BY <1>1, <1>2, <2>1, IntactArrive
  <2>2. CASE GoOn
    <3>1. /\ line' = line \o tail /\ tail \in Seq(Byte) /\ id \in intact
          /\ UNCHANGED <<pending, pc, is_reset, is_remain, handled>>
      BY <1>1, <2>2 DEF GoOn, Inv
    <3>2. Len(All) <= Len(All') /\ \A j \in 1 .. Len(All) : All'[j] = All[j]
      BY <1>1, <3>1, LineGrows
    <3>3. CASE Handled(id)
      BY <3>1, <3>3 DEF Handled
    <3>4. CASE Here(id)
      BY <1>1, <3>1, <3>2, <3>4, StaysPut
    <3> QED
      BY <3>1, <3>3, <3>4 DEF IntactInv
  <2>3. CASE Receive
    BY <1>1, <1>2, <2>3, IntactReceive
  <2>4. CASE HandleFrame
    BY <1>1, <1>2, <2>4, IntactHandle
  <2>5. CASE DropByte
    BY <1>1, <1>2, <2>5, IntactDrop
  <2>6. CASE PassEnds
    <3>1. /\ id \in intact /\ pc' = "receive"
          /\ UNCHANGED <<line, pending, is_remain, handled>>
      BY <2>6 DEF PassEnds
    <3>2. CASE Handled(id)
      BY <3>1, <3>2 DEF Handled
    <3>3. CASE Here(id)
      <4>1. pc' # "parse" /\ MaxFrame' = MaxFrame /\ All' = All
        BY <3>1 DEF MaxFrame, All
      <4> QED
        BY <3>3, <4>1 DEF Here
    <3> QED
      BY <3>1, <3>2, <3>3 DEF IntactInv
  <2>7. CASE UNCHANGED vars
    BY <2>7 DEF vars, IntactInv, Handled, Here, MaxFrame, All
  <2> QED
    BY <2>1, <2>2, <2>3, <2>4, <2>5, <2>6, <2>7 DEF Next, Pass
<1> QED
  BY <1>1, <1>2 DEF IntactInv

(* No byte of an intact frame is given up, whatever noise, damage or cut   *)
(* frame is before it, and however it is split over calls.                 *)
THEOREM AlwaysIntactStays == Spec => []IntactStays
<1>1. IntactInv => IntactStays
  <2> SUFFICES ASSUME IntactInv, NEW id \in intact
      PROVE  \/ \E i \in DOMAIN handled : handled[i] = id
             \/ \E n \in Lengths : \E i \in 0 .. Len(All) - n : SubSeq(All, i + 1, i + n) = Frame(id, n)
    BY DEF IntactStays, All
  <2>1. DOMAIN handled = 1 .. Len(handled) /\ All \in Seq(Byte) /\ Len(All) \in Nat
    BY AllTypes, LenProperties DEF IntactInv, OrderInv
  <2>2. CASE Handled(id)
    BY <2>1, <2>2 DEF Handled
  <2>3. CASE Here(id)
    <3>1. PICK n \in Lengths, i \in Nat : At(All, id, n, i)
      BY <2>3 DEF Here
    <3>2. n \in Nat /\ n >= 1 /\ i + n <= Len(All) /\ i \in 0 .. Len(All) - n
      BY <2>1, <3>1, FramingAssumption DEF At
    <3> DEFINE a == SubSeq(All, i + 1, i + n)
    <3>3. a \in Seq(Byte) /\ Len(a) = n /\ \A k \in 1 .. n : a[k] = All[i + k]
      <4>1. i + 1 \in Int /\ i + n \in Int /\ \A j \in i + 1 .. i + n : All[j] \in Byte
        BY <2>1, <3>2, ElementOfSeq
      <4>2. PICK u \in Int, v \in Int : u = i + 1 /\ v = i + n
        BY <4>1
      <4>3. /\ SubSeq(All, u, v) \in Seq(Byte) /\ Len(SubSeq(All, u, v)) = IF u <= v THEN v - u + 1 ELSE 0
            /\ \A k \in 1 .. v - u + 1 : SubSeq(All, u, v)[k] = All[u + k - 1]
        BY <4>1, <4>2, SubSeqProperties
      <4>4. u <= v /\ v - u + 1 = n /\ \A k \in 1 .. n : u + k - 1 = i + k
        BY <3>2, <4>2
      <4>5. a = SubSeq(All, u, v)
        BY <4>2
      <4> HIDE DEF a
      <4> QED
        BY <4>3, <4>4, <4>5
    <3> HIDE DEF a
    <3>4. a = [k \in 1 .. n |-> a[k]]
      BY <3>3, LenProperties
    <3>5. a = Frame(id, n)
      BY <3>1, <3>3, <3>4 DEF At, Frame
    <3> QED
      BY <3>2, <3>5 DEF a
  <2> QED
    BY <2>2, <2>3 DEF IntactInv
<1> QED
  BY <1>1, IntactInit, IntactStep, PTL DEF Spec

(***************************************************************************)
(* After the silence                                                       *)
(***************************************************************************)

(* A pass that found the line silent gives up or takes every byte.         *)
SilenceClears == pc = "receive" /\ is_reset => pending = << >>

LEMMA ClearsInit == Init => SilenceClears
BY DEF Init, SilenceClears

LEMMA ClearsStep == SilenceClears /\ [Next]_vars => SilenceClears'
<1> SUFFICES ASSUME SilenceClears, [Next]_vars PROVE SilenceClears'
  OBVIOUS
<1>1. CASE Arrive \/ GoOn \/ UNCHANGED vars
  BY <1>1 DEF Arrive, GoOn, vars, SilenceClears
<1>2. CASE Receive
  BY <1>2 DEF Receive, SilenceClears
<1>3. CASE HandleFrame \/ DropByte
  BY <1>3 DEF HandleFrame, DropByte, SilenceClears
<1>4. CASE PassEnds
  BY <1>4 DEF PassEnds, GiveUp, SilenceClears
<1> QED
  BY <1>1, <1>2, <1>3, <1>4 DEF Next, Pass

(* Noise delays an intact frame until the line is silent, not longer: when *)
(* the pass after the silence has ended and the line has carried nothing   *)
(* since, every intact frame is handled.                                   *)
SilenceSettles ==
  pc = "receive" /\ is_reset /\ line = << >> =>
    \A id \in intact : \E i \in DOMAIN handled : handled[i] = id

THEOREM AlwaysSilenceSettles == Spec => []SilenceSettles
<1>1. IntactInv /\ SilenceClears => SilenceSettles
  <2> SUFFICES ASSUME IntactInv, SilenceClears, pc = "receive", is_reset, line = << >>,
                      NEW id \in intact
               PROVE  \E i \in DOMAIN handled : handled[i] = id
    BY DEF SilenceSettles
  <2>1. Len(All) = 0
    <3>1. pending = << >>
      BY DEF SilenceClears
    <3> QED
      BY <3>1, AllTypes, LenProperties, EmptySeq DEF IntactInv, OrderInv
  <2>2. ~Here(id)
    <3>1. ASSUME NEW n \in Lengths, NEW i \in Nat, At(All, id, n, i) PROVE FALSE
      <4>1. n \in Nat /\ n >= 1
        BY FramingAssumption
      <4> QED
        BY <2>1, <3>1, <4>1 DEF At
    <3> QED
      BY <3>1 DEF Here
  <2> QED
    BY <2>2, LenProperties DEF IntactInv, OrderInv, Handled
<1> QED
  BY <1>1, IntactInit, IntactStep, ClearsInit, ClearsStep, PTL DEF Spec
=============================================================================
