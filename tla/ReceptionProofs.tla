---------------------------- MODULE ReceptionProofs ----------------------------
(***************************************************************************)
(* Proofs about the reception, for every size of the buffers and every     *)
(* traffic.  The ring buffer implements a bounded queue: TypeOK is         *)
(* inductive, and under it every call changes the stored bytes as the      *)
(* queue's action does.  rs485_receive over it never sleeps over a byte,   *)
(* and hands the bytes over in order, none of them twice.                  *)
(***************************************************************************)
EXTENDS Reception, SequenceTheorems, TLAPS

(***************************************************************************)
(* The stored bytes                                                        *)
(***************************************************************************)

(* The mirror bits tell how far the writer is ahead. *)
LEMMA LenFromMirrors ==
  TypeOK => /\ DataLen \in 0 .. Size
            /\ read_mirror = write_mirror => DataLen = write_index - read_index
            /\ read_mirror # write_mirror => DataLen = Size - (read_index - write_index)
<1>1. CASE read_mirror = write_mirror
  BY <1>1, RingAssumption, SMT DEF TypeOK, DataLen, Empty, Full, Slots
<1>2. CASE read_mirror # write_mirror
  BY <1>2, RingAssumption, SMT DEF TypeOK, DataLen, Empty, Full, Slots
<1>3. QED BY <1>1, <1>2

LEMMA StockIsSeq ==
  TypeOK => /\ Stock \in Seq(Byte)
            /\ Len(Stock) = DataLen
            /\ \A k \in 1 .. DataLen : Stock[k] = pool[Slot(read_index, k - 1)]
<1> SUFFICES ASSUME TypeOK
             PROVE  /\ Stock \in Seq(Byte)
                    /\ Len(Stock) = DataLen
                    /\ \A k \in 1 .. DataLen : Stock[k] = pool[Slot(read_index, k - 1)]
  OBVIOUS
<1>1. DataLen \in 0 .. Size BY LenFromMirrors
<1>2. \A k \in 1 .. DataLen : Slot(read_index, k - 1) \in Slots
  BY <1>1, RingAssumption, SMT DEF TypeOK, Slot, Slots
<1>3. Stock \in [1 .. DataLen -> Byte] BY <1>2 DEF TypeOK, Stock
<1>4. QED BY <1>1, <1>3, SMT DEF Stock

(* The stored bytes after a step, from the pool and the indices after it.  *)
LEMMA StockAfter ==
  ASSUME TypeOK', NEW q \in Seq(Byte), Len(q) = DataLen',
         \A k \in 1 .. DataLen' : pool'[Slot(read_index', k - 1)] = q[k]
  PROVE  Stock' = q
<1>1. (TypeOK => /\ Stock \in Seq(Byte)
                 /\ Len(Stock) = DataLen
                 /\ \A k \in 1 .. DataLen : Stock[k] = pool[Slot(read_index, k - 1)])'
  BY StockIsSeq, PTL
<1>2. /\ Stock' \in Seq(Byte) /\ Len(Stock') = DataLen'
      /\ \A k \in 1 .. DataLen' : Stock'[k] = pool'[Slot(read_index', k - 1)]
  BY <1>1
<1>3. QED BY <1>2, SeqEqual, SMT

LEMMA LenAfter ==
  ASSUME TypeOK'
  PROVE  /\ DataLen' \in 0 .. Size
         /\ read_mirror' = write_mirror' => DataLen' = write_index' - read_index'
         /\ read_mirror' # write_mirror' => DataLen' = Size - (read_index' - write_index')
<1>1. (TypeOK => /\ DataLen \in 0 .. Size
                 /\ read_mirror = write_mirror => DataLen = write_index - read_index
                 /\ read_mirror # write_mirror => DataLen = Size - (read_index - write_index))'
  BY LenFromMirrors, PTL
<1>2. QED BY <1>1

(***************************************************************************)
(* Handing bytes out                                                       *)
(***************************************************************************)

LEMMA HandOutTakes ==
  ASSUME TypeOK, NEW n \in 0 .. DataLen, HandOut(n)
  PROVE  TypeOK' /\ Queue!Take(n)
<1>1. /\ DataLen \in 0 .. Size /\ n \in Nat
      /\ read_mirror = write_mirror => DataLen = write_index - read_index
      /\ read_mirror # write_mirror => DataLen = Size - (read_index - write_index)
  BY LenFromMirrors, RingAssumption, SMT
<1>2. \A k \in 1 .. DataLen : Slot(read_index, k - 1) \in Slots
  BY <1>1, RingAssumption, SMT DEF TypeOK, Slot, Slots
<1>3. got' \in Seq(Byte) /\ Len(got') = n /\ \A k \in 1 .. n : got'[k] = Stock[k]
  <2>1. got' \in [1 .. n -> Byte] BY <1>1, <1>2, SMT DEF HandOut, TypeOK
  <2>2. QED BY <1>1, <2>1, StockIsSeq, SMT DEF HandOut
<1>4. TypeOK' /\ DataLen' = DataLen - n
  <2>1. read_index' \in Slots /\ read_mirror' \in BOOLEAN
    BY <1>1, RingAssumption, SMT DEF TypeOK, HandOut, Slot, Mirror, Slots
  <2>2. /\ read_mirror' = write_mirror' => read_index' <= write_index'
        /\ read_mirror' # write_mirror' => write_index' <= read_index'
    BY <1>1, RingAssumption, SMT DEF TypeOK, HandOut, Slot, Mirror, Slots, writer
  <2>3. TypeOK' BY <2>1, <2>2, <1>3 DEF TypeOK, HandOut, writer
  <2>4. DataLen' = DataLen - n
    <3> DEFINE r == read_index
               w == write_index
    <3>1. /\ read_mirror' = write_mirror' => DataLen' = write_index' - read_index'
          /\ read_mirror' # write_mirror' => DataLen' = Size - (read_index' - write_index')
      BY <2>3, LenAfter
    <3>2. /\ r \in Int /\ w \in Int /\ r >= 0 /\ r < Size /\ w >= 0 /\ w < Size /\ Size \in Nat
          /\ write_index' = w /\ write_mirror' = write_mirror
          /\ read_mirror \in BOOLEAN /\ write_mirror \in BOOLEAN
      BY RingAssumption, SMT DEF TypeOK, HandOut, Slots, writer
    <3>3. ASSUME Size - r > n PROVE DataLen' = DataLen - n
      <4>1. read_index' = r + n /\ read_mirror' = read_mirror
        BY <3>3 DEF HandOut, Slot, Mirror
      <4> HIDE DEF r, w
      <4>2. CASE read_mirror = write_mirror
        <5>1. DataLen = w - r /\ DataLen' = w - (r + n)
          BY <1>1, <3>1, <3>2, <4>1, <4>2 DEF r, w
        <5>2. QED BY <1>1, <3>2, <5>1, SMT
      <4>3. CASE read_mirror # write_mirror
        <5>1. DataLen = Size - (r - w) /\ DataLen' = Size - ((r + n) - w)
          BY <1>1, <3>1, <3>2, <4>1, <4>3 DEF r, w
        <5>2. QED BY <1>1, <3>2, <5>1, SMT
      <4>4. QED BY <4>2, <4>3
    <3>4. ASSUME ~(Size - r > n) PROVE DataLen' = DataLen - n
      <4>1. read_index' = n - (Size - r) /\ read_mirror' = ~read_mirror
        BY <3>4 DEF HandOut, Slot, Mirror
      <4> HIDE DEF r, w
      <4>2. CASE read_mirror = write_mirror
        <5>1. DataLen = w - r BY <1>1, <4>2 DEF r, w
        <5>2. n <= w - r BY <1>1, <3>2, <5>1, SMT
        <5>3. QED BY <1>1, <3>2, <3>4, <5>2, SMT
      <4>3. CASE read_mirror # write_mirror
        <5>1. read_mirror' = write_mirror' BY <3>2, <4>1, <4>3
        <5>2. DataLen = Size - (r - w) /\ DataLen' = w - (n - (Size - r))
          BY <1>1, <3>1, <3>2, <4>1, <4>3, <5>1 DEF r, w
        <5>3. QED BY <1>1, <3>2, <5>2, SMT
      <4>4. QED BY <4>2, <4>3
    <3>5. QED BY <3>3, <3>4
  <2>5. QED BY <2>3, <2>4
<1>5. got' = SubSeq(Stock, 1, n)
  <2>1. /\ SubSeq(Stock, 1, n) \in Seq(Byte) /\ Len(SubSeq(Stock, 1, n)) = n
        /\ \A k \in 1 .. n : SubSeq(Stock, 1, n)[k] = Stock[k]
    BY <1>1, StockIsSeq, SMT
  <2>2. QED BY <1>3, <2>1, SeqEqual, SMT
<1>6. Stock' = SubSeq(Stock, n + 1, Len(Stock))
  <2> DEFINE rest == SubSeq(Stock, n + 1, Len(Stock))
  <2>1. /\ rest \in Seq(Byte) /\ Len(rest) = DataLen - n
        /\ \A k \in 1 .. DataLen - n : rest[k] = Stock[n + k]
    BY <1>1, StockIsSeq, SMT
  <2>2. \A k \in 1 .. DataLen - n :
          pool'[Slot(read_index', k - 1)] = pool[Slot(read_index, n + k - 1)]
    BY <1>1, RingAssumption, SMT DEF TypeOK, HandOut, Slot, Slots
  <2>3. \A k \in 1 .. DataLen - n : Stock[n + k] = pool[Slot(read_index, n + k - 1)]
    BY <1>1, StockIsSeq, SMT
  <2> HIDE DEF rest
  <2>4. Len(rest) = DataLen' /\ \A k \in 1 .. DataLen' : pool'[Slot(read_index', k - 1)] = rest[k]
    BY <1>4, <2>1, <2>2, <2>3
  <2>5. Stock' = rest BY <1>4, <2>1, <2>4, StockAfter
  <2>6. QED BY <2>5 DEF rest
<1>7. QED BY <1>1, <1>4, <1>5, <1>6, StockIsSeq, SMT DEF Queue!Take, Queue!First, Queue!After

(***************************************************************************)
(* Putting bytes in                                                        *)
(***************************************************************************)

LEMMA LeastIsLeast ==
  ASSUME NEW a \in Nat, NEW b \in Nat
  PROVE  /\ Least(a, b) \in Nat /\ Least(a, b) <= a /\ Least(a, b) <= b
         /\ Least(a, b) = a \/ Least(a, b) = b
         /\ Queue!Least(a, b) = Least(a, b)
BY DEF Least, Queue!Least

(* The pool after the copy: the block after the bytes that were there.     *)
LEMMA StoredCells ==
  ASSUME TypeOK, NEW s \in Seq(Byte), Len(s) <= Size, pool' = Stored(s)
  PROVE  /\ pool' \in [Slots -> Byte]
         /\ \A k \in 1 .. Len(s) : pool'[Slot(write_index, k - 1)] = s[k]
         /\ \A k \in 1 .. Size - Len(s) :
              pool'[Slot(write_index, Len(s) + k - 1)] = pool[Slot(write_index, Len(s) + k - 1)]
<1>1. Len(s) \in Nat /\ \A k \in 1 .. Len(s) : s[k] \in Byte BY SMT
<1>2. \A j \in Slots : Distance(write_index, j) \in Nat
  BY RingAssumption, SMT DEF TypeOK, Distance, Slots
<1>3. pool' \in [Slots -> Byte]
  <2>1. \A j \in Slots : Distance(write_index, j) < Len(s) =>
                           Distance(write_index, j) + 1 \in 1 .. Len(s)
    BY <1>1, <1>2, SMT
  <2>2. QED BY <1>1, <2>1 DEF TypeOK, Stored
<1>4. \A n \in 0 .. Size - 1 : /\ Slot(write_index, n) \in Slots
                               /\ Distance(write_index, Slot(write_index, n)) = n
  BY RingAssumption, SMT DEF TypeOK, Distance, Slot, Slots
<1>5. \A k \in 1 .. Len(s) : pool'[Slot(write_index, k - 1)] = s[k]
  <2>1. TAKE k \in 1 .. Len(s)
  <2>2. k - 1 \in 0 .. Size - 1 /\ k - 1 < Len(s) BY <1>1, RingAssumption, SMT
  <2>3. /\ Slot(write_index, k - 1) \in Slots
        /\ Distance(write_index, Slot(write_index, k - 1)) = k - 1
    BY <1>4, <2>2
  <2>4. pool'[Slot(write_index, k - 1)] = s[(k - 1) + 1] BY <2>2, <2>3 DEF Stored
  <2>5. QED BY <2>4, SMT
<1>6. \A k \in 1 .. Size - Len(s) :
        pool'[Slot(write_index, Len(s) + k - 1)] = pool[Slot(write_index, Len(s) + k - 1)]
  <2>1. TAKE k \in 1 .. Size - Len(s)
  <2>2. Len(s) + k - 1 \in 0 .. Size - 1 /\ ~(Len(s) + k - 1 < Len(s))
    BY <1>1, RingAssumption, SMT
  <2>3. /\ Slot(write_index, Len(s) + k - 1) \in Slots
        /\ Distance(write_index, Slot(write_index, Len(s) + k - 1)) = Len(s) + k - 1
    BY <1>4, <2>2
  <2>4. QED BY <2>2, <2>3 DEF Stored
<1>7. QED BY <1>3, <1>5, <1>6

(* Where the kth stored byte is, seen from the writer: the unread bytes    *)
(* are the last of the Size slots before the write index.                  *)
LEMMA SlotFromWriter ==
  ASSUME TypeOK, NEW k \in 1 .. DataLen
  PROVE  Slot(read_index, k - 1) = Slot(write_index, Size - DataLen + k - 1)
<1> DEFINE r == read_index
           w == write_index
<1>1. /\ r \in Int /\ w \in Int /\ r >= 0 /\ r < Size /\ w >= 0 /\ w < Size /\ Size \in Nat
      /\ read_mirror = write_mirror => r <= w
      /\ read_mirror # write_mirror => w <= r
  BY RingAssumption, SMT DEF TypeOK, Slots
<1>2. /\ read_mirror = write_mirror => DataLen = w - r
      /\ read_mirror # write_mirror => DataLen = Size - (r - w)
      /\ DataLen \in 0 .. Size
  BY LenFromMirrors
<1>3. k \in Int /\ k >= 1 /\ k <= DataLen BY <1>1, <1>2, SMT
<1> HIDE DEF r, w
<1>4. CASE read_mirror = write_mirror
  <2>1. DataLen = w - r /\ r <= w BY <1>1, <1>2, <1>4
  <2>2. Slot(r, k - 1) = r + (k - 1) BY <1>1, <1>3, <2>1, SMT DEF Slot
  <2>3. Slot(w, Size - DataLen + k - 1) = r + (k - 1) BY <1>1, <1>3, <2>1, SMT DEF Slot
  <2>4. QED BY <2>2, <2>3 DEF r, w
<1>5. CASE read_mirror # write_mirror
  <2>1. DataLen = Size - (r - w) /\ w <= r BY <1>1, <1>2, <1>5
  <2>2. Size - DataLen + k - 1 = (r - w) + (k - 1) BY <1>1, <1>3, <2>1, SMT
  <2>3. Slot(w, (r - w) + (k - 1)) = Slot(r, k - 1) BY <1>1, <1>3, <2>1, SMT DEF Slot
  <2>4. QED BY <2>2, <2>3 DEF r, w
<1>6. QED BY <1>4, <1>5

LEMMA Joined ==
  ASSUME NEW p \in Seq(Byte), NEW q \in Seq(Byte)
  PROVE  /\ p \o q \in Seq(Byte) /\ Len(p \o q) = Len(p) + Len(q)
         /\ Len(p) \in Nat /\ Len(q) \in Nat
         /\ \A k \in 1 .. Len(p) : (p \o q)[k] = p[k]
         /\ \A k \in 1 .. Len(q) : (p \o q)[Len(p) + k] = q[k]
BY SMT

(* A block no longer than the space goes behind the stored bytes.          *)
LEMMA BlockAppended ==
  ASSUME TypeOK, NEW kept \in Seq(Byte), Len(kept) <= Space,
         pool' = Stored(kept), Advance(Len(kept)), got' = << >>, UNCHANGED reader
  PROVE  TypeOK' /\ Stock' = Stock \o kept
<1> DEFINE m == Len(kept)
<1>1. /\ DataLen \in 0 .. Size
      /\ read_mirror = write_mirror => DataLen = write_index - read_index
      /\ read_mirror # write_mirror => DataLen = Size - (read_index - write_index)
  BY LenFromMirrors, RingAssumption, SMT
<1>3. m \in Nat /\ m <= Space BY SMT
<1>4. kept \in Seq(Byte) /\ Len(kept) = m OBVIOUS
<1> HIDE DEF m
<1>5. Len(kept) <= Size BY <1>1, <1>3, <1>4, RingAssumption, SMT DEF Space
<1>6. pool' = Stored(kept) /\ Advance(m) /\ got' = << >> /\ UNCHANGED reader
  BY <1>4
<1>7. TypeOK' /\ DataLen' = DataLen + m
  <2>1. write_index' \in Slots /\ write_mirror' \in BOOLEAN
    <3>1. m <= Size BY <1>1, <1>3, RingAssumption, SMT DEF Space
    <3>2. Slot(write_index, m) \in Slots
      BY <1>3, <3>1, RingAssumption, SMT DEF TypeOK, Slot, Slots
    <3>3. Mirror(write_mirror, write_index, m) \in BOOLEAN BY DEF TypeOK, Mirror
    <3>4. QED BY <1>6, <3>2, <3>3 DEF Advance
  <2>2. /\ read_mirror' = write_mirror' => read_index' <= write_index'
        /\ read_mirror' # write_mirror' => write_index' <= read_index'
    BY <1>1, <1>3, <1>6, RingAssumption, SMT
       DEF TypeOK, Advance, Slot, Mirror, Slots, Space, reader
  <2>3. pool' \in [Slots -> Byte] BY <1>4, <1>5, <1>6, StoredCells
  <2>4. TypeOK' BY <2>1, <2>2, <2>3, <1>6, SMT DEF TypeOK, reader
  <2>5. /\ DataLen' \in 0 .. Size
        /\ read_mirror' = write_mirror' => DataLen' = write_index' - read_index'
        /\ read_mirror' # write_mirror' => DataLen' = Size - (read_index' - write_index')
    BY <2>4, LenAfter
  <2> DEFINE w == write_index
             v == read_index
  <2>6. /\ w \in Int /\ v \in Int /\ w >= 0 /\ w < Size /\ v >= 0 /\ v < Size
        /\ read_index' = v /\ read_mirror' = read_mirror
        /\ read_mirror = write_mirror => v <= w
        /\ read_mirror # write_mirror => w <= v
        /\ read_mirror \in BOOLEAN /\ write_mirror \in BOOLEAN
        /\ Size \in Nat
    BY <1>6, RingAssumption, SMT DEF TypeOK, Slots, reader
  <2>7. ASSUME Size - w > m PROVE DataLen' = DataLen + m
    <3>1. write_index' = w + m /\ write_mirror' = write_mirror
      BY <1>6, <2>7 DEF Advance, Slot, Mirror
    <3> HIDE DEF w, v
    <3>2. CASE read_mirror = write_mirror
      <4>1. DataLen = w - v BY <1>1, <3>2 DEF w, v
      <4>2. read_mirror' = write_mirror' BY <2>6, <3>1, <3>2
      <4>3. DataLen' = (w + m) - v BY <2>5, <2>6, <3>1, <4>2
      <4>4. (w + m) - v = (w - v) + m BY <1>3, <2>6, SMT
      <4>5. QED BY <4>1, <4>3, <4>4
    <3>3. CASE read_mirror # write_mirror
      <4>1. DataLen = Size - (v - w) /\ DataLen' = Size - (v - (w + m))
        BY <1>1, <2>5, <2>6, <3>1, <3>3 DEF w, v
      <4>2. QED BY <1>3, <2>6, <4>1, SMT
    <3>4. QED BY <3>2, <3>3
  <2>8. ASSUME ~(Size - w > m) PROVE DataLen' = DataLen + m
    <3>1. write_index' = m - (Size - w) /\ write_mirror' = ~write_mirror
      BY <1>6, <2>8 DEF Advance, Slot, Mirror
    <3> HIDE DEF w, v
    <3>2. CASE read_mirror = write_mirror
      <4>1. read_mirror' # write_mirror' BY <2>6, <3>1, <3>2
      <4>2. DataLen = w - v /\ DataLen' = Size - (v - (m - (Size - w)))
        BY <1>1, <2>5, <2>6, <3>1, <3>2, <4>1 DEF w, v
      <4>3. Size - (v - (m - (Size - w))) = (w - v) + m BY <1>3, <2>6, SMT
      <4>4. QED BY <4>2, <4>3
    <3>3. CASE read_mirror # write_mirror
      <4>1. DataLen = Size - (v - w) BY <1>1, <3>3 DEF w, v
      <4>2. m <= v - w BY <1>3, <2>6, <4>1, SMT DEF Space
      <4>3. QED BY <1>3, <2>6, <2>8, <4>2, SMT
    <3>4. QED BY <3>2, <3>3
  <2>9. QED BY <2>4, <2>7, <2>8
<1>8. Stock' = Stock \o kept
  <2>1. /\ Stock \o kept \in Seq(Byte) /\ Len(Stock \o kept) = DataLen'
        /\ \A k \in 1 .. DataLen : (Stock \o kept)[k] = Stock[k]
        /\ \A k \in 1 .. m : (Stock \o kept)[DataLen + k] = kept[k]
    <3>1. Stock \in Seq(Byte) /\ Len(Stock) = DataLen BY StockIsSeq
    <3> DEFINE whole == Stock \o kept
    <3>2. /\ whole \in Seq(Byte) /\ Len(whole) = Len(Stock) + Len(kept)
          /\ \A k \in 1 .. Len(Stock) : whole[k] = Stock[k]
          /\ \A k \in 1 .. Len(kept) : whole[Len(Stock) + k] = kept[k]
      BY <3>1, <1>4, Joined
    <3> HIDE DEF whole
    <3>3. /\ whole \in Seq(Byte) /\ Len(whole) = DataLen'
          /\ \A k \in 1 .. DataLen : whole[k] = Stock[k]
          /\ \A k \in 1 .. m : whole[DataLen + k] = kept[k]
      BY <1>4, <1>7, <3>1, <3>2
    <3>4. QED BY <3>3 DEF whole
  <2>2. \A k \in 1 .. DataLen : pool'[Slot(read_index', k - 1)] = Stock[k]
    <3>1. TAKE k \in 1 .. DataLen
    <3>2. Slot(read_index, k - 1) = Slot(write_index, Size - DataLen + k - 1)
      BY SlotFromWriter
    <3> DEFINE j == Size - DataLen - m + k
    <3>3. j \in 1 .. Size - m /\ m + j - 1 = Size - DataLen + k - 1
      BY <1>1, <1>3, RingAssumption, SMT DEF Space
    <3>4. pool'[Slot(write_index, m + j - 1)] = pool[Slot(write_index, m + j - 1)]
      BY <1>4, <1>5, <1>6, <3>3, StoredCells
    <3>5. pool'[Slot(read_index, k - 1)] = pool[Slot(read_index, k - 1)]
      BY <3>2, <3>3, <3>4
    <3>6. QED BY <1>6, <3>5, StockIsSeq DEF reader
  <2>3. \A k \in 1 .. m : pool'[Slot(read_index', DataLen + k - 1)] = kept[k]
    <3>1. TAKE k \in 1 .. m
    <3>2. Slot(read_index, DataLen + k - 1) = Slot(write_index, k - 1)
      BY <1>1, <1>3, RingAssumption, SMT DEF TypeOK, Slot, Slots, Space
    <3>3. pool'[Slot(write_index, k - 1)] = kept[k] BY <1>4, <1>5, <1>6, StoredCells
    <3>4. QED BY <1>6, <3>2, <3>3 DEF reader
  <2>4. \A k \in 1 .. DataLen' : pool'[Slot(read_index', k - 1)] = (Stock \o kept)[k]
    <3>1. TAKE k \in 1 .. DataLen'
    <3>2. CASE k <= DataLen BY <1>1, <1>7, <2>1, <2>2, <3>2, SMT
    <3>3. CASE k > DataLen
      <4>1. k - DataLen \in 1 .. m /\ DataLen + (k - DataLen) = k
        BY <1>1, <1>3, <1>7, <3>3, SMT
      <4>2. PICK j \in 1 .. m : DataLen + j = k BY <4>1
      <4>3. pool'[Slot(read_index', DataLen + j - 1)] = kept[j] BY <2>3
      <4>4. (Stock \o kept)[DataLen + j] = kept[j] BY <2>1
      <4>5. DataLen + j - 1 = k - 1 BY <1>1, <1>3, <4>2, SMT
      <4>6. pool'[Slot(read_index', k - 1)] = kept[j] BY <4>3, <4>5
      <4>7. (Stock \o kept)[k] = kept[j] BY <4>2, <4>4
      <4>8. QED BY <4>6, <4>7
    <3>4. k \in Nat BY <1>1, <1>3, <1>7, SMT
    <3>5. k <= DataLen \/ k > DataLen BY <1>1, <3>4, SMT
    <3>6. QED BY <3>2, <3>3, <3>5
  <2>5. QED BY <1>7, <2>1, <2>4, StockAfter
<1>9. QED BY <1>7, <1>8

LEMMA PutAppends ==
  ASSUME TypeOK, NEW s \in Seq(Byte), Put(s)
  PROVE  TypeOK' /\ Queue!Put(s)
<1> DEFINE m == Least(Len(s), Space)
           kept == SubSeq(s, 1, m)
<1>1. Len(s) \in Nat /\ Space \in Nat BY LenFromMirrors, RingAssumption, SMT DEF Space
<1>2. m \in Nat /\ m <= Len(s) /\ m <= Space BY <1>1, LeastIsLeast
<1>3. kept \in Seq(Byte) /\ Len(kept) = m BY <1>1, <1>2, SMT
<1>4. TypeOK' /\ Stock' = Stock \o kept
  BY <1>2, <1>3, BlockAppended DEF Put
<1>5. Queue!Least(Len(s), Size - Len(Stock)) = m
  BY <1>1, StockIsSeq, LeastIsLeast DEF Space
<1>6. QED BY <1>4, <1>5 DEF Put, Queue!Put, Queue!First

LEMMA PutForcePushesOut ==
  ASSUME TypeOK, NEW s \in Seq(Byte), PutForce(s)
  PROVE  TypeOK' /\ Queue!PutForce(s)
<1> DEFINE kept == IF Len(s) > Size THEN SubSeq(s, Len(s) - Size + 1, Len(s)) ELSE s
           n == Len(kept)
           whole == Stock \o s
           drop == Len(whole) - Size
<1>1. /\ DataLen \in 0 .. Size /\ Len(s) \in Nat /\ Size \in Nat
      /\ read_mirror = write_mirror => DataLen = write_index - read_index
      /\ read_mirror # write_mirror => DataLen = Size - (read_index - write_index)
  BY LenFromMirrors, RingAssumption, SMT
<1>2. /\ kept \in Seq(Byte) /\ n \in 0 .. Size
      /\ n = IF Len(s) > Size THEN Size ELSE Len(s)
      /\ \A k \in 1 .. n : kept[k] = s[Len(s) - n + k]
  <2>1. CASE Len(s) > Size BY <1>1, <2>1, SMT
  <2>2. CASE ~(Len(s) > Size) BY <1>1, <2>2, SMT
  <2>3. QED BY <2>1, <2>2
<1>3. /\ whole \in Seq(Byte) /\ Len(whole) = DataLen + Len(s)
      /\ \A k \in 1 .. DataLen : whole[k] = Stock[k]
      /\ \A k \in 1 .. Len(s) : whole[DataLen + k] = s[k]
  <2>1. Stock \in Seq(Byte) /\ Len(Stock) = DataLen BY StockIsSeq
  <2>2. /\ whole \in Seq(Byte) /\ Len(whole) = Len(Stock) + Len(s)
        /\ \A k \in 1 .. Len(Stock) : whole[k] = Stock[k]
        /\ \A k \in 1 .. Len(s) : whole[Len(Stock) + k] = s[k]
    BY <2>1, Joined
  <2> HIDE DEF whole
  <2>3. QED BY <2>1, <2>2
<1>4. pool' = Stored(kept) /\ Advance(n) /\ Follow(n) /\ got' = << >>
  BY DEF PutForce
<1>5. CASE n <= Space
  <2>1. UNCHANGED reader BY <1>1, <1>2, <1>4, <1>5, SMT DEF Follow, Space
  <2>2. TypeOK' /\ Stock' = Stock \o kept BY <1>2, <1>4, <1>5, <2>1, BlockAppended
  <2>3. CASE Len(s) > Size
    <3>1. DataLen = 0 /\ n = Size BY <1>1, <1>2, <1>5, <2>3, SMT DEF Space
    <3>2. Stock = << >> BY <3>1, StockIsSeq, SMT
    <3>3. whole = s BY <3>2, SMT
    <3>4. Stock' = kept BY <1>2, <2>2, <3>2, SMT
    <3>5. kept = SubSeq(whole, drop + 1, Len(whole)) BY <2>3, <3>3
    <3>6. Len(whole) > Size BY <2>3, <3>3
    <3>7. QED BY <1>4, <2>2, <3>4, <3>5, <3>6 DEF Queue!PutForce, Queue!After
  <2>4. CASE ~(Len(s) > Size)
    <3>1. kept = s BY <2>4
    <3>2. ~(Len(whole) > Size) BY <1>1, <1>3, <1>5, <3>1, SMT DEF Space
    <3>3. QED BY <1>4, <2>2, <3>1, <3>2 DEF Queue!PutForce
  <2>5. QED BY <2>3, <2>4
<1>6. CASE n > Space
  <2> HIDE DEF kept, whole
  <2>1. n \in 1 .. Size /\ Size - n < DataLen BY <1>1, <1>2, <1>6, SMT DEF Space
  <2>2. read_index' = write_index' BY <1>4, <1>6 DEF Follow
  <2>3. write_index' = Slot(write_index, n) /\ write_mirror' = Mirror(write_mirror, write_index, n)
    BY <1>4 DEF Advance
  <2>4. write_index' \in Slots
    BY <2>1, <2>3, RingAssumption, SMT DEF TypeOK, Slot, Slots
  <2>5. write_mirror' \in BOOLEAN BY <2>3 DEF TypeOK, Mirror
  <2>6. read_mirror' \in BOOLEAN /\ read_mirror' # write_mirror'
    <3>1. read_mirror' = IF write_mirror' # write_mirror /\ write_index' <= read_index
                         THEN ~read_mirror ELSE read_mirror
      BY <1>4, <1>6 DEF Follow
    <3>2. CASE read_mirror = write_mirror
      <4>1. Size - n < write_index - read_index /\ read_index <= write_index
        BY <1>1, <2>1, <3>2 DEF TypeOK
      <4>2. CASE Size - write_index > n
        BY <1>1, <2>1, <4>1, <4>2, RingAssumption, SMT DEF TypeOK, Slots
      <4>3. CASE ~(Size - write_index > n)
        <5>1. write_mirror' = ~write_mirror /\ write_index' = n - (Size - write_index)
          BY <2>3, <4>3 DEF Mirror, Slot
        <5>2. write_index' > read_index
          BY <1>1, <2>1, <4>1, <5>1, RingAssumption, SMT DEF TypeOK, Slots
        <5>3. ~(write_index' <= read_index)
          BY <2>4, <5>2, RingAssumption, SMT DEF TypeOK, Slots
        <5>4. read_mirror' = read_mirror BY <3>1, <5>3
        <5>5. QED BY <3>2, <5>1, <5>4 DEF TypeOK
      <4>4. QED BY <4>2, <4>3
    <3>3. CASE read_mirror # write_mirror
      <4>1. Size - n < Size - (read_index - write_index) /\ write_index <= read_index
        BY <1>1, <2>1, <3>3 DEF TypeOK
      <4>2. CASE Size - write_index > n
        <5>1. write_mirror' = write_mirror BY <2>3, <4>2 DEF Mirror
        <5>2. read_mirror' = read_mirror BY <3>1, <5>1
        <5>3. QED BY <3>3, <5>1, <5>2 DEF TypeOK
      <4>3. CASE ~(Size - write_index > n)
        <5>1. write_mirror' = ~write_mirror /\ write_index' = n - (Size - write_index)
          BY <2>3, <4>3 DEF Mirror, Slot
        <5>2. write_mirror' # write_mirror BY <5>1 DEF TypeOK
        <5>3. write_index' <= read_index
          BY <1>1, <2>1, <4>1, <5>1, RingAssumption, SMT DEF TypeOK, Slots
        <5>4. read_mirror' = ~read_mirror BY <3>1, <5>2, <5>3
        <5>5. QED BY <3>3, <5>1, <5>4 DEF TypeOK
      <4>4. QED BY <4>2, <4>3
    <3>4. QED BY <3>2, <3>3
  <2>7. TypeOK' /\ DataLen' = Size
    <3>1. pool' \in [Slots -> Byte] BY <1>2, <1>4, StoredCells
    <3>2. got' \in Seq(Byte) BY <1>4, SMT
    <3>3. write_index' <= read_index' BY <2>2, <2>4, RingAssumption, SMT DEF Slots
    <3>4. TypeOK' BY <2>2, <2>4, <2>5, <2>6, <3>1, <3>2, <3>3 DEF TypeOK
    <3>5. DataLen' = Size - (write_index' - write_index') BY <2>2, <2>6, <3>4, LenAfter
    <3>6. \A i \in Slots : Size - (i - i) = Size BY RingAssumption, SMT DEF Slots
    <3>7. QED BY <2>4, <3>4, <3>5, <3>6
  <2>8. Len(whole) > Size BY <1>1, <1>2, <1>3, <1>6, SMT DEF Space
  <2> DEFINE last == SubSeq(whole, drop + 1, Len(whole))
  <2>9. /\ last \in Seq(Byte) /\ Len(last) = Size
        /\ \A k \in 1 .. Size : last[k] = whole[DataLen + Len(s) - Size + k]
    BY <1>1, <1>3, <2>8, SMT
  <2> HIDE DEF last
  <2>10. \A k \in 1 .. Size : pool'[Slot(write_index', k - 1)] = last[k]
    <3>1. TAKE k \in 1 .. Size
    <3>2. CASE k <= Size - n
      <4>1. n < Size /\ n = Len(s) BY <1>1, <1>2, <2>1, <3>2, SMT
      <4>2. Slot(write_index', k - 1) = Slot(write_index, n + k - 1)
        BY <2>1, <2>3, <3>2, RingAssumption, SMT DEF TypeOK, Slot, Slots
      <4>3. k \in 1 .. Size - n BY <2>1, <3>2, SMT
      <4>4. pool'[Slot(write_index, n + k - 1)] = pool[Slot(write_index, n + k - 1)]
        BY <1>2, <1>4, <4>3, StoredCells
      <4> DEFINE j == DataLen - (Size - n) + k
      <4>5. j \in 1 .. DataLen /\ Size - DataLen + j - 1 = n + k - 1
            /\ DataLen + Len(s) - Size + k = j
        BY <1>1, <2>1, <4>1, <4>3, SMT
      <4>6. Slot(read_index, j - 1) = Slot(write_index, n + k - 1) BY <4>5, SlotFromWriter
      <4>7. Stock[j] = pool[Slot(write_index, n + k - 1)] BY <4>5, <4>6, StockIsSeq
      <4>8. last[k] = Stock[j] BY <1>3, <2>9, <4>5
      <4>9. QED BY <4>2, <4>4, <4>7, <4>8
    <3>3. CASE ~(k <= Size - n)
      <4> DEFINE i == k - (Size - n)
                 j == Len(s) - n + i
      <4>1. i \in 1 .. n /\ j \in 1 .. Len(s) /\ DataLen + Len(s) - Size + k = DataLen + j
        <5>1. n \in Int /\ n >= 1 /\ n <= Size /\ n <= Len(s) BY <1>1, <1>2, <2>1, SMT
        <5>2. k \in Int /\ k > Size - n /\ k <= Size BY <1>1, <3>3, <5>1, SMT
        <5> HIDE DEF n
        <5>3. i \in 1 .. n BY <1>1, <5>1, <5>2, SMT
        <5>4. j \in 1 .. Len(s) BY <1>1, <5>1, <5>3, SMT
        <5>5. DataLen + Len(s) - Size + k = DataLen + j BY <1>1, <5>1, <5>2, SMT
        <5>6. QED BY <5>3, <5>4, <5>5
      <4>2. Slot(write_index', k - 1) = Slot(write_index, i - 1)
        BY <2>1, <2>3, <3>3, RingAssumption, SMT DEF TypeOK, Slot, Slots
      <4>3. pool'[Slot(write_index, i - 1)] = kept[i] BY <1>2, <1>4, <4>1, StoredCells
      <4>4. kept[i] = s[j] BY <1>2, <4>1
      <4> HIDE DEF i, j
      <4>5. last[k] = s[j]
        <5>1. last[k] = whole[DataLen + Len(s) - Size + k] BY <2>9
        <5>2. whole[DataLen + j] = s[j] BY <1>3, <4>1
        <5>3. QED BY <4>1, <5>1, <5>2
      <4>6. QED BY <4>2, <4>3, <4>4, <4>5
    <3>4. QED BY <3>2, <3>3
  <2>11. Stock' = last BY <2>2, <2>7, <2>9, <2>10, StockAfter
  <2>12. QED BY <1>4, <2>7, <2>8, <2>11 DEF Queue!PutForce, Queue!After, whole, last
<1>7. QED BY <1>1, <1>2, <1>5, <1>6, SMT DEF Space

(***************************************************************************)
(* The theorems                                                            *)
(***************************************************************************)

LEMMA EmptyStock ==
  ASSUME TypeOK', read_index' = write_index', read_mirror' = write_mirror'
  PROVE  Stock' = << >>
<1>1. DataLen' = 0
  <2>1. DataLen' = write_index' - write_index' BY LenAfter
  <2>2. write_index' \in Int BY RingAssumption, SMT DEF TypeOK, Slots
  <2>3. \A i \in Int : i - i = 0 BY SMT
  <2>4. QED BY <2>1, <2>2, <2>3
<1>2. << >> \in Seq(Byte) /\ Len(<< >>) = 0 BY SMT
<1>3. \A k \in 1 .. DataLen' : pool'[Slot(read_index', k - 1)] = << >>[k] BY <1>1, SMT
<1>4. QED BY <1>1, <1>2, <1>3, StockAfter

LEMMA InitEmpty ==
  ASSUME Init
  PROVE  TypeOK /\ Queue!Init
<1>1. TypeOK
  <2>1. 0 \in Slots /\ 0 <= 0 BY RingAssumption, SMT DEF Slots
  <2>2. got \in Seq(Byte) BY SMT DEF Init
  <2>3. QED BY <2>1, <2>2 DEF Init, TypeOK
<1>2. DataLen = 0
  <2>1. DataLen = write_index - read_index BY <1>1, LenFromMirrors DEF Init
  <2>2. write_index = 0 /\ read_index = 0 BY DEF Init
  <2>3. DataLen = 0 - 0 BY <2>1, <2>2
  <2>4. QED BY <2>3, SMT
<1>3. Stock = << >> BY <1>1, <1>2, StockIsSeq, SMT
<1>4. QED BY <1>1, <1>3 DEF Init, Queue!Init

LEMMA BlocksAreSeqs ==
  ASSUME NEW s \in Blocks
  PROVE  s \in Seq(Byte)
<1>1. PICK n \in 0 .. MaxBlock : s \in [1 .. n -> Byte] BY DEF Blocks
<1>2. n \in Nat BY RingAssumption, SMT
<1>3. QED BY <1>1, <1>2, SMT

(* Every call is a step of the queue. *)
LEMMA StepIsQueueStep ==
  ASSUME TypeOK, [Next]_vars
  PROVE  TypeOK' /\ [Queue!Next]_<<Stock, got>>
<1>1. DataLen \in 0 .. Size BY LenFromMirrors
<1>2. ASSUME NEW n \in 0 .. DataLen, HandOut(n)
      PROVE  TypeOK' /\ Queue!Next
  <2>1. n \in 0 .. Size BY <1>1, <1>2, RingAssumption, SMT
  <2>2. QED BY <1>2, <2>1, HandOutTakes DEF Queue!Next
<1>3. ASSUME NEW s \in Blocks, Put(s)
      PROVE  TypeOK' /\ Queue!Next
  BY <1>3, BlocksAreSeqs, PutAppends DEF Queue!Next
<1>4. ASSUME NEW s \in Blocks, PutForce(s)
      PROVE  TypeOK' /\ Queue!Next
  BY <1>4, BlocksAreSeqs, PutForcePushesOut DEF Queue!Next
<1>5. ASSUME NEW n \in 0 .. MaxBlock, Get(n)
      PROVE  TypeOK' /\ Queue!Next
  <2>1. Least(n, DataLen) \in 0 .. DataLen BY <1>1, RingAssumption, SMT DEF Least
  <2>2. QED BY <1>2, <1>5, <2>1 DEF Get
<1>6. CASE Peak
  <2>1. Least(DataLen, Size - read_index) \in 0 .. DataLen
    BY <1>1, RingAssumption, SMT DEF Least, TypeOK, Slots
  <2>2. QED BY <1>2, <1>6, <2>1 DEF Peak
<1>7. CASE Reset
  <2>1. TypeOK'
    <3>1. 0 \in Slots /\ 0 <= 0 BY RingAssumption, SMT DEF Slots
    <3>2. got' \in Seq(Byte) BY <1>7, SMT DEF Reset
    <3>3. QED BY <1>7, <3>1, <3>2 DEF Reset, TypeOK
  <2>2. Stock' = << >> BY <1>7, <2>1, EmptyStock DEF Reset
  <2>3. QED BY <1>7, <2>1, <2>2 DEF Reset, Queue!Next, Queue!Reset
<1>8. CASE UNCHANGED vars
  <2>1. UNCHANGED <<pool, read_index, read_mirror, write_index, write_mirror, got>>
    BY <1>8 DEF vars, reader, writer
  <2>2. TypeOK' BY <2>1 DEF TypeOK
  <2>3. Stock' = Stock BY <2>1 DEF Stock, DataLen, Empty, Full, Slot
  <2>4. QED BY <2>1, <2>2, <2>3
<1>9. QED BY <1>3, <1>4, <1>5, <1>6, <1>7, <1>8 DEF Next

(* The indices stay in the pool and at most one lap apart, for every size  *)
(* of the buffer and of the blocks.                                        *)
THEOREM RingTypeCorrect == Spec => []TypeOK
<1>1. Init => TypeOK BY InitEmpty
<1>2. TypeOK /\ [Next]_vars => TypeOK' BY StepIsQueueStep
<1>3. QED BY <1>1, <1>2, PTL DEF Spec

(* The ring buffer implements the bounded queue: every byte comes out      *)
(* once, in order, whatever the mixture of calls (rt_ringbuffer_put,       *)
(* put_force, get, peak, reset) and wherever the indices wrap.             *)
THEOREM RingIsAQueue == Spec => IsAQueue
<1>1. Init => Queue!Init BY InitEmpty
<1>2. TypeOK /\ [Next]_vars => [Queue!Next]_<<Stock, got>> BY StepIsQueueStep
<1>3. QED BY <1>1, <1>2, RingTypeCorrect, PTL DEF Spec, IsAQueue, Queue!Spec

(***************************************************************************)
(* rs485_receive                                                           *)
(***************************************************************************)

LEMMA RxLeast ==
  ASSUME NEW a \in Nat, NEW b \in Nat
  PROVE  Rx!Least(a, b) \in Nat /\ Rx!Least(a, b) <= a /\ Rx!Least(a, b) <= b
         /\ (Rx!Least(a, b) = a \/ Rx!Least(a, b) = b)
BY DEF Rx!Least

LEMMA SplitSeq ==
  ASSUME NEW S, NEW s \in Seq(S), NEW n \in 0 .. Len(s)
  PROVE  /\ SubSeq(s, 1, n) \in Seq(S)
         /\ SubSeq(s, n + 1, Len(s)) \in Seq(S)
         /\ Len(SubSeq(s, n + 1, Len(s))) = Len(s) - n
<1>1. Len(s) \in Nat BY SMT
<1>2. SubSeq(s, 1, n) \in Seq(S) BY <1>1, SMT
<1>3. SubSeq(s, n + 1, Len(s)) \in Seq(S) /\ Len(SubSeq(s, n + 1, Len(s))) = Len(s) - n
  BY <1>1, SMT
<1>4. QED BY <1>2, <1>3

LEMMA RxTypeInit == Rx!Init => Rx!TypeOK
<1> SUFFICES ASSUME Rx!Init PROVE Rx!TypeOK
  OBVIOUS
<1>1. << >> \in Seq(1 .. MaxBytes) /\ Len(<< >>) = 0 BY SMT
<1>2. 0 \in 0 .. MaxBytes /\ 0 \in 0 .. SemMax /\ BufSz \in 0 .. BufSz
      /\ 0 <= HwCap /\ 0 <= RingCap /\ BufSz > 0
  BY RxAssumption, SMT
<1>3. QED BY <1>1, <1>2, Zenon DEF Rx!Init, Rx!TypeOK

LEMMA RxTypeStep == Rx!TypeOK /\ [Rx!Next]_(Rx!vars) => Rx!TypeOK'
<1> SUFFICES ASSUME Rx!TypeOK, [Rx!Next]_(Rx!vars) PROVE Rx!TypeOK'
  OBVIOUS
<1>1. CASE Rx!Arrive
  <2>1. sent' \in 0 .. MaxBytes /\ sent + 1 \in 1 .. MaxBytes
    BY <1>1, RxAssumption, SMT DEF Rx!TypeOK, Rx!Arrive
  <2>2. hw' \in Seq(1 .. MaxBytes) /\ Len(hw') <= HwCap
    <3>1. CASE Len(hw) < HwCap
      <4>1. hw' = Append(hw, sent + 1) BY <1>1, <3>1 DEF Rx!Arrive
      <4>2. hw \in Seq(1 .. MaxBytes) BY DEF Rx!TypeOK
      <4>3. QED BY <2>1, <3>1, <4>1, <4>2, RxAssumption, SMT
    <3>2. CASE ~(Len(hw) < HwCap) BY <1>1, <3>2 DEF Rx!Arrive, Rx!TypeOK
    <3>3. QED BY <3>1, <3>2
  <2>3. lost' \subseteq 1 .. MaxBytes BY <1>1, <2>1 DEF Rx!TypeOK, Rx!Arrive
  <2>4. UNCHANGED <<ring, sem, pc, bufsz, received, masked>> BY <1>1 DEF Rx!Arrive
  <2>5. QED BY <2>1, <2>2, <2>3, <2>4 DEF Rx!TypeOK
<1>2. CASE Rx!Mask BY <1>2 DEF Rx!TypeOK, Rx!Mask
<1>3. CASE Rx!Unmask BY <1>3 DEF Rx!TypeOK, Rx!Unmask
<1>4. CASE Rx!Isr
  <2>1. Head(hw) \in 1 .. MaxBytes /\ hw' \in Seq(1 .. MaxBytes) /\ Len(hw') <= HwCap
    BY <1>4, RxAssumption, SMT DEF Rx!TypeOK, Rx!Isr
  <2>2. ring' \in Seq(1 .. MaxBytes) /\ Len(ring') <= RingCap
    <3>1. ring \in Seq(1 .. MaxBytes) /\ Len(ring) <= RingCap BY DEF Rx!TypeOK
    <3>2. CASE Len(ring) < RingCap
      <4>1. ring' = Append(ring, Head(hw)) BY <1>4, <3>2 DEF Rx!Isr
      <4>2. QED BY <2>1, <3>1, <3>2, <4>1, RxAssumption, SMT
    <3>3. CASE ~(Len(ring) < RingCap) BY <1>4, <3>1, <3>3 DEF Rx!Isr
    <3>4. QED BY <3>2, <3>3
  <2>3. lost' \subseteq 1 .. MaxBytes BY <1>4, <2>1 DEF Rx!TypeOK, Rx!Isr
  <2>4. /\ sem' \in 0 .. SemMax
        /\ pc' = pc \/ (pc = "asleep" /\ pc' = "reset")
    BY <1>4, RxAssumption, SMT DEF Rx!TypeOK, Rx!Isr, Rx!Release
  <2>5. UNCHANGED <<sent, bufsz, received, masked>> BY <1>4 DEF Rx!Isr
  <2>6. QED BY <2>1, <2>2, <2>3, <2>4, <2>5 DEF Rx!TypeOK
<1>5. CASE Rx!Call BY <1>5, RxAssumption, SMT DEF Rx!TypeOK, Rx!Call, Rx!At
<1>6. CASE Rx!ResetSem BY <1>6, RxAssumption, SMT DEF Rx!TypeOK, Rx!ResetSem, Rx!At
<1>7. CASE Rx!Read
  <2> DEFINE n == Rx!Least(bufsz, Len(ring))
  <2>1. /\ n \in Nat /\ n <= bufsz /\ n <= Len(ring)
        /\ bufsz \in Nat /\ bufsz <= BufSz /\ bufsz > 0
        /\ ring \in Seq(1 .. MaxBytes) /\ Len(ring) \in Nat /\ Len(ring) <= RingCap
    <3>1. bufsz \in Nat /\ bufsz <= BufSz /\ bufsz > 0
      BY <1>7, RxAssumption, SMT DEF Rx!TypeOK, Rx!Read, Rx!At
    <3>2. ring \in Seq(1 .. MaxBytes) /\ Len(ring) \in Nat /\ Len(ring) <= RingCap
      BY SMT DEF Rx!TypeOK
    <3>3. QED BY <3>1, <3>2, RxLeast
  <2>2. /\ received' = received \o SubSeq(ring, 1, n)
        /\ ring' = SubSeq(ring, n + 1, Len(ring))
        /\ bufsz' = bufsz - n
        /\ pc' = CASE n = 0 -> "take" [] n = bufsz -> "idle" [] OTHER -> "reset"
        /\ UNCHANGED <<sent, hw, sem, lost, masked>>
    BY <1>7 DEF Rx!Read
  <2> HIDE DEF n
  <2>3. n \in 0 .. Len(ring) BY <2>1, SMT
  <2>4. /\ SubSeq(ring, 1, n) \in Seq(1 .. MaxBytes)
        /\ ring' \in Seq(1 .. MaxBytes) /\ Len(ring') = Len(ring) - n
    BY <2>1, <2>2, <2>3, SplitSeq
  <2>9. Len(ring') <= RingCap BY <2>1, <2>4, RxAssumption, SMT
  <2>10. received' \in Seq(1 .. MaxBytes)
    <3>1. received \in Seq(1 .. MaxBytes) BY DEF Rx!TypeOK
    <3>2. QED BY <2>2, <2>4, <3>1, SMT
  <2>5. bufsz' \in 0 .. BufSz
    <3>1. bufsz' = bufsz - n BY <2>2
    <3>2. BufSz \in Nat BY RxAssumption
    <3>3. QED BY <2>1, <3>1, <3>2, SMT
  <2>6. pc' \in {"idle", "reset", "take"} BY <2>2
  <2>7. pc' \in {"reset", "read", "take", "asleep"} => bufsz' > 0
    BY <2>1, <2>2, SMT
  <2>8. QED BY <2>2, <2>4, <2>5, <2>6, <2>7, <2>9, <2>10 DEF Rx!TypeOK
<1>8. CASE Rx!Take BY <1>8, RxAssumption, SMT DEF Rx!TypeOK, Rx!Take, Rx!At
<1>9. CASE Rx!Timeout BY <1>9, SMT DEF Rx!TypeOK, Rx!Timeout, Rx!At
<1>10. CASE UNCHANGED Rx!vars BY <1>10 DEF Rx!TypeOK, Rx!vars
<1>11. QED BY <1>1, <1>2, <1>3, <1>4, <1>5, <1>6, <1>7, <1>8, <1>9, <1>10 DEF Rx!Next, Rx!Thread

(* A step of the reception is a step of Rs485Rx. *)
LEMMA ReceptionSteps ==
  /\ ReceptionInit => Rx!Init
  /\ [ReceptionNext]_all => [Rx!Next]_(Rx!vars)
<1>1. ReceptionInit => Rx!Init BY DEF ReceptionInit
<1>2. ReceptionNext => Rx!Next
  BY DEF ReceptionNext, IsrPuts, ThreadGets, ThreadGoesOn, Elsewhere, Rx!Next, Rx!Thread
<1>3. UNCHANGED all => UNCHANGED Rx!vars BY DEF all
<1>4. QED BY <1>1, <1>2, <1>3

(* No place, count or length of the reception leaves its range; while a    *)
(* call is under way there is room in the caller's buffer.                 *)
THEOREM ReceptionTypeCorrect == ReceptionSpec => []Rx!TypeOK
BY RxTypeInit, RxTypeStep, ReceptionSteps, PTL DEF ReceptionSpec

(* Between the read that found nothing and the take, a byte in the ring    *)
(* buffer has left its mark in the semaphore: nobody resets it there.      *)
ByteTold == pc = "take" /\ ring # << >> => sem > 0

RxInv == Rx!TypeOK /\ ByteTold /\ Rx!NoByteUnseen

LEMMA ToldStep == RxInv /\ [Rx!Next]_(Rx!vars) => ByteTold' /\ Rx!NoByteUnseen'
<1> SUFFICES ASSUME Rx!TypeOK, ByteTold, Rx!NoByteUnseen, [Rx!Next]_(Rx!vars)
             PROVE  ByteTold' /\ Rx!NoByteUnseen'
  BY DEF RxInv
<1> USE DEF ByteTold, Rx!NoByteUnseen
<1>1. CASE Rx!Arrive BY <1>1 DEF Rx!Arrive
<1>2. CASE Rx!Mask BY <1>2 DEF Rx!Mask
<1>3. CASE Rx!Unmask BY <1>3 DEF Rx!Unmask
<1>4. CASE Rx!Isr
  <2>1. pc' # "asleep" BY <1>4, SMT DEF Rx!Isr, Rx!Release
  <2>2. pc' = "take" => sem' > 0
    BY <1>4, RxAssumption, SMT DEF Rx!Isr, Rx!Release, Rx!TypeOK
  <2>3. QED BY <2>1, <2>2
<1>5. CASE Rx!Call BY <1>5, SMT DEF Rx!Call
<1>6. CASE Rx!ResetSem BY <1>6, SMT DEF Rx!ResetSem
<1>7. CASE Rx!Read
  <2> DEFINE n == Rx!Least(bufsz, Len(ring))
  <2>1. /\ ring' = SubSeq(ring, n + 1, Len(ring))
        /\ pc' = CASE n = 0 -> "take" [] n = bufsz -> "idle" [] OTHER -> "reset"
    BY <1>7 DEF Rx!Read
  <2>2. pc' # "asleep" /\ (pc' = "take" => n = 0) BY <2>1
  <2>3. bufsz \in Nat /\ bufsz > 0 /\ ring \in Seq(1 .. MaxBytes) /\ Len(ring) \in Nat
    BY <1>7, RxAssumption, SMT DEF Rx!TypeOK, Rx!Read, Rx!At
  <2>4. n = 0 => Len(ring) = 0
    <3>1. n = bufsz \/ n = Len(ring) BY <2>3, RxLeast
    <3>2. QED BY <2>3, <3>1
  <2>5. n = 0 => ring' = << >>
    <3>1. Len(ring) = 0 => ring = << >> BY <2>3, SMT
    <3>2. SubSeq(<< >>, 1, 0) = << >> BY SMT
    <3>3. QED BY <2>1, <2>4, <3>1, <3>2, SMT
  <2>6. QED BY <2>2, <2>5
<1>8. CASE Rx!Take BY <1>8, RxAssumption, SMT DEF Rx!Take, Rx!At, Rx!TypeOK
<1>9. CASE Rx!Timeout BY <1>9, SMT DEF Rx!Timeout
<1>10. CASE UNCHANGED Rx!vars BY <1>10 DEF Rx!vars
<1>11. QED BY <1>1, <1>2, <1>3, <1>4, <1>5, <1>6, <1>7, <1>8, <1>9, <1>10 DEF Rx!Next, Rx!Thread

(* rs485_receive never sleeps over a byte it could read, whenever the      *)
(* interrupt came and however long the interrupts were masked.             *)
THEOREM NoByteUnseenAlways == ReceptionSpec => []NoByteUnseen
<1>1. Rx!Init => RxInv BY RxTypeInit, SMT DEF Rx!Init, RxInv, ByteTold, Rx!NoByteUnseen
<1>2. RxInv /\ [Rx!Next]_(Rx!vars) => RxInv' BY RxTypeStep, ToldStep DEF RxInv
<1>3. RxInv => NoByteUnseen BY DEF RxInv, NoByteUnseen
<1>4. QED BY <1>1, <1>2, <1>3, ReceptionSteps, PTL DEF ReceptionSpec

(***************************************************************************)
(* The buffer and the queue of Rs485Rx                                     *)
(***************************************************************************)

LEMMA EndOfConcat ==
  ASSUME NEW S, NEW s \in Seq(S), NEW t \in Seq(S)
  PROVE  SubSeq(s \o t, Len(s \o t) - Len(t) + 1, Len(s \o t)) = t
<1> DEFINE both == s \o t
           end == SubSeq(both, Len(s) + 1, Len(s) + Len(t))
<1>1. Len(s) \in Nat /\ Len(t) \in Nat
  BY LenProperties
<1>2. /\ both \in Seq(S) /\ Len(both) = Len(s) + Len(t)
      /\ \A i \in 1 .. Len(s) + Len(t) : both[i] = IF i <= Len(s) THEN s[i] ELSE t[i - Len(s)]
  BY ConcatProperties
<1> HIDE DEF both
<1>3. /\ \A i \in Len(s) + 1 .. Len(s) + Len(t) : both[i] \in S
      /\ Len(s) + 1 \in Int /\ Len(s) + Len(t) \in Int
  <2>1. \A i \in 1 .. Len(both) : both[i] \in S
    BY <1>2, ElementOfSeq
  <2> QED
    BY <1>1, <1>2, <2>1
<1>4. /\ end \in Seq(S)
      /\ Len(end) = IF Len(s) + 1 <= Len(s) + Len(t) THEN Len(s) + Len(t) - (Len(s) + 1) + 1 ELSE 0
      /\ \A i \in 1 .. Len(s) + Len(t) - (Len(s) + 1) + 1 : end[i] = both[Len(s) + 1 + i - 1]
  BY <1>3, SubSeqProperties
<1> HIDE DEF end
<1>5. Len(end) = Len(t) /\ \A i \in 1 .. Len(t) : end[i] = both[Len(s) + i]
  BY <1>1, <1>4
<1>6. \A i \in 1 .. Len(t) : both[Len(s) + i] = t[i]
  BY <1>1, <1>2
<1>7. end = t
  BY <1>4, <1>5, <1>6, SeqEqual
<1> QED
  BY <1>1, <1>2, <1>7 DEF end, both

LEMMA OneOrNone ==
  ASSUME NEW S, NEW s \in Seq(S), NEW b \in S
  PROVE  /\ <<b>> \in Seq(S) /\ Len(<<b>>) = 1
         /\ SubSeq(<<b>>, 1, 1) = <<b>> /\ SubSeq(<<b>>, 1, 0) = << >>
         /\ s \o << >> = s /\ s \o <<b>> = Append(s, b)
<1>1. s \o << >> = s /\ s \o <<b>> = Append(s, b)
  BY ConcatEmptySeq, AppendIsConcat
<1>2. <<b>> \in Seq(S) /\ Len(<<b>>) = 1
  BY SMT
<1>3. SubSeq(<<b>>, 1, 1) = <<b>>
  BY <1>2, SubSeqFull
<1>4. SubSeq(<<b>>, 1, 0) = << >>
  BY SubSeqEmpty
<1> QED
  BY <1>1, <1>2, <1>3, <1>4

BufferInv == TypeOK /\ Rx!TypeOK /\ BufferAgrees

LEMMA BufferInit == ReceptionInit => BufferInv
<1> SUFFICES ASSUME ReceptionInit PROVE BufferInv
  OBVIOUS
<1>1. Rx!Init /\ Rx!TypeOK
  BY RxTypeInit DEF ReceptionInit
<1>2. pool \in [Slots -> Byte] /\ got = << >>
  BY SameBuffer DEF ReceptionInit
<1>3. /\ read_index = 0 /\ read_mirror = FALSE /\ write_index = 0 /\ write_mirror = FALSE
      /\ received = << >> /\ ring = << >>
  BY <1>1 DEF ReceptionInit, Rx!Init
<1>4. Init
  <2>1. Init <=> /\ pool \in [Slots -> Byte] /\ got = << >>
                 /\ read_index = 0 /\ read_mirror = FALSE /\ write_index = 0 /\ write_mirror = FALSE
    BY DEF Init
  <2> QED
    BY <1>2, <1>3, <2>1
<1>5. TypeOK /\ Stock = << >>
  BY <1>4, InitEmpty DEF Queue!Init
<1>6. SubSeq(<< >>, 1, 0) = << >> /\ Len(<< >>) = 0 /\ 0 - 0 + 1 = 1
  BY SMT
<1>7. BufferAgrees
  BY <1>2, <1>3, <1>5, <1>6 DEF BufferAgrees
<1> QED
  BY <1>1, <1>5, <1>7 DEF BufferInv

LEMMA BufferStep == BufferInv /\ [ReceptionNext]_all => BufferInv'
<1> SUFFICES ASSUME BufferInv, [ReceptionNext]_all PROVE BufferInv'
  OBVIOUS
<1>1. Rx!TypeOK'
  BY RxTypeStep, ReceptionSteps DEF BufferInv
<1>2. /\ TypeOK /\ Rx!TypeOK /\ BufferAgrees /\ Stock = ring
      /\ ring \in Seq(1 .. MaxBytes) /\ hw \in Seq(1 .. MaxBytes) /\ received \in Seq(1 .. MaxBytes)
      /\ Len(ring) \in Nat /\ Len(ring) <= RingCap /\ Size = RingCap /\ RingCap \in Nat
      /\ Len(received) \in Nat
  BY SameBuffer, RxAssumption, LenProperties DEF BufferInv, BufferAgrees, Rx!TypeOK
<1>3. ASSUME UNCHANGED vars, UNCHANGED <<ring, received>> PROVE BufferInv'
  <2>1. UNCHANGED <<pool, read_index, read_mirror, write_index, write_mirror, got>>
    BY <1>3 DEF vars, reader, writer
  <2>2. TypeOK'
    BY <1>2, <2>1 DEF TypeOK
  <2>3. Stock' = Stock
    BY <2>1 DEF Stock, DataLen, Empty, Full, Slot
  <2> QED
    BY <1>1, <1>2, <1>3, <2>1, <2>2, <2>3 DEF BufferInv, BufferAgrees
<1>4. CASE IsrPuts
  <2> DEFINE b == Head(hw)
  <2>1. /\ Put(<<b>>) /\ hw # << >> /\ UNCHANGED received
        /\ ring' = IF Len(ring) < RingCap THEN Append(ring, b) ELSE ring
    BY <1>4 DEF IsrPuts, Rx!Isr
  <2>2. b \in 1 .. MaxBytes /\ b \in Byte
    BY <1>2, <2>1, HeadTailProperties, SameBuffer
  <2> HIDE DEF b
  <2>3. TypeOK' /\ Queue!Put(<<b>>)
    <3>1. <<b>> \in Seq(Byte)
      BY <2>2, SMT
    <3> QED
      BY <1>2, <2>1, <3>1, PutAppends
  <2>4. /\ got' = << >>
        /\ Stock' = ring \o SubSeq(<<b>>, 1, Queue!Least(1, Size - Len(ring)))
    BY <1>2, <2>2, <2>3, OneOrNone DEF Queue!Put, Queue!First
  <2>5. Stock' = ring'
    <3>1. Len(ring) < RingCap => Queue!Least(1, Size - Len(ring)) = 1
      BY <1>2 DEF Queue!Least
    <3>2. ~(Len(ring) < RingCap) => Queue!Least(1, Size - Len(ring)) = 0
      BY <1>2 DEF Queue!Least
    <3>3. /\ SubSeq(<<b>>, 1, 1) = <<b>> /\ SubSeq(<<b>>, 1, 0) = << >>
          /\ ring \o << >> = ring /\ ring \o <<b>> = Append(ring, b)
      BY <1>2, <2>2, OneOrNone
    <3>4. CASE Len(ring) < RingCap
      <4>1. Stock' = ring \o SubSeq(<<b>>, 1, 1)
        BY <2>4, <3>1, <3>4
      <4> QED
        BY <2>1, <3>3, <3>4, <4>1
    <3>5. CASE ~(Len(ring) < RingCap)
      <4>1. Stock' = ring \o SubSeq(<<b>>, 1, 0)
        BY <2>4, <3>2, <3>5
      <4> QED
        BY <2>1, <3>3, <3>5, <4>1
    <3> QED
      BY <3>4, <3>5
  <2>6. SubSeq(received, Len(received) - 0 + 1, Len(received)) = << >> /\ Len(<< >>) = 0
    BY <1>2, SMT
  <2>7. BufferAgrees'
    BY <2>1, <2>4, <2>5, <2>6 DEF BufferAgrees
  <2> QED
    BY <1>1, <2>3, <2>7 DEF BufferInv
<1>5. CASE ThreadGets
  <2> DEFINE n == Least(bufsz, Len(ring))
  <2>1. Len(Stock) = DataLen /\ DataLen = Len(ring)
    BY <1>2, StockIsSeq
  <2>2. /\ HandOut(n)
        /\ received' = received \o SubSeq(ring, 1, n)
        /\ ring' = SubSeq(ring, n + 1, Len(ring))
    BY <1>5, <2>1 DEF ThreadGets, Get, Rx!Read, Rx!Least, Least
  <2>3. n \in 0 .. Len(ring)
    BY <1>2 DEF Least, Rx!TypeOK
  <2> HIDE DEF n
  <2>4. TypeOK' /\ Queue!Take(n)
    BY <1>2, <2>1, <2>2, <2>3, HandOutTakes
  <2>5. got' = SubSeq(ring, 1, n) /\ Stock' = ring' /\ received' = received \o got'
    BY <1>2, <2>2, <2>4 DEF Queue!Take, Queue!First, Queue!After
  <2>6. got' \in Seq(1 .. MaxBytes)
    BY <1>2, <2>3, <2>5, SplitSeq
  <2>7. got' = SubSeq(received', Len(received') - Len(got') + 1, Len(received'))
    BY <1>2, <2>5, <2>6, EndOfConcat
  <2>8. BufferAgrees'
    BY <2>5, <2>7 DEF BufferAgrees
  <2> QED
    BY <1>1, <2>4, <2>8 DEF BufferInv
<1>6. CASE ThreadGoesOn
  BY <1>3, <1>6 DEF ThreadGoesOn, Rx!Call, Rx!ResetSem, Rx!Take, Rx!Timeout
<1>7. CASE Elsewhere
  BY <1>3, <1>7 DEF Elsewhere, Rx!Arrive, Rx!Mask, Rx!Unmask
<1>8. CASE UNCHANGED all
  BY <1>3, <1>8 DEF all, Rx!vars
<1> QED
  BY <1>4, <1>5, <1>6, <1>7, <1>8 DEF ReceptionNext

(* The ring buffer under rs485_receive always holds the bytes of the queue *)
(* that the reception takes it for, and hands out the oldest of them.      *)
THEOREM BufferAlwaysAgrees == ReceptionSpec => []BufferAgrees
<1>1. BufferInv => BufferAgrees
  BY DEF BufferInv
<1> QED
  BY <1>1, BufferInit, BufferStep, PTL DEF ReceptionSpec

(***************************************************************************)
(* Order of the bytes                                                      *)
(***************************************************************************)

(* Everything that was not overrun, in the order it will be handed over.   *)
Line == received \o ring \o hw
Rising(s) == \A i, j \in 1 .. Len(s) : i < j => s[i] < s[j]
OrderInv ==
  /\ Rx!TypeOK /\ lost \subseteq 1 .. sent
  /\ Rising(Line) /\ {Line[i] : i \in 1 .. Len(Line)} = (1 .. sent) \ lost

LEMMA LineIsSeq ==
  Rx!TypeOK => /\ Line \in Seq(1 .. MaxBytes)
               /\ received \o ring \in Seq(1 .. MaxBytes)
<1> SUFFICES ASSUME Rx!TypeOK
             PROVE  Line \in Seq(1 .. MaxBytes) /\ received \o ring \in Seq(1 .. MaxBytes)
  OBVIOUS
<1>1. received \in Seq(1 .. MaxBytes) /\ ring \in Seq(1 .. MaxBytes) /\ hw \in Seq(1 .. MaxBytes)
  BY DEF Rx!TypeOK
<1>2. received \o ring \in Seq(1 .. MaxBytes)
  BY <1>1, ConcatProperties
<1> QED
  BY <1>1, <1>2, ConcatProperties DEF Line

(* A new byte, the highest yet, at the end. *)
LEMMA RisingAppend ==
  ASSUME NEW s \in Seq(Nat), NEW b \in Nat, Rising(s), \A i \in 1 .. Len(s) : s[i] < b
  PROVE  /\ Rising(Append(s, b))
         /\ {Append(s, b)[i] : i \in 1 .. Len(Append(s, b))} = {s[i] : i \in 1 .. Len(s)} \cup {b}
<1> DEFINE t == Append(s, b)
<1>1. /\ Len(s) \in Nat /\ Len(t) = Len(s) + 1 /\ t[Len(s) + 1] = b
      /\ \A i \in 1 .. Len(s) : t[i] = s[i]
  BY AppendProperties, LenProperties
<1> HIDE DEF t
<1>2. \A i \in 1 .. Len(t) : i \in 1 .. Len(s) \/ i = Len(s) + 1
  BY <1>1
<1>3. Rising(t)
  <2>1. ASSUME NEW i \in 1 .. Len(t), NEW j \in 1 .. Len(t), i < j PROVE t[i] < t[j]
    <3>1. i \in 1 .. Len(s)
      BY <1>1, <2>1
    <3>2. CASE j \in 1 .. Len(s)
      BY <1>1, <2>1, <3>1, <3>2 DEF Rising
    <3>3. CASE j = Len(s) + 1
      BY <1>1, <3>1, <3>3
    <3> QED
      BY <1>2, <3>2, <3>3
  <2> QED
    BY <2>1 DEF Rising
<1>4. {t[i] : i \in 1 .. Len(t)} = {s[i] : i \in 1 .. Len(s)} \cup {b}
  <2>1. /\ \A i \in 1 .. Len(s) : i \in 1 .. Len(t)
        /\ Len(s) + 1 \in 1 .. Len(t)
    BY <1>1
  <2> QED
    BY <1>1, <1>2, <2>1
<1> QED
  BY <1>3, <1>4 DEF t

(* One byte in the middle is left out. *)
LEMMA RisingWithout ==
  ASSUME NEW s \in Seq(Nat), NEW t \in Seq(Nat), NEW m \in 1 .. Len(s), Rising(s),
         Len(t) = Len(s) - 1,
         \A i \in 1 .. Len(t) : t[i] = IF i < m THEN s[i] ELSE s[i + 1]
  PROVE  /\ Rising(t)
         /\ {t[i] : i \in 1 .. Len(t)} = {s[i] : i \in 1 .. Len(s)} \ {s[m]}
<1>1. /\ Len(s) \in Nat /\ Len(t) \in Nat
      /\ \A i \in 1 .. Len(t) : i \in 1 .. Len(s) /\ i + 1 \in 1 .. Len(s)
  BY LenProperties
<1>2. Rising(t)
  <2>1. ASSUME NEW i \in 1 .. Len(t), NEW j \in 1 .. Len(t), i < j PROVE t[i] < t[j]
    <3>1. /\ i < m => t[i] = s[i] /\ i \in 1 .. Len(s)
          /\ ~(i < m) => t[i] = s[i + 1] /\ i + 1 \in 1 .. Len(s)
          /\ j < m => t[j] = s[j] /\ j \in 1 .. Len(s)
          /\ ~(j < m) => t[j] = s[j + 1] /\ j + 1 \in 1 .. Len(s)
      BY <1>1
    <3>2. i < j + 1 /\ i + 1 < j + 1 /\ (j < m => i < m)
      BY <2>1
    <3> QED
      BY <2>1, <3>1, <3>2 DEF Rising
  <2> QED
    BY <2>1 DEF Rising
<1>3. ASSUME NEW i \in 1 .. Len(s), i # m PROVE s[i] # s[m]
  <2>1. \A k \in 1 .. Len(s) : s[k] \in Nat
    BY ElementOfSeq
  <2>2. i < m \/ m < i
    BY <1>3
  <2>3. s[i] < s[m] \/ s[m] < s[i]
    BY <2>2 DEF Rising
  <2> QED
    BY <2>1, <2>3
<1>4. ASSUME NEW i \in 1 .. Len(s), i # m PROVE \E k \in 1 .. Len(t) : s[i] = t[k]
  <2>1. CASE i < m
    <3>1. i \in 1 .. Len(t)
      BY <1>1, <2>1
    <3> QED
      BY <2>1, <3>1
  <2>2. CASE ~(i < m)
    <3>1. i - 1 \in 1 .. Len(t) /\ ~(i - 1 < m) /\ (i - 1) + 1 = i
      BY <1>1, <1>4, <2>2
    <3> QED
      BY <3>1
  <2> QED
    BY <2>1, <2>2
<1>5. ASSUME NEW k \in 1 .. Len(t) PROVE \E i \in 1 .. Len(s) : i # m /\ t[k] = s[i]
  <2>1. CASE k < m
    <3>1. k \in 1 .. Len(s) /\ k # m
      BY <1>1, <2>1
    <3>2. t[k] = s[k]
      BY <2>1
    <3> QED
      BY <3>1, <3>2
  <2>2. CASE ~(k < m)
    <3>1. k + 1 \in 1 .. Len(s) /\ k + 1 # m
      BY <1>1, <2>2
    <3> QED
      BY <2>2, <3>1
  <2> QED
    BY <2>1, <2>2
<1>6. {t[i] : i \in 1 .. Len(t)} = {s[i] : i \in 1 .. Len(s)} \ {s[m]}
  <2>1. ASSUME NEW x \in {t[i] : i \in 1 .. Len(t)} PROVE x \in {s[i] : i \in 1 .. Len(s)} \ {s[m]}
    <3>1. PICK k \in 1 .. Len(t) : x = t[k]
      BY <2>1
    <3>2. PICK i \in 1 .. Len(s) : i # m /\ t[k] = s[i]
      BY <1>5, <3>1
    <3> QED
      BY <1>3, <3>1, <3>2
  <2>2. ASSUME NEW x \in {s[i] : i \in 1 .. Len(s)} \ {s[m]} PROVE x \in {t[i] : i \in 1 .. Len(t)}
    <3>1. PICK i \in 1 .. Len(s) : x = s[i] /\ i # m
      BY <2>2
    <3>2. PICK k \in 1 .. Len(t) : s[i] = t[k]
      BY <1>4, <3>1
    <3> QED
      BY <3>1, <3>2
  <2> QED
    BY <2>1, <2>2
<1> QED
  BY <1>2, <1>6

LEMMA OrderInit == Rx!Init => OrderInv
<1> SUFFICES ASSUME Rx!Init PROVE OrderInv
  OBVIOUS
<1>1. Rx!TypeOK
  BY RxTypeInit
<1>2. Line = << >> /\ Len(Line) = 0 /\ sent = 0 /\ lost = {}
  <2>1. << >> \o << >> = << >> /\ Len(<< >>) = 0
    BY SMT
  <2> QED
    BY <2>1 DEF Rx!Init, Line
<1>3. 1 .. 0 = {}
  BY SMT
<1> QED
  BY <1>1, <1>2, <1>3 DEF OrderInv, Rising

LEMMA OrderStep == OrderInv /\ [Rx!Next]_(Rx!vars) => OrderInv'
<1> SUFFICES ASSUME OrderInv, [Rx!Next]_(Rx!vars) PROVE OrderInv'
  OBVIOUS
<1>1. Rx!TypeOK /\ Rx!TypeOK'
  BY RxTypeStep DEF OrderInv
<1>2. /\ received \in Seq(1 .. MaxBytes) /\ ring \in Seq(1 .. MaxBytes) /\ hw \in Seq(1 .. MaxBytes)
      /\ received \o ring \in Seq(1 .. MaxBytes) /\ Line \in Seq(1 .. MaxBytes)
      /\ Line \in Seq(Nat) /\ sent \in Nat /\ sent \in 0 .. MaxBytes
      /\ received \in Seq(Nat) /\ ring \in Seq(Nat) /\ hw \in Seq(Nat)
  <2>1. \A s \in Seq(1 .. MaxBytes) : s \in Seq(Nat)
    <3>1. 1 .. MaxBytes \subseteq Nat
      BY RxAssumption
    <3> QED
      BY <3>1, SeqMonotonic
  <2> QED
    BY <1>1, <2>1, LineIsSeq DEF Rx!TypeOK
<1>3. /\ lost \subseteq 1 .. sent /\ Rising(Line)
      /\ {Line[i] : i \in 1 .. Len(Line)} = (1 .. sent) \ lost
  BY DEF OrderInv
<1>4. ASSUME Line' = Line, UNCHANGED <<sent, lost>> PROVE OrderInv'
  BY <1>1, <1>3, <1>4 DEF OrderInv, Rising
<1>5. CASE Rx!Arrive
  <2>1. sent' = sent + 1 /\ UNCHANGED <<ring, received>>
    BY <1>5 DEF Rx!Arrive
  <2>2. 1 .. sent + 1 = (1 .. sent) \cup {sent + 1} /\ sent + 1 \notin 1 .. sent /\ sent + 1 \in Nat
    BY <1>2
  <2>3. CASE Len(hw) < HwCap
    <3>1. hw' = Append(hw, sent + 1) /\ UNCHANGED lost
      BY <1>5, <2>3 DEF Rx!Arrive
    <3>2. Line' = Append(Line, sent + 1)
      <4>1. \A p \in Seq(Nat), q \in Seq(Nat), b \in Nat : p \o Append(q, b) = Append(p \o q, b)
        BY SMT
      <4> QED
        BY <1>2, <2>1, <2>2, <3>1, <4>1, ConcatProperties DEF Line
    <3>3. \A i \in 1 .. Len(Line) : Line[i] < sent + 1
      <4>1. \A i \in 1 .. Len(Line) : Line[i] \in (1 .. sent) \ lost
        BY <1>3
      <4>2. \A b \in 1 .. sent : b < sent + 1
        BY <1>2
      <4> QED
        BY <4>1, <4>2
    <3>30. PICK t \in Seq(Nat) : t = Line
      BY <1>2
    <3>31. Rising(t) /\ \A i \in 1 .. Len(t) : t[i] < sent + 1
      BY <1>3, <3>3, <3>30
    <3>4. /\ Rising(Line')
          /\ {Line'[i] : i \in 1 .. Len(Line')} = {Line[i] : i \in 1 .. Len(Line)} \cup {sent + 1}
      <4>1. /\ Rising(Append(t, sent + 1))
            /\ {Append(t, sent + 1)[i] : i \in 1 .. Len(Append(t, sent + 1))}
                 = {t[i] : i \in 1 .. Len(t)} \cup {sent + 1}
        BY <2>2, <3>31, RisingAppend
      <4> QED
        BY <3>2, <3>30, <4>1
    <3> QED
      BY <1>1, <1>3, <2>1, <2>2, <3>1, <3>4 DEF OrderInv, Rising
  <2>4. CASE ~(Len(hw) < HwCap)
    <3>1. UNCHANGED hw /\ lost' = lost \cup {sent + 1}
      BY <1>5, <2>4 DEF Rx!Arrive
    <3>2. Line' = Line
      BY <2>1, <3>1 DEF Line
    <3> QED
      BY <1>1, <1>3, <2>1, <2>2, <3>1, <3>2 DEF OrderInv, Rising
  <2> QED
    BY <2>3, <2>4
<1>6. CASE Rx!Isr
  <2> DEFINE b == Head(hw)
             rest == Tail(hw)
             before == received \o ring
  <2>1. /\ hw # << >> /\ hw' = rest /\ UNCHANGED <<sent, received>>
        /\ Len(ring) < RingCap => ring' = Append(ring, b) /\ UNCHANGED lost
        /\ ~(Len(ring) < RingCap) => lost' = lost \cup {b} /\ UNCHANGED ring
    BY <1>6 DEF Rx!Isr
  <2>2. /\ b \in Nat /\ rest \in Seq(Nat) /\ b = hw[1] /\ hw = <<b>> \o rest
        /\ Len(rest) = Len(hw) - 1 /\ \A i \in 1 .. Len(rest) : rest[i] = hw[i + 1]
        /\ Len(hw) \in Nat /\ Len(hw) >= 1
    BY <1>2, <2>1, HeadTailProperties, SMT
  <2>3. before \in Seq(Nat) /\ Line = before \o hw
    BY <1>2, ConcatProperties DEF Line
  <2> HIDE DEF b, rest
  <2>4. CASE Len(ring) < RingCap
    <3>1. \A p \in Seq(Nat), q \in Seq(Nat) : p \o Append(q, b) = (p \o q) \o <<b>>
      BY <2>2, SMT
    <3>2. Line' = (before \o <<b>>) \o rest
      BY <1>2, <2>1, <2>4, <3>1 DEF Line
    <3>3. <<b>> \in Seq(Nat)
      BY <2>2, SMT
    <3>4. Line' = before \o hw
      <4> HIDE DEF before
      <4>1. PICK p \in Seq(Nat), q \in Seq(Nat), r \in Seq(Nat) : p = before /\ q = <<b>> /\ r = rest
        BY <2>2, <2>3, <3>3
      <4>2. (before \o <<b>>) \o rest = before \o (<<b>> \o rest)
        <5>1. (p \o q) \o r = p \o (q \o r)
          BY ConcatAssociative
        <5> QED
          BY <4>1, <5>1
      <4> QED
        BY <2>2, <3>2, <4>2
    <3> QED
      BY <1>4, <2>1, <2>3, <2>4, <3>4
  <2>5. CASE ~(Len(ring) < RingCap)
    <3> DEFINE m == Len(before) + 1
    <3>1. Line' = before \o rest
      BY <2>1, <2>5 DEF Line
    <3> HIDE DEF before
    <3>2. Len(before) \in Nat
      BY <2>3, LenProperties
    <3>3. /\ Len(Line) = Len(before) + Len(hw)
          /\ \A i \in 1 .. Len(before) + Len(hw) :
               Line[i] = IF i <= Len(before) THEN before[i] ELSE hw[i - Len(before)]
      BY <1>2, <2>3, ConcatProperties
    <3>4. /\ Line' \in Seq(Nat) /\ Len(Line') = Len(before) + Len(rest)
          /\ \A i \in 1 .. Len(before) + Len(rest) :
               Line'[i] = IF i <= Len(before) THEN before[i] ELSE rest[i - Len(before)]
      BY <2>2, <2>3, <3>1, ConcatProperties
    <3>5. /\ m \in 1 .. Len(Line) /\ Len(Line') = Len(Line) - 1 /\ Line[m] = b
          /\ m - Len(before) = 1
      <4>1. /\ m \in 1 .. Len(before) + Len(hw) /\ ~(m <= Len(before)) /\ m - Len(before) = 1
            /\ Len(before) + Len(rest) = Len(before) + Len(hw) - 1
        BY <2>2, <3>2
      <4>2. Line[m] = hw[m - Len(before)]
        BY <3>3, <4>1
      <4>3. m \in 1 .. Len(Line) /\ Len(Line') = Len(Line) - 1
        BY <3>3, <3>4, <4>1
      <4> QED
        BY <2>2, <4>1, <4>2, <4>3
    <3>6. ASSUME NEW i \in 1 .. Len(Line')
          PROVE  Line'[i] = IF i < m THEN Line[i] ELSE Line[i + 1]
      <4>1. i \in 1 .. Len(before) + Len(rest) /\ i \in 1 .. Len(before) + Len(hw)
            /\ i + 1 \in 1 .. Len(before) + Len(hw)
        BY <2>2, <3>2, <3>4
      <4>2. CASE i < m
        <5>1. i <= Len(before)
          BY <3>2, <4>1, <4>2
        <5> QED
          BY <3>3, <3>4, <4>1, <4>2, <5>1
      <4>3. CASE ~(i < m)
        <5>1. /\ ~(i <= Len(before)) /\ ~(i + 1 <= Len(before))
              /\ i - Len(before) \in 1 .. Len(rest)
              /\ (i - Len(before)) + 1 = (i + 1) - Len(before)
          BY <2>2, <3>2, <4>1, <4>3
        <5> QED
          BY <2>2, <3>3, <3>4, <4>1, <4>3, <5>1
      <4> QED
        BY <4>2, <4>3
    <3> HIDE DEF m
    <3>7. /\ Rising(Line')
          /\ {Line'[i] : i \in 1 .. Len(Line')} = {Line[i] : i \in 1 .. Len(Line)} \ {Line[m]}
      <4>1. PICK s \in Seq(Nat) : s = Line
        BY <1>2
      <4>2. PICK t \in Seq(Nat) : t = Line'
        BY <3>4
      <4>3. /\ m \in 1 .. Len(s) /\ Rising(s) /\ Len(t) = Len(s) - 1
            /\ \A i \in 1 .. Len(t) : t[i] = IF i < m THEN s[i] ELSE s[i + 1]
        BY <1>3, <3>5, <3>6, <4>1, <4>2
      <4>4. Rising(t) /\ {t[i] : i \in 1 .. Len(t)} = {s[i] : i \in 1 .. Len(s)} \ {s[m]}
        BY <4>3, RisingWithout
      <4>5. Rising(Line')
        BY <4>2, <4>4
      <4>6. {Line'[i] : i \in 1 .. Len(Line')} = {t[i] : i \in 1 .. Len(t)}
        BY <4>2
      <4>7. {Line[i] : i \in 1 .. Len(Line)} = {s[i] : i \in 1 .. Len(s)} /\ s[m] = Line[m]
        BY <4>1
      <4> QED
        BY <4>4, <4>5, <4>6, <4>7
    <3>8. b \in 1 .. sent
      BY <1>3, <3>5
    <3> QED
      BY <1>1, <1>3, <2>1, <2>5, <3>5, <3>7, <3>8 DEF OrderInv, Rising
  <2> QED
    BY <2>4, <2>5
<1>7. CASE Rx!Read
  <2> DEFINE n == Rx!Least(bufsz, Len(ring))
  <2>1. /\ received' = received \o SubSeq(ring, 1, n)
        /\ ring' = SubSeq(ring, n + 1, Len(ring))
        /\ UNCHANGED <<sent, hw, lost>>
    BY <1>7 DEF Rx!Read
  <2>2. n \in 0 .. Len(ring) /\ Len(ring) \in Nat
    BY <1>1, <1>2, LenProperties DEF Rx!Least, Rx!TypeOK
  <2> HIDE DEF n
  <2>3. /\ SubSeq(ring, 1, n) \in Seq(1 .. MaxBytes)
        /\ SubSeq(ring, n + 1, Len(ring)) \in Seq(1 .. MaxBytes)
    BY <1>2, <2>2, SplitSeq
  <2>4. SubSeq(ring, 1, n) \o SubSeq(ring, n + 1, Len(ring)) = ring
    <3>1. 1 \in 1 .. Len(ring) + 1 /\ n \in 1 - 1 .. Len(ring) /\ Len(ring) \in n .. Len(ring)
      BY <2>2
    <3>2. SubSeq(ring, 1, n) \o SubSeq(ring, n + 1, Len(ring)) = SubSeq(ring, 1, Len(ring))
      BY <1>2, <3>1, ConcatAdjacentSubSeq
    <3> QED
      BY <1>2, <3>2, SubSeqFull
  <2>5. (received \o SubSeq(ring, 1, n)) \o SubSeq(ring, n + 1, Len(ring)) = received \o ring
    <3>1. /\ received \in Seq(1 .. MaxBytes) /\ SubSeq(ring, 1, n) \in Seq(1 .. MaxBytes)
          /\ SubSeq(ring, n + 1, Len(ring)) \in Seq(1 .. MaxBytes)
      BY <1>2, <2>3
    <3>2. (received \o SubSeq(ring, 1, n)) \o SubSeq(ring, n + 1, Len(ring))
            = received \o (SubSeq(ring, 1, n) \o SubSeq(ring, n + 1, Len(ring)))
      <4>1. \A p, q, r \in Seq(1 .. MaxBytes) : (p \o q) \o r = p \o (q \o r)
        BY ConcatAssociative
      <4> QED
        BY <3>1, <4>1
    <3> QED
      BY <2>4, <3>2
  <2>6. Line' = Line
    BY <2>1, <2>5 DEF Line
  <2> QED
    BY <1>4, <2>1, <2>6
<1>8. CASE Rx!Mask \/ Rx!Unmask \/ Rx!Call \/ Rx!ResetSem \/ Rx!Take \/ Rx!Timeout \/ UNCHANGED Rx!vars
  <2>1. UNCHANGED <<sent, hw, ring, received, lost>>
    BY <1>8 DEF Rx!Mask, Rx!Unmask, Rx!Call, Rx!ResetSem, Rx!Take, Rx!Timeout, Rx!vars
  <2> QED
    BY <1>4, <2>1 DEF Line
<1> QED
  BY <1>5, <1>6, <1>7, <1>8 DEF Rx!Next, Rx!Thread

(* Bytes are handed over in the order of the line, none twice, and none    *)
(* disappears but by an overrun of the FIFO or of the ring buffer.         *)
THEOREM AlwaysInOrder == ReceptionSpec => []InOrder
<1>1. OrderInv => InOrder
  <2> SUFFICES ASSUME OrderInv PROVE InOrder
    OBVIOUS
  <2>1. Line \in Seq(1 .. MaxBytes) /\ DOMAIN Line = 1 .. Len(Line)
    BY LineIsSeq, LenProperties DEF OrderInv
  <2> QED
    BY <2>1 DEF InOrder, Rx!InOrder, OrderInv, Rising, Line
<1> QED
  BY <1>1, OrderInit, OrderStep, ReceptionSteps, PTL DEF ReceptionSpec

(* A call that sleeps with nothing more in the FIFO has every byte of the  *)
(* line behind it: when it times out, iap_process has been handed all that *)
(* was not overrun, and takes the silence for the end of a frame.          *)
SleptOnAll ==
  pc = "asleep" /\ hw = << >> =>
    \A b \in 1 .. sent : b \in lost \/ \E i \in 1 .. Len(received) : received[i] = b

THEOREM SilenceMeansAll == ReceptionSpec => []SleptOnAll
<1>1. OrderInv /\ NoByteUnseen => SleptOnAll
  <2> SUFFICES ASSUME OrderInv, NoByteUnseen, pc = "asleep", hw = << >>,
                      NEW b \in 1 .. sent, b \notin lost
               PROVE  \E i \in 1 .. Len(received) : received[i] = b
    BY DEF SleptOnAll
  <2>1. ring = << >> /\ received \in Seq(1 .. MaxBytes)
    BY DEF NoByteUnseen, Rx!NoByteUnseen, OrderInv, Rx!TypeOK
  <2>2. Line = received
    <3>1. received \o << >> = received
      BY <2>1, ConcatEmptySeq
    <3> QED
      BY <2>1, <3>1 DEF Line
  <2>3. b \in {Line[i] : i \in 1 .. Len(Line)}
    BY DEF OrderInv
  <2> QED
    BY <2>2, <2>3
<1> QED
  BY <1>1, OrderInit, OrderStep, ReceptionSteps, NoByteUnseenAlways, PTL DEF ReceptionSpec
=============================================================================
