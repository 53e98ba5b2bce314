-------------------------- MODULE FalPartitionProofs ---------------------------
(***************************************************************************)
(* Proofs about FalPartition: that every call keeps to its partition, that *)
(* a read through the data cache returns what the flash holds, and that an *)
(* erase of a partition leaves none of it out, for every layout, every set *)
(* of calls that CallAssumption allows and every number of failures.       *)
(***************************************************************************)
EXTENDS FalPartition, TLAPS

(* A call that passes the bounds check lies in its partition: the sum does *)
(* not wrap.                                                               *)
LEMMA InsideFacts ==
  ASSUME NEW c \in Calls, Inside(c)
  PROVE  /\ c.part \in Part /\ c.addr \in Nat /\ c.size \in Nat
         /\ Offset[c.part] \in Nat /\ PartLen[c.part] \in Nat
         /\ Start(c) = Offset[c.part] + c.addr
         /\ c.addr + c.size <= PartLen[c.part]
         /\ Offset[c.part] + PartLen[c.part] <= FlashLen
<1>1. /\ c.part \in Part /\ c.addr \in Nat /\ c.size \in Nat /\ c.addr + c.size < Word
      /\ Word \in Nat
  BY CallAssumption, LayoutAssumption
<1>2. /\ Offset[c.part] \in Nat /\ PartLen[c.part] \in Nat
      /\ Offset[c.part] + PartLen[c.part] <= FlashLen
  BY <1>1, LayoutAssumption
<1>3. (c.addr + c.size) % Word = c.addr + c.size
  BY <1>1
<1> QED
  BY <1>1, <1>2, <1>3 DEF Inside, Start

(* What a failed operation leaves differs from what was there only where   *)
(* the whole operation would have changed it.                              *)
LEMMA TornOutside ==
  ASSUME NEW old, NEW new, NEW torn \in Torn(old, new)
  PROVE  /\ DOMAIN torn = DOMAIN old
         /\ \A i \in DOMAIN old : old[i] = new[i] => torn[i] = old[i]
BY DEF Torn

LEMMA WriteOutside ==
  ASSUME NEW m, NEW s, NEW at, NEW page, NEW mem2,
         \/ mem2 = WriteDone(m, s, at)
         \/ mem2 \in WriteUnnoticed(m, s, at, page)
         \/ mem2 \in WriteFailed(m, s, at, page)
  PROVE  /\ DOMAIN mem2 = DOMAIN m
         /\ \A i \in DOMAIN m : mem2[i] # m[i] => at <= i /\ i < at + Len(s)
<1>1. /\ DOMAIN WriteDone(m, s, at) = DOMAIN m
      /\ \A i \in DOMAIN m : WriteDone(m, s, at)[i] # m[i] => at <= i /\ i < at + Len(s)
  BY DEF WriteDone, Programmed, Cells
<1>2. CASE mem2 \in WriteUnnoticed(m, s, at, page)
  <2>1. PICK torn \in Torn(m, WriteDone(m, s, at)) :
          mem2 = [i \in DOMAIN m |-> IF i \in FirstPage(m, at, page) THEN torn[i]
                                     ELSE WriteDone(m, s, at)[i]]
    BY <1>2 DEF WriteUnnoticed
  <2>2. \A i \in DOMAIN m : m[i] = WriteDone(m, s, at)[i] => torn[i] = m[i]
    BY TornOutside
  <2> QED
    BY <1>1, <2>1, <2>2
<1>3. CASE mem2 \in WriteFailed(m, s, at, page)
  <2>1. mem2 \in Torn(m, WriteDone(m, s, at))
    BY <1>3 DEF WriteFailed
  <2> QED
    BY <1>1, <2>1, TornOutside
<1> QED
  BY <1>1, <1>2, <1>3

LEMMA WriteKeepsToItself ==
  ASSUME TypeOK, NEW c \in Calls, Write(c)
  PROVE  /\ DOMAIN mem' = FlashCells
         /\ \A i \in FlashCells :
              mem'[i] # mem[i] => Start(c) <= i /\ i < Start(c) + c.size
<1>1. PICK v \in Values :
        \/ mem' = WriteDone(mem, Data(v, c.size), Start(c))
        \/ mem' \in WriteUnnoticed(mem, Data(v, c.size), Start(c), PageLen)
        \/ mem' \in WriteFailed(mem, Data(v, c.size), Start(c), PageLen)
  BY DEF Write
<1>2. Len(Data(v, c.size)) = c.size
  BY CallAssumption DEF Data
<1>3. DOMAIN mem = FlashCells
  BY DEF TypeOK
<1> DEFINE s  == Data(v, c.size)
           at == Start(c)
<1> HIDE DEF s, at
<1>4. /\ DOMAIN mem' = DOMAIN mem
      /\ \A i \in DOMAIN mem : mem'[i] # mem[i] => at <= i /\ i < at + Len(s)
  <2>1. \/ mem' = WriteDone(mem, s, at)
        \/ mem' \in WriteUnnoticed(mem, s, at, PageLen)
        \/ mem' \in WriteFailed(mem, s, at, PageLen)
    BY <1>1 DEF s, at
  <2> QED
    BY <2>1, WriteOutside
<1> QED
  BY <1>2, <1>3, <1>4 DEF s, at

LEMMA EraseKeepsToItself ==
  ASSUME TypeOK, NEW c \in Calls, Erase(c)
  PROVE  /\ DOMAIN mem' = FlashCells
         /\ \A i \in FlashCells :
              mem'[i] # mem[i] => Start(c) <= i /\ i < Start(c) + c.size
         /\ ret' = "ok" => \A i \in FlashCells :
              Start(c) <= i /\ i < Start(c) + c.size => mem'[i] = Erased
<1>1. c.size % BlkSize = 0
  BY CallAssumption, LayoutAssumption DEF Erase
<1>2. Aligned(c.size) = c.size
  BY <1>1 DEF Aligned
<1> DEFINE wiped == Wiped(mem, Cells(mem, Start(c), c.size))
<1>3. DOMAIN mem = FlashCells
  BY DEF TypeOK
<1>4. /\ DOMAIN wiped = FlashCells
      /\ \A i \in FlashCells : wiped[i] = IF Start(c) <= i /\ i < Start(c) + c.size
                                            THEN Erased ELSE mem[i]
  BY <1>3 DEF Wiped, Cells
<1>5. (mem' = wiped /\ ret' = "ok") \/ (mem' \in Torn(mem, wiped) /\ ret' = "error")
  BY <1>2 DEF Erase
<1>6. CASE mem' = wiped /\ ret' = "ok"
  BY <1>4, <1>6
<1>7. CASE mem' \in Torn(mem, wiped) /\ ret' = "error"
  <2>1. /\ DOMAIN mem' = DOMAIN mem
        /\ \A i \in DOMAIN mem : mem[i] = wiped[i] => mem'[i] = mem[i]
    BY <1>7, TornOutside
  <2> QED
    BY <1>3, <1>4, <1>7, <2>1
<1> QED
  BY <1>5, <1>6, <1>7

(* Every cell that is read is in a line that was invalidated first. *)
LEMMA ReadFacts ==
  ASSUME TypeOK, NEW c \in Calls, Read(c)
  PROVE  /\ DOMAIN cache' \subseteq FlashCells
         /\ DOMAIN buf' = 0 .. c.size - 1
         /\ \A k \in 0 .. c.size - 1 : buf'[k] = mem[Start(c) + k]
<1> DEFINE at   == Start(c)
           left == [i \in DOMAIN cache \ Invalidated(at, c.size) |-> cache[i]]
<1>1. /\ buf' = [k \in 0 .. c.size - 1 |-> Through(left, at + k)]
      /\ cache' = [i \in DOMAIN left \cup Lines(at, c.size) |-> Through(left, i)]
  BY DEF Read
<1>2. DOMAIN cache' \subseteq FlashCells
  BY <1>1 DEF TypeOK, Lines
<1>3. ASSUME NEW k \in 0 .. c.size - 1
      PROVE  buf'[k] = mem[at + k]
  <2>0. Inside(c)
    BY DEF Read
  <2>1. /\ at \in Nat /\ c.size \in Nat /\ at + c.size <= FlashLen /\ FlashLen \in Nat
    <3>1. FlashLen \in Nat
      BY LayoutAssumption
    <3> QED
      BY <2>0, <3>1, InsideFacts
  <2>2. at + k \in FlashCells /\ at + k \in at .. at + c.size - 1
    BY <2>1 DEF FlashCells
  <2>3. at + k \in Invalidated(at, c.size)
    BY <2>2 DEF Invalidated, Lines
  <2>4. at + k \notin DOMAIN left
    BY <2>3
  <2> QED
    BY <1>1, <2>4 DEF Through
<1> QED
  BY <1>1, <1>2, <1>3

(* The invariant: each of the three properties survives the other calls    *)
(* because a call is recorded together with what it did.                   *)
Inv == TypeOK /\ ReadIsFresh /\ EraseIsWhole

LEMMA InitInv == Init => Inv
BY LayoutAssumption DEF Init, Inv, TypeOK, ReadIsFresh, EraseIsWhole, NoCall, FlashCells

LEMMA ServeInv ==
  ASSUME Inv, NEW c \in Calls, c.part \in table, call' = c, UNCHANGED table,
         OutOfBound(c) \/ Read(c) \/ Write(c) \/ Erase(c)
  PROVE  Inv'
<1>1. c.fn \in {"read", "write", "erase"}
  BY CallAssumption
<1>2. table \in {{}, Part} /\ faults \in 0 .. MaxFaults /\ MaxFaults \in Nat /\ TypeOK
  BY LayoutAssumption DEF Inv, TypeOK
<1>3. CASE OutOfBound(c)
  BY <1>2, <1>3 DEF OutOfBound, Inv, TypeOK, ReadIsFresh, EraseIsWhole
<1>4. CASE Read(c)
  <2>1. c.fn = "read" /\ ret' = "ok" /\ UNCHANGED <<mem, faults>>
    BY <1>4 DEF Read
  <2>2. /\ DOMAIN cache' \subseteq FlashCells
        /\ DOMAIN buf' = 0 .. c.size - 1
        /\ \A k \in 0 .. c.size - 1 : buf'[k] = mem[Start(c) + k]
    BY <1>2, <1>4, ReadFacts
  <2>3. TypeOK'
    BY <1>2, <2>1, <2>2 DEF TypeOK
  <2>4. ReadIsFresh'
    BY <2>1, <2>2 DEF ReadIsFresh, Start
  <2> QED
    BY <2>1, <2>3, <2>4 DEF Inv, EraseIsWhole
<1>5. CASE Write(c)
  <2>1. c.fn = "write" /\ ret' \in {"ok", "error"} /\ UNCHANGED <<cache, buf>>
    BY <1>5 DEF Write
  <2>2. faults' \in 0 .. MaxFaults
    BY <1>2, <1>5 DEF Write
  <2>3. DOMAIN mem' = FlashCells
    BY <1>2, <1>5, WriteKeepsToItself
  <2> QED
    BY <1>2, <2>1, <2>2, <2>3 DEF Inv, TypeOK, ReadIsFresh, EraseIsWhole
<1>6. CASE Erase(c)
  <2>1. c.fn = "erase" /\ ret' \in {"ok", "error"} /\ UNCHANGED <<cache, buf>>
    BY <1>6 DEF Erase
  <2>2. faults' \in 0 .. MaxFaults
    BY <1>2, <1>6 DEF Erase
  <2>3. /\ DOMAIN mem' = FlashCells
        /\ ret' = "ok" => \A i \in FlashCells :
             Start(c) <= i /\ i < Start(c) + c.size => mem'[i] = Erased
    BY <1>2, <1>6, EraseKeepsToItself
  <2>4. TypeOK'
    BY <1>2, <2>1, <2>2, <2>3 DEF TypeOK
  <2>5. Start(c) = Offset[c.part] /\ c.size = PartLen[c.part]
    BY <2>1, CallAssumption, LayoutAssumption DEF Start
  <2>6. EraseIsWhole'
    BY <2>3, <2>5 DEF EraseIsWhole
  <2> QED
    BY <2>1, <2>4, <2>6 DEF Inv, ReadIsFresh
<1> QED
  BY <1>3, <1>4, <1>5, <1>6

LEMMA StepInv == Inv /\ [Next]_vars => Inv'
<1> SUFFICES ASSUME Inv, [Next]_vars PROVE Inv'
  OBVIOUS
<1>1. CASE FalInit
  BY <1>1 DEF FalInit, Inv, TypeOK, ReadIsFresh, EraseIsWhole, Start
<1>2. CASE Serve
  BY <1>2, ServeInv DEF Serve
<1>3. CASE Evict
  BY <1>3 DEF Evict, Inv, TypeOK, ReadIsFresh, EraseIsWhole, Start
<1>4. CASE UNCHANGED vars
  BY <1>4 DEF vars, Inv, TypeOK, ReadIsFresh, EraseIsWhole, Start
<1> QED
  BY <1>1, <1>2, <1>3, <1>4 DEF Next

LEMMA AlwaysInv == Spec => []Inv
BY InitInv, StepInv, PTL DEF Spec

(* The variables keep to their types in every reachable state. *)
THEOREM PartitionTypeCorrect == Spec => []TypeOK
<1>1. Inv => TypeOK
  BY DEF Inv
<1> QED
  BY <1>1, AlwaysInv, PTL

(* Every read returns what the flash holds, whatever the data cache kept.  *)
THEOREM ReadsAreFresh == Spec => []ReadIsFresh
<1>1. Inv => ReadIsFresh
  BY DEF Inv
<1> QED
  BY <1>1, AlwaysInv, PTL

(* An erase that succeeds leaves no cell of the partition out.             *)
THEOREM ErasesAreWhole == Spec => []EraseIsWhole
<1>1. Inv => EraseIsWhole
  BY DEF Inv
<1> QED
  BY <1>1, AlwaysInv, PTL

(* No call changes a cell outside of its partition: one partition's writer *)
(* cannot damage the other partition, nor the loader in front of them.     *)
THEOREM CallsKeepToTheirPartition == Spec => OwnCellsOnly
<1> DEFINE Kept == \A i \in FlashCells :
             mem'[i] # mem[i] =>
               /\ call'.part \in Part
               /\ Offset[call'.part] <= i /\ i < Offset[call'.part] + PartLen[call'.part]
<1>1. Inv /\ [Next]_vars => [Kept]_vars
  <2> SUFFICES ASSUME Inv, Next PROVE Kept
    OBVIOUS
  <2>1. CASE FalInit \/ Evict
    BY <2>1 DEF FalInit, Evict
  <2>2. CASE Serve
    <3>1. PICK c \in Calls : call' = c /\ (OutOfBound(c) \/ Read(c) \/ Write(c) \/ Erase(c))
      BY <2>2 DEF Serve
    <3>2. CASE OutOfBound(c) \/ Read(c)
      BY <3>2 DEF OutOfBound, Read
    <3>3. CASE Write(c) \/ Erase(c)
      <4>1. Inside(c) /\ TypeOK
        BY <3>3 DEF Write, Erase, Inv
      <4>2. \A i \in FlashCells : mem'[i] # mem[i] => Start(c) <= i /\ i < Start(c) + c.size
        BY <3>3, <4>1, WriteKeepsToItself, EraseKeepsToItself
      <4>3. \A i \in FlashCells : Start(c) <= i /\ i < Start(c) + c.size =>
              Offset[c.part] <= i /\ i < Offset[c.part] + PartLen[c.part]
        <5>1. FlashLen \in Nat
          BY LayoutAssumption
        <5> QED
          BY <4>1, <5>1, InsideFacts DEF FlashCells
      <4> QED
        BY <3>1, <4>1, <4>2, <4>3, InsideFacts
    <3> QED
      BY <3>1, <3>2, <3>3
  <2> QED
    BY <2>1, <2>2 DEF Next
<1> QED
  BY <1>1, AlwaysInv, PTL DEF Spec, OwnCellsOnly
=============================================================================
