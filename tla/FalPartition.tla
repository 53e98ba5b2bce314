----------------------------- MODULE FalPartition ------------------------------
(***************************************************************************)
(* The partitions the loader's writers see: fal_partition_read, _write and *)
(* _erase of fal's fal_partition.c over read, write and erase of           *)
(* board/fal_flash_port.c, on one flash that is read through the data      *)
(* cache of the core.                                                      *)
(*                                                                         *)
(* One call is one action here; how two threads' calls interleave inside   *)
(* the port is the subject of FlashPort.                                   *)
(***************************************************************************)
EXTENDS NorFlash

CONSTANTS
  FlashLen,     \* cells of the flash
  PageLen, BlkSize, LineLen,    \* a page, a sector, a line of the data cache
  Offset, PartLen,              \* of each partition of the table, functions of its name
  ReportedLens, \* what the chip, or the default, may say its length is
  Calls,        \* what the callers ask for: [fn, part, addr, size]
  Values,       \* what they write
  Word,         \* 2^32, the modulus of uint32_t
  MaxFaults     \* bound on failed operations

Part == DOMAIN PartLen
FlashCells == 0 .. FlashLen - 1

ASSUME LayoutAssumption ==
  /\ FlashLen \in Nat /\ PageLen \in Nat \ {0} /\ BlkSize \in Nat \ {0} /\ LineLen \in Nat \ {0}
  /\ Word \in Nat /\ MaxFaults \in Nat /\ FlashLen < Word
  /\ Offset \in [Part -> Nat] /\ PartLen \in [Part -> Nat]
  /\ \A p \in Part : /\ Offset[p] + PartLen[p] <= FlashLen
                     /\ Offset[p] % BlkSize = 0 /\ PartLen[p] % BlkSize = 0

(* The callers never wrap the 32 bits of addr + size, and erase whole      *)
(* partitions.                                                             *)
ASSUME CallAssumption ==
  \A c \in Calls :
    /\ c.fn \in {"read", "write", "erase"} /\ c.part \in Part
    /\ c.addr \in Nat /\ c.size \in Nat /\ c.addr + c.size < Word
    /\ c.fn = "erase" => c.addr = 0 /\ c.size = PartLen[c.part]

VARIABLES
  mem,          \* the flash
  cache,        \* what the data cache holds of it, a function of some cells
  table,        \* the partitions that can be found
  call, ret,    \* the last call and what it returned: "ok" or "error"
  buf,          \* what the last read returned
  faults

vars == <<mem, cache, table, call, ret, buf, faults>>

NoCall == [fn |-> "none"]

Init ==
  /\ mem \in [FlashCells -> {Garbage}]
  /\ cache = << >> /\ table = {}
  /\ call = NoCall /\ ret = "ok" /\ buf = << >> /\ faults = 0

(* fal_init: a partition that starts behind the end of the chip empties    *)
(* the table.                                                              *)
FalInit ==
  /\ table = {}
  /\ \E len \in ReportedLens :
       table' = IF \A p \in Part : Offset[p] < len THEN Part ELSE {}
  /\ UNCHANGED <<mem, cache, call, ret, buf, faults>>

Start(c) == Offset[c.part] + c.addr

Inside(c) == (c.addr + c.size) % Word <= PartLen[c.part]

OutOfBound(c) ==
  /\ ~Inside(c)
  /\ ret' = "error"
  /\ UNCHANGED <<mem, cache, buf, faults>>

(* The cells of the cache lines that size cells from at on lie in. *)
Lines(at, size) ==
  {i \in FlashCells : \E j \in at .. at + size - 1 : i - (i % LineLen) = j - (j % LineLen)}

(* Slip: the end is rounded down to a line.  (Operators introduced as      *)
(* "Slip:" are never used: each is a plausible mistake in the definition   *)
(* after it, kept to show that the properties would notice.)               *)
LinesBelow(at, size) ==
  {i \in FlashCells : at - (at % LineLen) <= i /\ i < (at + size) - ((at + size) % LineLen)}

Invalidated(at, size) == Lines(at, size)

Through(held, i) == IF i \in DOMAIN held THEN held[i] ELSE mem[i]

(* read(): the lines are invalidated, and filled again by the copy. *)
Read(c) ==
  /\ c.fn = "read" /\ Inside(c)
  /\ LET at   == Start(c)
         left == [i \in DOMAIN cache \ Invalidated(at, c.size) |-> cache[i]]
     IN  /\ buf' = [k \in 0 .. c.size - 1 |-> Through(left, at + k)]
         /\ cache' = [i \in DOMAIN left \cup Lines(at, c.size) |-> Through(left, i)]
  /\ ret' = "ok"
  /\ UNCHANGED <<mem, faults>>

Data(v, size) == [k \in 1 .. size |-> v]

Write(c) ==
  /\ c.fn = "write" /\ Inside(c)
  /\ \E v \in Values :
       \/ /\ mem' = WriteDone(mem, Data(v, c.size), Start(c))
          /\ ret' = "ok" /\ UNCHANGED faults
       \/ /\ faults < MaxFaults /\ faults' = faults + 1 /\ ret' = "ok"
          /\ mem' \in WriteUnnoticed(mem, Data(v, c.size), Start(c), PageLen)
       \/ /\ faults < MaxFaults /\ faults' = faults + 1 /\ ret' = "error"
          /\ mem' \in WriteFailed(mem, Data(v, c.size), Start(c), PageLen)
  /\ UNCHANGED <<cache, buf>>

(* Slip: one sector more is erased than the rounding asks for. *)
OneMore(size) == size + BlkSize - (size % BlkSize)

(* Slip: the loop ends one sector early. *)
OneLess(size) == size - BlkSize

Aligned(size) == IF size % BlkSize = 0 THEN size ELSE size + BlkSize - (size % BlkSize)

Erase(c) ==
  /\ c.fn = "erase" /\ Inside(c)
  /\ LET wiped == Wiped(mem, Cells(mem, Start(c), Aligned(c.size)))
     IN  \/ mem' = wiped /\ ret' = "ok" /\ UNCHANGED faults
         \/ /\ faults < MaxFaults /\ faults' = faults + 1 /\ ret' = "error"
            /\ mem' \in Torn(mem, wiped)
  /\ UNCHANGED <<cache, buf>>

Serve ==
  /\ \E c \in Calls :
       /\ c.part \in table
       /\ call' = c
       /\ OutOfBound(c) \/ Read(c) \/ Write(c) \/ Erase(c)
  /\ UNCHANGED table

(* The core drops lines when it needs the place. *)
Evict ==
  /\ \E i \in DOMAIN cache :
       cache' = [j \in {k \in DOMAIN cache : k - (k % LineLen) # i - (i % LineLen)} |-> cache[j]]
  /\ UNCHANGED <<mem, table, call, ret, buf, faults>>

Next == FalInit \/ Serve \/ Evict

Spec == Init /\ [][Next]_vars

(***************************************************************************)
(* Properties                                                              *)
(***************************************************************************)

TypeOK ==
  /\ DOMAIN mem = FlashCells /\ DOMAIN cache \subseteq FlashCells
  /\ table \in {{}, Part} /\ call \in Calls \cup {NoCall}
  /\ ret \in {"ok", "error"} /\ faults \in 0 .. MaxFaults
  /\ call.fn = "read" /\ ret = "ok" => DOMAIN buf = 0 .. call.size - 1

(* No call on a partition, whatever it asks for and however it fails,      *)
(* changes a cell of the flash outside of that partition.                  *)
OwnCellsOnly ==
  [][\A i \in FlashCells :
       mem'[i] # mem[i] =>
         /\ call'.part \in Part
         /\ Offset[call'.part] <= i /\ i < Offset[call'.part] + PartLen[call'.part]]_vars

(* What a read returns is what the flash holds at that moment, although    *)
(* the data cache keeps lines from before the last erase or program.       *)
ReadIsFresh ==
  call.fn = "read" /\ ret = "ok" =>
    \A k \in 0 .. call.size - 1 : buf[k] = mem[Start(call) + k]

(* After a fal_partition_erase_all that returns a size, the whole          *)
(* partition is blank.                                                     *)
EraseIsWhole ==
  call.fn = "erase" /\ ret = "ok" =>
    \A i \in FlashCells :
      Offset[call.part] <= i /\ i < Offset[call.part] + PartLen[call.part] => mem[i] = Erased
=============================================================================
