------------------------------- MODULE NorFlash -------------------------------
(***************************************************************************)
(* The serial NOR flash behind the fal partitions, cell by cell.           *)
(*                                                                         *)
(* A memory is a function from cell addresses to cell contents.  A cell is *)
(* Erased (0xFF), holds the value last programmed into it, or is Garbage:  *)
(* bits that are nobody's data, left by programming a cell that was not    *)
(* erased or by an operation that failed or lost power half way.           *)
(*                                                                         *)
(* The operators take a memory and return a memory, so that the modules    *)
(* that own a partition decide when a page or a sector is touched.         *)
(***************************************************************************)
EXTENDS Integers, Sequences

CONSTANTS Erased,   \* what a cell reads as after its sector is erased
          Garbage   \* a cell whose content nobody wrote as such

ASSUME ErasedIsNotGarbage == Erased # Garbage

Smaller(a, b) == IF a < b THEN a ELSE b

(* The cells of mem from address at on, size of them. *)
Cells(mem, at, size) == {i \in DOMAIN mem : at <= i /\ i < at + size}

(* Programming only clears bits: an erased cell takes the value, a cell    *)
(* that already holds it keeps it, any other mixture is garbage.           *)
Burn(old, new) == IF old = Erased THEN new
                  ELSE IF new \in {old, Erased} THEN old ELSE Garbage

(* rom_xpi_nor_program: data[i] goes to cell i, for the cells of region. *)
Programmed(mem, data, region) ==
  [i \in DOMAIN mem |-> IF i \in region THEN Burn(mem[i], data[i]) ELSE mem[i]]

(* rom_xpi_nor_erase_sector *)
Wiped(mem, region) ==
  [i \in DOMAIN mem |-> IF i \in region THEN Erased ELSE mem[i]]

(* What an operation that would have turned old into new may leave behind  *)
(* when it reports a failure or the supply drops: every cell it was        *)
(* changing is unchanged, changed, or garbage.                             *)
Torn(old, new) ==
  LET touched == {i \in DOMAIN old : old[i] # new[i]}
  IN  {[i \in DOMAIN old |->
          IF i \notin touched THEN old[i]
          ELSE CASE how[i] = "kept"    -> old[i]
                 [] how[i] = "done"    -> new[i]
                 [] OTHER              -> Garbage] :
         how \in [touched -> {"kept", "done", "mixed"}]}

(* fal_partition_write of the cells s at address at: all of it is          *)
(* programmed; or the program of a first page that begins off a page       *)
(* boundary fails, which write() does not notice; or a later program       *)
(* fails, and write() says so.                                             *)
WriteDone(mem, s, at) ==
  LET region == Cells(mem, at, Len(s))
  IN  Programmed(mem, [i \in region |-> s[i - at + 1]], region)
FirstPage(mem, at, page) ==
  IF at % page = 0 THEN {} ELSE Cells(mem, at, page - (at % page))
WriteUnnoticed(mem, s, at, page) ==
  {[i \in DOMAIN mem |-> IF i \in FirstPage(mem, at, page) THEN torn[i] ELSE WriteDone(mem, s, at)[i]] :
     torn \in Torn(mem, WriteDone(mem, s, at))}
WriteFailed(mem, s, at, page) ==
  IF Cells(mem, at, Len(s)) \subseteq FirstPage(mem, at, page) THEN {}
  ELSE Torn(mem, WriteDone(mem, s, at))
=============================================================================
