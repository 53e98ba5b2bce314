-------------------------------- MODULE MCBoot --------------------------------
(***************************************************************************)
(* An instance of Boot for TLC: app of 8 cells, download of 12 (larger     *)
(* than app, so that a valid package need not fit), sectors of 4, pages of *)
(* 2, a buffer of 4, a header of 1 that shares the last page with the body *)
(* of the largest firmware and is written off a page boundary.             *)
(***************************************************************************)
EXTENDS Boot

MCFirmware == {"small", "full", "big", "locked", "wrap"}

(* small ends inside a page; full fills the app partition to the header    *)
(* and needs two buffers; big fits app without its header only; locked is  *)
(* encrypted; wrap's size plus the header is 0 in a machine word.          *)
MCRawSize == [f \in MCFirmware |->
  CASE f = "small"  -> 3
    [] f = "full"   -> 7
    [] f = "big"    -> 8
    [] f = "locked" -> 2
    [] f = "wrap"   -> Word - HdrLen]

Package(f, n) ==
  [i \in DownCells |-> IF i < n /\ i < HdrLen + MCRawSize[f] THEN <<f, i>> ELSE Erased]

(* Nothing, every package complete, packages cut short, and one with a     *)
(* hole where a write was lost.                                            *)
MCDeliveries ==
  {Package("small", 0), Package("full", 4), Package("small", 3),
   [Package("full", DownLen) EXCEPT ![5] = Erased]}
  \cup {Package(f, DownLen) : f \in MCFirmware}

(* A bare image of an older firmware, a cut one, and a blank partition. *)
Bare(n) == [i \in AppCells |-> IF i < n THEN <<"small", HdrLen + i>> ELSE Erased]
MCRawImages == {Bare(3), Bare(1), Bare(0)}
=============================================================================
