------------------------------ MODULE MCFlashPort ------------------------------
(***************************************************************************)
(* An instance of FlashPort for TLC: 4 cells, pages of 2, sectors of 2; a  *)
(* write that starts inside a page and goes on into the next, one that     *)
(* ends inside its first page, and a range that is rounded up to sectors.  *)
(***************************************************************************)
EXTENDS FlashPort

MCRanges == {[off |-> 1, size |-> 2], [off |-> 1, size |-> 1], [off |-> 0, size |-> 3]}
=============================================================================
