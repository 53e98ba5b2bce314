------------------------------ MODULE MCCardCheck ------------------------------
(***************************************************************************)
(* An instance of CardCheck for TLC: bodies whose first byte is any byte,  *)
(* so that every entry of the table is used, of lengths with and without a *)
(* short last piece, that fit or not; damages of one to four bytes, within *)
(* a piece and over the ends of pieces.  Cards with no body, with bodies   *)
(* that end inside a page and that fill the partition, and one too long.   *)
(***************************************************************************)
EXTENDS CardCheck

MCErased  == 0 .. 7
MCGarbage == {2, 3, 5}
MCHeader  == {1, 6}

MCFirms ==
  {<<b>> \o s : b \in Byte, s \in {<< >>, <<{0}, {}, {1, 7}>>}}
  \cup {<< >>, <<{}, {}, {}, {}>>, <<{5}, 0 .. 7, {}, {2, 3}, {7}>>, <<{}, {}, {}, {}, {}, {0}>>}

MCMasks ==
  {<<{i}>> : i \in {0, 7}} \cup {<<{7}, {0}>>, <<0 .. 7, {}, {3}>>, <<{1}, {}, {}, {6}>>}

MCCardFirms ==
  {<< >>, <<{0}, {4, 5}>>, <<{3}, {}, {1}, {0, 7}, {6}>>, <<{}, {1}, {2}, {}, {4}, {5}>>}
=============================================================================
