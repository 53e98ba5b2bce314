----------------------------- MODULE MCFormUpload ------------------------------
(***************************************************************************)
(* An instance of FormUpload for TLC: files longer than the buffer and     *)
(* shorter than a third of it, empty, with line ends and with beginnings   *)
(* of a boundary inside and at the end.                                    *)
(***************************************************************************)
EXTENDS FormUpload

Plain(n) == [i \in 1 .. n |-> "x"]

MCFiles ==
  {<< >>, Plain(1), Plain(22),
   Plain(7) \o <<"cr", "lf">> \o Plain(9) \o <<"cr", "lf">>,
   Plain(9) \o <<"cr", "lf", "b1">> \o Plain(8) \o <<"cr", "lf", "b1">>,
   <<"cr", "lf", "b1">> \o Plain(15) \o <<"cr">>,
   Plain(12) \o <<"cr", "lf", "b1", "dd">> \o Plain(6)}
=============================================================================
