------------------------------- MODULE MCIapLink -------------------------------
(***************************************************************************)
(* An instance of IapLink for TLC: partitions of 6 cells, pages of 2, an   *)
(* image of 5 cells.                                                       *)
(***************************************************************************)
EXTENDS IapLink

MCPartLen == [p \in {"app", "download"} |-> 6]

(* Either the line fails or the flash does, in one run; or both may.       *)
EitherFails == {<<MaxFaults, 0>>, <<0, MaxLosses>>}
BothFail    == {<<0, 0>>}
=============================================================================
