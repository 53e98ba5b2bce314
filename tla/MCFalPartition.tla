---------------------------- MODULE MCFalPartition -----------------------------
(***************************************************************************)
(* An instance of FalPartition for TLC: app of two sectors, download of    *)
(* one behind it, a cache line that reaches over their border, calls that  *)
(* begin off a page boundary, fill, end at and pass the end of a partition.*)
(***************************************************************************)
EXTENDS FalPartition

MCOffset  == [p \in {"app", "download"} |-> IF p = "app" THEN 0 ELSE 4]
MCPartLen == [p \in {"app", "download"} |-> IF p = "app" THEN 4 ELSE 2]

MCCalls ==
  {[fn |-> f, part |-> "app", addr |-> r[1], size |-> r[2]] :
     f \in {"read", "write"}, r \in {<<0, 4>>, <<1, 3>>, <<3, 2>>}}
  \cup {[fn |-> f, part |-> "download", addr |-> r[1], size |-> r[2]] :
     f \in {"read", "write"}, r \in {<<0, 2>>, <<1, 2>>}}
  \cup {[fn |-> "erase", part |-> p, addr |-> 0, size |-> MCPartLen[p]] : p \in DOMAIN MCPartLen}
=============================================================================
