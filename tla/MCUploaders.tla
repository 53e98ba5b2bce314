------------------------------ MODULE MCUploaders ------------------------------
(***************************************************************************)
(* An instance of Uploaders for TLC: an app partition smaller than the     *)
(* download partition, requests with lengths that fit neither, one or      *)
(* both, and packets that are empty, inside a page, or longer than what    *)
(* was announced; files that fill their partition, are longer, or have an  *)
(* unknown name.                                                           *)
(***************************************************************************)
EXTENDS Uploaders

MCPartLen == [p \in {"app", "download"} |-> IF p = "app" THEN 2 ELSE 3]

ToStart(p, n) == [cmd |-> "start", part |-> p, len |-> n]
ToWrite(k, n) == [cmd |-> "write", num |-> k, data |-> [i \in 1 .. n |-> i]]

AnyRequest ==
  {[cmd |-> c] : c \in {"sync", "check", "update", "other"}}
  \cup {ToStart("none", 1), ToStart("app", 1), ToStart("app", 3), ToStart("download", 3), ToStart("download", 4)}
  \cup {ToWrite(k, n) : k \in 1 .. 2, n \in 1 .. 2} \cup {ToWrite(0, 1), ToWrite(1, 0)}

Transfer(p) ==
  {[cmd |-> "sync"], [cmd |-> "update"], ToStart(p, 2)} \cup {ToWrite(1, 1), ToWrite(2, 1)}

(* Any host and no upload; uploads and a host that only holds the loader;  *)
(* a host and an upload to two partitions, or to the same.                 *)
MCMixes ==
  {[requests |-> AnyRequest, faults |-> 0, reboots |-> 0, uploads |-> MaxUploads],
   [requests |-> {[cmd |-> "sync"]}, faults |-> 0, reboots |-> MaxReboots, uploads |-> 0]}
  \cup {[requests |-> Transfer(p), faults |-> MaxFaults, reboots |-> 0, uploads |-> MaxUploads - 1] :
           p \in {"app", "download"}}

MCFiles ==
  {[part |-> "app", data |-> <<8, 9>>], [part |-> "app", data |-> <<7, 8, 9>>],
   [part |-> "download", data |-> <<9>>], [part |-> "null", data |-> <<7>>]}
=============================================================================
