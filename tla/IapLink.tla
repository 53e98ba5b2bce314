-------------------------------- MODULE IapLink --------------------------------
(***************************************************************************)
(* A firmware transfer over RS485: the host of README.md's "RS485          *)
(* firmware upgrade protocol", the line, and the slave of IapSlave.        *)
(*                                                                         *)
(* The host is not part of the repository; it follows the README: SYNC     *)
(* until a CHECK is answered, START, the packets one at a time, each       *)
(* repeated until it is answered, UPDATE.  It looks at the packet number   *)
(* of a response, and starts again at START when a write has failed.  The  *)
(* line keeps the order of frames and may lose one (a frame with a bad CRC *)
(* is a lost frame); a response may come after the host stopped waiting    *)
(* for it.                                                                 *)
(***************************************************************************)
EXTENDS IapSlave

CONSTANTS
  Target,      \* the partition the host writes to
  ImageLen,    \* length of the image in cells
  PktLen,      \* cells in a packet
  LineCap,     \* bound on the frames under way in one direction
  MaxLosses,   \* bound on lost frames and late answers
  Spent        \* <<faults, losses>> that a run may begin with: what is left to happen

ASSUME LinkAssumption ==
  /\ Target \in Parts /\ ImageLen \in 1 .. PartLen[Target]
  /\ PktLen \in Nat \ {0}
  /\ LineCap \in Nat \ {0} /\ MaxLosses \in Nat
  /\ Spent \subseteq (0 .. MaxFaults) \X (0 .. MaxLosses)

VARIABLES
  host,       \* the host's stage: "sync", "check", "start", "write", "update", "done"
  num,        \* packet being sent, from 1
  waiting,    \* the host waits for a response
  toSlave, toHost,   \* frames on the line
  losses

line == <<toSlave, toHost, losses>>
vars == <<slave, host, num, waiting, line>>

(***************************************************************************)
(* The host                                                                *)
(***************************************************************************)

Image(i) == <<"image", i>>
Packets == (ImageLen + PktLen - 1) \div PktLen
PacketData(n) ==
  [k \in 1 .. Smaller(PktLen, ImageLen - (n - 1) * PktLen) |-> Image((n - 1) * PktLen + k - 1)]

Request ==
  CASE host = "start" -> [cmd |-> "start", part |-> Target, len |-> ImageLen]
    [] host = "write" -> [cmd |-> "write", num |-> num, data |-> PacketData(num)]
    [] OTHER          -> [cmd |-> host]

HostSync ==
  /\ host = "sync" /\ Len(toSlave) < LineCap
  /\ toSlave' = Append(toSlave, [cmd |-> "sync"])
  /\ waiting' = TRUE
  /\ UNCHANGED <<slave, host, num, toHost, losses>>

(* Enough SYNC frames: ask whether the device stayed. *)
HostAsks ==
  /\ host = "sync" /\ waiting
  /\ host' = "check" /\ waiting' = FALSE
  /\ UNCHANGED <<slave, num, line>>

HostSend ==
  /\ host \notin {"sync", "done"} /\ ~waiting /\ Len(toSlave) < LineCap
  /\ toSlave' = Append(toSlave, Request)
  /\ waiting' = TRUE
  /\ UNCHANGED <<slave, host, num, toHost, losses>>

(* No answer in time, because there is none or because it is late: an      *)
(* unanswered CHECK goes back to SYNC, anything else is sent again.        *)
HostTimeout ==
  /\ waiting /\ host # "sync"
  /\ \/ toSlave = << >> /\ toHost = << >> /\ UNCHANGED losses
     \/ losses < MaxLosses /\ losses' = losses + 1
  /\ waiting' = FALSE
  /\ host' = IF host = "check" THEN "sync" ELSE host
  /\ UNCHANGED <<slave, num, toSlave, toHost>>

Answers(r) ==
  /\ waiting
  /\ \/ r.kind = host /\ (host = "write" => r.num = num)
     \/ r.kind = "exception" /\ r.cmd = host

(* What a response to the request under way makes of the host. *)
Proceed(r) ==
  CASE r.kind = "check"  -> host' = "start" /\ UNCHANGED num
    [] r.kind = "start"  -> /\ host' = IF r.ok THEN "write" ELSE "start"
                            /\ num' = 1
    [] r.kind = "write" /\ r.ok ->
                            /\ host' = IF num < Packets THEN "write" ELSE "update"
                            /\ num' = num + 1
    [] r.kind = "write" /\ ~r.ok ->
                            /\ host' = "start"
                            /\ UNCHANGED num
    [] r.kind = "update" -> host' = "done" /\ UNCHANGED num
    [] OTHER             -> host' = "sync" /\ UNCHANGED num

HostReceive ==
  /\ toHost # << >>
  /\ toHost' = Tail(toHost)
  /\ IF Answers(Head(toHost))
       THEN Proceed(Head(toHost)) /\ waiting' = FALSE
       ELSE UNCHANGED <<host, num, waiting>>
  /\ UNCHANGED <<slave, toSlave, losses>>

(* The operator sees that the device has left the loader, lets what is     *)
(* under way arrive, and starts over.                                      *)
HostStartsOver ==
  /\ host \notin {"sync", "check", "done"} /\ ~is_remain
  /\ toSlave = << >> /\ toHost = << >>
  /\ host' = "sync" /\ waiting' = FALSE
  /\ UNCHANGED <<slave, num, line>>

(***************************************************************************)
(* The line and the slave                                                  *)
(***************************************************************************)

Lose ==
  /\ losses < MaxLosses
  /\ losses' = losses + 1
  /\ \/ toSlave # << >> /\ toSlave' = Tail(toSlave) /\ UNCHANGED toHost
     \/ toHost # << >> /\ toHost' = Tail(toHost) /\ UNCHANGED toSlave
  /\ UNCHANGED <<slave, host, num, waiting>>

(* iap_process hands a frame to slave_callback and sends what it packed;   *)
(* after is_quit the main thread does not come back to it.                 *)
Serve ==
  /\ toSlave # << >> /\ ~is_quit /\ Len(toHost) < LineCap
  /\ Handle(Head(toSlave))
  /\ toSlave' = Tail(toSlave)
  /\ toHost' = IF rsp'.kind = "none" THEN toHost ELSE Append(toHost, rsp')
  /\ UNCHANGED <<host, num, waiting, losses>>

SlaveReboots ==
  /\ ~is_quit
  /\ Reboot
  /\ UNCHANGED <<host, num, waiting, line>>

Init ==
  /\ InitRegs /\ rsp = NoReply /\ reboots = 0
  /\ \E spent \in Spent : faults = spent[1] /\ losses = spent[2]
  /\ flash = [p \in Parts |-> [i \in 0 .. PartLen[p] - 1 |-> Garbage]]
  /\ host = "sync" /\ num = 1 /\ waiting = FALSE
  /\ toSlave = << >> /\ toHost = << >>

Host == HostSync \/ HostSend \/ HostAsks \/ HostTimeout \/ HostReceive \/ HostStartsOver

Next == Host \/ Lose \/ Serve \/ SlaveReboots

Spec == Init /\ [][Next]_vars

(* The device serves what arrives; the host is diligent. *)
Fairness ==
  /\ WF_vars(Serve)
  /\ WF_vars(HostSync) /\ WF_vars(HostSend) /\ WF_vars(HostAsks)
  /\ WF_vars(HostTimeout) /\ WF_vars(HostReceive) /\ SF_vars(HostStartsOver)

FairSpec == Spec /\ Fairness

(***************************************************************************)
(* Properties                                                              *)
(***************************************************************************)

Holds(n) == \A k \in 1 .. Len(PacketData(n)) :
              flash[Target][(n - 1) * PktLen + k - 1] = PacketData(n)[k]

(* What the host believes is in the partition is there: whatever was lost, *)
(* repeated or answered late, a packet the host has moved past is in the   *)
(* flash, at its place.                                                    *)
AckedInFlash ==
  host \in {"write", "update", "done"} => \A n \in 1 .. num - 1 : Holds(n)

(* The device leaves the loader on the host's word only with the complete  *)
(* image in the partition and every cell after it erased.                  *)
QuitMeansComplete ==
  is_quit => flash[Target] = [i \in 0 .. PartLen[Target] - 1 |->
                                IF i < ImageLen THEN Image(i) ELSE Erased]

(* README.md: the status byte of a WRITE response is 1 for success: the    *)
(* packet it names is in the partition when the slave says so.             *)
SuccessMeansWritten ==
  (rsp.kind = "write" /\ rsp.ok) => Holds(rsp.num)

(* A host that keeps trying gets its image into the device and the device  *)
(* out of the loader, after finitely many losses and resets.               *)
TransferCompletes == <>(is_quit \/ host = "done")
=============================================================================
