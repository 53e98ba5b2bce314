------------------------------- MODULE IapSlave -------------------------------
(***************************************************************************)
(* The RS485 slave of the boot loader: slave_callback of                   *)
(* applications/iap_slave.c with its static variables, and the two         *)
(* partitions it erases and writes.                                        *)
(*                                                                         *)
(* A request is a record with cmd in {"sync", "check", "start", "write",   *)
(* "update", "other"}: start has part and len, write has num and data (a   *)
(* sequence of cells); malformed fields are a part that does not exist, or *)
(* packet number 0.  One handler runs to its end before the main thread    *)
(* does anything else, so each is one action; `rsp' is the response it     *)
(* packs.                                                                  *)
(***************************************************************************)
EXTENDS NorFlash

CONSTANTS
  PartLen,     \* length of each partition, a function of the partition
  PageLen,     \* flash page size
  SyncCap,     \* bound: the sync counter stops there, it matters only at 3
  MaxFaults,   \* bound on failed flash operations
  MaxReboots   \* bound on resets of the device

Parts == DOMAIN PartLen
NoPart == "null"

ASSUME SlaveAssumption ==
  /\ Parts = {"app", "download"}
  /\ \A p \in Parts : PartLen[p] \in Nat \ {0}
  /\ PageLen \in Nat \ {0} /\ SyncCap \in Nat /\ SyncCap >= 3
  /\ MaxFaults \in Nat /\ MaxReboots \in Nat

VARIABLES
  flash,          \* the content of each partition
  using_part, iap_step, total_len, write_len, write_packet, sync_cmd_cnt,
  is_remain, is_quit,
  rsp,            \* what the last handler answered
  faults,         \* failed flash operations so far
  reboots         \* resets so far

regs  == <<using_part, iap_step, total_len, write_len, write_packet, sync_cmd_cnt>>
slave == <<flash, regs, is_remain, is_quit, rsp, faults, reboots>>

(* Responses: none at all, a modbus exception, a status byte (0 failed, 1  *)
(* success) for start, a status and a packet number for write.             *)
NoReply == [kind |-> "none"]
Plain(cmd) == [kind |-> cmd]
Exception(cmd) == [kind |-> "exception", cmd |-> cmd]
StartStatus(ok) == [kind |-> "start", ok |-> ok]
WriteStatus(num, ok) == [kind |-> "write", num |-> num, ok |-> ok]

Blank(p) == [i \in 0 .. PartLen[p] - 1 |-> Erased]

InitRegs ==
  /\ using_part = NoPart /\ iap_step = "null"
  /\ total_len = 0 /\ write_len = 0 /\ write_packet = 0 /\ sync_cmd_cnt = 0
  /\ is_remain = FALSE /\ is_quit = FALSE

(* Before is_remain every command but SYNC is dropped without an answer. *)
Ignored(req) ==
  /\ ~is_remain /\ req.cmd # "sync"
  /\ rsp' = NoReply
  /\ UNCHANGED <<flash, regs, is_remain, is_quit, faults>>

Sync(req) ==
  /\ req.cmd = "sync"
  /\ sync_cmd_cnt' = Smaller(sync_cmd_cnt + 1, SyncCap)
  /\ is_remain' = (is_remain \/ sync_cmd_cnt + 1 = 3)
  /\ rsp' = NoReply
  /\ UNCHANGED <<flash, using_part, iap_step, total_len, write_len, write_packet,
                 is_quit, faults>>

Check(req) ==
  /\ is_remain /\ req.cmd = "check"
  /\ rsp' = Plain("check")
  /\ UNCHANGED <<flash, regs, is_remain, is_quit, faults>>

(***************************************************************************)
(* IAP_CMD_START                                                           *)
(***************************************************************************)

(* Slip: the change of partition is not noticed.  (Operators introduced as *)
(* "Slip:" are never used: each is a plausible mistake in the definition   *)
(* after it, kept to show that the properties would notice.)               *)
StepKept(p) == iap_step

(* A change of partition forgets that the other one was erased. *)
StepFor(p) == IF p = using_part THEN iap_step ELSE "null"

(* No such partition. *)
StartRefused(req) ==
  /\ req.part \notin Parts
  /\ rsp' = Exception("start")
  /\ UNCHANGED <<flash, using_part, iap_step, total_len, write_len, write_packet, faults>>

(* Longer than the partition: refused, but the partition stays selected. *)
StartTooLong(req) ==
  /\ req.part \in Parts /\ req.len > PartLen[req.part]
  /\ using_part' = req.part /\ iap_step' = StepFor(req.part)
  /\ rsp' = Exception("start")
  /\ UNCHANGED <<flash, total_len, write_len, write_packet, faults>>

(* Already erased and not written since. *)
StartAgain(req) ==
  /\ StepFor(req.part) = "start"
  /\ rsp' = StartStatus(TRUE)
  /\ UNCHANGED <<flash, using_part, iap_step, faults>>

StartErases(req) ==
  /\ StepFor(req.part) # "start"
  /\ using_part' = req.part
  /\ \/ /\ flash' = [flash EXCEPT ![req.part] = Blank(req.part)]
        /\ iap_step' = "start"
        /\ rsp' = StartStatus(TRUE)
        /\ UNCHANGED faults
     \/ /\ faults < MaxFaults
        /\ faults' = faults + 1
        /\ \E torn \in Torn(flash[req.part], Blank(req.part)) :
             flash' = [flash EXCEPT ![req.part] = torn]
        /\ iap_step' = StepFor(req.part)
        /\ rsp' = StartStatus(FALSE)

Announce(req) == total_len' = req.len /\ write_len' = 0 /\ write_packet' = 0

Start(req) ==
  /\ is_remain /\ req.cmd = "start"
  /\ \/ StartRefused(req) \/ StartTooLong(req)
     \/ /\ req.part \in Parts /\ req.len <= PartLen[req.part]
        /\ Announce(req)
        /\ StartAgain(req) \/ StartErases(req)
  /\ UNCHANGED <<sync_cmd_cnt, is_remain, is_quit>>

(***************************************************************************)
(* IAP_CMD_WRITE                                                           *)
(***************************************************************************)

(* firm_len after clipping to the announced total. *)
Clipped(req) == Smaller(Len(req.data), total_len - write_len)

(* Slip: the packet goes to the start of the page. *)
PageStart == write_len - (write_len % PageLen)

WriteAt == write_len

(* What of the packet is written. *)
Packet(req) == SubSeq(req.data, 1, Clipped(req))
Store(mem) == flash' = [flash EXCEPT ![using_part] = mem]

(* Slip: a number equal to the last one counts as new. *)
FreshOrSame(req) == req.num >= write_packet

Fresh(req) == req.num > write_packet

(* Slip: the partition still counts as just erased. *)
StaysErased == UNCHANGED iap_step

MarkDirty == iap_step' = "write"

Answer(req, ok) == rsp' = WriteStatus(write_packet', ok)

(* Refused before the state is touched: no partition, packet number 0. *)
WriteRefused(req) ==
  /\ using_part = NoPart \/ req.num = 0
  /\ rsp' = Exception("write")
  /\ UNCHANGED <<flash, iap_step, write_len, write_packet, faults>>

(* Slip: a repetition is dropped without an answer. *)
DropOld(req) ==
  /\ req.num <= write_packet
  /\ UNCHANGED <<flash, iap_step, write_len, write_packet, faults>>
  /\ rsp' = NoReply

(* The number of the packet taken last is taken for a repetition of it, a  *)
(* smaller one is an error.                                                *)
WriteOld(req) ==
  /\ req.num <= write_packet
  /\ UNCHANGED <<flash, iap_step, write_len, write_packet, faults>>
  /\ Answer(req, req.num = write_packet)

(* Everything announced has been written: success, and nothing to do. *)
WriteSurplus(req) ==
  /\ Fresh(req) /\ write_len >= total_len
  /\ write_packet' = req.num
  /\ UNCHANGED <<flash, iap_step, write_len, faults>>
  /\ Answer(req, TRUE)

(* fal_partition_write: everything is written, or it fails (also when out  *)
(* of bounds or empty), or only the program of a first page that is not    *)
(* aligned fails, which write() does not notice.                           *)
WriteNew(req) ==
  /\ Fresh(req) /\ write_len < total_len
  /\ write_packet' = req.num
  /\ MarkDirty
  /\ LET fits == write_len + Clipped(req) <= PartLen[using_part] /\ Clipped(req) > 0
     IN
     \/ /\ fits /\ Store(WriteDone(flash[using_part], Packet(req), WriteAt))
        /\ write_len' = write_len + Clipped(req)
        /\ UNCHANGED faults /\ Answer(req, TRUE)
     \/ /\ fits /\ (write_len % PageLen) # 0 /\ faults < MaxFaults
        /\ faults' = faults + 1
        /\ \E mem \in WriteUnnoticed(flash[using_part], Packet(req), WriteAt, PageLen) : Store(mem)
        /\ write_len' = write_len + Clipped(req)
        /\ Answer(req, TRUE)
     \/ /\ fits /\ faults < MaxFaults
        /\ faults' = faults + 1
        /\ \E mem \in WriteFailed(flash[using_part], Packet(req), WriteAt, PageLen) : Store(mem)
        /\ UNCHANGED write_len /\ Answer(req, FALSE)
     \/ /\ ~fits
        /\ UNCHANGED <<flash, write_len, faults>> /\ Answer(req, FALSE)

Write(req) ==
  /\ is_remain /\ req.cmd = "write"
  /\ \/ WriteRefused(req)
     \/ /\ using_part # NoPart /\ req.num # 0
        /\ WriteOld(req) \/ WriteSurplus(req) \/ WriteNew(req)
  /\ UNCHANGED <<using_part, total_len, sync_cmd_cnt, is_remain, is_quit>>

(***************************************************************************)
(* IAP_CMD_UPDATE, the default, and the dispatch                           *)
(***************************************************************************)

Update(req) ==
  /\ is_remain /\ req.cmd = "update"
  /\ is_quit' = TRUE
  /\ iap_step' = "update"
  /\ rsp' = Plain("update")
  /\ UNCHANGED <<flash, using_part, total_len, write_len, write_packet, sync_cmd_cnt,
                 is_remain, faults>>

Unknown(req) ==
  /\ is_remain /\ req.cmd = "other"
  /\ rsp' = NoReply
  /\ UNCHANGED <<flash, regs, is_remain, is_quit, faults>>

Handle(req) ==
  /\ \/ Ignored(req) \/ Sync(req) \/ Check(req) \/ Start(req)
     \/ Write(req) \/ Update(req) \/ Unknown(req)
  /\ UNCHANGED reboots

(* The device loses power and comes back: RAM is as at the start, the      *)
(* flash is as it was.  A loss in the middle of a handler leaves what the  *)
(* handler's failed outcome leaves.                                        *)
Reboot ==
  /\ reboots < MaxReboots
  /\ reboots' = reboots + 1
  /\ using_part' = NoPart /\ iap_step' = "null"
  /\ total_len' = 0 /\ write_len' = 0 /\ write_packet' = 0 /\ sync_cmd_cnt' = 0
  /\ is_remain' = FALSE /\ is_quit' = FALSE
  /\ rsp' = NoReply
  /\ UNCHANGED <<flash, faults>>

(***************************************************************************)
(* Properties of the slave, whatever the host                              *)
(***************************************************************************)

(* Every variable keeps to its type, and the write position never passes   *)
(* the length the host announced.                                          *)
TypeOK ==
  /\ DOMAIN flash = Parts /\ \A p \in Parts : DOMAIN flash[p] = 0 .. PartLen[p] - 1
  /\ using_part \in Parts \cup {NoPart}
  /\ iap_step \in {"null", "start", "write", "update"}
  /\ total_len \in Nat /\ write_len \in 0 .. total_len
  /\ write_packet \in Nat /\ sync_cmd_cnt \in 0 .. SyncCap
  /\ is_remain \in BOOLEAN /\ is_quit \in BOOLEAN
=============================================================================
