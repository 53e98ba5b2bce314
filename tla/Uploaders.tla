------------------------------- MODULE Uploaders -------------------------------
(***************************************************************************)
(* The two writers of a session side by side: the RS485 slave in the main  *)
(* thread (IapSlave), with a host that respects no protocol, and the web   *)
(* server (WebUpload), which is started once the loader stays (is_remain). *)
(* They share the partitions, g_system.is_quit and nothing that would keep *)
(* them apart.  The web thread runs only while main waits, so the handlers *)
(* follow one another.                                                     *)
(***************************************************************************)
EXTENDS IapSlave

CONSTANTS
  Files, Sessions, MaxUploads,    \* of WebUpload
  Mixes        \* what may come together in a run: the requests the host sends, and
               \* how much of each bound (faults, reboots, uploads) is used up before

(* What a request that was parsed can hold. *)
ASSUME RequestAssumption ==
  \A mix \in Mixes : \A req \in mix.requests :
    /\ req.cmd = "start" => req.len \in Nat
    /\ req.cmd = "write" => req.num \in Nat /\ Len(req.data) \in Nat

(* The extension sends a file to one of the partitions, or nowhere. *)
ASSUME FileAssumption ==
  /\ \A f \in Files : f.part \in Parts \cup {NoPart} /\ Len(f.data) \in Nat
  /\ \A mix \in Mixes : mix.faults \in Nat

VARIABLES
  requests,    \* what the host may send
  file_size, update_ok, session, page, uploads, unnoticed,   \* of WebUpload
  webWrote,    \* partitions with something in them that an upload has put there
  slaveWrote   \* partitions the slave has changed since an upload erased them

web     == <<file_size, update_ok, session, page, uploads, unnoticed>>
history == <<webWrote, slaveWrote>>
all     == <<requests, slave, web, history>>

Web == INSTANCE WebUpload

UploadersInit ==
  /\ \E mix \in Mixes : /\ requests = mix.requests /\ faults = mix.faults
                       /\ reboots = mix.reboots /\ uploads = mix.uploads
  /\ InitRegs /\ rsp = NoReply
  /\ flash = [p \in Parts |-> [i \in 0 .. PartLen[p] - 1 |-> Garbage]]
  /\ Web!InitUpload
  /\ webWrote = {} /\ slaveWrote = {}

Changed == {p \in Parts : flash'[p] # flash[p]}
Opening == {session'[s].user_data : s \in {t \in Sessions : ~session[t].open}}

(* A request: any one, in any order, any number of times.                  *)
SlaveStep ==
  /\ \E req \in requests : Handle(req)
  /\ webWrote' = {p \in webWrote : flash'[p] # Blank(p)}
  /\ slaveWrote' = slaveWrote \cup Changed
  /\ UNCHANGED <<requests, web>>

WebStep ==
  /\ is_remain
  /\ Web!Upload
  /\ webWrote' = {p \in webWrote \cup Changed : flash'[p] # Blank(p)}
  /\ slaveWrote' = slaveWrote \ Opening
  /\ UNCHANGED <<requests, regs, is_remain, rsp, reboots>>

Restart ==
  /\ Reboot
  /\ file_size' = 0 /\ update_ok' = FALSE /\ unnoticed' = FALSE
  /\ session' = [s \in Sessions |-> Web!Closed] /\ page' = [s \in Sessions |-> "none"]
  /\ UNCHANGED <<requests, uploads, history>>

UploadersNext == SlaveStep \/ WebStep \/ Restart

UploadersSpec == UploadersInit /\ [][UploadersNext]_all

(***************************************************************************)
(* Properties                                                              *)
(***************************************************************************)

(* "Already erased" is true: while the slave would answer START without    *)
(* erasing, the selected partition is blank, unless an upload has written  *)
(* to it.                                                                  *)
ErasedStepMeansBlank ==
  iap_step = "start" /\ using_part \notin webWrote => flash[using_part] = Blank(using_part)

(* Whatever is sent, a WRITE leaves alone the cells that earlier WRITEs of *)
(* the same transfer have filled: no repetition, renumbering, surplus or   *)
(* failed packet changes what the slave has already accepted.              *)
AcceptedStays ==
  [][(SlaveStep /\ using_part # NoPart /\ rsp'.kind = "write")
       => /\ write_len' >= write_len
          /\ \A i \in 0 .. write_len - 1 :
               i < PartLen[using_part] => flash'[using_part][i] = flash[using_part][i]]_all

Reports(s, word) == session[s].open /\ page[s] = "none" /\ page'[s] = word

(* What the page reports as stored is stored: the partition holds the      *)
(* file, and is blank behind it, whatever uploads were refused, failed or  *)
(* broken off before and whatever the host on the bus sends, unless it     *)
(* writes to the same partition meanwhile.                                 *)
SuccessMeansStored ==
  [][\A s \in Sessions :
       (Reports(s, "success") /\ ~unnoticed /\ session[s].file.part \notin slaveWrote)
       => Web!Holds(flash[session[s].file.part], session[s].file.data)]_all

(* Without a failed flash operation a file with a known name that fits is  *)
(* accepted, also after uploads that were refused or broken off.           *)
FittingFileAccepted ==
  [][\A s \in Sessions :
       (Reports(s, "failed") /\ faults = 0 /\ session[s].file.part # NoPart)
       => Len(session[s].file.data) > PartLen[session[s].file.part]]_all
=============================================================================
