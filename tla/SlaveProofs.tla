---------------------------- MODULE SlaveProofs --------------------------------
(***************************************************************************)
(* Proofs about the RS485 slave and the uploads, for every size and every  *)
(* number of failures and resets.  Beside each other (Uploaders): what the *)
(* slave remembers of a partition is true of the flash, what it has        *)
(* accepted stays, an upload that is reported as a success is stored and   *)
(* one that fits is taken, for every set of requests and files.  The slave *)
(* with the host of the protocol (IapLink): a packet that the host has     *)
(* moved past is in the flash, and the device leaves the loader with the   *)
(* whole image.                                                            *)
(***************************************************************************)
EXTENDS Uploaders, IapLink, FiniteSets, SequenceTheorems, FiniteSetTheorems, TLAPS

(* What the host may send was parsed. *)
Parsed ==
  \A req \in requests :
    /\ req.cmd = "start" => req.len \in Nat
    /\ req.cmd = "write" => req.num \in Nat /\ Len(req.data) \in Nat

(* A partition that counts as erased is one. *)
StartedMeansSelected == iap_step = "start" => using_part \in Parts

UploadersInv == TypeOK /\ Parsed /\ StartedMeansSelected /\ ErasedStepMeansBlank

(***************************************************************************)
(* What the writers do to the flash                                        *)
(***************************************************************************)

(* Every partition keeps its cells. *)
Shaped(mem) == DOMAIN mem = Parts /\ \A p \in Parts : DOMAIN mem[p] = 0 .. PartLen[p] - 1

(* An erase or a write, done or failed, leaves a memory of the same shape, *)
(* and a write leaves what is in front of it. *)
LEMMA TornShape ==
  ASSUME NEW old, NEW new, NEW torn \in Torn(old, new)
  PROVE  /\ DOMAIN torn = DOMAIN old
         /\ \A i \in DOMAIN old : old[i] = new[i] => torn[i] = old[i]
BY DEF Torn

WriteOutcomes(m, s, at, pageLen) ==
  {WriteDone(m, s, at)} \cup WriteUnnoticed(m, s, at, pageLen) \cup WriteFailed(m, s, at, pageLen)

LEMMA WriteShape ==
  ASSUME NEW m, NEW s, NEW at, NEW pageLen, NEW mem \in WriteOutcomes(m, s, at, pageLen)
  PROVE  /\ DOMAIN mem = DOMAIN m
         /\ \A i \in DOMAIN m : mem[i] # m[i] => at <= i
<1>1. /\ DOMAIN WriteDone(m, s, at) = DOMAIN m
      /\ \A i \in DOMAIN m : WriteDone(m, s, at)[i] # m[i] => at <= i
  BY DEF WriteDone, Programmed, Cells
<1>2. CASE mem \in WriteUnnoticed(m, s, at, pageLen)
  <2>1. PICK torn \in Torn(m, WriteDone(m, s, at)) :
          mem = [i \in DOMAIN m |-> IF i \in FirstPage(m, at, pageLen) THEN torn[i]
                                    ELSE WriteDone(m, s, at)[i]]
    BY <1>2 DEF WriteUnnoticed
  <2>2. \A i \in DOMAIN m : m[i] = WriteDone(m, s, at)[i] => torn[i] = m[i]
    BY TornShape
  <2> QED
    BY <1>1, <2>1, <2>2
<1>3. CASE mem \in WriteFailed(m, s, at, pageLen)
  <2>1. mem \in Torn(m, WriteDone(m, s, at))
    BY <1>3 DEF WriteFailed
  <2> QED
    BY <1>1, <2>1, TornShape
<1> QED
  BY <1>1, <1>2, <1>3 DEF WriteOutcomes

LEMMA StoreShape ==
  ASSUME NEW mem, Shaped(mem), NEW p, NEW part,
         p \in Parts => DOMAIN part = 0 .. PartLen[p] - 1
  PROVE  Shaped([mem EXCEPT ![p] = part])
BY DEF Shaped

(* WebUpload's flash is this one. *)
LEMMA SameFlash ==
  /\ \A old, new : Web!Torn(old, new) = Torn(old, new)
  /\ \A m, s, a : Web!WriteDone(m, s, a) = WriteDone(m, s, a)
  /\ \A m, s, a, pageLen : Web!WriteUnnoticed(m, s, a, pageLen) = WriteUnnoticed(m, s, a, pageLen)
  /\ \A m, s, a, pageLen : Web!WriteFailed(m, s, a, pageLen) = WriteFailed(m, s, a, pageLen)
<1>1. \A old, new : Web!Torn(old, new) = Torn(old, new)
  BY DEF Web!Torn, Torn
<1>2. \A m, s, a : Web!WriteDone(m, s, a) = WriteDone(m, s, a)
  BY DEF Web!WriteDone, WriteDone, Web!Programmed, Programmed, Web!Burn, Burn, Web!Cells, Cells
<1>3. \A m, a, pageLen : Web!FirstPage(m, a, pageLen) = FirstPage(m, a, pageLen)
  BY DEF Web!FirstPage, FirstPage, Web!Cells, Cells
<1>4. \A m, a, n : Web!Cells(m, a, n) = Cells(m, a, n)
  BY DEF Web!Cells, Cells
<1> QED
  BY <1>1, <1>2, <1>3, <1>4
  DEF Web!WriteUnnoticed, WriteUnnoticed, Web!WriteFailed, WriteFailed

(* A START erases the partition it names, which is then blank, or fails.   *)
LEMMA StartFacts ==
  ASSUME TypeOK, NEW req, Start(req), req.len \in Nat
  PROVE  /\ Shaped(flash')
         /\ using_part' \in Parts \cup {NoPart}
         /\ iap_step' \in {"null", "start", "write", "update"}
         /\ total_len' \in Nat /\ write_len' \in 0 .. total_len' /\ write_packet' \in Nat
         /\ iap_step' = "start" =>
              \/ UNCHANGED <<flash, iap_step, using_part>>
              \/ using_part' \in Parts /\ flash'[using_part'] = Blank(using_part')
         /\ rsp'.kind # "write"
<1>1. Shaped(flash)
  BY DEF TypeOK, Shaped
<1>2. StepFor(req.part) = "start" => req.part = using_part /\ iap_step = "start"
  BY DEF StepFor
<1>3. StepFor(req.part) \in {"null", "start", "write", "update"}
  BY DEF StepFor, TypeOK
<1>4. CASE StartRefused(req) \/ StartTooLong(req)
  BY <1>1, <1>2, <1>3, <1>4 DEF StartRefused, StartTooLong, TypeOK, Exception
<1>5. CASE req.part \in Parts /\ Announce(req) /\ StartAgain(req)
  BY <1>1, <1>5 DEF StartAgain, Announce, StartStatus, TypeOK
<1>6. CASE req.part \in Parts /\ Announce(req) /\ StartErases(req)
  <2>1. CASE flash' = [flash EXCEPT ![req.part] = Blank(req.part)] /\ iap_step' = "start"
    <3>1. Shaped(flash')
      BY <1>1, <2>1, StoreShape DEF Blank
    <3>2. flash'[req.part] = Blank(req.part)
      BY <1>1, <1>6, <2>1 DEF Shaped
    <3> QED
      BY <1>6, <2>1, <3>1, <3>2 DEF StartErases, Announce, StartStatus, TypeOK
  <2>2. CASE iap_step' = StepFor(req.part)
             /\ \E torn \in Torn(flash[req.part], Blank(req.part)) :
                  flash' = [flash EXCEPT ![req.part] = torn]
    <3>1. PICK torn \in Torn(flash[req.part], Blank(req.part)) :
            flash' = [flash EXCEPT ![req.part] = torn]
      BY <2>2
    <3>2. Shaped(flash')
      BY <1>1, <1>6, <3>1, TornShape DEF Shaped
    <3> QED
      BY <1>3, <1>6, <2>2, <3>2 DEF StartErases, Announce, StartStatus, TypeOK
  <2> QED
    BY <1>6, <2>1, <2>2 DEF StartErases
<1> QED
  BY <1>4, <1>5, <1>6 DEF Start

(* A WRITE leaves the cells that are filled, and its place never goes back *)
(* or passes the announced length. *)
LEMMA WriteFacts ==
  ASSUME TypeOK, NEW req, Write(req), req.num \in Nat, Len(req.data) \in Nat
  PROVE  /\ Shaped(flash')
         /\ iap_step' \in {iap_step, "write"} /\ write_packet' \in Nat
         /\ write_len' \in write_len .. total_len
         /\ iap_step' = "write" \/ UNCHANGED <<flash, iap_step>>
         /\ using_part # NoPart =>
              \A i \in 0 .. write_len - 1 :
                i < PartLen[using_part] => flash'[using_part][i] = flash[using_part][i]
<1> USE DEF TypeOK
<1>1. Shaped(flash)
  BY DEF Shaped
<1>2. write_len \in 0 .. total_len /\ total_len \in Nat /\ write_packet \in Nat
  OBVIOUS
<1>3. CASE WriteRefused(req) \/ WriteOld(req) \/ WriteSurplus(req)
  <2>1. /\ UNCHANGED <<flash, iap_step, write_len>>
        /\ write_packet' \in {write_packet, req.num}
    BY <1>3 DEF WriteRefused, WriteOld, WriteSurplus
  <2>2. Shaped(flash')
    BY <1>1, <2>1
  <2>3. write_packet' \in Nat /\ write_len' \in write_len .. total_len
    BY <1>2, <2>1
  <2> QED
    BY <2>1, <2>2, <2>3
<1>4. CASE using_part # NoPart /\ WriteNew(req)
  <2>1. using_part \in Parts /\ PartLen[using_part] \in Nat
    BY <1>4, SlaveAssumption
  <2>2. Clipped(req) \in Int /\ Clipped(req) <= total_len - write_len
    BY <1>2 DEF Clipped, Smaller
  <2>3. /\ write_packet' = req.num /\ iap_step' = "write"
        /\ write_len' = write_len \/ (write_len' = write_len + Clipped(req) /\ Clipped(req) > 0)
    BY <1>4 DEF WriteNew, MarkDirty
  <2>4. write_len' \in write_len .. total_len
    BY <1>2, <2>2, <2>3
  <2>5. /\ Shaped(flash')
        /\ \A i \in 0 .. PartLen[using_part] - 1 :
             flash'[using_part][i] # flash[using_part][i] => write_len <= i
    <3>1. CASE UNCHANGED flash
      BY <1>1, <3>1
    <3>2. CASE \E mem \in WriteOutcomes(flash[using_part], Packet(req), WriteAt, PageLen) :
                 Store(mem)
      <4>1. PICK mem \in WriteOutcomes(flash[using_part], Packet(req), WriteAt, PageLen) :
              Store(mem)
        BY <3>2
      <4>2. /\ DOMAIN mem = DOMAIN flash[using_part]
            /\ \A i \in DOMAIN flash[using_part] : mem[i] # flash[using_part][i] => write_len <= i
        BY <4>1, WriteShape DEF WriteAt
      <4>3. flash' = [flash EXCEPT ![using_part] = mem]
        BY <4>1 DEF Store
      <4> QED
        BY <1>1, <2>1, <4>2, <4>3 DEF Shaped
    <3> QED
      BY <1>4, <3>1, <3>2 DEF WriteNew, WriteOutcomes
  <2>6. \A i \in 0 .. write_len - 1 :
          i < PartLen[using_part] => flash'[using_part][i] = flash[using_part][i]
    BY <1>2, <2>1, <2>5
  <2> QED
    BY <1>4, <2>3, <2>4, <2>5, <2>6
<1> QED
  BY <1>3, <1>4 DEF Write

(* An upload keeps the shape of the flash, whatever becomes of it. *)
LEMMA UploadShape ==
  ASSUME TypeOK, Web!Upload
  PROVE  Shaped(flash') /\ is_quit' \in BOOLEAN
<1>1. Shaped(flash) /\ is_quit \in BOOLEAN
  BY DEF TypeOK, Shaped
<1>2. PICK s \in Sessions : Web!Open(s) \/ Web!Write(s) \/ Web!Done(s) \/ Web!Break(s)
  BY DEF Web!Upload
<1>3. CASE Web!Open(s)
  <2>1. PICK f \in Files :
          Web!OpenUnsupported(s, f) \/ Web!OpenErases(s, f) \/ Web!OpenEraseFails(s, f)
    BY <1>3 DEF Web!Open
  <2>2. CASE Web!OpenUnsupported(s, f)
    BY <1>1, <1>3, <2>2 DEF Web!Open, Web!OpenUnsupported
  <2>3. CASE Web!OpenErases(s, f)
    BY <1>1, <1>3, <2>3, StoreShape DEF Web!Open, Web!OpenErases, Web!Blank
  <2>4. CASE Web!OpenEraseFails(s, f)
    <3>1. PICK torn \in Torn(flash[f.part], Web!Blank(f.part)) :
            flash' = [flash EXCEPT ![f.part] = torn]
      BY <2>4, SameFlash DEF Web!OpenEraseFails
    <3>2. Shaped(flash')
      BY <1>1, <3>1, TornShape DEF Shaped
    <3> QED
      BY <1>1, <1>3, <3>2 DEF Web!Open
  <2> QED
    BY <2>1, <2>2, <2>3, <2>4
<1>4. CASE Web!Write(s)
  <2>1. UNCHANGED is_quit
    BY <1>4 DEF Web!Write
  <2>2. PICK n : Web!WriteSkipped(s, n) \/ Web!WriteSucceeds(s, n) \/ Web!WriteFails(s, n)
    BY <1>4 DEF Web!Write
  <2> DEFINE p == session[s].user_data
  <2>3. CASE Web!WriteSkipped(s, n)
    BY <1>1, <2>1, <2>3 DEF Web!WriteSkipped
  <2>4. CASE Web!WriteSucceeds(s, n) \/ Web!WriteFails(s, n)
    <3>1. \E mem \in WriteOutcomes(flash[p], Web!Piece(s, n), file_size, PageLen) :
            flash' = [flash EXCEPT ![p] = mem]
      BY <2>4, SameFlash DEF Web!WriteSucceeds, Web!WriteFails, WriteOutcomes
    <3>2. PICK mem \in WriteOutcomes(flash[p], Web!Piece(s, n), file_size, PageLen) :
            flash' = [flash EXCEPT ![p] = mem]
      BY <3>1
    <3>3. DOMAIN mem = DOMAIN flash[p]
      BY <3>2, WriteShape
    <3> QED
      BY <1>1, <2>1, <3>2, <3>3 DEF Shaped
  <2> QED
    BY <2>2, <2>3, <2>4
<1>5. CASE Web!Done(s) \/ Web!Break(s)
  BY <1>1, <1>5 DEF Web!Done, Web!Break
<1> QED
  BY <1>2, <1>3, <1>4, <1>5

(***************************************************************************)
(* The invariant is inductive                                              *)
(***************************************************************************)

LEMMA InitUploadersInv == UploadersInit => UploadersInv
<1> SUFFICES ASSUME UploadersInit PROVE UploadersInv
  OBVIOUS
<1>1. PICK mix \in Mixes : requests = mix.requests
  BY DEF UploadersInit
<1>2. Parsed
  BY <1>1, RequestAssumption DEF Parsed
<1>3. TypeOK
  <2>1. /\ using_part = NoPart /\ iap_step = "null"
        /\ total_len = 0 /\ write_len = 0 /\ write_packet = 0 /\ sync_cmd_cnt = 0
        /\ is_remain = FALSE /\ is_quit = FALSE
    BY DEF UploadersInit, InitRegs
  <2>2. DOMAIN flash = Parts /\ \A p \in Parts : DOMAIN flash[p] = 0 .. PartLen[p] - 1
    BY DEF UploadersInit
  <2>3. sync_cmd_cnt \in 0 .. SyncCap /\ write_len \in 0 .. total_len
    BY <2>1, SlaveAssumption
  <2> QED
    BY <2>1, <2>2, <2>3 DEF TypeOK
<1>4. StartedMeansSelected /\ ErasedStepMeansBlank
  BY DEF UploadersInit, InitRegs, StartedMeansSelected, ErasedStepMeansBlank
<1> QED
  BY <1>2, <1>3, <1>4 DEF UploadersInv

(* Every request keeps the types. *)
LEMMA HandleType ==
  ASSUME TypeOK, NEW req, Handle(req),
         req.cmd = "start" => req.len \in Nat,
         req.cmd = "write" => req.num \in Nat /\ Len(req.data) \in Nat
  PROVE  TypeOK'
<1>1. CASE Ignored(req) \/ Sync(req) \/ Check(req) \/ Unknown(req)
  <2>1. UNCHANGED <<flash, using_part, iap_step, total_len, write_len, write_packet, is_quit>>
    BY <1>1 DEF Ignored, Sync, Check, Unknown, regs
  <2>2. sync_cmd_cnt' \in 0 .. SyncCap /\ is_remain' \in BOOLEAN
    <3>1. sync_cmd_cnt \in 0 .. SyncCap /\ is_remain \in BOOLEAN
      BY DEF TypeOK
    <3>2. CASE UNCHANGED <<sync_cmd_cnt, is_remain>>
      BY <3>1, <3>2
    <3>3. CASE Sync(req)
      <4>1. Smaller(sync_cmd_cnt + 1, SyncCap) \in 0 .. SyncCap
        BY <3>1, SlaveAssumption DEF Smaller
      <4>2. (is_remain \/ sync_cmd_cnt + 1 = 3) \in BOOLEAN
        OBVIOUS
      <4> QED
        BY <3>3, <4>1, <4>2 DEF Sync
    <3> QED
      BY <1>1, <3>2, <3>3 DEF Ignored, Check, Unknown, regs
  <2> QED
    BY <2>1, <2>2 DEF TypeOK
<1>2. CASE Start(req)
  <2>1. /\ Shaped(flash')
        /\ using_part' \in Parts \cup {NoPart}
        /\ iap_step' \in {"null", "start", "write", "update"}
        /\ total_len' \in Nat /\ write_len' \in 0 .. total_len' /\ write_packet' \in Nat
    BY <1>2, StartFacts DEF Start
  <2>2. UNCHANGED <<sync_cmd_cnt, is_remain, is_quit>>
    BY <1>2 DEF Start
  <2> QED
    BY <2>1, <2>2 DEF TypeOK, Shaped
<1>3. CASE Write(req)
  <2>1. /\ Shaped(flash')
        /\ iap_step' \in {iap_step, "write"} /\ write_packet' \in Nat
        /\ write_len' \in write_len .. total_len
    BY <1>3, WriteFacts DEF Write
  <2>2. UNCHANGED <<using_part, total_len, sync_cmd_cnt, is_remain, is_quit>>
    BY <1>3 DEF Write
  <2> QED
    BY <2>1, <2>2 DEF TypeOK, Shaped
<1>4. CASE Update(req)
  BY <1>4 DEF Update, TypeOK
<1> QED
  BY <1>1, <1>2, <1>3, <1>4 DEF Handle

(* A request leaves "already erased" true, for a partition no upload has   *)
(* something in. *)
LEMMA SlaveKeeps ==
  ASSUME UploadersInv, SlaveStep
  PROVE  UploadersInv'
<1>1. PICK req \in requests : Handle(req)
  BY DEF SlaveStep
<1>2. /\ req.cmd = "start" => req.len \in Nat
      /\ req.cmd = "write" => req.num \in Nat /\ Len(req.data) \in Nat
  BY DEF UploadersInv, Parsed
<1>3. webWrote' = {p \in webWrote : flash'[p] # Blank(p)} /\ UNCHANGED requests
  BY DEF SlaveStep
<1>4. Parsed' /\ TypeOK'
  <2>1. TypeOK'
    BY <1>1, <1>2, HandleType DEF UploadersInv
  <2> QED
    BY <1>3, <2>1 DEF UploadersInv, Parsed
<1>5. ASSUME UNCHANGED <<flash, using_part, iap_step>>
      PROVE  ErasedStepMeansBlank'
  BY <1>3, <1>5 DEF UploadersInv, ErasedStepMeansBlank, Blank
<1>6. CASE Ignored(req) \/ Sync(req) \/ Check(req) \/ Unknown(req)
  <2>1. UNCHANGED <<flash, using_part, iap_step>>
    BY <1>6 DEF Ignored, Sync, Check, Unknown, regs
  <2> QED
    BY <1>4, <1>5, <2>1 DEF UploadersInv, StartedMeansSelected
<1>7. CASE Start(req)
  <2>1. iap_step' = "start" =>
          \/ UNCHANGED <<flash, iap_step, using_part>>
          \/ using_part' \in Parts /\ flash'[using_part'] = Blank(using_part')
    BY <1>2, <1>7, StartFacts DEF UploadersInv, Start
  <2>2. ErasedStepMeansBlank'
    BY <1>5, <2>1 DEF ErasedStepMeansBlank, Blank
  <2>3. StartedMeansSelected'
    BY <2>1 DEF UploadersInv, StartedMeansSelected
  <2> QED
    BY <1>4, <2>2, <2>3 DEF UploadersInv
<1>8. CASE Write(req)
  <2>1. iap_step' = "write" \/ UNCHANGED <<flash, iap_step>>
    BY <1>2, <1>8, WriteFacts DEF UploadersInv, Write
  <2>2. UNCHANGED using_part
    BY <1>8 DEF Write
  <2>3. ErasedStepMeansBlank'
    BY <1>5, <2>1, <2>2 DEF ErasedStepMeansBlank
  <2>4. StartedMeansSelected'
    BY <2>1, <2>2 DEF UploadersInv, StartedMeansSelected
  <2> QED
    BY <1>4, <2>3, <2>4 DEF UploadersInv
<1>9. CASE Update(req)
  BY <1>4, <1>9 DEF Update, UploadersInv, StartedMeansSelected, ErasedStepMeansBlank
<1> QED
  BY <1>1, <1>6, <1>7, <1>8, <1>9 DEF Handle

LEMMA WebKeeps ==
  ASSUME UploadersInv, WebStep
  PROVE  UploadersInv'
<1>1. /\ Web!Upload
      /\ webWrote' = {p \in webWrote \cup Changed : flash'[p] # Blank(p)}
      /\ UNCHANGED <<requests, using_part, iap_step, total_len, write_len, write_packet,
                     sync_cmd_cnt, is_remain>>
  BY DEF WebStep, regs
<1>2. Shaped(flash') /\ is_quit' \in BOOLEAN
  BY <1>1, UploadShape DEF UploadersInv
<1>3. TypeOK'
  BY <1>1, <1>2 DEF UploadersInv, TypeOK, Shaped
<1>4. Parsed'
  BY <1>1 DEF UploadersInv, Parsed
<1>5. ErasedStepMeansBlank'
  <2> SUFFICES ASSUME iap_step = "start", using_part \notin webWrote'
               PROVE  flash'[using_part] = Blank(using_part)
    BY <1>1 DEF ErasedStepMeansBlank, Blank
  <2>1. CASE flash'[using_part] = flash[using_part]
    <3>1. CASE using_part \in webWrote
      BY <1>1, <3>1
    <3>2. CASE using_part \notin webWrote
      BY <2>1, <3>2 DEF UploadersInv, ErasedStepMeansBlank
    <3> QED
      BY <3>1, <3>2
  <2>2. CASE flash'[using_part] # flash[using_part]
    <3>1. using_part \in Parts
      BY <1>1 DEF UploadersInv, StartedMeansSelected
    <3>2. using_part \in Changed
      BY <2>2, <3>1 DEF Changed
    <3> QED
      BY <1>1, <3>2
  <2> QED
    BY <2>1, <2>2
<1>6. StartedMeansSelected'
  BY <1>1 DEF UploadersInv, StartedMeansSelected
<1> QED
  BY <1>3, <1>4, <1>5, <1>6 DEF UploadersInv

LEMMA RestartKeeps ==
  ASSUME UploadersInv, Restart
  PROVE  UploadersInv'
<1>1. /\ UNCHANGED <<flash, requests>>
      /\ using_part' = NoPart /\ iap_step' = "null"
      /\ total_len' = 0 /\ write_len' = 0 /\ write_packet' = 0 /\ sync_cmd_cnt' = 0
      /\ is_remain' = FALSE /\ is_quit' = FALSE
  BY DEF Restart, Reboot
<1> QED
  <2>1. TypeOK'
    <3>1. sync_cmd_cnt' \in 0 .. SyncCap /\ write_len' \in 0 .. total_len'
      BY <1>1, SlaveAssumption
    <3> QED
      BY <1>1, <3>1 DEF UploadersInv, TypeOK
  <2> QED
    BY <1>1, <2>1 DEF UploadersInv, Parsed, StartedMeansSelected, ErasedStepMeansBlank

THEOREM StepUploadersInv == UploadersInv /\ [UploadersNext]_all => UploadersInv'
<1> SUFFICES ASSUME UploadersInv, [UploadersNext]_all PROVE UploadersInv'
  OBVIOUS
<1>1. CASE UNCHANGED all
  BY <1>1 DEF all, slave, regs, web, history, UploadersInv, TypeOK, Parsed, StartedMeansSelected,
                    ErasedStepMeansBlank, Blank
<1> QED
  BY <1>1, SlaveKeeps, WebKeeps, RestartKeeps DEF UploadersNext

THEOREM UploadersInvariance == UploadersSpec => []UploadersInv
BY InitUploadersInv, StepUploadersInv, PTL DEF UploadersSpec

(***************************************************************************)
(* The results                                                             *)
(***************************************************************************)

(* The slave's variables keep to their types, whatever the host sends and  *)
(* whatever uploads do beside it: in particular what has been written      *)
(* never passes what was announced. *)
THEOREM SlaveTypeCorrect == UploadersSpec => []TypeOK
<1>1. UploadersInv => TypeOK
  BY DEF UploadersInv
<1> QED
  BY UploadersInvariance, <1>1, PTL

(* The slave never answers "already erased" for a partition that is not    *)
(* blank, unless an upload has written to it. *)
THEOREM ErasedIsBlank == UploadersSpec => []ErasedStepMeansBlank
<1>1. UploadersInv => ErasedStepMeansBlank
  BY DEF UploadersInv
<1> QED
  BY UploadersInvariance, <1>1, PTL

(* No request changes what the slave has accepted in this transfer. *)
THEOREM AcceptedIsKept == UploadersSpec => AcceptedStays
<1> DEFINE Kept ==
      (SlaveStep /\ using_part # NoPart /\ rsp'.kind = "write")
       => /\ write_len' >= write_len
          /\ \A i \in 0 .. write_len - 1 :
               i < PartLen[using_part] => flash'[using_part][i] = flash[using_part][i]
<1>1. UploadersInv /\ [UploadersNext]_all => [Kept]_all
  <2> SUFFICES ASSUME UploadersInv, SlaveStep, using_part # NoPart, rsp'.kind = "write"
               PROVE  /\ write_len' >= write_len
                      /\ \A i \in 0 .. write_len - 1 :
                           i < PartLen[using_part] => flash'[using_part][i] = flash[using_part][i]
    OBVIOUS
  <2>1. PICK req \in requests : Handle(req)
    BY DEF SlaveStep
  <2>2. /\ req.cmd = "start" => req.len \in Nat
        /\ req.cmd = "write" => req.num \in Nat /\ Len(req.data) \in Nat
    BY DEF UploadersInv, Parsed
  <2>3. ~Start(req)
    <3> SUFFICES ASSUME Start(req) PROVE FALSE
      OBVIOUS
    <3>1. req.len \in Nat
      BY <2>2 DEF Start
    <3> QED
      BY <3>1, StartFacts DEF UploadersInv
  <2>4. write_len \in Nat
    BY DEF UploadersInv, TypeOK
  <2>5. CASE Write(req)
    <3>1. req.num \in Nat /\ Len(req.data) \in Nat
      BY <2>2, <2>5 DEF Write
    <3>2. write_len' \in write_len .. total_len
      BY <2>5, <3>1, WriteFacts DEF UploadersInv
    <3>3. \A i \in 0 .. write_len - 1 :
            i < PartLen[using_part] => flash'[using_part][i] = flash[using_part][i]
      BY <2>5, <3>1, WriteFacts DEF UploadersInv
    <3>4. total_len \in Nat
      BY DEF UploadersInv, TypeOK
    <3> QED
      BY <2>4, <3>2, <3>3, <3>4
  <2>6. CASE Ignored(req) \/ Sync(req) \/ Check(req) \/ Unknown(req) \/ Update(req)
    BY <2>4, <2>6 DEF Ignored, Sync, Check, Unknown, Update, regs
  <2> QED
    BY <2>1, <2>3, <2>5, <2>6 DEF Handle
<1> QED
  BY UploadersInvariance, <1>1, PTL DEF UploadersSpec, AcceptedStays

(***************************************************************************)
(* Uploads, one at a time                                                  *)
(***************************************************************************)

(* One session at a time: two would share file_size and update_ok. *)
OneSession == \A s, t \in Sessions : s = t

SessionType ==
  [open : BOOLEAN, file : Files \cup {Web!NoFile}, user_data : Parts \cup {NoPart}, taken : Nat]

(* What came in is a part of the file; the partition is the file's, or     *)
(* none.                                                                   *)
InFile(s) ==
  session[s].open =>
    /\ session[s].file \in Files
    /\ session[s].taken \in 0 .. Len(session[s].file.data)
    /\ session[s].user_data \in {NoPart, session[s].file.part}

(* As long as nothing has gone wrong, file_size is what came in. *)
Counted(s) ==
  session[s].open /\ update_ok =>
    /\ session[s].file.part \in Parts /\ session[s].user_data = session[s].file.part
    /\ file_size = session[s].taken /\ session[s].taken <= PartLen[session[s].file.part]

(* And that is what the partition holds. *)
Held(s) ==
  session[s].open /\ update_ok /\ ~unnoticed /\ session[s].file.part \notin slaveWrote =>
    flash[session[s].file.part] =
      [i \in 0 .. PartLen[session[s].file.part] - 1 |->
         IF i < session[s].taken THEN session[s].file.data[i + 1] ELSE Erased]

(* A flash that works refuses only what does not fit. *)
Accepting(s) ==
  session[s].open /\ faults = 0 /\ session[s].file.part # NoPart =>
    update_ok \/ Len(session[s].file.data) > PartLen[session[s].file.part]

WebType ==
  /\ faults \in Nat /\ update_ok \in BOOLEAN /\ unnoticed \in BOOLEAN
  /\ session \in [Sessions -> SessionType] /\ DOMAIN page = Sessions

WebInv ==
  /\ UploadersInv /\ WebType
  /\ \A s \in Sessions : InFile(s) /\ Counted(s) /\ Held(s) /\ Accepting(s)

LEMMA WebInit == UploadersInit => WebInv
<1> SUFFICES ASSUME UploadersInit PROVE WebInv
  OBVIOUS
<1>1. faults \in Nat
  BY FileAssumption DEF UploadersInit
<1>2. /\ update_ok = FALSE /\ unnoticed = FALSE
      /\ session = [s \in Sessions |-> Web!Closed] /\ page = [s \in Sessions |-> "none"]
  BY DEF UploadersInit, Web!InitUpload
<1>3. Web!Closed \in SessionType /\ Web!Closed.open = FALSE
  BY DEF Web!Closed, SessionType, Web!NoPart, NoPart
<1>4. WebType /\ \A s \in Sessions : session[s].open = FALSE
  BY <1>1, <1>2, <1>3 DEF WebType
<1> QED
  BY <1>4, InitUploadersInv DEF WebInv, InFile, Counted, Held, Accepting

(* The slave may write to the partition, and then it is known. *)
LEMMA WebBesideSlave ==
  ASSUME WebInv, SlaveStep
  PROVE  WebInv'
<1>1. /\ UNCHANGED <<file_size, update_ok, session, page, uploads, unnoticed>>
      /\ slaveWrote' = slaveWrote \cup Changed
  BY DEF SlaveStep, web
<1>2. UploadersInv /\ UploadersInv' /\ faults \in Nat /\ update_ok \in BOOLEAN
  BY SlaveKeeps DEF WebInv, WebType
<1>3. faults' \in Nat /\ faults' >= faults
  <2>1. PICK req \in requests : Handle(req)
    BY DEF SlaveStep
  <2>2. UNCHANGED faults \/ faults' = faults + 1
    <3>1. CASE Ignored(req) \/ Sync(req) \/ Check(req) \/ Update(req) \/ Unknown(req)
      BY <3>1 DEF Ignored, Sync, Check, Update, Unknown
    <3>2. CASE Start(req)
      BY <3>2 DEF Start, StartRefused, StartTooLong, StartAgain, StartErases
    <3>3. CASE Write(req)
      BY <3>3 DEF Write, WriteRefused, WriteOld, WriteSurplus, WriteNew
    <3> QED
      BY <2>1, <3>1, <3>2, <3>3 DEF Handle
  <2> QED
    BY <1>2, <2>2
<1>4. WebType'
  BY <1>1, <1>3 DEF WebInv, WebType
<1>5. ASSUME NEW s \in Sessions PROVE InFile(s)' /\ Counted(s)' /\ Held(s)' /\ Accepting(s)'
  <2>1. InFile(s) /\ Counted(s) /\ Held(s) /\ Accepting(s)
    BY DEF WebInv
  <2>2. InFile(s)' /\ Counted(s)'
    BY <1>1, <2>1 DEF InFile, Counted
  <2>3. Accepting(s)'
    <3>1. faults' = 0 => faults = 0
      BY <1>2, <1>3
    <3> QED
      BY <1>1, <2>1, <3>1 DEF Accepting
  <2>4. Held(s)'
    <3> SUFFICES ASSUME session[s].open, update_ok, ~unnoticed, session[s].file.part \notin slaveWrote'
                 PROVE  flash'[session[s].file.part] = flash[session[s].file.part]
      BY <1>1, <2>1 DEF Held
    <3>1. session[s].file.part \in Parts /\ session[s].file.part \notin Changed
      BY <1>1, <2>1 DEF Counted
    <3> QED
      BY <3>1 DEF Changed
  <2> QED
    BY <2>2, <2>3, <2>4
<1> QED
  BY <1>2, <1>4, <1>5 DEF WebInv

LEMMA WebRestarts ==
  ASSUME WebInv, Restart
  PROVE  WebInv'
<1>1. /\ UNCHANGED faults /\ update_ok' = FALSE /\ unnoticed' = FALSE
      /\ session' = [s \in Sessions |-> Web!Closed] /\ page' = [s \in Sessions |-> "none"]
  BY DEF Restart, Reboot
<1>2. Web!Closed \in SessionType /\ Web!Closed.open = FALSE
  BY DEF Web!Closed, SessionType, Web!NoPart, NoPart
<1>3. WebType' /\ \A s \in Sessions : session'[s].open = FALSE
  BY <1>1, <1>2 DEF WebType, WebInv
<1>4. UploadersInv'
  BY RestartKeeps DEF WebInv
<1> QED
  BY <1>3, <1>4 DEF WebInv, InFile, Counted, Held, Accepting

(* upload_open: the partition is blank, or nothing is taken for good. *)
LEMMA WebOpens ==
  ASSUME OneSession, WebInv, WebStep, NEW s \in Sessions, Web!Open(s)
  PROVE  WebType' /\ InFile(s)' /\ Counted(s)' /\ Held(s)' /\ Accepting(s)'
<1>1. /\ faults \in Nat /\ session \in [Sessions -> SessionType] /\ DOMAIN page = Sessions
      /\ DOMAIN flash = Parts /\ update_ok \in BOOLEAN /\ unnoticed \in BOOLEAN
      /\ \A p \in Parts : PartLen[p] \in Nat
  BY SlaveAssumption DEF WebInv, WebType, UploadersInv, TypeOK
<1>2. PICK f \in Files :
        Web!OpenUnsupported(s, f) \/ Web!OpenErases(s, f) \/ Web!OpenEraseFails(s, f)
  BY DEF Web!Open
<1>3. /\ file_size' = 0 /\ page' = [page EXCEPT ![s] = "none"] /\ ~session[s].open
      /\ slaveWrote' = slaveWrote \ Opening
  BY DEF Web!Open, Web!NewSize, WebStep
<1>4. f.part \in Parts \cup {NoPart} /\ Len(f.data) \in Nat
  BY FileAssumption
<1>5. PICK part \in {NoPart, f.part} :
        /\ session' = [session EXCEPT ![s] = [open |-> TRUE, file |-> f, user_data |-> part, taken |-> 0]]
        /\ \/ /\ update_ok' = FALSE /\ UNCHANGED unnoticed
              /\ faults' = faults + 1 \/ (f.part = NoPart /\ UNCHANGED faults)
           \/ /\ part = f.part /\ f.part # NoPart
              /\ update_ok' = TRUE /\ unnoticed' = FALSE /\ UNCHANGED faults
              /\ flash' = [flash EXCEPT ![f.part] = Web!Blank(f.part)]
  <2>1. CASE Web!OpenUnsupported(s, f)
    BY <2>1 DEF Web!OpenUnsupported, Web!Opened, Web!NoPart, NoPart
  <2>2. CASE Web!OpenErases(s, f)
    BY <2>2 DEF Web!OpenErases, Web!Opened, Web!NoPart, NoPart
  <2>3. CASE Web!OpenEraseFails(s, f)
    BY <2>3 DEF Web!OpenEraseFails, Web!Opened, Web!NoPart, NoPart
  <2> QED
    BY <1>2, <2>1, <2>2, <2>3
<1>6. session'[s] = [open |-> TRUE, file |-> f, user_data |-> part, taken |-> 0]
  BY <1>1, <1>5
<1>7. [open |-> TRUE, file |-> f, user_data |-> part, taken |-> 0] \in SessionType
  BY <1>4, <1>5 DEF SessionType
<1>8. WebType'
  <2>1. session' \in [Sessions -> SessionType]
    BY <1>1, <1>5, <1>7
  <2>2. DOMAIN page' = Sessions
    BY <1>1, <1>3
  <2>3. faults' \in Nat
    BY <1>1, <1>5
  <2>4. update_ok' \in BOOLEAN
    BY <1>5, Zenon
  <2>5. unnoticed' \in BOOLEAN
    BY <1>1, <1>5, Zenon
  <2> QED
    BY <2>1, <2>2, <2>3, <2>4, <2>5 DEF WebType
<1>9. InFile(s)'
  BY <1>4, <1>5, <1>6 DEF InFile
<1>10. CASE /\ part = f.part /\ f.part # NoPart
            /\ update_ok' = TRUE /\ unnoticed' = FALSE /\ UNCHANGED faults
            /\ flash' = [flash EXCEPT ![f.part] = Web!Blank(f.part)]
  <2>1. f.part \in Parts /\ PartLen[f.part] \in Nat
    BY <1>1, <1>4, <1>10
  <2>2. flash'[f.part] = [i \in 0 .. PartLen[f.part] - 1 |-> IF i < 0 THEN f.data[i + 1] ELSE Erased]
    <3>1. Web!Blank(f.part) = [i \in 0 .. PartLen[f.part] - 1 |-> Erased]
      BY DEF Web!Blank
    <3>2. \A i \in 0 .. PartLen[f.part] - 1 : ~(i < 0)
      BY <2>1
    <3>3. flash'[f.part] = Web!Blank(f.part)
      BY <1>1, <1>10, <2>1
    <3> QED
      BY <3>1, <3>2, <3>3
  <2>3. Counted(s)' /\ Held(s)' /\ Accepting(s)'
    BY <1>3, <1>6, <1>10, <2>1, <2>2 DEF Counted, Held, Accepting
  <2> QED
    BY <1>8, <1>9, <2>3
<1>11. CASE update_ok' = FALSE /\ (faults' = faults + 1 \/ (f.part = NoPart /\ UNCHANGED faults))
  <2>1. faults' = 0 => f.part = NoPart
    BY <1>1, <1>11
  <2>2. Counted(s)' /\ Held(s)' /\ Accepting(s)'
    BY <1>6, <1>11, <2>1 DEF Counted, Held, Accepting
  <2> QED
    BY <1>8, <1>9, <2>2
<1> QED
  BY <1>5, <1>10, <1>11

(* upload_write: the next cells of the file are behind those before. *)
LEMMA WebWrites ==
  ASSUME OneSession, WebInv, WebStep, NEW s \in Sessions, Web!Write(s)
  PROVE  WebType' /\ InFile(s)' /\ Counted(s)' /\ Held(s)' /\ Accepting(s)'
<1>1. /\ faults \in Nat /\ session \in [Sessions -> SessionType] /\ DOMAIN page = Sessions
      /\ DOMAIN flash = Parts /\ update_ok \in BOOLEAN /\ unnoticed \in BOOLEAN
      /\ \A p \in Parts : PartLen[p] \in Nat /\ DOMAIN flash[p] = 0 .. PartLen[p] - 1
      /\ InFile(s) /\ Counted(s) /\ Held(s) /\ Accepting(s)
  BY SlaveAssumption DEF WebInv, WebType, UploadersInv, TypeOK
<1>2. PICK f \in Files : session[s].open /\ session[s].file = f
  BY <1>1 DEF Web!Write, InFile
<1>3. PICK n \in 1 .. Len(f.data) - session[s].taken :
        /\ session' = [session EXCEPT ![s].taken = @ + n]
        /\ \/ Web!WriteSkipped(s, n)
           \/ /\ update_ok /\ session[s].user_data # NoPart /\ Web!Fits(s, n)
              /\ Web!WriteSucceeds(s, n) \/ Web!WriteFails(s, n)
  BY <1>2 DEF Web!Write, Web!NoPart, NoPart
<1>4. PICK taken \in Nat : taken = session[s].taken
  BY <1>1 DEF SessionType
<1>5. f.part \in Parts \cup {NoPart} /\ Len(f.data) \in Nat
  BY FileAssumption
<1>6. /\ taken \in 0 .. Len(f.data) /\ taken + n \in 0 .. Len(f.data) /\ taken + n \in Nat
      /\ session[s].user_data \in {NoPart, f.part}
  BY <1>1, <1>2, <1>3, <1>4, <1>5 DEF InFile
<1>7. /\ session'[s].open = TRUE /\ session'[s].file = f /\ session'[s].taken = taken + n
      /\ session'[s].user_data = session[s].user_data
      /\ session' \in [Sessions -> SessionType]
  <2>1. session[s] \in SessionType /\ session'[s] = [session[s] EXCEPT !.taken = taken + n]
    BY <1>1, <1>3, <1>4
  <2>2. [session[s] EXCEPT !.taken = taken + n] \in SessionType
    BY <1>6, <2>1 DEF SessionType
  <2>3. /\ session'[s].open = session[s].open /\ session'[s].file = session[s].file
        /\ session'[s].taken = taken + n /\ session'[s].user_data = session[s].user_data
        /\ session[s].open \in BOOLEAN
    BY <2>1 DEF SessionType
  <2>4. session' \in [Sessions -> SessionType]
    BY <1>1, <1>3, <1>4, <2>1, <2>2
  <2> QED
    BY <1>2, <2>3, <2>4
<1>8. InFile(s)'
  BY <1>2, <1>6, <1>7 DEF InFile
<1>9. UNCHANGED page /\ slaveWrote' = slaveWrote \ Opening
  BY DEF Web!Write, WebStep
<1>10. Opening = {}
  BY <1>2 DEF OneSession, Opening
<1>11. ASSUME faults' \in Nat, update_ok' \in BOOLEAN, unnoticed' \in BOOLEAN PROVE WebType'
  BY <1>1, <1>7, <1>9, <1>11 DEF WebType
<1>12. CASE Web!WriteSkipped(s, n)
  <2>1. /\ update_ok' = FALSE /\ UNCHANGED <<flash, faults, file_size, unnoticed>>
        /\ ~(update_ok /\ session[s].user_data # NoPart /\ Web!Fits(s, n))
    BY <1>12 DEF Web!WriteSkipped, Web!NoPart, NoPart
  <2>2. Counted(s)' /\ Held(s)'
    BY <2>1 DEF Counted, Held
  <2>3. Accepting(s)'
    <3> SUFFICES ASSUME faults = 0, f.part # NoPart PROVE Len(f.data) > PartLen[f.part]
      BY <1>7, <2>1 DEF Accepting
    <3>1. CASE ~update_ok
      BY <1>1, <1>2, <3>1 DEF Accepting
    <3>2. CASE update_ok
      <4>1. /\ session[s].user_data = f.part /\ file_size = taken /\ f.part \in Parts
        BY <1>1, <1>2, <1>4, <3>2 DEF Counted
      <4>2. ~(taken + n <= PartLen[f.part])
        BY <2>1, <3>2, <4>1 DEF Web!Fits
      <4> QED
        BY <1>1, <1>5, <1>6, <4>1, <4>2
    <3> QED
      BY <3>1, <3>2
  <2> QED
    BY <1>1, <1>8, <1>11, <2>1, <2>2, <2>3
<1>13. CASE update_ok /\ session[s].user_data # NoPart /\ Web!Fits(s, n) /\ Web!WriteSucceeds(s, n)
  <2> DEFINE p == f.part
  <2>1. p \in Parts /\ session[s].user_data = p /\ file_size = taken /\ taken <= PartLen[p]
    BY <1>1, <1>2, <1>4, <1>13 DEF Counted
  <2>2. taken + n <= PartLen[p]
    BY <1>13, <2>1 DEF Web!Fits
  <2>3. file_size' = taken + n /\ UNCHANGED update_ok
    BY <1>13, <2>1 DEF Web!WriteSucceeds
  <2>4. Counted(s)'
    BY <1>7, <1>13, <2>1, <2>2, <2>3 DEF Counted
  <2>5. /\ faults' = faults + 1 \/ UNCHANGED faults
        /\ (UNCHANGED unnoticed /\ flash' = [flash EXCEPT ![p] = WriteDone(flash[p], Web!Piece(s, n), taken)])
           \/ unnoticed' = TRUE
    BY <1>13, <2>1, SameFlash DEF Web!WriteSucceeds
  <2>6. WebType'
    <3>1. faults' \in Nat
      BY <1>1, <2>5
    <3>2. update_ok' \in BOOLEAN
      BY <1>1, <2>3
    <3>3. unnoticed' \in BOOLEAN
      BY <1>1, <2>5, Zenon
    <3> QED
      BY <1>11, <3>1, <3>2, <3>3
  <2>7. Accepting(s)'
    BY <1>13, <2>3 DEF Accepting
  <2>8. Held(s)'
    <3> SUFFICES ASSUME ~unnoticed', p \notin slaveWrote'
                 PROVE  flash'[p] = [i \in 0 .. PartLen[p] - 1 |->
                                       IF i < taken + n THEN f.data[i + 1] ELSE Erased]
      BY <1>7 DEF Held
    <3>1. /\ ~unnoticed /\ p \notin slaveWrote
          /\ flash'[p] = WriteDone(flash[p], Web!Piece(s, n), taken)
      BY <1>1, <1>9, <1>10, <2>1, <2>5
    <3>2. flash[p] = [i \in 0 .. PartLen[p] - 1 |-> IF i < taken THEN f.data[i + 1] ELSE Erased]
      BY <1>1, <1>2, <1>4, <1>13, <3>1 DEF Held
    <3> DEFINE piece == SubSeq(f.data, taken + 1, taken + n)
    <3>3. Len(piece) = n /\ \A k \in 1 .. n : piece[k] = f.data[taken + k]
      <4>1. PICK a \in Int, b \in Int : a = taken + 1 /\ b = taken + n
        BY <1>6
      <4> DEFINE S == {f.data[i] : i \in a .. b}
      <4>2. \A i \in a .. b : f.data[i] \in S
        OBVIOUS
      <4> HIDE DEF S
      <4>3. /\ Len(SubSeq(f.data, a, b)) = IF a <= b THEN b - a + 1 ELSE 0
            /\ \A i \in 1 .. b - a + 1 : SubSeq(f.data, a, b)[i] = f.data[a + i - 1]
        BY <4>2, SubSeqProperties
      <4>4. a <= b /\ b - a + 1 = n /\ \A k \in 1 .. n : a + k - 1 = taken + k
        BY <1>3, <1>6, <4>1
      <4>5. piece = SubSeq(f.data, a, b)
        BY <4>1
      <4> HIDE DEF piece
      <4> QED
        BY <4>3, <4>4, <4>5
    <3>4. Web!Piece(s, n) = piece
      BY <1>2, <1>4 DEF Web!Piece
    <3> HIDE DEF piece
    <3>5. DOMAIN flash[p] = 0 .. PartLen[p] - 1 /\ PartLen[p] \in Nat
      BY <1>1, <2>1
    <3> DEFINE m == flash[p]
               region == Cells(m, taken, n)
    <3>6. region = taken .. taken + n - 1
      BY <1>3, <1>6, <2>2, <3>5 DEF Cells
    <3>7. WriteDone(m, piece, taken) =
            [i \in 0 .. PartLen[p] - 1 |-> IF i \in region THEN Burn(m[i], piece[i - taken + 1]) ELSE m[i]]
      <4>1. WriteDone(m, piece, taken) = Programmed(m, [i \in region |-> piece[i - taken + 1]], region)
        BY <3>3 DEF WriteDone
      <4> HIDE DEF region
      <4> QED
        BY <3>5, <4>1 DEF Programmed
    <3>8. ASSUME NEW i \in 0 .. PartLen[p] - 1
          PROVE  (IF i \in region THEN Burn(m[i], piece[i - taken + 1]) ELSE m[i])
                    = IF i < taken + n THEN f.data[i + 1] ELSE Erased
      <4>1. m[i] = IF i < taken THEN f.data[i + 1] ELSE Erased
        BY <3>2
      <4>2. CASE i \in region
        <5>1. i >= taken /\ i < taken + n /\ i - taken + 1 \in 1 .. n /\ taken + (i - taken + 1) = i + 1
          BY <1>3, <1>6, <3>6, <4>2
        <5>2. piece[i - taken + 1] = f.data[i + 1]
          BY <3>3, <5>1
        <5>3. m[i] = Erased
          BY <4>1, <5>1
        <5>4. Burn(m[i], piece[i - taken + 1]) = f.data[i + 1]
          BY <5>2, <5>3 DEF Burn
        <5> QED
          BY <4>2, <5>1, <5>4
      <4>3. CASE i \notin region
        <5>1. i < taken <=> i < taken + n
          BY <1>3, <1>6, <3>6, <4>3
        <5> HIDE DEF region
        <5> QED
          BY <4>1, <4>3, <5>1
      <4> QED
        BY <4>2, <4>3
    <3> HIDE DEF m, region
    <3>9. flash'[p] = WriteDone(m, piece, taken)
      BY <3>1, <3>4 DEF m
    <3> QED
      BY <3>7, <3>8, <3>9
  <2> QED
    BY <1>8, <2>4, <2>6, <2>7, <2>8
<1>14. CASE update_ok /\ session[s].user_data # NoPart /\ Web!Fits(s, n) /\ Web!WriteFails(s, n)
  <2>1. update_ok' = FALSE /\ faults' = faults + 1 /\ UNCHANGED unnoticed
    BY <1>14 DEF Web!WriteFails, Web!StopAtFailure
  <2>2. faults' \in Nat /\ faults' # 0
    BY <1>1, <2>1
  <2>3. Counted(s)' /\ Held(s)' /\ Accepting(s)'
    BY <2>1, <2>2 DEF Counted, Held, Accepting
  <2> QED
    BY <1>1, <1>8, <1>11, <2>1, <2>2, <2>3
<1> QED
  BY <1>3, <1>12, <1>13, <1>14

LEMMA WebEnds ==
  ASSUME WebInv, NEW s \in Sessions, Web!Done(s) \/ Web!Break(s)
  PROVE  WebType' /\ InFile(s)' /\ Counted(s)' /\ Held(s)' /\ Accepting(s)'
<1>1. /\ session' = [session EXCEPT ![s] = Web!Closed] /\ UNCHANGED <<faults, update_ok, unnoticed>>
      /\ DOMAIN page' = DOMAIN page
  BY DEF Web!Done, Web!Break
<1>2. Web!Closed \in SessionType /\ Web!Closed.open = FALSE
  BY DEF Web!Closed, SessionType, Web!NoPart, NoPart
<1>3. session \in [Sessions -> SessionType]
  BY DEF WebInv, WebType
<1>4. session'[s].open = FALSE /\ session' \in [Sessions -> SessionType]
  BY <1>1, <1>2, <1>3
<1>5. WebType'
  BY <1>1, <1>4 DEF WebInv, WebType
<1> QED
  BY <1>4, <1>5 DEF InFile, Counted, Held, Accepting

LEMMA WebStays == OneSession /\ WebInv /\ [UploadersNext]_all => WebInv'
<1> SUFFICES ASSUME OneSession, WebInv, [UploadersNext]_all PROVE WebInv'
  OBVIOUS
<1>1. UploadersInv'
  BY StepUploadersInv DEF WebInv
<1>2. CASE UNCHANGED all
  BY <1>1, <1>2 DEF all, slave, regs, web, history, WebInv, WebType, InFile, Counted, Held, Accepting
<1>3. CASE WebStep
  <2>1. PICK s \in Sessions : Web!Open(s) \/ Web!Write(s) \/ Web!Done(s) \/ Web!Break(s)
    BY <1>3 DEF WebStep, Web!Upload
  <2>2. WebType' /\ InFile(s)' /\ Counted(s)' /\ Held(s)' /\ Accepting(s)'
    BY <1>3, <2>1, WebOpens, WebWrites, WebEnds
  <2>3. \A t \in Sessions : t = s
    BY DEF OneSession
  <2> QED
    BY <1>1, <2>2, <2>3 DEF WebInv
<1> QED
  BY <1>2, <1>3, WebBesideSlave, WebRestarts DEF UploadersNext

(* What the page says of a session, it says at the end of the request. *)
LEMMA OnlyDoneReports ==
  ASSUME OneSession, WebInv, UploadersNext, NEW s \in Sessions, NEW word \in {"success", "failed"},
         Reports(s, word)
  PROVE  /\ session[s].taken = Len(session[s].file.data)
         /\ word = "success" <=> update_ok /\ file_size = Len(session[s].file.data)
<1>1. session[s].open /\ page[s] = "none" /\ page'[s] = word /\ DOMAIN page = Sessions
  BY DEF Reports, WebInv, WebType
<1>2. ~SlaveStep /\ ~Restart
  BY <1>1 DEF SlaveStep, Restart, web
<1>3. PICK t \in Sessions : Web!Open(t) \/ Web!Write(t) \/ Web!Done(t) \/ Web!Break(t)
  BY <1>2 DEF UploadersNext, WebStep, Web!Upload
<1>4. t = s
  BY DEF OneSession
<1>5. Web!Done(s)
  BY <1>1, <1>3, <1>4 DEF Web!Open, Web!Write, Web!Break
<1> QED
  BY <1>1, <1>5 DEF Web!Done

(* What the page reports as stored is stored, for files and pieces of any  *)
(* length, and whatever the slave does on another partition.               *)
THEOREM SuccessIsStored == OneSession => (UploadersSpec => SuccessMeansStored)
<1> SUFFICES ASSUME OneSession PROVE UploadersSpec => SuccessMeansStored
  OBVIOUS
<1> DEFINE Told == \A s \in Sessions :
                     (Reports(s, "success") /\ ~unnoticed /\ session[s].file.part \notin slaveWrote)
                     => Web!Holds(flash[session[s].file.part], session[s].file.data)
<1>1. WebInv /\ [UploadersNext]_all => [Told]_all
  <2> SUFFICES ASSUME WebInv, UploadersNext, NEW s \in Sessions,
                      Reports(s, "success"), ~unnoticed, session[s].file.part \notin slaveWrote
               PROVE  Web!Holds(flash[session[s].file.part], session[s].file.data)
    OBVIOUS
  <2>1. /\ update_ok /\ session[s].taken = Len(session[s].file.data) /\ session[s].open
    BY OnlyDoneReports DEF Reports
  <2> DEFINE p == session[s].file.part
             d == session[s].file.data
  <2>2. p \in Parts /\ Len(d) <= PartLen[p] /\ Len(d) \in Nat
    BY <2>1, FileAssumption DEF WebInv, Counted, InFile
  <2>3. flash[p] = [i \in 0 .. PartLen[p] - 1 |-> IF i < Len(d) THEN d[i + 1] ELSE Erased]
    <3>1. PICK k : k = session[s].taken
      OBVIOUS
    <3>2. flash[p] = [i \in 0 .. PartLen[p] - 1 |-> IF i < k THEN d[i + 1] ELSE Erased]
      BY <2>1, <3>1 DEF WebInv, Held
    <3>3. k = Len(d)
      BY <2>1, <3>1
    <3> HIDE DEF p, d
    <3> QED
      BY <3>2, <3>3
  <2> HIDE DEF p, d
  <2>4. PartLen[p] \in Nat
    BY <2>2, SlaveAssumption
  <2>5. DOMAIN flash[p] = 0 .. PartLen[p] - 1
    BY <2>3
  <2>6. Cardinality(0 .. PartLen[p] - 1) = PartLen[p]
    BY <2>4, FS_Interval
  <2>7. flash[p] = [i \in DOMAIN flash[p] |-> IF i < Len(d) THEN d[i + 1] ELSE Erased]
    BY <2>3, <2>5, Zenon
  <2>8. Len(d) <= Cardinality(DOMAIN flash[p])
    BY <2>2, <2>5, <2>6
  <2>9. Web!Cardinality(DOMAIN flash[p]) = Cardinality(DOMAIN flash[p])
    BY DEF Web!Cardinality, Cardinality
  <2>10. Web!Holds(flash[p], d)
    BY <2>7, <2>8, <2>9 DEF Web!Holds
  <2> QED
    BY <2>10 DEF p, d
<1>2. OneSession /\ WebInv /\ [UploadersNext]_all => WebInv'
  BY WebStays
<1> QED
  BY <1>1, <1>2, WebInit, PTL DEF UploadersSpec, SuccessMeansStored

(* Without a failed flash operation only a file that does not fit, or that *)
(* has an unknown name, is reported as failed.                             *)
THEOREM FittingIsAccepted == OneSession => (UploadersSpec => FittingFileAccepted)
<1> SUFFICES ASSUME OneSession PROVE UploadersSpec => FittingFileAccepted
  OBVIOUS
<1> DEFINE Fair == \A s \in Sessions :
                     (Reports(s, "failed") /\ faults = 0 /\ session[s].file.part # NoPart)
                     => Len(session[s].file.data) > PartLen[session[s].file.part]
<1>1. WebInv /\ [UploadersNext]_all => [Fair]_all
  <2> SUFFICES ASSUME WebInv, UploadersNext, NEW s \in Sessions,
                      Reports(s, "failed"), faults = 0, session[s].file.part # NoPart
               PROVE  Len(session[s].file.data) > PartLen[session[s].file.part]
    OBVIOUS
  <2>1. /\ session[s].open /\ session[s].taken = Len(session[s].file.data)
        /\ ~(update_ok /\ file_size = Len(session[s].file.data))
    BY OnlyDoneReports DEF Reports
  <2>2. ~update_ok
    BY <2>1 DEF WebInv, Counted
  <2> QED
    BY <2>1, <2>2 DEF WebInv, Accepting
<1>2. OneSession /\ WebInv /\ [UploadersNext]_all => WebInv'
  BY WebStays
<1> QED
  BY <1>1, <1>2, WebInit, PTL DEF UploadersSpec, FittingFileAccepted

(***************************************************************************)
(* The transfer: how the packets divide the image                          *)
(***************************************************************************)

(* The cells the first w packets fill, and the partition when they, and no *)
(* other, have been written since it was erased. *)
Upto(w) == Smaller(w * PktLen, ImageLen)
Stored(w) == [i \in 0 .. PartLen[Target] - 1 |-> IF i < Upto(w) THEN Image(i) ELSE Erased]

LEMMA Sizes ==
  /\ ImageLen \in Nat /\ ImageLen >= 1 /\ PktLen \in Nat /\ PktLen >= 1
  /\ PartLen[Target] \in Nat /\ ImageLen <= PartLen[Target]
  /\ Target \in Parts /\ Target # NoPart
BY LinkAssumption, SlaveAssumption DEF NoPart

(* There are as many packets as it takes. *)
LEMMA PacketCount ==
  /\ Packets \in Nat /\ Packets >= 1
  /\ (Packets - 1) * PktLen < ImageLen /\ ImageLen <= Packets * PktLen
<1>1. /\ ImageLen \in Nat /\ ImageLen >= 1 /\ PktLen \in Nat /\ PktLen >= 1
  BY Sizes
<1>2. Packets = (ImageLen + PktLen - 1) \div PktLen
  BY DEF Packets
<1> HIDE DEF Packets
<1>3. /\ Packets \in Int
      /\ PktLen * Packets <= ImageLen + PktLen - 1
      /\ ImageLen + PktLen - 1 < PktLen * Packets + PktLen
  BY <1>1, <1>2, SMT
<1>4. (Packets - 1) * PktLen = PktLen * Packets - PktLen /\ Packets * PktLen = PktLen * Packets
  BY <1>1, <1>3, SMT
<1>5. Packets >= 1
  BY <1>1, <1>3, SMT
<1> QED
  BY <1>1, <1>3, <1>4, <1>5, SMT

(* Every packet but the last begins and ends inside the image. *)
LEMMA UptoFacts ==
  /\ Upto(0) = 0 /\ Upto(Packets) = ImageLen
  /\ \A w \in 0 .. Packets : Upto(w) \in 0 .. ImageLen
  /\ \A w \in 0 .. Packets - 1 : Upto(w) = w * PktLen /\ Upto(w) < ImageLen /\ Upto(w) < Upto(w + 1)
<1>1. /\ ImageLen \in Nat /\ ImageLen >= 1 /\ PktLen \in Nat /\ PktLen >= 1
      /\ Packets \in Nat /\ (Packets - 1) * PktLen < ImageLen /\ ImageLen <= Packets * PktLen
  BY Sizes, PacketCount
<1>2. ASSUME NEW w \in 0 .. Packets - 1 PROVE w * PktLen < ImageLen
  BY <1>1, <1>2, SMT
<1>3. Upto(0) = 0 /\ Upto(Packets) = ImageLen
  BY <1>1, SMT DEF Upto, Smaller
<1>4. ASSUME NEW w \in 0 .. Packets PROVE Upto(w) \in 0 .. ImageLen
  <2>1. w * PktLen \in Nat
    BY <1>1, <1>4, SMT
  <2> QED
    BY <1>1, <2>1, SMT DEF Upto, Smaller
<1>5. ASSUME NEW w \in 0 .. Packets - 1
      PROVE  Upto(w) = w * PktLen /\ Upto(w) < ImageLen /\ Upto(w) < Upto(w + 1)
  <2>1. w * PktLen < ImageLen /\ w * PktLen \in Nat /\ (w + 1) * PktLen = w * PktLen + PktLen
    BY <1>1, <1>2, <1>5, SMT
  <2> QED
    BY <1>1, <2>1, SMT DEF Upto, Smaller
<1> QED
  BY <1>3, <1>4, <1>5

LEMMA UptoGrows ==
  ASSUME NEW w \in 0 .. Packets, NEW v \in 0 .. Packets, v <= w
  PROVE  Upto(v) <= Upto(w)
<1>1. /\ ImageLen \in Nat /\ PktLen \in Nat /\ Packets \in Nat
  BY Sizes, PacketCount
<1>2. v * PktLen <= w * PktLen /\ v * PktLen \in Nat /\ w * PktLen \in Nat
  BY <1>1, SMT
<1> QED
  BY <1>1, <1>2, SMT DEF Upto, Smaller

(* What the nth packet carries. *)
LEMMA PacketIs ==
  ASSUME NEW n \in 1 .. Packets
  PROVE  /\ n - 1 \in 0 .. Packets - 1
         /\ Len(PacketData(n)) = Upto(n) - Upto(n - 1) /\ Len(PacketData(n)) \in Nat \ {0}
         /\ SubSeq(PacketData(n), 1, Len(PacketData(n))) = PacketData(n)
         /\ (n - 1) * PktLen = Upto(n - 1)
         /\ \A k \in 1 .. Len(PacketData(n)) : PacketData(n)[k] = Image(Upto(n - 1) + k - 1)
<1> DEFINE len == Smaller(PktLen, ImageLen - (n - 1) * PktLen)
<1>1. /\ ImageLen \in Nat /\ PktLen \in Nat /\ PktLen >= 1 /\ Packets \in Nat
      /\ n - 1 \in 0 .. Packets - 1 /\ (n - 1) + 1 = n
  BY Sizes, PacketCount
<1>2. /\ Upto(n - 1) = (n - 1) * PktLen /\ Upto(n - 1) < ImageLen /\ Upto(n - 1) \in Nat
  <2>1. Upto(n - 1) \in 0 .. ImageLen
    BY <1>1, UptoFacts
  <2> QED
    BY <1>1, <2>1, UptoFacts
<1>3. n * PktLen = (n - 1) * PktLen + PktLen /\ (n - 1) * PktLen \in Int
  BY <1>1, SMT
<1>4. len = Upto(n) - Upto(n - 1) /\ len \in Nat /\ len >= 1
  BY <1>1, <1>2, <1>3, SMT DEF Upto, Smaller
<1>5. PacketData(n) = [k \in 1 .. len |-> Image(Upto(n - 1) + k - 1)]
  BY <1>2 DEF PacketData
<1> HIDE DEF len
<1>6. Len(PacketData(n)) = len /\ SubSeq(PacketData(n), 1, len) = PacketData(n)
  <2>1. PacketData(n) \in Seq({Image(Upto(n - 1) + k - 1) : k \in 1 .. len}) /\ Len(PacketData(n)) = len
    <3>1. PacketData(n) \in [1 .. len -> {Image(Upto(n - 1) + k - 1) : k \in 1 .. len}]
      BY <1>5, Zenon
    <3> QED
      BY <1>4, <3>1, SMT
  <2> QED
    BY <2>1, SubSeqFull
<1> QED
  BY <1>1, <1>2, <1>4, <1>5, <1>6
(* A packet written at its place, behind the packets before it. *)
LEMMA NextStored ==
  ASSUME NEW n \in 1 .. Packets
  PROVE  WriteDone(Stored(n - 1), PacketData(n), Upto(n - 1)) = Stored(n)
<1> DEFINE s == PacketData(n)
           at == Upto(n - 1)
           mem == Stored(n - 1)
           region == Cells(mem, at, Len(s))
<1>1. /\ Len(s) = Upto(n) - at /\ Len(s) \in Nat /\ at \in Nat /\ Upto(n) \in Nat
      /\ \A k \in 1 .. Len(s) : s[k] = Image(at + k - 1)
  <2>1. Packets \in Nat /\ ImageLen \in Nat
    BY PacketCount, Sizes
  <2>2. n - 1 \in 0 .. Packets /\ n \in 0 .. Packets
    BY <2>1, PacketIs
  <2> QED
    BY <2>1, <2>2, PacketIs, UptoFacts
<1>2. WriteDone(mem, s, at) =
        [i \in DOMAIN mem |-> IF i \in region THEN Burn(mem[i], s[i - at + 1]) ELSE mem[i]]
  BY DEF WriteDone, Programmed
<1>3. DOMAIN mem = 0 .. PartLen[Target] - 1
      /\ \A i \in DOMAIN mem : mem[i] = IF i < at THEN Image(i) ELSE Erased
  BY DEF Stored
<1>4. \A i \in DOMAIN mem : i \in region <=> at <= i /\ i < Upto(n)
  BY <1>1, <1>3, Sizes DEF Cells
<1> HIDE DEF s, at, mem, region
<1>5. ASSUME NEW i \in 0 .. PartLen[Target] - 1
      PROVE  (IF i \in region THEN Burn(mem[i], s[i - at + 1]) ELSE mem[i])
               = IF i < Upto(n) THEN Image(i) ELSE Erased
  <2>1. i \in Nat
    BY Sizes
  <2>2. CASE i \in region
    <3>1. i - at + 1 \in 1 .. Len(s) /\ at + (i - at + 1) - 1 = i /\ ~(i < at) /\ i < Upto(n)
      BY <1>1, <1>3, <1>4, <2>1, <2>2
    <3>2. s[i - at + 1] = Image(i) /\ mem[i] = Erased
      BY <1>1, <1>3, <3>1
    <3> QED
      BY <2>2, <3>1, <3>2 DEF Burn
  <2>3. CASE i \notin region
    BY <1>1, <1>3, <1>4, <2>1, <2>3
  <2> QED
    BY <2>2, <2>3
<1>6. WriteDone(mem, s, at) = [i \in 0 .. PartLen[Target] - 1 |-> IF i < Upto(n) THEN Image(i) ELSE Erased]
  BY <1>2, <1>3, <1>5
<1> QED
  BY <1>6 DEF Stored, mem, s, at

(* What the host sends, and what the slave can answer it. *)
StartFrame == [cmd |-> "start", part |-> Target, len |-> ImageLen]
WriteFrame(n) == [cmd |-> "write", num |-> n, data |-> PacketData(n)]
Frames ==
  {[cmd |-> c] : c \in {"sync", "check", "update"}} \cup {StartFrame}
  \cup {WriteFrame(n) : n \in 1 .. Packets}
Replies ==
  {Plain(c) : c \in {"check", "update"}} \cup {StartStatus(ok) : ok \in BOOLEAN}
  \cup {WriteStatus(n, ok) : n \in 0 .. Packets, ok \in BOOLEAN} \cup {Exception("write")}

(* The slave has taken the first w packets of this image. *)
Transfer(w) ==
  /\ using_part = Target
  /\ total_len = ImageLen /\ write_packet = w /\ write_len = Upto(w)
  /\ flash[Target] = Stored(w)

(* START: the partition was blank already, is erased, or may not be. *)
LEMMA StartServed ==
  ASSUME TypeOK, Start(StartFrame)
  PROVE  /\ is_remain /\ using_part' = Target /\ total_len' = ImageLen
         /\ write_len' = 0 /\ write_packet' = 0
         /\ UNCHANGED <<is_remain, is_quit>>
         /\ \/ /\ UNCHANGED <<flash, iap_step, faults>>
               /\ using_part = Target /\ iap_step = "start"
               /\ rsp' = StartStatus(TRUE)
            \/ /\ flash'[Target] = Stored(0)
               /\ rsp' = StartStatus(TRUE)
               /\ UNCHANGED faults
            \/ /\ faults < MaxFaults /\ faults' = faults + 1
               /\ iap_step' # "start"
               /\ rsp' = StartStatus(FALSE)
<1> DEFINE req == StartFrame
<1>1. req.cmd = "start" /\ req.part = Target /\ req.len = ImageLen
  BY DEF StartFrame
<1> HIDE DEF req
<1>2. Start(req)
  BY DEF req
<1>3. /\ is_remain /\ Announce(req) /\ UNCHANGED <<is_remain, is_quit>>
      /\ StartAgain(req) \/ StartErases(req)
  BY <1>1, <1>2, Sizes DEF Start, StartRefused, StartTooLong
<1>4. CASE StartAgain(req)
  <2>1. using_part = Target /\ iap_step = "start"
    BY <1>1, <1>4 DEF StartAgain, StepFor
  <2> QED
    BY <1>1, <1>3, <1>4, <2>1 DEF StartAgain, Announce
<1>5. CASE StartErases(req)
  <2>1. Blank(Target) = Stored(0)
    <3>1. \A i \in 0 .. PartLen[Target] - 1 : ~(i < Upto(0))
      BY UptoFacts, Sizes
    <3> QED
      BY <3>1 DEF Blank, Stored
  <2>2. CASE /\ flash' = [flash EXCEPT ![req.part] = Blank(req.part)]
             /\ rsp' = StartStatus(TRUE) /\ UNCHANGED faults
    <3>1. flash'[Target] = Stored(0)
      BY <1>1, <2>1, <2>2, Sizes DEF TypeOK
    <3> QED
      BY <1>1, <1>3, <1>5, <2>2, <3>1 DEF StartErases, Announce
  <2>3. CASE /\ faults < MaxFaults /\ faults' = faults + 1
             /\ iap_step' = StepFor(req.part) /\ rsp' = StartStatus(FALSE)
    BY <1>1, <1>3, <1>5, <2>3 DEF StartErases, Announce
  <2> QED
    BY <1>5, <2>2, <2>3 DEF StartErases
<1> QED
  BY <1>3, <1>4, <1>5

(* WRITE of the packet that is due: it goes behind the others; or only its *)
(* first page fails, unnoticed, when the packets do not begin at pages; or *)
(* the write fails, and the cells before it keep what they hold. *)
LEMMA WriteServed ==
  ASSUME TypeOK, NEW n \in 1 .. Packets, Transfer(n - 1), Write(WriteFrame(n))
  PROVE  /\ is_remain /\ write_packet' = n /\ iap_step' = "write"
         /\ UNCHANGED <<using_part, total_len, is_remain, is_quit>>
         /\ \/ /\ flash'[Target] = Stored(n) /\ write_len' = Upto(n)
               /\ rsp' = WriteStatus(n, TRUE)
               /\ UNCHANGED faults
            \/ /\ PktLen % PageLen # 0
               /\ faults < MaxFaults /\ faults' = faults + 1
               /\ rsp' = WriteStatus(n, TRUE)
            \/ /\ \A i \in 0 .. Upto(n - 1) - 1 : flash'[Target][i] = flash[Target][i]
               /\ faults < MaxFaults /\ faults' = faults + 1
               /\ rsp' = WriteStatus(n, FALSE)
<1> DEFINE req == WriteFrame(n)
           mem == flash[Target]
<1>1. req.cmd = "write" /\ req.num = n /\ req.data = PacketData(n)
  BY DEF WriteFrame
<1> HIDE DEF req
<1>2. Write(req)
  BY DEF req
<1>3. /\ Len(req.data) = Upto(n) - Upto(n - 1) /\ Len(req.data) \in Nat \ {0}
      /\ SubSeq(req.data, 1, Len(req.data)) = req.data
      /\ Upto(n - 1) = (n - 1) * PktLen
  BY <1>1, PacketIs
<1>4. /\ n \in Nat /\ n > 0 /\ n > n - 1 /\ Packets \in Nat /\ n \in 0 .. Packets
      /\ n - 1 \in 0 .. Packets - 1
  BY PacketCount
<1>5. /\ Upto(n) \in 0 .. ImageLen /\ Upto(n - 1) \in Nat /\ Upto(n - 1) < ImageLen
      /\ ImageLen \in Nat /\ ImageLen <= PartLen[Target] /\ PartLen[Target] \in Nat
  <2>1. n - 1 \in 0 .. Packets
    BY <1>4
  <2> QED
    BY <1>4, <2>1, UptoFacts, Sizes
<1>6. /\ using_part = Target /\ total_len = ImageLen /\ write_packet = n - 1
      /\ write_len = Upto(n - 1) /\ flash[Target] = Stored(n - 1)
  BY DEF Transfer
<1>7. /\ is_remain /\ UNCHANGED <<using_part, total_len, is_remain, is_quit>>
      /\ WriteNew(req)
  <2>1. ~(using_part = NoPart \/ req.num = 0)
    BY <1>1, <1>4, <1>6, Sizes
  <2>2. ~(req.num <= write_packet)
    BY <1>1, <1>4, <1>6
  <2>3. ~(write_len >= total_len)
    BY <1>5, <1>6
  <2>4. /\ is_remain /\ UNCHANGED <<using_part, total_len, is_remain, is_quit>>
        /\ WriteOld(req) \/ WriteSurplus(req) \/ WriteNew(req)
    BY <1>2, <2>1 DEF Write, WriteRefused
  <2> QED
    BY <2>2, <2>3, <2>4 DEF WriteOld, WriteSurplus
<1>8. /\ Clipped(req) = Upto(n) - Upto(n - 1)
      /\ write_len + Clipped(req) = Upto(n) /\ write_len + Clipped(req) <= PartLen[using_part]
      /\ Clipped(req) > 0 /\ Packet(req) = PacketData(n)
  <2>1. Clipped(req) = Len(req.data)
    BY <1>3, <1>5, <1>6 DEF Clipped, Smaller
  <2> QED
    BY <1>1, <1>3, <1>5, <1>6, <2>1 DEF Packet
<1>9. write_packet' = n /\ iap_step' = "write"
  BY <1>1, <1>7 DEF WriteNew, MarkDirty
<1>10. \A ok : Answer(req, ok) => rsp' = WriteStatus(n, ok)
  BY <1>9 DEF Answer
<1>11. \A new : Store(new) => flash'[Target] = new
  BY <1>6, Sizes DEF Store, TypeOK
<1>12. CASE /\ Store(WriteDone(flash[using_part], Packet(req), WriteAt))
            /\ write_len' = write_len + Clipped(req)
            /\ UNCHANGED faults /\ Answer(req, TRUE)
  <2>1. flash'[Target] = WriteDone(Stored(n - 1), PacketData(n), Upto(n - 1))
    BY <1>6, <1>8, <1>11, <1>12 DEF WriteAt
  <2>2. flash'[Target] = Stored(n)
    BY <2>1, NextStored
  <2> QED
    BY <1>7, <1>8, <1>9, <1>10, <1>12, <2>2
<1>13. CASE /\ (write_len % PageLen) # 0 /\ faults < MaxFaults /\ faults' = faults + 1
            /\ Answer(req, TRUE)
  <2>1. PktLen % PageLen # 0
    <3>1. SUFFICES ASSUME PktLen % PageLen = 0 PROVE ((n - 1) * PktLen) % PageLen = 0
      BY <1>3, <1>6, <1>13
    <3>2. /\ PktLen \in Nat /\ PageLen \in Nat /\ PageLen > 0 /\ n - 1 \in Nat
      BY <1>4, Sizes, SlaveAssumption
    <3>3. PICK q \in Nat : PktLen = q * PageLen
      BY <3>1, <3>2
    <3>4. (n - 1) * PktLen = ((n - 1) * q) * PageLen /\ (n - 1) * q \in Nat
      BY <3>2, <3>3
    <3>5. \A p \in Nat : (p * PageLen) % PageLen = 0
      BY <3>2
    <3> QED
      BY <3>4, <3>5
  <2> QED
    BY <1>7, <1>9, <1>10, <1>13, <2>1
<1>14. CASE /\ faults < MaxFaults /\ faults' = faults + 1
            /\ \E new \in WriteFailed(flash[using_part], Packet(req), WriteAt, PageLen) : Store(new)
            /\ Answer(req, FALSE)
  <2>1. PICK new \in WriteFailed(mem, Packet(req), Upto(n - 1), PageLen) : Store(new)
    BY <1>6, <1>14 DEF WriteAt
  <2>2. \A i \in DOMAIN mem : new[i] # mem[i] => Upto(n - 1) <= i
    BY <2>1, WriteShape DEF WriteOutcomes
  <2>3. DOMAIN mem = 0 .. PartLen[Target] - 1
    BY Sizes DEF TypeOK
  <2>4. flash'[Target] = new
    BY <1>11, <2>1
  <2>5. \A i \in 0 .. Upto(n - 1) - 1 : i \in DOMAIN mem /\ ~(Upto(n - 1) <= i)
    BY <1>5, <2>3
  <2> QED
    BY <1>7, <1>9, <1>10, <1>14, <2>2, <2>4, <2>5
<1> QED
  BY <1>7, <1>8, <1>12, <1>13, <1>14 DEF WriteNew
(***************************************************************************)
(* Types of the transfer                                                   *)
(***************************************************************************)

LinkTypeOK ==
  /\ TypeOK /\ write_packet \in 0 .. Packets
  /\ host \in {"sync", "check", "start", "write", "update", "done"}
  /\ num \in 1 .. Packets + 1
  /\ host = "write" => num <= Packets
  /\ host \in {"update", "done"} => num = Packets + 1
  /\ waiting \in BOOLEAN
  /\ toSlave \in Seq(Frames) /\ toHost \in Seq(Replies)
  /\ faults \in 0 .. MaxFaults /\ losses \in 0 .. MaxLosses

(* Nothing but the partition of the transfer is ever selected, and neither *)
(* it nor the decision to leave survives a reset. *)
Selected ==
  /\ using_part \in {NoPart, Target}
  /\ ~is_remain => using_part = NoPart /\ ~is_quit

LEMMA TailIs ==
  ASSUME NEW S, NEW s \in Seq(S), s # << >>
  PROVE  /\ Tail(s) \in Seq(S) /\ Len(s) \in Nat /\ Len(s) >= 1
         /\ Len(Tail(s)) = Len(s) - 1
         /\ Head(s) = s[1] /\ s[1] \in S
         /\ \A i \in 1 .. Len(Tail(s)) : i + 1 \in 1 .. Len(s) /\ Tail(s)[i] = s[i + 1]
<1>1. Len(s) \in Nat /\ Len(s) >= 1 /\ Head(s) = s[1]
  BY EmptySeq, SMT
<1> QED
  BY <1>1, HeadTailProperties

LEMMA StatusReplies ==
  /\ StartStatus(TRUE) \in Replies /\ StartStatus(FALSE) \in Replies
  /\ \A n \in 0 .. Packets : WriteStatus(n, TRUE) \in Replies /\ WriteStatus(n, FALSE) \in Replies
<1>1. \A ok \in BOOLEAN : StartStatus(ok) \in Replies
  BY DEF Replies
<1>2. \A n \in 0 .. Packets, ok \in BOOLEAN : WriteStatus(n, ok) \in Replies
  BY DEF Replies
<1> QED
  BY <1>1, <1>2

LEMMA FrameKinds ==
  ASSUME NEW f \in Frames
  PROVE  /\ \/ f = [cmd |-> "sync"] \/ f = [cmd |-> "check"] \/ f = [cmd |-> "update"]
            \/ f = StartFrame \/ \E n \in 1 .. Packets : f = WriteFrame(n)
         /\ f.cmd \in {"sync", "check", "start", "write", "update"}
         /\ f.cmd \in {"sync", "check", "update"} => f = [cmd |-> f.cmd]
         /\ f.cmd = "start" => f = StartFrame /\ f.part = Target /\ f.len = ImageLen
         /\ f.cmd = "write" =>
              /\ f.num \in 1 .. Packets /\ f = WriteFrame(f.num)
              /\ f.num \in Nat /\ Len(f.data) \in Nat
<1>1. ASSUME NEW n \in 1 .. Packets, f = WriteFrame(n)
      PROVE  f.cmd = "write" /\ f.num = n /\ n \in Nat /\ Len(f.data) \in Nat
  <2>1. Len(PacketData(n)) \in Nat /\ n \in Nat
    BY PacketIs, PacketCount
  <2> QED
    BY <1>1, <2>1 DEF WriteFrame
<1>2. \/ f = [cmd |-> "sync"] \/ f = [cmd |-> "check"] \/ f = [cmd |-> "update"]
      \/ f = StartFrame \/ \E n \in 1 .. Packets : f = WriteFrame(n)
  BY DEF Frames
<1>3. CASE f \in {[cmd |-> "sync"], [cmd |-> "check"], [cmd |-> "update"]}
  BY <1>2, <1>3
<1>4. CASE f = StartFrame
  BY <1>2, <1>4 DEF StartFrame
<1> QED
  BY <1>1, <1>2, <1>3, <1>4

(* What a WRITE answers, whatever its number. *)
LEMMA WriteAnswers ==
  ASSUME NEW req, Write(req)
  PROVE  /\ \/ rsp' = Exception("write") /\ (using_part = NoPart \/ req.num = 0)
            \/ \E ok \in BOOLEAN : rsp' = WriteStatus(write_packet', ok)
         /\ write_packet' \in {write_packet, req.num}
         /\ \/ UNCHANGED faults
            \/ faults < MaxFaults /\ faults' = faults + 1
         /\ UNCHANGED <<using_part, is_remain, is_quit>>
<1>1. CASE WriteRefused(req)
  BY <1>1 DEF Write, WriteRefused
<1>2. CASE WriteOld(req)
  <2>1. (req.num = write_packet) \in BOOLEAN
    OBVIOUS
  <2> QED
    BY <1>2, <2>1 DEF Write, WriteOld, Answer
<1>3. CASE WriteSurplus(req)
  BY <1>3 DEF Write, WriteSurplus, Answer
<1>4. CASE WriteNew(req)
  BY <1>4 DEF Write, WriteNew, Answer
<1> QED
  BY <1>1, <1>2, <1>3, <1>4 DEF Write

(* What the slave makes of a frame: nothing, or an answer by its kind. *)
Unheard(f) ==
  /\ rsp' = NoReply
  /\ UNCHANGED <<flash, using_part, iap_step, total_len, write_len, write_packet, is_quit, faults>>
  /\ is_remain => is_remain'
  /\ f.cmd # "sync" => ~is_remain /\ ~is_remain'

LEMMA Handled ==
  ASSUME NEW f \in Frames, Handle(f), LinkTypeOK
  PROVE  \/ Unheard(f)
         \/ /\ f = [cmd |-> "check"] /\ is_remain /\ rsp' = Plain("check")
            /\ UNCHANGED <<flash, using_part, iap_step, total_len, write_len, write_packet,
                           is_remain, is_quit, faults>>
         \/ f = StartFrame /\ Start(StartFrame)
         \/ \E n \in 1 .. Packets : f = WriteFrame(n) /\ Write(WriteFrame(n))
         \/ f = [cmd |-> "update"] /\ Update(f)
<1>1. CASE Ignored(f) \/ Sync(f)
  BY <1>1 DEF Unheard, Ignored, Sync, regs
<1>2. CASE Check(f)
  <2>1. f = [cmd |-> "check"]
    BY <1>2, FrameKinds DEF Check, StartFrame, WriteFrame
  <2> QED
    BY <1>2, <2>1 DEF Check, regs
<1>3. CASE Start(f)
  BY <1>3, FrameKinds DEF Start
<1>4. CASE Write(f)
  BY <1>4, FrameKinds DEF Write
<1>5. CASE Update(f)
  <2>1. f = [cmd |-> "update"]
    BY <1>5, FrameKinds DEF Update, StartFrame, WriteFrame
  <2> QED
    BY <1>5, <2>1
<1>6. CASE Unknown(f)
  BY <1>6, FrameKinds DEF Unknown
<1> QED
  BY <1>1, <1>2, <1>3, <1>4, <1>5, <1>6 DEF Handle
TypeInv == LinkTypeOK /\ Selected

LEMMA TypeInit == Init => TypeInv
<1> SUFFICES ASSUME Init PROVE TypeInv
  OBVIOUS
<1>1. /\ using_part = NoPart /\ iap_step = "null"
      /\ total_len = 0 /\ write_len = 0 /\ write_packet = 0 /\ sync_cmd_cnt = 0
      /\ is_remain = FALSE /\ is_quit = FALSE
  BY DEF Init, InitRegs
<1>2. TypeOK
  <2>1. DOMAIN flash = Parts /\ \A p \in Parts : DOMAIN flash[p] = 0 .. PartLen[p] - 1
    BY DEF Init
  <2>2. sync_cmd_cnt \in 0 .. SyncCap /\ write_len \in 0 .. total_len
    BY <1>1, SlaveAssumption
  <2> QED
    BY <1>1, <2>1, <2>2 DEF TypeOK
<1>3. faults \in 0 .. MaxFaults /\ losses \in 0 .. MaxLosses
  BY LinkAssumption DEF Init
<1>4. write_packet \in 0 .. Packets /\ 1 \in 1 .. Packets + 1
  BY <1>1, PacketCount
<1>5. << >> \in Seq(Frames) /\ << >> \in Seq(Replies)
  BY EmptySeq
<1> QED
  BY <1>1, <1>2, <1>3, <1>4, <1>5 DEF TypeInv, LinkTypeOK, Selected, Init

(* A frame is served with the slave's variables and an answer in range. *)
LEMMA ServeType ==
  ASSUME TypeInv, Serve
  PROVE  TypeInv'
<1> DEFINE f == Head(toSlave)
<1>1. /\ toSlave # << >> /\ ~is_quit /\ Handle(f) /\ toSlave' = Tail(toSlave)
      /\ toHost' = IF rsp'.kind = "none" THEN toHost ELSE Append(toHost, rsp')
      /\ UNCHANGED <<host, num, waiting, losses>>
  BY DEF Serve
<1>2. toSlave' \in Seq(Frames) /\ f \in Frames
  BY <1>1, TailIs DEF TypeInv, LinkTypeOK
<1> HIDE DEF f
<1>3. TypeOK'
  <2>1. /\ f.cmd = "start" => f.len \in Nat
        /\ f.cmd = "write" => f.num \in Nat /\ Len(f.data) \in Nat
    BY <1>2, FrameKinds, Sizes
  <2> QED
    BY <1>1, <2>1, HandleType DEF TypeInv, LinkTypeOK
<1>4. SUFFICES /\ rsp' \in Replies \cup {NoReply} /\ write_packet' \in 0 .. Packets
               /\ faults' \in 0 .. MaxFaults /\ Selected'
  <2>1. rsp'.kind = "none" => rsp' \notin Replies
    BY DEF Replies, Plain, StartStatus, WriteStatus, Exception
  <2>2. rsp' = NoReply => rsp'.kind = "none"
    BY DEF NoReply
  <2>3. toHost' \in Seq(Replies)
    <3>1. CASE rsp'.kind = "none"
      BY <1>1, <3>1 DEF TypeInv, LinkTypeOK
    <3>2. CASE rsp'.kind # "none"
      <4>1. rsp' \in Replies /\ toHost' = Append(toHost, rsp')
        BY <1>1, <1>4, <2>2, <3>2
      <4> QED
        BY <4>1, AppendProperties DEF TypeInv, LinkTypeOK
    <3> QED
      BY <3>1, <3>2
  <2> QED
    BY <1>1, <1>2, <1>3, <1>4, <2>3 DEF TypeInv, LinkTypeOK
<1>5. /\ write_packet \in 0 .. Packets /\ faults \in 0 .. MaxFaults
      /\ using_part \in {NoPart, Target} /\ (~is_remain => using_part = NoPart /\ ~is_quit)
      /\ Packets \in Nat /\ MaxFaults \in Nat
  BY PacketCount, SlaveAssumption DEF TypeInv, LinkTypeOK, Selected
<1>6. faults < MaxFaults /\ faults' = faults + 1 => faults' \in 0 .. MaxFaults
  BY <1>5
<1>7. CASE Unheard(f)
  BY <1>1, <1>5, <1>7 DEF Unheard, Selected
<1>8. CASE /\ f = [cmd |-> "check"] /\ is_remain /\ rsp' = Plain("check")
           /\ UNCHANGED <<flash, using_part, iap_step, total_len, write_len, write_packet,
                          is_remain, is_quit, faults>>
  <2>1. rsp' \in Replies
    BY <1>8 DEF Replies
  <2> QED
    BY <1>5, <1>8, <2>1 DEF Selected
<1>9. CASE f = StartFrame /\ Start(StartFrame)
  <2>1. /\ is_remain /\ using_part' = Target /\ write_packet' = 0
        /\ UNCHANGED <<is_remain, is_quit>>
        /\ rsp' \in {StartStatus(TRUE), StartStatus(FALSE)}
        /\ faults' = faults \/ (faults < MaxFaults /\ faults' = faults + 1)
    BY <1>9, StartServed DEF TypeInv, LinkTypeOK
  <2>2. rsp' \in Replies
    BY <2>1, StatusReplies
  <2> QED
    BY <1>5, <1>6, <2>1, <2>2 DEF Selected
<1>10. CASE \E n \in 1 .. Packets : f = WriteFrame(n) /\ Write(WriteFrame(n))
  <2>1. PICK n \in 1 .. Packets : f = WriteFrame(n) /\ Write(f)
    BY <1>10
  <2>2. f.num = n
    BY <2>1 DEF WriteFrame
  <2>3. write_packet' \in 0 .. Packets
    BY <1>5, <2>1, <2>2, WriteAnswers
  <2>4. rsp' \in Replies
    <3>1. \A ok \in BOOLEAN : WriteStatus(write_packet', ok) \in Replies
      BY <2>3 DEF Replies
    <3>2. Exception("write") \in Replies
      BY DEF Replies
    <3> QED
      BY <2>1, <3>1, <3>2, WriteAnswers
  <2>5. is_remain
    BY <2>1 DEF Write
  <2> QED
    BY <1>5, <1>6, <2>1, <2>3, <2>4, <2>5, WriteAnswers DEF Selected
<1>11. CASE f = [cmd |-> "update"] /\ Update(f)
  <2>1. rsp' \in Replies
    BY <1>11 DEF Replies, Update
  <2> QED
    BY <1>5, <1>11, <2>1 DEF Selected, Update
<1> QED
  BY <1>1, <1>2, <1>7, <1>8, <1>9, <1>10, <1>11, Handled DEF TypeInv

LEMMA HostType ==
  ASSUME TypeInv, Host \/ Lose
  PROVE  TypeInv'
<1>1. /\ host \in {"sync", "check", "start", "write", "update", "done"}
      /\ num \in 1 .. Packets + 1 /\ Packets \in Nat /\ Packets >= 1
      /\ host = "write" => num <= Packets
      /\ host \in {"update", "done"} => num = Packets + 1
      /\ waiting \in BOOLEAN
      /\ toSlave \in Seq(Frames) /\ toHost \in Seq(Replies)
      /\ losses \in 0 .. MaxLosses
  BY PacketCount DEF TypeInv, LinkTypeOK
<1>2. UNCHANGED slave
  BY DEF Host, HostSync, HostSend, HostAsks, HostTimeout, HostReceive, HostStartsOver, Lose, line
<1>3. (TypeOK /\ write_packet \in 0 .. Packets /\ faults \in 0 .. MaxFaults /\ Selected)'
  BY <1>2 DEF slave, regs, TypeInv, LinkTypeOK, TypeOK, Selected
<1>4. losses < MaxLosses /\ losses' = losses + 1 => losses' \in 0 .. MaxLosses
  BY <1>1, LinkAssumption
<1>5. SUFFICES /\ host' \in {"sync", "check", "start", "write", "update", "done"}
               /\ num' \in 1 .. Packets + 1
               /\ host' = "write" => num' <= Packets
               /\ host' \in {"update", "done"} => num' = Packets + 1
               /\ waiting' \in BOOLEAN
               /\ toSlave' \in Seq(Frames) /\ toHost' \in Seq(Replies)
               /\ losses' \in 0 .. MaxLosses
  BY <1>3 DEF TypeInv, LinkTypeOK
<1>6. CASE HostSync
  <2>1. [cmd |-> "sync"] \in Frames
    BY DEF Frames
  <2>2. toSlave' \in Seq(Frames)
    BY <1>1, <1>6, <2>1, AppendProperties DEF HostSync
  <2> QED
    BY <1>1, <1>6, <2>2 DEF HostSync
<1>7. CASE HostSend
  <2>1. Request \in Frames
    <3>1. CASE host = "write"
      <4>1. Request = WriteFrame(num) /\ num \in 1 .. Packets
        BY <1>1, <3>1 DEF Request, WriteFrame
      <4> QED
        BY <4>1 DEF Frames
    <3>2. CASE host = "start"
      BY <3>2 DEF Request, Frames, StartFrame
    <3>3. CASE host \in {"check", "update"}
      BY <3>3 DEF Request, Frames
    <3> QED
      BY <1>1, <1>7, <3>1, <3>2, <3>3 DEF HostSend
  <2>2. toSlave' \in Seq(Frames)
    BY <1>1, <1>7, <2>1, AppendProperties DEF HostSend
  <2> QED
    BY <1>1, <1>7, <2>2 DEF HostSend
<1>8. CASE HostAsks
  BY <1>1, <1>8 DEF HostAsks, line
<1>9. CASE HostTimeout
  BY <1>1, <1>4, <1>9 DEF HostTimeout
<1>10. CASE HostReceive
  <2> DEFINE r == Head(toHost)
  <2>1. toHost # << >> /\ toHost' = Tail(toHost) /\ UNCHANGED <<toSlave, losses>>
        /\ \/ UNCHANGED <<host, num, waiting>>
           \/ Answers(r) /\ Proceed(r) /\ waiting' = FALSE
    BY <1>10 DEF HostReceive
  <2>2. toHost' \in Seq(Replies) /\ r \in Replies
    BY <1>1, <2>1, TailIs
  <2> HIDE DEF r
  <2>3. CASE Answers(r) /\ Proceed(r) /\ waiting' = FALSE
    <3>1. CASE r.kind = "check"
      BY <1>1, <2>1, <2>2, <2>3, <3>1 DEF Proceed
    <3>2. CASE r.kind = "start"
      <4>1. host' \in {"write", "start"} /\ num' = 1
        BY <2>3, <3>2 DEF Proceed
      <4>2. 1 \in 1 .. Packets + 1 /\ 1 <= Packets
        BY <1>1
      <4>3. num' \in 1 .. Packets + 1 /\ num' <= Packets
        BY <4>1, <4>2
      <4>4. host' # "update" /\ host' # "done"
        BY <4>1
      <4> QED
        BY <1>1, <2>1, <2>2, <2>3, <4>1, <4>3, <4>4
    <3>3. CASE r.kind = "write" /\ r.ok
      <4>1. host = "write" /\ num <= Packets
        BY <1>1, <2>3, <3>3 DEF Answers
      <4>2. host' = (IF num < Packets THEN "write" ELSE "update") /\ num' = num + 1
        BY <2>3, <3>3 DEF Proceed
      <4>3. num + 1 \in 1 .. Packets + 1 /\ (num < Packets => num + 1 <= Packets)
            /\ (~(num < Packets) => num + 1 = Packets + 1)
        BY <1>1, <4>1
      <4> QED
        BY <1>1, <2>1, <2>2, <2>3, <4>2, <4>3
    <3>4. CASE r.kind = "write" /\ ~r.ok
      BY <1>1, <2>1, <2>2, <2>3, <3>4 DEF Proceed
    <3>5. CASE r.kind = "update"
      <4>1. host = "update" /\ host' = "done" /\ UNCHANGED num
        BY <2>3, <3>5 DEF Proceed, Answers
      <4> QED
        BY <1>1, <2>1, <2>2, <2>3, <4>1
    <3>6. CASE r.kind \notin {"check", "start", "write", "update"}
      BY <1>1, <2>1, <2>2, <2>3, <3>6 DEF Proceed
    <3> QED
      BY <3>1, <3>2, <3>3, <3>4, <3>5, <3>6
  <2> QED
    BY <1>1, <2>1, <2>2, <2>3
<1>11. CASE HostStartsOver
  BY <1>1, <1>11 DEF HostStartsOver, line
<1>12. CASE Lose
  <2>1. /\ UNCHANGED <<host, num, waiting>> /\ losses < MaxLosses /\ losses' = losses + 1
        /\ \/ toSlave # << >> /\ toSlave' = Tail(toSlave) /\ UNCHANGED toHost
           \/ toHost # << >> /\ toHost' = Tail(toHost) /\ UNCHANGED toSlave
    BY <1>12 DEF Lose
  <2>2. toSlave' \in Seq(Frames) /\ toHost' \in Seq(Replies)
    BY <1>1, <2>1, TailIs
  <2> QED
    BY <1>1, <1>4, <2>1, <2>2
<1> QED
  BY <1>6, <1>7, <1>8, <1>9, <1>10, <1>11, <1>12 DEF Host

LEMMA RebootType ==
  ASSUME TypeInv, SlaveReboots
  PROVE  TypeInv'
<1>1. /\ using_part' = NoPart /\ iap_step' = "null"
      /\ total_len' = 0 /\ write_len' = 0 /\ write_packet' = 0 /\ sync_cmd_cnt' = 0
      /\ is_remain' = FALSE /\ is_quit' = FALSE
      /\ UNCHANGED <<flash, faults, host, num, waiting, toSlave, toHost, losses>>
  BY DEF SlaveReboots, Reboot, line
<1>2. 0 \in 0 .. SyncCap /\ 0 \in 0 .. Packets /\ 0 \in 0 .. 0 /\ 0 \in Nat
  BY SlaveAssumption, PacketCount
<1>3. TypeOK'
  BY <1>1, <1>2 DEF TypeInv, LinkTypeOK, TypeOK
<1> QED
  BY <1>1, <1>2, <1>3 DEF TypeInv, LinkTypeOK, Selected

LEMMA TypeStep == TypeInv /\ [Next]_vars => TypeInv'
<1>1. ASSUME TypeInv, UNCHANGED vars PROVE TypeInv'
  BY <1>1 DEF vars, line, slave, regs, TypeInv, LinkTypeOK, TypeOK, Selected
<1> QED
  BY <1>1, ServeType, HostType, RebootType DEF Next

(* The host, the line and the slave keep to their types, whatever is lost, *)
(* late, failing or reset: in particular the slave never counts a packet   *)
(* that the image does not have, and selects no other partition. *)
THEOREM TransferTypeCorrect == Spec => []TypeInv
BY TypeInit, TypeStep, PTL DEF Spec
(***************************************************************************)
(* A line that fails, a flash that does not                                *)
(***************************************************************************)

(* The place of a request in the transfer: that of a frame, of the one a   *)
(* reply answers, and of the one the host is at. *)
Place(what, n) ==
  CASE what \in {"sync", "check"} -> 0
    [] what = "start"             -> 1
    [] what = "write"             -> 1 + n
    [] OTHER                      -> 2 + Packets
FramePlace(f) == IF f.cmd = "write" THEN Place("write", f.num) ELSE Place(f.cmd, 0)
ReplyPlace(r) == IF r.kind = "write" THEN Place("write", r.num) ELSE Place(r.kind, 0)
HostPlace == Place(host, num)

(* At least k packets are in the partition, and everything before place a  *)
(* is past: no frame on the line is from before it. *)
Done(k) == \E m \in k .. Packets : flash[Target] = Stored(m)
Acked(a) ==
  /\ \A i \in 1 .. Len(toSlave) : a <= FramePlace(toSlave[i])
  /\ a >= 1 => Done(a - 1) /\ (is_remain => using_part = Target /\ write_packet >= a - 1)

(* Frames arrive in the order of the transfer; the slave is never ahead of *)
(* a frame, nor a frame of the host; and whatever the host may conclude    *)
(* from a reply that is still under way is so. *)
Sorted == \A i, j \in 1 .. Len(toSlave) : i <= j => FramePlace(toSlave[i]) <= FramePlace(toSlave[j])
InOrder ==
  /\ Sorted
  /\ \A i \in 1 .. Len(toSlave) : FramePlace(toSlave[i]) <= HostPlace
  /\ using_part = Target =>
       /\ \E w \in 0 .. Packets : Transfer(w)
       /\ write_packet + 1 <= HostPlace
       /\ \A i \in 1 .. Len(toSlave) : write_packet + 1 <= FramePlace(toSlave[i])
  /\ Acked(HostPlace - 1)
  /\ \A i \in 1 .. Len(toHost) :
       /\ ReplyPlace(toHost[i]) <= HostPlace /\ toHost[i].kind # "exception"
       /\ toHost[i].kind \in {"start", "write"} => toHost[i].ok /\ Acked(ReplyPlace(toHost[i]))

LEMMA Places ==
  /\ \A f \in Frames : FramePlace(f) \in Nat
  /\ \A r \in Replies : ReplyPlace(r) \in Nat
  /\ \A n \in 1 .. Packets : FramePlace(WriteFrame(n)) = n + 1
  /\ FramePlace(StartFrame) = 1 /\ FramePlace([cmd |-> "update"]) = Packets + 2
  /\ FramePlace([cmd |-> "sync"]) = 0 /\ FramePlace([cmd |-> "check"]) = 0
<1> USE PacketCount
<1>1. \A n \in 1 .. Packets : FramePlace(WriteFrame(n)) = n + 1
  BY DEF FramePlace, WriteFrame, Place
<1>2. FramePlace(StartFrame) = 1
  BY DEF FramePlace, StartFrame, Place
<1>3. /\ FramePlace([cmd |-> "sync"]) = 0 /\ FramePlace([cmd |-> "check"]) = 0
      /\ FramePlace([cmd |-> "update"]) = Packets + 2
  BY DEF FramePlace, Place
<1>4. \A f \in Frames : FramePlace(f) \in Nat
  BY <1>1, <1>2, <1>3, FrameKinds
<1>5. ASSUME NEW r \in Replies PROVE ReplyPlace(r) \in Nat
  <2>1. CASE \E n \in 0 .. Packets, ok \in BOOLEAN : r = WriteStatus(n, ok)
    BY <2>1 DEF ReplyPlace, WriteStatus, Place
  <2>2. CASE \E ok \in BOOLEAN : r = StartStatus(ok)
    BY <2>2 DEF ReplyPlace, StartStatus, Place
  <2>3. CASE r \in {Plain("check"), Plain("update"), Exception("write")}
    BY <2>3 DEF ReplyPlace, Plain, Exception, Place
  <2> QED
    BY <2>1, <2>2, <2>3 DEF Replies
<1> QED
  BY <1>1, <1>2, <1>3, <1>4, <1>5

LEMMA HostPlaces ==
  TypeInv => /\ HostPlace \in Nat
             /\ host \in {"sync", "check"} => HostPlace = 0
             /\ host = "start" => HostPlace = 1
             /\ host = "write" => HostPlace = num + 1
             /\ host \in {"update", "done"} => HostPlace = Packets + 2
BY PacketCount DEF HostPlace, Place, TypeInv, LinkTypeOK

LEMMA OnTheLine ==
  TypeInv => /\ Len(toSlave) \in Nat /\ Len(toHost) \in Nat
             /\ \A i \in 1 .. Len(toSlave) : toSlave[i] \in Frames /\ FramePlace(toSlave[i]) \in Nat
             /\ \A i \in 1 .. Len(toHost) : toHost[i] \in Replies /\ ReplyPlace(toHost[i]) \in Nat
<1> SUFFICES ASSUME TypeInv
             PROVE  /\ Len(toSlave) \in Nat /\ Len(toHost) \in Nat
                    /\ \A i \in 1 .. Len(toSlave) : toSlave[i] \in Frames /\ FramePlace(toSlave[i]) \in Nat
                    /\ \A i \in 1 .. Len(toHost) : toHost[i] \in Replies /\ ReplyPlace(toHost[i]) \in Nat
  OBVIOUS
<1>1. toSlave \in Seq(Frames) /\ toHost \in Seq(Replies)
  BY DEF TypeInv, LinkTypeOK
<1>2. \A i \in 1 .. Len(toSlave) : toSlave[i] \in Frames
  BY <1>1, ElementOfSeq
<1>3. \A i \in 1 .. Len(toHost) : toHost[i] \in Replies
  BY <1>1, ElementOfSeq
<1>4. Len(toSlave) \in Nat /\ Len(toHost) \in Nat
  BY <1>1, SMT
<1> QED
  BY <1>2, <1>3, <1>4, Places

(* A step of the host or of the line, or a reset: nothing is written, the  *)
(* slave stands still or forgets, what is added to the line is at the      *)
(* host's place, and the host goes on only when what is behind it is past. *)
LEMMA OrderKept ==
  ASSUME TypeInv, TypeInv', InOrder, UNCHANGED flash,
         \/ UNCHANGED <<using_part, is_remain, total_len, write_len, write_packet>>
         \/ using_part' = NoPart /\ ~is_remain',
         Sorted',
         \A i \in 1 .. Len(toSlave') : FramePlace(toSlave'[i]) = HostPlace
                                       \/ \E j \in 1 .. Len(toSlave) : toSlave'[i] = toSlave[j],
         \A i \in 1 .. Len(toHost') : \E j \in 1 .. Len(toHost) : toHost'[i] = toHost[j],
         NEW h, h = HostPlace', h \in {HostPlace, HostPlace + 1}, Acked(h - 1)
  PROVE  InOrder'
<1>1. h \in Nat /\ HostPlace \in Nat
  <2>1. (TypeInv => HostPlace \in Nat)'
    BY HostPlaces, PTL
  <2> QED
    BY <2>1, HostPlaces
<1>2. /\ \A i \in 1 .. Len(toSlave) : FramePlace(toSlave[i]) \in Nat
      /\ \A i \in 1 .. Len(toHost) : ReplyPlace(toHost[i]) \in Nat
  BY OnTheLine
<1>3. ASSUME NEW a \in Int, a <= HostPlace, Acked(a) PROVE Acked(a)'
  <2>1. \A i \in 1 .. Len(toSlave') : a <= FramePlace(toSlave'[i])
    BY <1>3 DEF Acked
  <2>2. a >= 1 => Done(a - 1)'
    BY <1>3 DEF Acked, Done, Stored
  <2>3. a >= 1 /\ is_remain' => using_part' = Target /\ write_packet' >= a - 1
    BY <1>3, Sizes DEF Acked
  <2> QED
    BY <2>1, <2>2, <2>3 DEF Acked
<1>4. \A i \in 1 .. Len(toSlave') : FramePlace(toSlave'[i]) <= h
  BY <1>1, <1>2 DEF InOrder
<1>5. using_part' = Target =>
       /\ (\E w \in 0 .. Packets : Transfer(w))'
       /\ write_packet' + 1 <= h
       /\ \A i \in 1 .. Len(toSlave') : write_packet' + 1 <= FramePlace(toSlave'[i])
  <2> SUFFICES ASSUME using_part' = Target
               PROVE  /\ (\E w \in 0 .. Packets : Transfer(w))'
                      /\ write_packet' + 1 <= h
                      /\ \A i \in 1 .. Len(toSlave') : write_packet' + 1 <= FramePlace(toSlave'[i])
    OBVIOUS
  <2>1. /\ UNCHANGED <<using_part, total_len, write_len, write_packet>>
        /\ using_part = Target
    BY Sizes
  <2>2. write_packet + 1 <= HostPlace /\ write_packet \in Nat
    BY <2>1, PacketCount DEF InOrder, TypeInv, LinkTypeOK
  <2>3. (\E w \in 0 .. Packets : Transfer(w))'
    BY <2>1 DEF InOrder, Transfer
  <2>4. \A i \in 1 .. Len(toSlave') : write_packet' + 1 <= FramePlace(toSlave'[i])
    BY <2>1, <2>2 DEF InOrder
  <2> QED
    BY <1>1, <2>1, <2>2, <2>3, <2>4
<1>6. Acked(h - 1)'
  BY <1>1, <1>3
<1>7. ASSUME NEW i \in 1 .. Len(toHost')
      PROVE  /\ ReplyPlace(toHost'[i]) <= h /\ toHost'[i].kind # "exception"
             /\ toHost'[i].kind \in {"start", "write"} =>
                  toHost'[i].ok /\ Acked(ReplyPlace(toHost[i]))'
  <2>1. PICK j \in 1 .. Len(toHost) : toHost'[i] = toHost[j]
    OBVIOUS
  <2>2. PICK a \in Nat : a = ReplyPlace(toHost[j])
    BY <1>2
  <2>3. /\ a <= HostPlace /\ toHost[j].kind # "exception"
        /\ toHost[j].kind \in {"start", "write"} => toHost[j].ok /\ Acked(a)
    BY <2>2 DEF InOrder
  <2>4. Acked(a) => Acked(a)'
    BY <1>3, <2>3
  <2>5. ReplyPlace(toHost'[i]) = a
    BY <2>1, <2>2
  <2>6. Acked(a)' => Acked(ReplyPlace(toHost[i]))'
    BY <2>5 DEF Acked
  <2> QED
    BY <1>1, <2>1, <2>3, <2>4, <2>5, <2>6
<1>8. Acked(HostPlace - 1)'
  BY <1>6 DEF Acked
<1> QED
  BY <1>4, <1>5, <1>7, <1>8 DEF InOrder
LEMMA OrderInit == Init => InOrder
<1> SUFFICES ASSUME Init PROVE InOrder
  OBVIOUS
<1>1. toSlave = << >> /\ toHost = << >> /\ using_part = NoPart /\ host = "sync"
  BY DEF Init, InitRegs
<1>2. HostPlace = 0
  BY <1>1 DEF HostPlace, Place
<1>3. Len(<< >>) = 0 /\ \A i \in 1 .. 0 : FALSE
  BY SMT
<1>4. Sorted
  BY <1>1, <1>3 DEF Sorted
<1>5. Acked(HostPlace - 1)
  BY <1>1, <1>2, <1>3 DEF Acked
<1> QED
  BY <1>1, <1>3, <1>4, <1>5, Sizes DEF InOrder

(* A frame at the end of the line, at the host's place. *)
LEMMA OrderSent ==
  ASSUME TypeInv, TypeInv', InOrder, NEW f \in Frames, FramePlace(f) = HostPlace,
         toSlave' = Append(toSlave, f), UNCHANGED <<slave, host, num, toHost>>
  PROVE  InOrder'
<1>1. /\ Len(toSlave) \in Nat /\ Len(toSlave') = Len(toSlave) + 1
      /\ \A i \in 1 .. Len(toSlave) : toSlave'[i] = toSlave[i]
      /\ toSlave'[Len(toSlave) + 1] = f
  BY OnTheLine, AppendProperties DEF TypeInv, LinkTypeOK
<1>2. /\ \A i \in 1 .. Len(toSlave) : FramePlace(toSlave[i]) \in Nat
      /\ HostPlace \in Nat
  BY OnTheLine, HostPlaces
<1>3. \A i \in 1 .. Len(toSlave') :
        i \in 1 .. Len(toSlave) \/ (i = Len(toSlave) + 1 /\ toSlave'[i] = f)
  BY <1>1
<1>4. Sorted'
  <2> SUFFICES ASSUME NEW i \in 1 .. Len(toSlave'), NEW j \in 1 .. Len(toSlave'), i <= j
               PROVE  FramePlace(toSlave'[i]) <= FramePlace(toSlave'[j])
    BY DEF Sorted
  <2>1. CASE j \in 1 .. Len(toSlave)
    <3>1. i \in 1 .. Len(toSlave)
      BY <1>1, <2>1
    <3> QED
      BY <1>1, <2>1, <3>1 DEF InOrder, Sorted
  <2>2. CASE toSlave'[j] = f
    <3>1. CASE toSlave'[i] = f
      BY <1>2, <2>2, <3>1
    <3>2. CASE i \in 1 .. Len(toSlave)
      BY <1>1, <2>2, <3>2 DEF InOrder
    <3> QED
      BY <1>3, <3>1, <3>2
  <2> QED
    BY <1>3, <2>1, <2>2
<1>5. \A i \in 1 .. Len(toSlave') : FramePlace(toSlave'[i]) = HostPlace
                                    \/ \E j \in 1 .. Len(toSlave) : toSlave'[i] = toSlave[j]
  BY <1>1, <1>3
<1>6. HostPlace' = HostPlace
  BY DEF HostPlace
<1>7. UNCHANGED <<flash, using_part, is_remain, total_len, write_len, write_packet>>
  BY DEF slave, regs
<1>8. \A i \in 1 .. Len(toHost') : \E j \in 1 .. Len(toHost) : toHost'[i] = toHost[j]
  OBVIOUS
<1>9. Acked(HostPlace - 1)
  BY DEF InOrder
<1>10. PICK h \in Nat : h = HostPlace
  BY <1>2
<1> QED
  BY <1>4, <1>5, <1>6, <1>7, <1>8, <1>9, <1>10, OrderKept

(* A line that is shorter by its first frame or reply, or as it was. *)
LEMMA OrderShortened ==
  ASSUME TypeInv, InOrder,
         UNCHANGED toSlave \/ (toSlave # << >> /\ toSlave' = Tail(toSlave))
  PROVE  /\ Sorted'
         /\ \A i \in 1 .. Len(toSlave') : \E j \in 1 .. Len(toSlave) : toSlave'[i] = toSlave[j]
<1>1. CASE toSlave' = toSlave
  BY <1>1 DEF InOrder, Sorted
<1>2. CASE toSlave # << >> /\ toSlave' = Tail(toSlave)
  <2>1. /\ Len(toSlave') = Len(toSlave) - 1 /\ Len(toSlave) \in Nat
        /\ \A i \in 1 .. Len(toSlave') : i + 1 \in 1 .. Len(toSlave) /\ toSlave'[i] = toSlave[i + 1]
    BY <1>2, TailIs DEF TypeInv, LinkTypeOK
  <2>2. \A i, j \in 1 .. Len(toSlave') : i <= j => i + 1 <= j + 1
    BY <2>1
  <2>3. Sorted'
    BY <2>1, <2>2 DEF InOrder, Sorted
  <2> QED
    BY <2>1, <2>3
<1> QED
  BY <1>1, <1>2

LEMMA TailOfHost ==
  ASSUME TypeInv, toHost # << >>, toHost' = Tail(toHost)
  PROVE  /\ \A i \in 1 .. Len(toHost') : \E j \in 1 .. Len(toHost) : toHost'[i] = toHost[j]
         /\ Head(toHost) = toHost[1] /\ 1 \in 1 .. Len(toHost) /\ Head(toHost) \in Replies
<1>1. toHost \in Seq(Replies)
  BY DEF TypeInv, LinkTypeOK
<1>2. /\ \A i \in 1 .. Len(Tail(toHost)) :
           i + 1 \in 1 .. Len(toHost) /\ Tail(toHost)[i] = toHost[i + 1]
      /\ Head(toHost) = toHost[1] /\ Len(toHost) \in Nat /\ Len(toHost) >= 1 /\ toHost[1] \in Replies
  BY <1>1, TailIs
<1> QED
  BY <1>2

LEMMA OrderReceive ==
  ASSUME TypeInv, TypeInv', InOrder, HostReceive
  PROVE  InOrder'
<1> DEFINE r == Head(toHost)
<1>1. /\ toHost # << >> /\ toHost' = Tail(toHost) /\ UNCHANGED <<slave, toSlave, losses>>
      /\ \/ UNCHANGED <<host, num, waiting>>
         \/ Answers(r) /\ Proceed(r) /\ waiting' = FALSE
  BY DEF HostReceive
<1>2. /\ \A i \in 1 .. Len(toHost') : \E j \in 1 .. Len(toHost) : toHost'[i] = toHost[j]
      /\ r = toHost[1] /\ 1 \in 1 .. Len(toHost) /\ r \in Replies
  BY <1>1, TailOfHost
<1>3. r.kind # "exception" /\ (r.kind \in {"start", "write"} => r.ok /\ Acked(ReplyPlace(r)))
  BY <1>2 DEF InOrder
<1>4. /\ UNCHANGED <<flash, using_part, is_remain, total_len, write_len, write_packet>>
      /\ Sorted'
      /\ \A i \in 1 .. Len(toSlave') : \E j \in 1 .. Len(toSlave) : toSlave'[i] = toSlave[j]
  BY <1>1, OrderShortened DEF slave, regs
<1>5. PICK h : h = HostPlace'
  OBVIOUS
<1>6. HostPlace \in Nat /\ h \in Nat
  <2>1. (TypeInv => HostPlace \in Nat)'
    BY HostPlaces, PTL
  <2> QED
    BY <1>5, <2>1, HostPlaces
<1>7. SUFFICES h \in {HostPlace, HostPlace + 1} /\ Acked(h - 1)
  BY <1>2, <1>4, <1>5, OrderKept
<1>8. CASE UNCHANGED <<host, num>>
  BY <1>5, <1>8 DEF HostPlace, InOrder
<1>9. CASE Answers(r) /\ Proceed(r)
  <2> USE PacketCount DEF TypeInv, LinkTypeOK
  <2>1. CASE r.kind = "check"
    <3>1. host = "check" /\ host' = "start"
      BY <1>9, <2>1 DEF Answers, Proceed
    <3>2. HostPlace = 0 /\ h = 1
      BY <1>5, <3>1 DEF HostPlace, Place
    <3>3. Acked(0)
      BY OnTheLine DEF Acked
    <3> QED
      BY <3>2, <3>3
  <2>2. CASE r.kind = "start"
    <3>1. host = "start" /\ host' = "write" /\ num' = 1
      BY <1>3, <1>9, <2>2 DEF Answers, Proceed
    <3>2. HostPlace = 1 /\ h = 2 /\ ReplyPlace(r) = 1
      BY <1>5, <2>2, <3>1 DEF HostPlace, Place, ReplyPlace
    <3> QED
      BY <1>3, <2>2, <3>2
  <2>3. CASE r.kind = "write"
    <3>1. /\ host = "write" /\ r.num = num /\ num' = num + 1 /\ num <= Packets
          /\ host' = IF num < Packets THEN "write" ELSE "update"
      BY <1>3, <1>9, <2>3 DEF Answers, Proceed
    <3>2. num \in Nat
      OBVIOUS
    <3>3. HostPlace = num + 1 /\ ReplyPlace(r) = num + 1
      <4>1. ReplyPlace(r) = 1 + num
        BY <2>3, <3>1 DEF Place, ReplyPlace
      <4> QED
        BY <3>1, <3>2, <4>1, HostPlaces
    <3>4. h = num + 2
      <4>1. CASE num < Packets
        BY <1>5, <3>1, <3>2, <4>1 DEF HostPlace, Place
      <4>2. CASE ~(num < Packets)
        <5>1. num = Packets /\ host' = "update"
          BY <3>1, <3>2, <4>2
        <5> QED
          BY <1>5, <5>1 DEF HostPlace, Place
      <4> QED
        BY <4>1, <4>2
    <3> QED
      BY <1>3, <2>3, <3>2, <3>3, <3>4
  <2>4. CASE r.kind = "update"
    <3>1. host = "update" /\ host' = "done"
      BY <1>9, <2>4 DEF Answers, Proceed
    <3>2. h = HostPlace
      BY <1>5, <3>1 DEF HostPlace, Place
    <3> QED
      BY <3>2 DEF InOrder
  <2> QED
    BY <1>2, <1>3, <2>1, <2>2, <2>3, <2>4
    DEF Replies, Plain, StartStatus, WriteStatus, Exception
<1> QED
  BY <1>1, <1>8, <1>9

LEMMA OrderHost ==
  ASSUME TypeInv, TypeInv', InOrder, Host \/ Lose \/ SlaveReboots
  PROVE  InOrder'
<1>1. CASE HostSync
  <2>1. [cmd |-> "sync"] \in Frames
    BY DEF Frames
  <2>2. FramePlace([cmd |-> "sync"]) = HostPlace
    BY <1>1, Places, HostPlaces DEF HostSync
  <2> QED
    BY <1>1, <2>1, <2>2, OrderSent DEF HostSync
<1>2. CASE HostSend
  <2>1. host \in {"check", "start", "write", "update"} /\ (host = "write" => num \in 1 .. Packets)
    BY <1>2, PacketCount DEF HostSend, TypeInv, LinkTypeOK
  <2>2. Request \in Frames /\ FramePlace(Request) = HostPlace
    <3>1. CASE host = "write"
      <4>1. Request = WriteFrame(num)
        BY <3>1 DEF Request, WriteFrame
      <4> QED
        BY <2>1, <3>1, <4>1, Places, HostPlaces DEF Frames
    <3>2. CASE host = "start"
      <4>1. Request = StartFrame
        BY <3>2 DEF Request, StartFrame
      <4> QED
        BY <3>2, <4>1, Places, HostPlaces DEF Frames
    <3>3. CASE host \in {"check", "update"}
      <4>1. Request = [cmd |-> host]
        BY <3>3 DEF Request
      <4> QED
        BY <3>3, <4>1, Places, HostPlaces DEF Frames
    <3> QED
      BY <2>1, <3>1, <3>2, <3>3
  <2> QED
    BY <1>2, <2>2, OrderSent DEF HostSend
<1>3. CASE HostReceive
  BY <1>3, OrderReceive
<1>4. CASE HostAsks \/ HostTimeout
  <2>1. UNCHANGED <<flash, using_part, is_remain, total_len, write_len, write_packet, toSlave, toHost>>
    BY <1>4 DEF HostAsks, HostTimeout, slave, regs, line
  <2>2. UNCHANGED num /\ (host' = host \/ {host, host'} \subseteq {"sync", "check"})
    BY <1>4 DEF HostAsks, HostTimeout
  <2>3. HostPlace' = HostPlace
    BY <2>2 DEF HostPlace, Place
  <2>4. PICK h : h = HostPlace
    OBVIOUS
  <2>5. /\ Sorted'
        /\ \A i \in 1 .. Len(toSlave') : \E j \in 1 .. Len(toSlave) : toSlave'[i] = toSlave[j]
        /\ \A i \in 1 .. Len(toHost') : \E j \in 1 .. Len(toHost) : toHost'[i] = toHost[j]
    BY <2>1, OrderShortened
  <2> QED
    BY <2>1, <2>3, <2>4, <2>5, OrderKept DEF InOrder
<1>5. CASE HostStartsOver
  <2>1. /\ UNCHANGED <<flash, using_part, is_remain, total_len, write_len, write_packet, toSlave, toHost>>
        /\ toSlave = << >> /\ toHost = << >> /\ ~is_remain /\ host' = "sync"
    BY <1>5 DEF HostStartsOver, slave, regs, line
  <2>2. using_part = NoPart
    BY <2>1 DEF TypeInv, Selected
  <2>3. HostPlace' = 0
    BY <2>1 DEF HostPlace, Place
  <2>4. Len(<< >>) = 0 /\ \A i \in 1 .. 0 : FALSE
    BY SMT
  <2>5. Sorted' /\ Acked(HostPlace - 1)'
    BY <2>1, <2>3, <2>4 DEF Sorted, Acked
  <2> QED
    BY <2>1, <2>2, <2>4, <2>5, Sizes DEF InOrder
<1>6. CASE Lose
  <2>1. /\ UNCHANGED <<slave, host, num, waiting>>
        /\ \/ toSlave # << >> /\ toSlave' = Tail(toSlave) /\ UNCHANGED toHost
           \/ toHost # << >> /\ toHost' = Tail(toHost) /\ UNCHANGED toSlave
    BY <1>6 DEF Lose
  <2>2. /\ UNCHANGED <<flash, using_part, is_remain, total_len, write_len, write_packet>>
        /\ HostPlace' = HostPlace
    BY <2>1 DEF slave, regs, HostPlace
  <2>3. /\ Sorted'
        /\ \A i \in 1 .. Len(toSlave') : \E j \in 1 .. Len(toSlave) : toSlave'[i] = toSlave[j]
    BY <2>1, OrderShortened
  <2>4. \A i \in 1 .. Len(toHost') : \E j \in 1 .. Len(toHost) : toHost'[i] = toHost[j]
    BY <2>1, TailOfHost
  <2>5. PICK h : h = HostPlace
    OBVIOUS
  <2> QED
    BY <2>2, <2>3, <2>4, <2>5, OrderKept DEF InOrder
<1>7. CASE SlaveReboots
  <2>1. /\ UNCHANGED <<flash, host, num, toSlave, toHost>> /\ using_part' = NoPart /\ ~is_remain'
    BY <1>7 DEF SlaveReboots, Reboot, line
  <2>2. HostPlace' = HostPlace
    BY <2>1 DEF HostPlace
  <2>3. Sorted'
    BY <2>1 DEF InOrder, Sorted
  <2>4. /\ \A i \in 1 .. Len(toSlave') : \E j \in 1 .. Len(toSlave) : toSlave'[i] = toSlave[j]
        /\ \A i \in 1 .. Len(toHost') : \E j \in 1 .. Len(toHost) : toHost'[i] = toHost[j]
    BY <2>1
  <2>5. PICK h : h = HostPlace
    OBVIOUS
  <2> QED
    BY <2>1, <2>2, <2>3, <2>4, <2>5, OrderKept DEF InOrder
<1> QED
  BY <1>1, <1>2, <1>3, <1>4, <1>5, <1>6, <1>7 DEF Host
(* A frame served: it is not behind the slave nor ahead of what the host   *)
(* may conclude, so that a packet is the one that is due or the one taken  *)
(* last, and its reply is true. *)
LEMMA OrderServe ==
  ASSUME TypeInv, TypeInv', InOrder, faults = MaxFaults, Serve
  PROVE  InOrder'
<1> DEFINE f == Head(toSlave)
<1>1. /\ toSlave # << >> /\ ~is_quit /\ Handle(f) /\ toSlave' = Tail(toSlave)
      /\ toHost' = IF rsp'.kind = "none" THEN toHost ELSE Append(toHost, rsp')
      /\ UNCHANGED <<host, num, waiting, losses>>
  BY DEF Serve
<1>2. /\ f = toSlave[1] /\ f \in Frames /\ Len(toSlave) \in Nat /\ 1 \in 1 .. Len(toSlave)
      /\ \A i \in 1 .. Len(toSlave') : i + 1 \in 1 .. Len(toSlave) /\ toSlave'[i] = toSlave[i + 1]
  <2>1. toSlave \in Seq(Frames)
    BY DEF TypeInv, LinkTypeOK
  <2>2. f = toSlave[1] /\ toSlave[1] \in Frames /\ Len(toSlave) \in Nat /\ Len(toSlave) >= 1
    BY <1>1, <2>1, TailIs
  <2>3. \A i \in 1 .. Len(toSlave') : i + 1 \in 1 .. Len(toSlave) /\ toSlave'[i] = toSlave[i + 1]
    BY <1>1, <2>1, TailIs
  <2> QED
    BY <2>2, <2>3
<1> HIDE DEF f
<1>3. PICK q \in Nat : q = FramePlace(f)
  BY <1>2, Places
<1>4. q <= HostPlace /\ HostPlace \in Nat /\ HostPlace' = HostPlace
  BY <1>1, <1>2, <1>3, HostPlaces DEF InOrder, HostPlace
<1>5. \A i \in 1 .. Len(toSlave') : q <= FramePlace(toSlave'[i]) /\ FramePlace(toSlave'[i]) <= HostPlace
                                    /\ FramePlace(toSlave'[i]) \in Nat
  <2> TAKE i \in 1 .. Len(toSlave')
  <2>1. i + 1 \in 1 .. Len(toSlave) /\ toSlave'[i] = toSlave[i + 1] /\ 1 <= i + 1
    BY <1>2
  <2>2. FramePlace(toSlave[1]) <= FramePlace(toSlave[i + 1])
    BY <1>2, <2>1 DEF InOrder, Sorted
  <2> QED
    BY <1>2, <1>3, <2>1, <2>2, OnTheLine DEF InOrder
<1>6. Sorted'
  BY <1>1, OrderShortened
<1>7. \A a \in Int : Acked(a) => a <= q
  BY <1>2, <1>3 DEF Acked
<1>8. Acked(HostPlace - 1) /\ HostPlace - 1 \in Int
  BY <1>4 DEF InOrder
<1>9. using_part = Target => /\ write_packet + 1 <= q /\ write_packet \in Nat
                             /\ \E w \in 0 .. Packets : Transfer(w)
  BY <1>2, <1>3, PacketCount DEF InOrder, TypeInv, LinkTypeOK
(* What is left to show, by the kind of f. *)
<1>10. ASSUME using_part' = Target => (\E w \in 0 .. Packets : Transfer(w))' /\ write_packet' + 1 <= q,
              \A a \in Int : a >= 1 /\ a <= q /\ Acked(a) =>
                Done(a - 1)' /\ (is_remain' => using_part' = Target /\ write_packet' >= a - 1),
              rsp' # NoReply =>
                /\ rsp' \in Replies /\ ReplyPlace(rsp') = q /\ rsp'.kind # "exception"
                /\ rsp'.kind \in {"start", "write"} =>
                     rsp'.ok /\ Done(q - 1)' /\ using_part' = Target /\ write_packet' >= q - 1
       PROVE  InOrder'
  <2>1. ASSUME NEW a \in Int, Acked(a) PROVE Acked(a)'
    <3>1. a <= q
      BY <1>7, <2>1
    <3>2. \A i \in 1 .. Len(toSlave') : a <= FramePlace(toSlave'[i])
      BY <1>5, <3>1
    <3> QED
      BY <1>10, <2>1, <3>1, <3>2 DEF Acked
  <2>2. Acked(HostPlace - 1)'
    <3>1. PICK a \in Int : a = HostPlace - 1
      BY <1>8
    <3>2. Acked(a)'
      BY <1>8, <2>1, <3>1
    <3>3. (HostPlace - 1)' = a
      BY <1>4, <3>1
    <3> QED
      BY <3>2, <3>3 DEF Acked
  <2>3. using_part' = Target =>
          /\ (\E w \in 0 .. Packets : Transfer(w))'
          /\ write_packet' + 1 <= HostPlace
          /\ \A i \in 1 .. Len(toSlave') : write_packet' + 1 <= FramePlace(toSlave'[i])
    <3> SUFFICES ASSUME using_part' = Target
                 PROVE  /\ (\E w \in 0 .. Packets : Transfer(w))'
                        /\ write_packet' + 1 <= HostPlace
                        /\ \A i \in 1 .. Len(toSlave') : write_packet' + 1 <= FramePlace(toSlave'[i])
      OBVIOUS
    <3>1. write_packet' \in Nat
      BY PacketCount DEF TypeInv, LinkTypeOK
    <3>2. write_packet' + 1 <= q /\ (\E w \in 0 .. Packets : Transfer(w))'
      BY <1>10
    <3>3. write_packet' + 1 <= HostPlace
      <4>1. write_packet' + 1 <= q
        BY <3>2
      <4>2. q <= HostPlace /\ HostPlace \in Nat
        BY <1>4
      <4>3. \A a, b, c \in Nat : a + 1 <= b /\ b <= c => a + 1 <= c
        OBVIOUS
      <4> QED
        BY <1>3, <3>1, <4>1, <4>2, <4>3
    <3>4. \A i \in 1 .. Len(toSlave') : write_packet' + 1 <= FramePlace(toSlave'[i])
      BY <1>3, <1>5, <3>1, <3>2
    <3> QED
      BY <3>2, <3>3, <3>4
  <2>4. ASSUME NEW i \in 1 .. Len(toHost')
        PROVE  /\ ReplyPlace(toHost'[i]) <= HostPlace /\ toHost'[i].kind # "exception"
               /\ toHost'[i].kind \in {"start", "write"} =>
                    toHost'[i].ok /\ Acked(ReplyPlace(toHost[i]))'
    <3>1. CASE \E j \in 1 .. Len(toHost) : toHost'[i] = toHost[j]
      <4>1. PICK j \in 1 .. Len(toHost) : toHost'[i] = toHost[j]
        BY <3>1
      <4>2. PICK a \in Nat : a = ReplyPlace(toHost[j])
        BY OnTheLine
      <4>3. /\ a <= HostPlace /\ toHost[j].kind # "exception"
            /\ toHost[j].kind \in {"start", "write"} => toHost[j].ok /\ Acked(a)
        BY <4>2 DEF InOrder
      <4>4. Acked(a) => Acked(a)'
        BY <2>1
      <4>5. ReplyPlace(toHost'[i]) = a
        BY <4>1, <4>2
      <4>6. Acked(a)' => Acked(ReplyPlace(toHost[i]))'
        BY <4>5 DEF Acked
      <4> QED
        BY <4>1, <4>3, <4>4, <4>5, <4>6
    <3>2. CASE toHost'[i] = rsp' /\ rsp' # NoReply
      <4>1. /\ ReplyPlace(toHost'[i]) = q /\ toHost'[i].kind # "exception"
            /\ toHost'[i].kind \in {"start", "write"} =>
                 toHost'[i].ok /\ Done(q - 1)' /\ using_part' = Target /\ write_packet' >= q - 1
        BY <1>10, <3>2
      <4>2. toHost'[i].kind \in {"start", "write"} => Acked(q)'
        BY <1>5, <4>1 DEF Acked
      <4>3. Acked(q)' => Acked(ReplyPlace(toHost[i]))'
        BY <4>1 DEF Acked
      <4> QED
        BY <1>4, <4>1, <4>2, <4>3
    <3>3. toHost' = toHost \/ (rsp' # NoReply /\ toHost' = Append(toHost, rsp'))
      BY <1>1 DEF NoReply
    <3>4. CASE rsp' # NoReply /\ toHost' = Append(toHost, rsp')
      <4>1. /\ Len(toHost) \in Nat /\ Len(toHost') = Len(toHost) + 1
            /\ \A j \in 1 .. Len(toHost) : toHost'[j] = toHost[j]
            /\ toHost'[Len(toHost) + 1] = rsp'
        BY <1>10, <3>4, OnTheLine, AppendProperties DEF TypeInv, LinkTypeOK
      <4>2. i \in 1 .. Len(toHost) \/ i = Len(toHost) + 1
        BY <4>1
      <4> QED
        BY <3>1, <3>2, <3>4, <4>1, <4>2
    <3> QED
      BY <3>1, <3>3, <3>4
  <2> QED
    BY <1>4, <1>5, <1>6, <2>2, <2>3, <2>4 DEF InOrder
<1>11. CASE UNCHANGED <<flash, using_part, iap_step, total_len, write_len, write_packet>>
            /\ (is_remain' = is_remain \/ q = 0)
            /\ (rsp' = NoReply \/ (rsp' = Plain("check") /\ q = 0))
  <2>1. using_part' = Target => (\E w \in 0 .. Packets : Transfer(w))' /\ write_packet' + 1 <= q
    BY <1>9, <1>11 DEF Transfer
  <2>2. \A a \in Int : a >= 1 /\ a <= q /\ Acked(a) =>
          Done(a - 1)' /\ (is_remain' => using_part' = Target /\ write_packet' >= a - 1)
    BY <1>11 DEF Acked, Done, Stored
  <2>3. Plain("check") \in Replies /\ ReplyPlace(Plain("check")) = 0
        /\ Plain("check").kind = "check"
    BY DEF Replies, Plain, ReplyPlace, Place
  <2> QED
    BY <1>10, <1>11, <2>1, <2>2, <2>3
<1>12. CASE f = StartFrame /\ Start(StartFrame)
  <2>1. q = 1
    BY <1>3, <1>12, Places
  <2>2. /\ using_part' = Target /\ total_len' = ImageLen /\ write_len' = 0 /\ write_packet' = 0
        /\ rsp' = StartStatus(TRUE)
        /\ flash'[Target] = Stored(0) \/ (UNCHANGED flash /\ using_part = Target)
    <3>1. ~(faults < MaxFaults)
      BY SlaveAssumption
    <3> QED
      BY <1>12, <3>1, StartServed DEF TypeInv, LinkTypeOK
  <2>3. flash'[Target] = Stored(0)
    <3>1. CASE UNCHANGED flash /\ using_part = Target
      <4>1. PICK w \in 0 .. Packets : Transfer(w)
        BY <1>9, <3>1
      <4>2. w = write_packet /\ write_packet + 1 <= 1 /\ write_packet \in Nat
        BY <1>9, <2>1, <3>1, <4>1 DEF Transfer
      <4>3. w = 0
        BY <4>2
      <4> QED
        BY <3>1, <4>1, <4>3 DEF Transfer
    <3> QED
      BY <2>2, <3>1
  <2>4. 0 \in 0 .. Packets /\ Upto(0) = 0
    BY PacketCount, UptoFacts
  <2>5. (\E w \in 0 .. Packets : Transfer(w))' /\ write_packet' + 1 <= q
    BY <2>1, <2>2, <2>3, <2>4 DEF Transfer
  <2>6. Done(0)'
    BY <2>3, <2>4 DEF Done
  <2>7. \A a \in Int : a >= 1 /\ a <= q => a - 1 = 0
    BY <2>1
  <2>8. StartStatus(TRUE) \in Replies /\ ReplyPlace(StartStatus(TRUE)) = 1
        /\ StartStatus(TRUE).kind = "start" /\ StartStatus(TRUE).ok
    <3>1. StartStatus(TRUE) \in Replies
      BY StatusReplies
    <3> QED
      BY <3>1 DEF StartStatus, ReplyPlace, Place
  <2>9. \A a \in Int : a >= 1 /\ a <= q => Done(a - 1)' /\ write_packet' >= a - 1
    BY <2>2, <2>6, <2>7
  <2>10. Done(q - 1)' /\ write_packet' >= q - 1
    BY <2>1, <2>9
  <2> QED
    BY <1>10, <2>1, <2>2, <2>5, <2>8, <2>9, <2>10
<1>13. ASSUME NEW n \in 1 .. Packets, f = WriteFrame(n), Write(WriteFrame(n))
       PROVE  InOrder'
  <2>1. q = n + 1 /\ n \in Nat /\ n >= 1 /\ Packets \in Nat /\ n \in 0 .. Packets
    BY <1>3, <1>13, Places, PacketCount
  <2>2. is_remain
    BY <1>13 DEF Write
  <2>3. using_part = Target /\ write_packet >= HostPlace - 2
    <3>1. PICK a \in Int : a = HostPlace - 1
      BY <1>8
    <3>2. a >= 1 /\ a - 1 = HostPlace - 2
      BY <1>4, <1>7, <2>1, <3>1
    <3>3. using_part = Target /\ write_packet >= a - 1
      BY <1>8, <2>2, <3>1, <3>2 DEF Acked
    <3> QED
      BY <3>2, <3>3
  <2>4. PICK w \in 0 .. Packets : Transfer(w) /\ write_packet = w
    BY <1>9, <2>3 DEF Transfer
  <2>5. w \in {n - 1, n}
    BY <1>4, <1>9, <2>1, <2>3, <2>4
  <2>6. /\ using_part' = Target /\ total_len' = ImageLen /\ write_len' = Upto(n) /\ write_packet' = n
        /\ flash'[Target] = Stored(n) /\ rsp' = WriteStatus(n, TRUE)
    <3>1. CASE w = n - 1
      <4>1. Transfer(n - 1)
        BY <2>4, <3>1
      <4>2. ~(faults < MaxFaults)
        BY SlaveAssumption
      <4> QED
        BY <1>13, <4>1, <4>2, WriteServed DEF TypeInv, LinkTypeOK, Transfer
    <3>2. CASE w = n
      <4> DEFINE req == WriteFrame(n)
      <4>1. req.num = n /\ req.num = write_packet /\ req.num # 0
        BY <2>1, <2>4, <3>2 DEF WriteFrame
      <4> HIDE DEF req
      <4>2. Write(req)
        BY <1>13 DEF req
      <4>3. ~(req.num > write_packet) /\ using_part # NoPart
        BY <2>1, <2>3, <4>1, Sizes
      <4>4. WriteOld(req) /\ UNCHANGED <<using_part, total_len>>
        BY <4>1, <4>2, <4>3 DEF Write, WriteRefused, WriteSurplus, WriteNew, Fresh
      <4>5. UNCHANGED <<flash, write_len, write_packet>> /\ rsp' = WriteStatus(write_packet, TRUE)
        BY <4>1, <4>4 DEF WriteOld, Answer
      <4> QED
        BY <2>3, <2>4, <3>2, <4>4, <4>5 DEF Transfer
    <3> QED
      BY <2>5, <3>1, <3>2
  <2>7. (\E v \in 0 .. Packets : Transfer(v))' /\ write_packet' + 1 <= q
    BY <2>1, <2>6 DEF Transfer
  <2>8. ASSUME NEW a \in Int, a >= 1, a <= q
        PROVE  Done(a - 1)' /\ write_packet' >= a - 1
    <3>1. n \in a - 1 .. Packets /\ n >= a - 1
      BY <2>1, <2>8
    <3> QED
      BY <2>6, <3>1 DEF Done
  <2>9. WriteStatus(n, TRUE) \in Replies /\ ReplyPlace(WriteStatus(n, TRUE)) = q
        /\ WriteStatus(n, TRUE).kind = "write" /\ WriteStatus(n, TRUE).ok
    <3>1. WriteStatus(n, TRUE) \in Replies
      BY <2>1, StatusReplies
    <3>2. ReplyPlace(WriteStatus(n, TRUE)) = 1 + n
      BY DEF WriteStatus, ReplyPlace, Place
    <3> QED
      BY <2>1, <3>1, <3>2 DEF WriteStatus
  <2>10. Done(q - 1)' /\ write_packet' >= q - 1
    BY <2>1, <2>8
  <2> QED
    BY <1>10, <2>6, <2>7, <2>8, <2>9, <2>10
<1>14. CASE f = [cmd |-> "update"] /\ Update(f)
  <2>1. /\ UNCHANGED <<flash, using_part, total_len, write_len, write_packet, is_remain>>
        /\ rsp' = Plain("update")
    BY <1>14 DEF Update
  <2>2. q = Packets + 2
    BY <1>3, <1>14, Places
  <2>3. using_part' = Target => (\E w \in 0 .. Packets : Transfer(w))' /\ write_packet' + 1 <= q
    BY <1>9, <2>1 DEF Transfer
  <2>4. \A a \in Int : a >= 1 /\ a <= q /\ Acked(a) =>
          Done(a - 1)' /\ (is_remain' => using_part' = Target /\ write_packet' >= a - 1)
    BY <2>1 DEF Acked, Done, Stored
  <2>5. Plain("update") \in Replies /\ ReplyPlace(Plain("update")) = 2 + Packets
        /\ Plain("update").kind = "update"
    BY DEF Replies, Plain, ReplyPlace, Place
  <2>6. 2 + Packets = q
    BY <2>2, PacketCount
  <2> QED
    BY <1>10, <2>1, <2>3, <2>4, <2>5, <2>6
<1>15. CASE Unheard(f)
  <2>1. f.cmd = "sync" => q = 0
    BY <1>2, <1>3, Places, FrameKinds
  <2> QED
    BY <1>11, <1>15, <2>1 DEF Unheard, TypeInv, LinkTypeOK, TypeOK
<1>16. CASE /\ f = [cmd |-> "check"] /\ is_remain /\ rsp' = Plain("check")
            /\ UNCHANGED <<flash, using_part, iap_step, total_len, write_len, write_packet,
                           is_remain, is_quit, faults>>
  <2>1. q = 0
    BY <1>3, <1>16, Places
  <2> QED
    BY <1>11, <1>16, <2>1
<1> QED
  BY <1>1, <1>2, <1>12, <1>13, <1>14, <1>15, <1>16, Handled DEF TypeInv
(***************************************************************************)
(* A flash that fails, a line that does not                                *)
(***************************************************************************)

(* The first w packets are in the partition, and a slave that stayed knows *)
(* it. *)
Have(w) ==
  /\ flash[Target] = Stored(w)
  /\ is_remain => Transfer(w)

Quiet == toSlave = << >> /\ toHost = << >>
Asked(f) == waiting /\ toSlave = <<f>> /\ toHost = << >>
Answered(r) == waiting /\ toSlave = << >> /\ toHost = <<r>>

(* The packets before the one under way are in the partition. *)
Kept == \A i \in 0 .. Upto(num - 1) - 1 : flash[Target][i] = Image(i)

(* Without losses and late answers one request is under way at a time, and *)
(* the host, the line and the slave agree on the transfer, except after a  *)
(* failed write, which the host answers by starting again. *)
Syncing ==
  /\ \A i \in 1 .. Len(toSlave) :
       \/ toSlave[i].cmd = "sync"
       \/ toSlave[i].cmd = "check" /\ i = Len(toSlave) /\ host = "check" /\ waiting
  /\ toHost = << >> \/ (host = "check" /\ Answered(Plain("check")))
Starting ==
  \/ Quiet \/ Asked(StartFrame)
  \/ Answered(StartStatus(FALSE))
  \/ Answered(StartStatus(TRUE)) /\ Have(0)
Writing ==
  \/ Quiet /\ Have(num - 1)
  \/ Asked(WriteFrame(num)) /\ Have(num - 1)
  \/ Answered(WriteStatus(num, FALSE)) /\ Kept
  \/ Answered(WriteStatus(num, TRUE)) /\ Have(num)
Updating ==
  /\ Have(Packets)
  /\ Quiet \/ Asked([cmd |-> "update"]) \/ Answered(Plain("update"))
ErasedIsEmpty == using_part = Target /\ iap_step = "start" => flash[Target] = Stored(0)
OneAtATime ==
  /\ ErasedIsEmpty
  /\ host \in {"sync", "check"} => Syncing
  /\ host = "start" => Starting
  /\ host = "write" => Writing
  /\ host = "update" => Updating
  /\ host = "done" => Quiet /\ flash[Target] = Stored(Packets)
  /\ is_quit => host \in {"update", "done"}

LEMMA Singles ==
  ASSUME NEW x
  PROVE  /\ Append(<< >>, x) = <<x>> /\ Tail(<<x>>) = << >> /\ Head(<<x>>) = x
         /\ <<x>> # << >> /\ Len(<<x>>) = 1 /\ <<x>>[1] = x
         /\ Len(<< >>) = 0
BY SMT

LEMMA AloneInit == Init => OneAtATime
<1> SUFFICES ASSUME Init PROVE OneAtATime
  OBVIOUS
<1>1. /\ toSlave = << >> /\ toHost = << >> /\ using_part = NoPart /\ host = "sync" /\ ~is_quit
  BY DEF Init, InitRegs
<1>2. \A i \in 1 .. Len(<< >>) : FALSE
  BY SMT
<1>3. Syncing
  BY <1>1, <1>2 DEF Syncing
<1> QED
  BY <1>1, <1>3, Sizes DEF OneAtATime, ErasedIsEmpty

LEMMA AloneHost ==
  ASSUME TypeInv, TypeInv', OneAtATime, losses = MaxLosses, Host \/ Lose \/ SlaveReboots
  PROVE  OneAtATime'
<1>1. /\ UNCHANGED flash
      /\ \/ UNCHANGED <<using_part, iap_step, total_len, write_len, write_packet, is_remain, is_quit>>
         \/ using_part' = NoPart /\ ~is_remain' /\ ~is_quit'
  BY DEF Host, HostSync, HostSend, HostAsks, HostTimeout, HostReceive, HostStartsOver, Lose,
         SlaveReboots, Reboot, line, slave, regs
<1>2. \A w \in Int : Have(w) => Have(w)'
  BY <1>1 DEF Have, Transfer, Stored
<1>3. ErasedIsEmpty'
  BY <1>1, Sizes DEF OneAtATime, ErasedIsEmpty, Stored
<1>4. is_quit' => is_quit
  BY <1>1
<1>5. /\ host \in {"sync", "check", "start", "write", "update", "done"} /\ num \in 1 .. Packets + 1
      /\ Packets \in Nat /\ num \in Int /\ num - 1 \in Int
      /\ MaxLosses \in Nat
  BY PacketCount, LinkAssumption DEF TypeInv, LinkTypeOK
<1>6. CASE HostSync
  <2>1. /\ host = "sync" /\ host' = "sync" /\ toHost = << >> /\ toHost' = << >>
        /\ toSlave' = Append(toSlave, [cmd |-> "sync"])
    BY <1>6 DEF HostSync, OneAtATime, Syncing
  <2>2. /\ Len(toSlave) \in Nat /\ Len(toSlave') = Len(toSlave) + 1
        /\ \A i \in 1 .. Len(toSlave) : toSlave'[i] = toSlave[i]
        /\ toSlave'[Len(toSlave) + 1] = [cmd |-> "sync"]
    <3>1. [cmd |-> "sync"] \in Frames /\ toSlave \in Seq(Frames)
      BY DEF Frames, TypeInv, LinkTypeOK
    <3> QED
      BY <2>1, <3>1, AppendProperties, OnTheLine
  <2>3. \A i \in 1 .. Len(toSlave') : i \in 1 .. Len(toSlave) \/ i = Len(toSlave) + 1
    BY <2>2
  <2>4. \A i \in 1 .. Len(toSlave) : toSlave[i].cmd = "sync"
    BY <2>1 DEF OneAtATime, Syncing
  <2>5. Syncing'
    BY <2>1, <2>2, <2>3, <2>4 DEF Syncing
  <2> QED
    BY <1>3, <1>4, <2>1, <2>5 DEF OneAtATime
<1>7. CASE HostSend
  <2>1. /\ ~waiting /\ waiting' /\ toSlave' = Append(toSlave, Request)
        /\ UNCHANGED <<host, num, toHost>> /\ host \notin {"sync", "done"}
    BY <1>7 DEF HostSend
  <2>2. CASE host = "check"
    <3>1. Request = [cmd |-> "check"] /\ toHost = << >>
      BY <2>1, <2>2 DEF Request, OneAtATime, Syncing, Answered
    <3>2. /\ Len(toSlave) \in Nat /\ Len(toSlave') = Len(toSlave) + 1
          /\ \A i \in 1 .. Len(toSlave) : toSlave'[i] = toSlave[i]
          /\ toSlave'[Len(toSlave) + 1] = [cmd |-> "check"]
      <4>1. [cmd |-> "check"] \in Frames /\ toSlave \in Seq(Frames)
        BY DEF Frames, TypeInv, LinkTypeOK
      <4> QED
        BY <2>1, <3>1, <4>1, AppendProperties, OnTheLine
    <3>3. \A i \in 1 .. Len(toSlave') : i \in 1 .. Len(toSlave) \/ i = Len(toSlave')
      BY <3>2
    <3>4. \A i \in 1 .. Len(toSlave) : toSlave[i].cmd = "sync"
      BY <2>1, <2>2 DEF OneAtATime, Syncing
    <3>5. Syncing'
      BY <2>1, <2>2, <3>1, <3>2, <3>3, <3>4 DEF Syncing
    <3> QED
      BY <1>3, <1>4, <2>1, <2>2, <3>5 DEF OneAtATime
  <2>3. CASE host = "start"
    <3>1. toSlave = << >> /\ toHost = << >>
      BY <2>1, <2>3 DEF OneAtATime, Starting, Quiet, Asked, Answered
    <3>2. toSlave' = <<StartFrame>>
      BY <2>1, <2>3, <3>1, Singles DEF Request, StartFrame
    <3>3. Starting'
      BY <2>1, <3>1, <3>2 DEF Starting, Asked, StartFrame
    <3> QED
      BY <1>3, <1>4, <2>1, <2>3, <3>3 DEF OneAtATime
  <2>4. CASE host = "write"
    <3>1. toSlave = << >> /\ toHost = << >> /\ Have(num - 1)
      BY <2>1, <2>4 DEF OneAtATime, Writing, Quiet, Asked, Answered
    <3>2. toSlave' = <<WriteFrame(num)>>
      BY <2>1, <2>4, <3>1, Singles DEF Request, WriteFrame
    <3>3. PICK w \in Int : w = num - 1
      BY <1>5
    <3>4. Have(num - 1)'
      BY <1>2, <2>1, <3>1, <3>3 DEF Have, Transfer, Stored
    <3>5. Writing'
      BY <2>1, <3>1, <3>2, <3>4 DEF Writing, Asked
    <3> QED
      BY <1>3, <1>4, <2>1, <2>4, <3>5 DEF OneAtATime
  <2>5. CASE host = "update"
    <3>1. toSlave = << >> /\ toHost = << >> /\ Have(Packets)
      BY <2>1, <2>5 DEF OneAtATime, Updating, Quiet, Asked, Answered
    <3>2. toSlave' = <<[cmd |-> "update"]>>
      BY <2>1, <2>5, <3>1, Singles DEF Request
    <3>3. Updating'
      BY <1>2, <1>5, <2>1, <3>1, <3>2 DEF Updating, Asked
    <3> QED
      BY <1>3, <1>4, <2>1, <2>5, <3>3 DEF OneAtATime
  <2> QED
    BY <1>5, <2>1, <2>2, <2>3, <2>4, <2>5
<1>8. CASE HostAsks
  <2>1. /\ host = "sync" /\ host' = "check" /\ UNCHANGED <<toSlave, toHost>>
    BY <1>8 DEF HostAsks, line
  <2>2. Syncing'
    BY <2>1 DEF OneAtATime, Syncing
  <2> QED
    BY <1>3, <1>4, <2>1, <2>2 DEF OneAtATime
<1>9. CASE HostTimeout
  <2>1. /\ toSlave = << >> /\ toHost = << >> /\ UNCHANGED <<num, toSlave, toHost>>
        /\ host' = IF host = "check" THEN "sync" ELSE host
        /\ host # "sync"
    BY <1>5, <1>9 DEF HostTimeout
  <2>2. Quiet' /\ \A x : <<x>> # << >>
    BY <2>1, Singles DEF Quiet
  <2>3. CASE host = "check"
    <3>1. Syncing'
      BY <2>1, <2>3, Singles DEF Syncing
    <3> QED
      BY <1>3, <1>4, <2>1, <2>3, <3>1 DEF OneAtATime
  <2>4. CASE host = "write"
    <3>1. Have(num - 1)
      BY <2>1, <2>2, <2>4 DEF OneAtATime, Writing, Asked, Answered
    <3>2. Have(num - 1)'
      BY <1>2, <1>5, <2>1, <3>1 DEF Have, Transfer, Stored
    <3> QED
      BY <1>3, <1>4, <2>1, <2>2, <2>4, <3>2 DEF OneAtATime, Writing
  <2>5. CASE host \in {"start", "update", "done"}
    BY <1>1, <1>2, <1>3, <1>4, <1>5, <2>1, <2>2, <2>5 DEF OneAtATime, Starting, Updating, Stored
  <2> QED
    BY <1>5, <2>1, <2>3, <2>4, <2>5
<1>10. CASE HostReceive
  <2> DEFINE r == Head(toHost)
  <2>1. /\ toHost # << >> /\ toHost' = Tail(toHost) /\ UNCHANGED toSlave
        /\ Answers(r) => Proceed(r) /\ waiting' = FALSE
    BY <1>10 DEF HostReceive
  <2>2. ASSUME NEW x, Answered(x)
        PROVE  r = x /\ waiting /\ Quiet'
    BY <2>1, <2>2, Singles DEF Answered, Quiet
  <2> HIDE DEF r
  <2>3. CASE host = "check"
    <3>1. r = Plain("check") /\ waiting /\ Quiet'
      BY <2>1, <2>2, <2>3 DEF OneAtATime, Syncing
    <3>2. host' = "start"
      BY <2>1, <2>3, <3>1 DEF Answers, Proceed, Plain
    <3> QED
      BY <1>3, <1>4, <2>3, <3>1, <3>2 DEF OneAtATime, Starting
  <2>4. CASE host = "start"
    <3>1. /\ waiting /\ Quiet'
          /\ r = StartStatus(FALSE) \/ (r = StartStatus(TRUE) /\ Have(0))
      BY <2>1, <2>2, <2>4 DEF OneAtATime, Starting, Quiet, Asked
    <3>2. CASE r = StartStatus(FALSE)
      <4>1. host' = "start"
        BY <2>1, <2>4, <3>1, <3>2 DEF Answers, Proceed, StartStatus
      <4> QED
        BY <1>3, <1>4, <2>4, <3>1, <4>1 DEF OneAtATime, Starting
    <3>3. CASE r = StartStatus(TRUE) /\ Have(0)
      <4>1. host' = "write" /\ num' = 1
        BY <2>1, <2>4, <3>1, <3>3 DEF Answers, Proceed, StartStatus
      <4>2. Have(0)'
        BY <1>2, <3>3
      <4>3. Have(num - 1)'
        BY <4>1, <4>2 DEF Have, Transfer, Stored
      <4> QED
        BY <1>3, <1>4, <2>4, <3>1, <4>1, <4>3 DEF OneAtATime, Writing
    <3> QED
      BY <3>1, <3>2, <3>3
  <2>5. CASE host = "write"
    <3>1. /\ waiting /\ Quiet'
          /\ r = WriteStatus(num, FALSE) \/ (r = WriteStatus(num, TRUE) /\ Have(num))
      BY <2>1, <2>2, <2>5 DEF OneAtATime, Writing, Quiet, Asked
    <3>2. CASE r = WriteStatus(num, FALSE)
      <4>1. host' = "start"
        BY <2>1, <2>5, <3>1, <3>2 DEF Answers, Proceed, WriteStatus
      <4> QED
        BY <1>3, <1>4, <2>5, <3>1, <4>1 DEF OneAtATime, Starting
    <3>3. CASE r = WriteStatus(num, TRUE) /\ Have(num)
      <4>1. host' = (IF num < Packets THEN "write" ELSE "update") /\ num' = num + 1
        BY <2>1, <2>5, <3>1, <3>3 DEF Answers, Proceed, WriteStatus
      <4>2. PICK w \in Int : w = num
        BY <1>5
      <4>3. Have(w)'
        BY <1>2, <3>3, <4>2
      <4>4. CASE num < Packets
        <5>1. num' - 1 = w
          BY <1>5, <4>1, <4>2
        <5>2. Have(num - 1)'
          BY <4>3, <5>1 DEF Have, Transfer, Stored
        <5> QED
          BY <1>3, <1>4, <2>5, <3>1, <4>1, <4>4, <5>2 DEF OneAtATime, Writing
      <4>5. CASE ~(num < Packets)
        <5>1. num <= Packets
          BY <2>5 DEF TypeInv, LinkTypeOK
        <5>2. w = Packets
          BY <1>5, <4>2, <4>5, <5>1
        <5>3. Have(Packets)'
          BY <4>3, <5>2
        <5> QED
          BY <1>3, <1>4, <2>5, <3>1, <4>1, <4>5, <5>3 DEF OneAtATime, Updating
      <4> QED
        BY <4>4, <4>5
    <3> QED
      BY <3>1, <3>2, <3>3
  <2>6. CASE host = "update"
    <3>1. waiting /\ Quiet' /\ r = Plain("update") /\ Have(Packets)
      BY <2>1, <2>2, <2>6 DEF OneAtATime, Updating, Quiet, Asked
    <3>2. host' = "done"
      BY <2>1, <2>6, <3>1 DEF Answers, Proceed, Plain
    <3>3. flash'[Target] = Stored(Packets)
      BY <1>1, <3>1 DEF Have
    <3> QED
      BY <1>3, <1>4, <2>6, <3>1, <3>2, <3>3 DEF OneAtATime, Stored
  <2>7. host \notin {"sync", "done"}
    BY <2>1 DEF OneAtATime, Syncing, Quiet
  <2> QED
    BY <1>5, <2>3, <2>4, <2>5, <2>6, <2>7
<1>11. CASE HostStartsOver
  <2>1. toSlave' = << >> /\ toHost' = << >> /\ host' = "sync" /\ ~is_remain
    BY <1>11 DEF HostStartsOver, line
  <2>2. ~is_quit
    BY <2>1 DEF TypeInv, Selected
  <2>3. Syncing'
    BY <2>1, Singles DEF Syncing
  <2> QED
    BY <1>3, <1>4, <2>1, <2>2, <2>3 DEF OneAtATime
<1>12. CASE Lose
  BY <1>5, <1>12 DEF Lose
<1>13. CASE SlaveReboots
  <2>1. UNCHANGED <<host, num, waiting, toSlave, toHost>> /\ ~is_quit'
    BY <1>13 DEF SlaveReboots, Reboot, line
  <2>2. Have(num - 1) => Have(num - 1)'
    BY <1>2, <1>5, <2>1 DEF Have, Transfer, Stored
  <2>3. Have(num) => Have(num)'
    BY <1>2, <1>5, <2>1 DEF Have, Transfer, Stored
  <2>4. (Syncing => Syncing') /\ (Quiet => Quiet') /\ (Kept => Kept')
    BY <1>1, <2>1 DEF Syncing, Quiet, Kept, Answered, Upto
  <2>5. \A x : (Asked(x) => Asked(x)') /\ (Answered(x) => Answered(x)')
    BY <2>1 DEF Asked, Answered
  <2>6. Starting => Starting'
    <3>1. 0 \in Int /\ (Have(0) => Have(0)')
      BY <1>2
    <3>2. Asked(StartFrame) => Asked(StartFrame)'
      BY <2>1 DEF Asked, StartFrame
    <3>3. /\ Answered(StartStatus(FALSE)) => Answered(StartStatus(FALSE))'
          /\ Answered(StartStatus(TRUE)) => Answered(StartStatus(TRUE))'
      BY <2>1 DEF Answered, StartStatus
    <3> QED
      BY <2>4, <3>1, <3>2, <3>3 DEF Starting
  <2>7. Writing => Writing'
    BY <2>1, <2>2, <2>3, <2>4, <2>5 DEF Writing, Asked, Answered
  <2>8. Updating => Updating'
    BY <1>2, <1>5, <2>4, <2>5 DEF Updating
  <2> QED
    BY <1>1, <1>3, <2>1, <2>4, <2>6, <2>7, <2>8 DEF OneAtATime, Stored
<1> QED
  BY <1>6, <1>7, <1>8, <1>9, <1>10, <1>11, <1>12, <1>13 DEF Host

LEMMA AloneServe ==
  ASSUME TypeInv, TypeInv', OneAtATime, losses = MaxLosses, PktLen % PageLen = 0, Serve
  PROVE  OneAtATime'
<1> DEFINE f == Head(toSlave)
<1>1. /\ toSlave # << >> /\ ~is_quit /\ Handle(f) /\ toSlave' = Tail(toSlave)
      /\ toHost' = IF rsp'.kind = "none" THEN toHost ELSE Append(toHost, rsp')
      /\ UNCHANGED <<host, num, waiting, losses>>
  BY DEF Serve
<1>2. /\ f \in Frames /\ f = toSlave[1] /\ Len(toSlave) \in Nat /\ Len(toSlave) >= 1
      /\ Len(toSlave') = Len(toSlave) - 1
      /\ \A i \in 1 .. Len(toSlave') : i + 1 \in 1 .. Len(toSlave) /\ toSlave'[i] = toSlave[i + 1]
  <2>1. toSlave \in Seq(Frames)
    BY DEF TypeInv, LinkTypeOK
  <2> QED
    BY <1>1, <2>1, TailIs
<1>3. /\ num \in 1 .. Packets + 1 /\ Packets \in Nat /\ num \in Int /\ num - 1 \in Int
      /\ host = "write" => num \in 1 .. Packets
      /\ host \in {"sync", "check", "start", "write", "update", "done"}
      /\ LinkTypeOK /\ TypeOK
  BY PacketCount DEF TypeInv, LinkTypeOK
<1>4. ASSUME NEW x, toSlave = <<x>>, toHost = << >>
      PROVE  /\ f = x /\ toSlave' = << >>
             /\ rsp' = NoReply => toHost' = << >>
             /\ \A r : rsp' = r /\ r.kind # "none" => toHost' = <<r>>
  BY <1>1, <1>4, Singles DEF NoReply
<1>5. ASSUME NEW x PROVE <<x>> # << >>
  BY Singles
<1> HIDE DEF f
<1>6. ASSUME NEW w \in Int, Have(w), Unheard(f), f.cmd # "sync"
      PROVE  Have(w)'
  BY <1>6 DEF Have, Unheard, Transfer, Stored
<1>7. Unheard(f) => ErasedIsEmpty'
  BY DEF Unheard, OneAtATime, ErasedIsEmpty, Stored
<1>70. /\ \A c : [cmd |-> c].cmd = c
       /\ StartFrame.cmd = "start"
       /\ \A n : WriteFrame(n).cmd = "write" /\ WriteFrame(n).num = n
  BY DEF StartFrame, WriteFrame
<1>71. \/ Unheard(f)
       \/ /\ f.cmd = "check" /\ f = [cmd |-> "check"] /\ rsp' = Plain("check")
          /\ UNCHANGED <<flash, using_part, iap_step, is_quit>>
       \/ f.cmd = "start" /\ Start(StartFrame)
       \/ \E n \in 1 .. Packets : f.cmd = "write" /\ f.num = n /\ Write(WriteFrame(n))
       \/ f.cmd = "update" /\ Update(f)
  <2>1. \/ Unheard(f)
        \/ /\ f = [cmd |-> "check"] /\ is_remain /\ rsp' = Plain("check")
           /\ UNCHANGED <<flash, using_part, iap_step, total_len, write_len, write_packet,
                          is_remain, is_quit, faults>>
        \/ f = StartFrame /\ Start(StartFrame)
        \/ \E n \in 1 .. Packets : f = WriteFrame(n) /\ Write(WriteFrame(n))
        \/ f = [cmd |-> "update"] /\ Update(f)
    BY <1>1, <1>2, <1>3, Handled
  <2> QED
    BY <1>70, <2>1
<1>8. CASE host \in {"sync", "check"}
  <2>1. Syncing /\ f.cmd \in {"sync", "check"}
    BY <1>2, <1>8 DEF OneAtATime, Syncing
  <2>2. toHost = << >>
    BY <1>1, <2>1 DEF Syncing, Answered
  <2>3. CASE Unheard(f)
    <3>1. toHost' = << >>
      BY <1>1, <2>2, <2>3 DEF Unheard, NoReply
    <3>2. \A i \in 1 .. Len(toSlave') :
            \/ toSlave'[i].cmd = "sync"
            \/ toSlave'[i].cmd = "check" /\ i = Len(toSlave') /\ host = "check" /\ waiting
      <4>1. ASSUME NEW i \in 1 .. Len(toSlave')
            PROVE  \/ toSlave'[i].cmd = "sync"
                   \/ toSlave'[i].cmd = "check" /\ i = Len(toSlave') /\ host = "check" /\ waiting
        <5>1. /\ i + 1 \in 1 .. Len(toSlave) /\ toSlave'[i] = toSlave[i + 1]
              /\ i + 1 = Len(toSlave) => i = Len(toSlave')
          BY <1>2
        <5> QED
          BY <2>1, <5>1 DEF Syncing
      <4> QED
        BY <4>1
    <3>20. Syncing'
      BY <1>1, <3>1, <3>2 DEF Syncing
    <3>3. ~is_quit'
      BY <1>1, <2>3 DEF Unheard
    <3> QED
      BY <1>1, <1>7, <1>8, <2>3, <3>20, <3>3 DEF OneAtATime
  <2>4. CASE /\ f = [cmd |-> "check"] /\ rsp' = Plain("check")
             /\ UNCHANGED <<flash, using_part, iap_step, is_quit>>
    <3>1. Len(toSlave) = 1 /\ host = "check" /\ waiting
      <4>1. 1 \in 1 .. Len(toSlave) /\ toSlave[1].cmd = "check"
        BY <1>2, <1>70, <2>4
      <4> QED
        BY <2>1, <4>1 DEF Syncing
    <3>2. toSlave' = << >>
      <4>1. toSlave' \in Seq(Frames) /\ Len(toSlave') = 0
        BY <1>2, <3>1 DEF TypeInv, LinkTypeOK
      <4> QED
        BY <4>1, EmptySeq
    <3>3. toHost' = <<Plain("check")>>
      BY <1>1, <2>2, <2>4, Singles DEF Plain
    <3>4. Syncing'
      <4>1. Len(toSlave') = 0 /\ \A i \in 1 .. Len(toSlave') : FALSE
        BY <3>2, Singles
      <4>2. Answered(Plain("check"))'
        BY <1>1, <3>1, <3>2, <3>3 DEF Answered, Plain
      <4> QED
        BY <1>1, <3>1, <4>1, <4>2 DEF Syncing
    <3>5. ErasedIsEmpty' /\ ~is_quit'
      BY <1>1, <2>4 DEF OneAtATime, ErasedIsEmpty, Stored
    <3> QED
      BY <1>1, <3>1, <3>4, <3>5 DEF OneAtATime
  <2> QED
    BY <1>71, <2>1, <2>3, <2>4
<1>9. CASE host = "start"
  <2>1. toSlave = <<StartFrame>> /\ toHost = << >> /\ waiting
    BY <1>1, <1>9 DEF OneAtATime, Starting, Quiet, Asked, Answered
  <2>2. f = StartFrame /\ toSlave' = << >>
    BY <1>4, <2>1
  <2>3. CASE Unheard(f)
    <3>1. Quiet' /\ ~is_quit'
      BY <1>1, <1>4, <2>1, <2>3 DEF Unheard, Quiet
    <3> QED
      BY <1>1, <1>7, <1>9, <2>3, <3>1 DEF OneAtATime, Starting
  <2>4. CASE Start(StartFrame)
    <3>1. /\ is_remain /\ using_part' = Target /\ total_len' = ImageLen
          /\ write_len' = 0 /\ write_packet' = 0
          /\ UNCHANGED <<is_remain, is_quit>>
          /\ \/ /\ UNCHANGED <<flash, iap_step, faults>>
                /\ using_part = Target /\ iap_step = "start"
                /\ rsp' = StartStatus(TRUE)
             \/ /\ flash'[Target] = Stored(0)
                /\ rsp' = StartStatus(TRUE)
                /\ UNCHANGED faults
             \/ /\ faults < MaxFaults /\ faults' = faults + 1
                /\ iap_step' # "start"
                /\ rsp' = StartStatus(FALSE)
      BY <1>3, <2>4, StartServed
    <3>2. CASE rsp' = StartStatus(FALSE) /\ iap_step' # "start"
      <4>1. Answered(StartStatus(FALSE))'
        BY <1>1, <1>4, <2>1, <2>2, <3>2 DEF Answered, StartStatus
      <4>2. ErasedIsEmpty' /\ ~is_quit'
        BY <1>1, <3>1, <3>2 DEF ErasedIsEmpty
      <4>3. Starting'
        BY <4>1 DEF Starting
      <4> QED
        BY <1>1, <1>9, <4>2, <4>3 DEF OneAtATime
    <3>3. CASE rsp' = StartStatus(TRUE) /\ flash'[Target] = Stored(0)
      <4>1. Answered(StartStatus(TRUE))'
        BY <1>1, <1>4, <2>1, <2>2, <3>3 DEF Answered, StartStatus
      <4>2. Upto(0) = 0
        BY Sizes DEF Upto, Smaller
      <4>3. Have(0)'
        BY <3>1, <3>3, <4>2 DEF Have, Transfer, Stored, Upto
      <4>4. ErasedIsEmpty' /\ ~is_quit'
        BY <1>1, <3>1, <3>3 DEF ErasedIsEmpty, Stored
      <4> QED
        BY <1>1, <1>9, <4>1, <4>3, <4>4 DEF OneAtATime, Starting
    <3>4. \/ rsp' = StartStatus(FALSE) /\ iap_step' # "start"
          \/ rsp' = StartStatus(TRUE) /\ flash'[Target] = Stored(0)
      BY <3>1 DEF OneAtATime, ErasedIsEmpty
    <3> QED
      BY <3>2, <3>3, <3>4
  <2> QED
    BY <1>70, <1>71, <2>2, <2>3, <2>4
<1>10. CASE host = "write"
  <2>1. toSlave = <<WriteFrame(num)>> /\ toHost = << >> /\ waiting /\ Have(num - 1)
    BY <1>1, <1>10 DEF OneAtATime, Writing, Quiet, Asked, Answered
  <2>2. f = WriteFrame(num) /\ toSlave' = << >> /\ f.cmd = "write"
    BY <1>4, <2>1 DEF WriteFrame
  <2>3. PICK w \in Int : w = num
    BY <1>3
  <2>4. w \in 1 .. Packets /\ w - 1 \in Int /\ w - 1 \in 0 .. Packets /\ Have(w - 1)
    BY <1>3, <1>10, <2>1, <2>3
  <2>5. CASE Unheard(f)
    <3>1. Quiet' /\ ~is_quit'
      BY <1>1, <1>4, <2>1, <2>5 DEF Unheard, Quiet
    <3>2. Have(w - 1)'
      BY <1>6, <2>2, <2>4, <2>5
    <3>3. Have(num - 1)'
      BY <1>1, <2>3, <3>2 DEF Have, Transfer, Stored
    <3> QED
      BY <1>1, <1>7, <1>10, <2>5, <3>1, <3>3 DEF OneAtATime, Writing
  <2>6. CASE Write(WriteFrame(w))
    <3>1. Transfer(w - 1)
      BY <2>4, <2>6 DEF Have, Write
    <3>2. /\ is_remain /\ write_packet' = w /\ iap_step' = "write"
          /\ UNCHANGED <<using_part, total_len, is_remain, is_quit>>
          /\ \/ /\ flash'[Target] = Stored(w) /\ write_len' = Upto(w)
                /\ rsp' = WriteStatus(w, TRUE)
             \/ /\ \A i \in 0 .. Upto(w - 1) - 1 : flash'[Target][i] = flash[Target][i]
                /\ rsp' = WriteStatus(w, FALSE)
      BY <1>3, <2>4, <2>6, <3>1, WriteServed
    <3>3. ErasedIsEmpty' /\ ~is_quit'
      BY <1>1, <3>2 DEF ErasedIsEmpty
    <3>4. CASE flash'[Target] = Stored(w) /\ write_len' = Upto(w) /\ rsp' = WriteStatus(w, TRUE)
      <4>1. toHost' = <<WriteStatus(w, TRUE)>>
        BY <1>4, <2>1, <3>4 DEF WriteStatus
      <4>2. Answered(WriteStatus(num, TRUE))'
        BY <1>1, <2>1, <2>2, <2>3, <4>1 DEF Answered, WriteStatus
      <4>3. Have(w)'
        BY <3>1, <3>2, <3>4 DEF Have, Transfer, Stored, Upto
      <4>4. Have(num)'
        BY <1>1, <2>3, <4>3 DEF Have, Transfer, Stored
      <4> QED
        BY <1>1, <1>10, <3>3, <4>2, <4>4 DEF OneAtATime, Writing
    <3>5. CASE /\ \A i \in 0 .. Upto(w - 1) - 1 : flash'[Target][i] = flash[Target][i]
               /\ rsp' = WriteStatus(w, FALSE)
      <4>1. toHost' = <<WriteStatus(w, FALSE)>>
        BY <1>4, <2>1, <3>5 DEF WriteStatus
      <4>2. Answered(WriteStatus(num, FALSE))'
        BY <1>1, <2>1, <2>2, <2>3, <4>1 DEF Answered, WriteStatus
      <4>3. Upto(w - 1) \in 0 .. ImageLen
        BY <2>4, UptoFacts
      <4>4. \A i \in 0 .. Upto(w - 1) - 1 : flash[Target][i] = Image(i)
        <5>1. \A i \in 0 .. Upto(w - 1) - 1 : i \in 0 .. PartLen[Target] - 1 /\ i < Upto(w - 1)
          BY <4>3, Sizes
        <5> QED
          BY <3>1, <5>1 DEF Transfer, Stored
      <4>5. Kept'
        BY <1>1, <2>3, <3>5, <4>4 DEF Kept, Upto
      <4> QED
        BY <1>1, <1>10, <3>3, <4>2, <4>5 DEF OneAtATime, Writing
    <3> QED
      BY <3>2, <3>4, <3>5
  <2>7. f.num = w
    BY <1>70, <2>2, <2>3
  <2> QED
    BY <1>71, <2>2, <2>5, <2>6, <2>7
<1>11. CASE host = "update"
  <2>1. toSlave = <<[cmd |-> "update"]>> /\ toHost = << >> /\ waiting /\ Have(Packets)
    BY <1>1, <1>11 DEF OneAtATime, Updating, Quiet, Asked, Answered
  <2>2. f = [cmd |-> "update"] /\ toSlave' = << >>
    BY <1>4, <2>1
  <2>3. CASE Unheard(f)
    <3>1. Quiet' /\ ~is_quit'
      BY <1>1, <1>4, <2>1, <2>3 DEF Unheard, Quiet
    <3>2. Have(Packets)'
      BY <1>3, <1>6, <2>1, <2>2, <2>3
    <3> QED
      BY <1>1, <1>7, <1>11, <2>3, <3>1, <3>2 DEF OneAtATime, Updating
  <2>4. CASE Update(f)
    <3>1. /\ iap_step' = "update" /\ rsp' = Plain("update")
          /\ UNCHANGED <<flash, using_part, total_len, write_len, write_packet, is_remain>>
      BY <2>4 DEF Update
    <3>2. toHost' = <<Plain("update")>>
      BY <1>4, <2>1, <3>1 DEF Plain
    <3>3. Answered(Plain("update"))'
      BY <1>1, <2>1, <2>2, <3>2 DEF Answered, Plain
    <3>4. Have(Packets)' /\ ErasedIsEmpty'
      BY <2>1, <3>1 DEF Have, Transfer, Stored, ErasedIsEmpty
    <3> QED
      BY <1>1, <1>11, <3>3, <3>4 DEF OneAtATime, Updating
  <2> QED
    BY <1>70, <1>71, <2>2, <2>3, <2>4
<1>12. host # "done"
  BY <1>1 DEF OneAtATime, Quiet
<1> QED
  BY <1>3, <1>8, <1>9, <1>10, <1>11, <1>12

(***************************************************************************)
(* Either the flash fails or the line does                                 *)
(***************************************************************************)

QuitAfterAll == is_quit => flash[Target] = Stored(Packets)
LinkInv ==
  /\ TypeInv
  /\ \/ faults = MaxFaults /\ InOrder /\ QuitAfterAll
     \/ losses = MaxLosses /\ PktLen % PageLen = 0 /\ OneAtATime

(* A run begins with one of the two used up: no flash operation fails, or  *)
(* no frame is lost or late, and then the packets are whole pages. *)
OneFails == \A s \in Spent : s[1] = MaxFaults \/ (s[2] = MaxLosses /\ PktLen % PageLen = 0)

(* What is used up stays so. *)
LEMMA UsedUp ==
  ASSUME TypeInv, Next
  PROVE  /\ faults = MaxFaults => faults' = MaxFaults
         /\ losses = MaxLosses => losses' = MaxLosses
<1>1. faults \in 0 .. MaxFaults /\ losses \in 0 .. MaxLosses /\ MaxFaults \in Nat /\ MaxLosses \in Nat
  BY SlaveAssumption, LinkAssumption DEF TypeInv, LinkTypeOK
<1>2. CASE Serve
  <2> DEFINE f == Head(toSlave)
  <2>1. toSlave # << >> /\ Handle(f) /\ UNCHANGED losses
    BY <1>2 DEF Serve
  <2>2. toSlave \in Seq(Frames) /\ LinkTypeOK /\ TypeOK
    BY DEF TypeInv, LinkTypeOK
  <2>3. f \in Frames
    BY <2>1, <2>2, TailIs
  <2> HIDE DEF f
  <2>5. ASSUME NEW n \in 1 .. Packets, Write(WriteFrame(n)) PROVE UNCHANGED faults \/ faults < MaxFaults
    BY <2>5, WriteAnswers
  <2>6. UNCHANGED faults \/ faults < MaxFaults
    <3>1. CASE Start(StartFrame)
      BY <2>2, <3>1, StartServed
    <3> QED
      BY <2>1, <2>2, <2>3, <2>5, <3>1, Handled DEF Unheard, Update
  <2> QED
    BY <1>1, <2>1, <2>6
<1>3. CASE Host \/ Lose \/ SlaveReboots
  <2>1. UNCHANGED faults /\ (UNCHANGED losses \/ losses < MaxLosses)
    BY <1>3 DEF Host, HostSync, HostSend, HostAsks, HostTimeout, HostReceive, HostStartsOver, Lose,
                SlaveReboots, Reboot, line, slave
  <2> QED
    BY <1>1, <2>1
<1> QED
  BY <1>2, <1>3 DEF Next

LEMMA QuitStep ==
  ASSUME TypeInv, InOrder, QuitAfterAll, Next
  PROVE  QuitAfterAll'
<1>1. CASE Serve
  <2> DEFINE f == Head(toSlave)
  <2>1. toSlave # << >> /\ ~is_quit /\ Handle(f)
    BY <1>1 DEF Serve
  <2>2. toSlave \in Seq(Frames) /\ LinkTypeOK /\ TypeOK
    BY DEF TypeInv, LinkTypeOK
  <2>3. f \in Frames /\ f = toSlave[1] /\ 1 \in 1 .. Len(toSlave)
    BY <2>1, <2>2, TailIs
  <2> HIDE DEF f
  <2>4. CASE f = [cmd |-> "update"] /\ Update(f)
    <3>1. FramePlace(f) = Packets + 2 /\ FramePlace(f) <= HostPlace
      BY <2>3, <2>4, Places DEF InOrder
    <3>2. HostPlace = Packets + 2
      BY <2>2, <3>1, HostPlaces, PacketCount DEF LinkTypeOK
    <3>3. /\ Packets \in Nat /\ HostPlace - 1 >= 1 /\ HostPlace - 1 - 1 = Packets
          /\ \A m \in Packets .. Packets : m = Packets
      BY <3>2, PacketCount
    <3>4. Done(HostPlace - 1 - 1)
      BY <3>3 DEF InOrder, Acked
    <3>5. flash[Target] = Stored(Packets)
      BY <3>3, <3>4 DEF Done
    <3> QED
      BY <2>4, <3>5 DEF Update, QuitAfterAll, Stored
  <2>5. CASE Start(StartFrame)
    BY <2>1, <2>5 DEF Start, QuitAfterAll
  <2>6. ASSUME NEW n \in 1 .. Packets, Write(WriteFrame(n)) PROVE UNCHANGED is_quit
    BY <2>6, WriteAnswers
  <2>7. UNCHANGED is_quit \/ (f = [cmd |-> "update"] /\ Update(f))
    <3>1. Start(StartFrame) => UNCHANGED is_quit
      BY DEF Start
    <3> QED
      BY <2>1, <2>2, <2>3, <2>6, <3>1, Handled DEF Unheard
  <2> QED
    BY <2>1, <2>4, <2>7 DEF QuitAfterAll
<1>2. CASE Host \/ Lose \/ SlaveReboots
  BY <1>2 DEF Host, HostSync, HostSend, HostAsks, HostTimeout, HostReceive, HostStartsOver, Lose,
              SlaveReboots, Reboot, line, slave, regs, QuitAfterAll, Stored
<1> QED
  BY <1>1, <1>2 DEF Next

LEMMA LinkInit == Init /\ OneFails => LinkInv
<1> SUFFICES ASSUME Init, OneFails PROVE LinkInv
  OBVIOUS
<1>1. PICK spent \in Spent : faults = spent[1] /\ losses = spent[2]
  BY DEF Init
<1>2. faults = MaxFaults \/ (losses = MaxLosses /\ PktLen % PageLen = 0)
  BY <1>1 DEF OneFails
<1>3. ~is_quit
  BY DEF Init, InitRegs
<1> QED
  BY <1>2, <1>3, TypeInit, OrderInit, AloneInit DEF LinkInv, QuitAfterAll

LEMMA LinkStep == LinkInv /\ [Next]_vars => LinkInv'
<1>1. ASSUME LinkInv, Next PROVE LinkInv'
  <2>1. TypeInv /\ TypeInv'
    BY <1>1, TypeStep DEF LinkInv
  <2>2. CASE faults = MaxFaults /\ InOrder /\ QuitAfterAll
    <3>1. InOrder'
      BY <1>1, <2>1, <2>2, OrderServe, OrderHost DEF Next
    <3>2. QuitAfterAll' /\ faults' = MaxFaults
      BY <1>1, <2>1, <2>2, QuitStep, UsedUp
    <3> QED
      BY <2>1, <3>1, <3>2 DEF LinkInv
  <2>3. CASE losses = MaxLosses /\ PktLen % PageLen = 0 /\ OneAtATime
    <3>1. OneAtATime'
      BY <1>1, <2>1, <2>3, AloneServe, AloneHost DEF Next
    <3>2. losses' = MaxLosses
      BY <1>1, <2>1, <2>3, UsedUp
    <3> QED
      BY <2>1, <2>3, <3>1, <3>2 DEF LinkInv
  <2> QED
    BY <1>1, <2>2, <2>3 DEF LinkInv
<1>2. ASSUME LinkInv, UNCHANGED vars PROVE LinkInv'
  <2>1. TypeInv'
    BY <1>2, TypeStep DEF LinkInv
  <2>2. UNCHANGED <<flash, using_part, iap_step, total_len, write_len, write_packet, is_remain,
                    is_quit, faults, host, num, waiting, toSlave, toHost, losses>>
    BY <1>2 DEF vars, line, slave, regs
  <2>3. InOrder => InOrder'
    BY <2>2 DEF InOrder, Sorted, Acked, Done, HostPlace, FramePlace, ReplyPlace, Place, Transfer,
                Stored, Upto, Packets, Image
  <2>4. OneAtATime => OneAtATime'
    BY <2>2 DEF OneAtATime, ErasedIsEmpty, Syncing, Starting, Writing, Updating, Quiet, Asked, Answered,
                Have, Kept, Transfer, Stored, Upto, Image, StartFrame, WriteFrame
  <2>5. QuitAfterAll => QuitAfterAll'
    BY <2>2 DEF QuitAfterAll, Stored
  <2> QED
    BY <1>2, <2>1, <2>2, <2>3, <2>4, <2>5 DEF LinkInv
<1> QED
  BY <1>1, <1>2

(* Cells of a packet that is part of what is stored. *)
LEMMA StoredHolds ==
  ASSUME NEW n \in 1 .. Packets, \A i \in 0 .. Upto(n) - 1 : flash[Target][i] = Image(i)
  PROVE  Holds(n)
<1>1. /\ n - 1 \in 0 .. Packets - 1
      /\ Len(PacketData(n)) = Upto(n) - Upto(n - 1) /\ Len(PacketData(n)) \in Nat
      /\ (n - 1) * PktLen = Upto(n - 1)
      /\ \A k \in 1 .. Len(PacketData(n)) : PacketData(n)[k] = Image(Upto(n - 1) + k - 1)
  BY PacketIs
<1>2. Upto(n - 1) \in Nat /\ Upto(n) \in Nat
  <2>1. n - 1 \in 0 .. Packets /\ n \in 0 .. Packets
    BY <1>1, PacketCount
  <2> QED
    BY <2>1, UptoFacts, Sizes
<1>3. ASSUME NEW k \in 1 .. Len(PacketData(n))
      PROVE  flash[Target][(n - 1) * PktLen + k - 1] = PacketData(n)[k]
  <2>1. Upto(n - 1) + k - 1 \in 0 .. Upto(n) - 1
    BY <1>1, <1>2
  <2> QED
    BY <1>1, <1>3, <2>1
<1> QED
  BY <1>3 DEF Holds

LEMMA Reaches ==
  ASSUME NEW m \in 0 .. Packets, NEW w \in 0 .. m, flash[Target] = Stored(m)
  PROVE  \A i \in 0 .. Upto(w) - 1 : flash[Target][i] = Image(i)
<1>1. w \in 0 .. Packets /\ Packets \in Nat /\ w <= m
  BY PacketCount
<1>2. Upto(w) <= Upto(m) /\ Upto(w) \in 0 .. ImageLen /\ Upto(m) \in 0 .. ImageLen
  BY <1>1, UptoGrows, UptoFacts
<1>3. \A i \in 0 .. Upto(w) - 1 : i \in 0 .. PartLen[Target] - 1 /\ i < Upto(m)
  BY <1>2, Sizes
<1> QED
  BY <1>3 DEF Stored

LEMMA AckedHolds == LinkInv => AckedInFlash
<1> SUFFICES ASSUME LinkInv, host \in {"write", "update", "done"}
             PROVE  \A n \in 1 .. num - 1 : Holds(n)
  BY DEF AckedInFlash
<1>1. /\ TypeInv /\ Packets \in Nat /\ num \in 1 .. Packets + 1 /\ num - 1 \in 0 .. Packets
      /\ host \in {"update", "done"} => num - 1 = Packets
  BY PacketCount DEF LinkInv, TypeInv, LinkTypeOK
<1>2. SUFFICES \A i \in 0 .. Upto(num - 1) - 1 : flash[Target][i] = Image(i)
  <2>1. ASSUME NEW n \in 1 .. num - 1 PROVE Holds(n)
    <3>1. n \in 1 .. Packets /\ n \in 0 .. Packets /\ n <= num - 1
      BY <1>1
    <3>2. Upto(n) <= Upto(num - 1) /\ Upto(n) \in 0 .. ImageLen /\ Upto(num - 1) \in 0 .. ImageLen
      BY <1>1, <3>1, UptoGrows, UptoFacts
    <3>3. \A i \in 0 .. Upto(n) - 1 : i \in 0 .. Upto(num - 1) - 1
      BY <3>2, Sizes
    <3> QED
      BY <1>2, <3>1, <3>3, StoredHolds
  <2> QED
    BY <2>1
<1>3. CASE InOrder
  <2>1. HostPlace - 1 >= 1 /\ HostPlace - 1 - 1 = num - 1
    BY <1>1, HostPlaces
  <2>2. Done(num - 1)
    BY <1>3, <2>1 DEF InOrder, Acked
  <2>3. PICK m \in num - 1 .. Packets : flash[Target] = Stored(m)
    BY <2>2 DEF Done
  <2>4. m \in 0 .. Packets /\ num - 1 \in 0 .. m
    BY <1>1, <2>3
  <2> QED
    BY <2>3, <2>4, Reaches
<1>4. CASE OneAtATime
  <2>1. PICK w \in 0 .. Packets : w = num - 1
    BY <1>1
  <2>2. w \in 0 .. w
    BY <2>1, PacketCount
  <2>3. CASE Have(num - 1) \/ (host \in {"update", "done"} /\ flash[Target] = Stored(Packets))
    <3>1. flash[Target] = Stored(w)
      BY <1>1, <2>1, <2>3 DEF Have
    <3> QED
      BY <2>1, <2>2, <3>1, Reaches
  <2>4. CASE host = "write" /\ Have(num)
    <3>1. num \in 0 .. Packets /\ num - 1 \in 0 .. num
      BY <1>1, <2>4 DEF TypeInv, LinkTypeOK
    <3> QED
      BY <2>4, <3>1, Reaches DEF Have
  <2>5. CASE Kept
    BY <2>5 DEF Kept
  <2> QED
    BY <1>4, <2>3, <2>4, <2>5 DEF OneAtATime, Writing, Updating, Have
<1> QED
  BY <1>3, <1>4 DEF LinkInv

LEMMA QuitHolds == LinkInv => QuitMeansComplete
<1> SUFFICES ASSUME LinkInv, is_quit
             PROVE  flash[Target] = [i \in 0 .. PartLen[Target] - 1 |->
                                       IF i < ImageLen THEN Image(i) ELSE Erased]
  BY DEF QuitMeansComplete
<1>1. flash[Target] = Stored(Packets)
  BY DEF LinkInv, QuitAfterAll, OneAtATime, Updating, Have
<1> QED
  BY <1>1, UptoFacts DEF Stored

(* Whatever is lost or late, or whatever fails in the flash, a packet the  *)
(* host has moved past is in the partition, at its place. *)
THEOREM AckedIsKept == OneFails => (Spec => []AckedInFlash)
<1> SUFFICES ASSUME OneFails PROVE Spec => []AckedInFlash
  OBVIOUS
<1>1. Init => LinkInv
  BY LinkInit
<1> QED
  BY <1>1, LinkStep, AckedHolds, PTL DEF Spec

(* And the device leaves the loader on the host's word only with the whole *)
(* image in the partition, and nothing else. *)
THEOREM QuitIsComplete == OneFails => (Spec => []QuitMeansComplete)
<1> SUFFICES ASSUME OneFails PROVE Spec => []QuitMeansComplete
  OBVIOUS
<1>1. Init => LinkInv
  BY LinkInit
<1> QED
  BY <1>1, LinkStep, QuitHolds, PTL DEF Spec
=============================================================================
