--------------------------------- MODULE Boot ---------------------------------
(***************************************************************************)
(* The update step of the boot loader: from reset, through the decision    *)
(* whether to install the package in the download partition, to the jump   *)
(* into the application (applications/boot.c, the UPDATE step of           *)
(* applications/system.c, the page and sector loops of                     *)
(* board/fal_flash_port.c), with flash operations that fail and a supply   *)
(* that drops between or during any two of them.                           *)
(*                                                                         *)
(* Addresses are cells of a partition.  Cell <<f, i>> is the i-th cell of  *)
(* the package of firmware f: its header is cells 0 .. HdrLen-1, its body  *)
(* follows.  A CRC check is "the cells are exactly that firmware's": CRC   *)
(* collisions are abstracted away.                                         *)
(***************************************************************************)
EXTENDS NorFlash

CONSTANTS
  Firmware,       \* the firmwares a host may deliver
  RawSize,        \* raw_size of each firmware's header, in cells
  Supported,      \* firmwares of type RBL, not encrypted, not compressed
  HdrLen,         \* sizeof(firm_pkg_t)
  AppLen,         \* length of the app partition
  DownLen,        \* length of the download partition
  BufLen,         \* FIRM_BUF_SIZE
  PageLen,        \* a flash page, and sizeof(buf_32)
  SectorLen,      \* blk_size, the erase unit
  Word,           \* 2^32, the modulus of uint32_t
  Deliveries,     \* what a writer may leave in the download partition
  RawImages,      \* what a writer may leave in the app partition
  MaxFaults       \* bound on flash failures and power losses

None == "none"    \* no firmware selected

AppCells  == 0 .. AppLen - 1
DownCells == 0 .. DownLen - 1
Cell      == {Erased, Garbage} \cup (Firmware \X Nat)

ASSUME SizeAssumption ==
  /\ HdrLen \in Nat \ {0} /\ BufLen \in Nat \ {0}
  /\ PageLen \in Nat \ {0} /\ SectorLen \in Nat \ {0}
  /\ AppLen \in Nat /\ DownLen \in Nat /\ Word \in Nat
  /\ HdrLen <= AppLen /\ HdrLen <= DownLen
  /\ AppLen < Word /\ DownLen < Word
  /\ MaxFaults \in Nat

ASSUME FirmwareAssumption ==
  /\ None \notin Firmware
  /\ RawSize \in [Firmware -> Nat]
  /\ Supported \subseteq Firmware
  /\ Erased \notin (Firmware \X Nat) /\ Garbage \notin (Firmware \X Nat)

ASSUME DeliveryAssumption ==
  /\ \A d \in Deliveries : d \in [DownCells -> Cell]
  /\ \A a \in RawImages : a \in [AppCells -> Cell]

VARIABLES
  app, down,      \* the two partitions
  bkp,            \* BOOT_BKP holds 0xA5A5
  remain,         \* g_system.is_remain: a host asked to stay in the loader
  pc,             \* where the main thread is
  src,            \* the firmware of download_header, once read
  total,          \* total_length of firm_upgrade
  at,             \* next address of the erase or write in progress
  faults          \* flash failures and power losses so far

vars == <<app, down, bkp, remain, pc, src, total, at, faults>>

(***************************************************************************)
(* check_part_firm.  (Operators introduced as "Slip:" are never used: each *)
(* is a plausible mistake in the definition after it, kept to show that    *)
(* the properties would notice.)                                           *)
(***************************************************************************)

(* get_firm_header: the HdrLen cells from off on are the header of f, and  *)
(* its type and algo are ones the loader handles.                          *)
HeaderAt(mem, off, f) ==
  /\ f \in Supported
  /\ \A i \in 0 .. HdrLen - 1 : mem[off + i] = <<f, i>>

(* calc_part_firm_crc32: the sum is taken in 64 bits, an empty body is a   *)
(* read of 0 bytes and an error, and the body must be f's.                 *)
BodyAt(mem, len, off, f) ==
  /\ RawSize[f] + off <= len
  /\ RawSize[f] > 0
  /\ \A i \in 0 .. RawSize[f] - 1 : mem[off + i] = <<f, HdrLen + i>>

DownloadHolds(f) == HeaderAt(down, 0, f) /\ BodyAt(down, DownLen, HdrLen, f)

(* Slip: the header is looked for in front, as in the download partition. *)
HeaderInFront(f) == HeaderAt(app, 0, f) /\ BodyAt(app, AppLen, 0, f)

AppHolds(f) == HeaderAt(app, AppLen - HdrLen, f) /\ BodyAt(app, AppLen, 0, f)

(* Slip: the header is forgotten. *)
BodyFits(f) == RawSize[f] % Word <= AppLen

(* Slip: a package that exactly fits is refused. *)
FitsStrictly(f) == (RawSize[f] + HdrLen) % Word < AppLen

(* firm_upgrade's own size test, in 32 bits. *)
Fits(f) == (RawSize[f] + HdrLen) % Word <= AppLen

(***************************************************************************)
(* Reset, the sync window and the session with a host                      *)
(***************************************************************************)

Init ==
  /\ app \in RawImages
  /\ down = [i \in DownCells |-> Erased]
  /\ bkp = FALSE /\ remain = FALSE
  /\ pc = "reset" /\ src = None /\ total = 0 /\ at = 0
  /\ faults = 0

(* Slip: the mark is not consumed. *)
KeepMark ==
  /\ pc = "reset"
  /\ pc' = IF bkp THEN "app" ELSE "session"
  /\ remain' = FALSE /\ src' = None /\ total' = 0 /\ at' = 0
  /\ UNCHANGED <<app, down, bkp, faults>>

(* boot_start_application, from reset_handler: consume the mark, then jump *)
(* or go on to the scheduler and the sync window.  Nothing in RAM survives *)
(* the reset.                                                              *)
ResetHandler ==
  /\ pc = "reset"
  /\ pc' = IF bkp THEN "app" ELSE "session"
  /\ bkp' = FALSE
  /\ remain' = FALSE /\ src' = None /\ total' = 0 /\ at' = 0
  /\ UNCHANGED <<app, down, faults>>

(* A host or the key sets is_remain inside the window. *)
Sync ==
  /\ pc = "session" /\ ~remain
  /\ remain' = TRUE
  /\ UNCHANGED <<app, down, bkp, pc, src, total, at, faults>>

(* WAIT_SYNC: the 500 ms are over and nobody asked to stay. *)
SyncTimeout ==
  /\ pc = "session" /\ ~remain
  /\ pc' = "check"
  /\ UNCHANGED <<app, down, bkp, remain, src, total, at, faults>>

(* BOOT_PROCESS: a host asked to leave. *)
Quit ==
  /\ pc = "session" /\ remain
  /\ pc' = "check"
  /\ UNCHANGED <<app, down, bkp, remain, src, total, at, faults>>

(* A writer finishes, or abandons, a transfer into the download partition: *)
(* a host during the session or the application while it runs.             *)
Deliver ==
  /\ pc = "app" \/ (pc = "session" /\ remain)
  /\ \E d \in Deliveries : down' = d
  /\ UNCHANGED <<app, bkp, remain, pc, src, total, at, faults>>

(* A host writes a bare image into the app partition. *)
DeliverRaw ==
  /\ pc = "session" /\ remain
  /\ \E a \in RawImages : app' = a
  /\ UNCHANGED <<down, bkp, remain, pc, src, total, at, faults>>

(* The SDCARD step: the card's file goes to the download partition, or is  *)
(* refused before the erase; whatever came of it the update step is next.  *)
SdCardUpdate ==
  /\ pc = "session"
  /\ \E d \in Deliveries \cup {down} : down' = d
  /\ pc' = "check"
  /\ UNCHANGED <<app, bkp, remain, src, total, at, faults>>

(* The application resets the processor. *)
AppReset ==
  /\ pc = "app"
  /\ pc' = "reset"
  /\ UNCHANGED <<app, down, bkp, remain, src, total, at, faults>>

(***************************************************************************)
(* SYSTEM_STEP_UPDATE and firm_upgrade                                     *)
(***************************************************************************)

(* check_part_firm(download_part), firm_upgrade's size test and, when the  *)
(* download is not usable, check_part_firm(app_part), whose result decides *)
(* nothing but a warning.                                                  *)
CheckDownload ==
  /\ pc = "check"
  /\ \/ /\ ~ \E f \in Firmware : DownloadHolds(f)
        /\ pc' = "enable"
        /\ UNCHANGED src
     \/ \E f \in Firmware :
          /\ DownloadHolds(f)
          /\ src' = f
          /\ pc' = IF Fits(f) THEN "eraseApp" ELSE "eraseDown"
  /\ total' = 0 /\ at' = 0
  /\ UNCHANGED <<app, down, bkp, remain, faults>>

(* The outcomes of one ROM call on a memory: it succeeds, or it reports a  *)
(* failure and leaves the memory torn.                                     *)
RomSucceeds(mem, wanted) == mem' = wanted /\ UNCHANGED faults
RomFails(mem, wanted) ==
  /\ faults < MaxFaults
  /\ mem' \in Torn(mem, wanted)
  /\ faults' = faults + 1

(* One turn of erase()'s loop on the app partition. *)
SectorOf(mem) == Wiped(mem, Cells(mem, at, SectorLen))

EraseAppSector ==
  /\ pc = "eraseApp"
  /\ \/ /\ RomSucceeds(app, SectorOf(app))
        /\ at' = at + SectorLen
        /\ pc' = IF at + SectorLen < AppLen THEN "eraseApp" ELSE "read"
     \/ /\ RomFails(app, SectorOf(app))
        /\ pc' = "restart"
        /\ UNCHANGED at
  /\ UNCHANGED <<down, bkp, remain, src, total>>

(* How much firm_upgrade moves through _firm_buf in this turn. *)
ChunkLen == Smaller(BufLen, RawSize[src] - total)

(* fal_partition_read of the next chunk: out of bounds, or a length of 0,  *)
(* gives up.                                                               *)
ReadChunk ==
  /\ pc = "read"
  /\ at' = total
  /\ pc' = IF HdrLen + total + ChunkLen <= DownLen /\ ChunkLen > 0
             THEN "program" ELSE "restart"
  /\ UNCHANGED <<app, down, bkp, remain, src, total, faults>>

(* write() programs up to the next page boundary, or to the end. *)
PageStep(end) == Smaller(PageLen - (at % PageLen), end - at)

BodyPage == Programmed(app, [i \in AppCells |-> down[HdrLen + i]],
                       Cells(app, at, PageStep(total + ChunkLen)))

(* One ROM call of write() for the chunk; a full chunk goes back to read   *)
(* the next one, the last one goes on to the header.  A failed first page  *)
(* that is not aligned goes unnoticed (the test on an unsigned is never    *)
(* true), any other failure ends firm_upgrade.                             *)
AfterBodyPage ==
  LET next == at + PageStep(total + ChunkLen)
      whole == total + ChunkLen
  IN  IF next < whole
        THEN at' = next /\ UNCHANGED <<pc, total>>
        ELSE /\ total' = whole
             /\ IF whole < RawSize[src]
                  THEN pc' = "read" /\ at' = next
                  ELSE pc' = "header" /\ at' = AppLen - HdrLen

ProgramBodyPage ==
  /\ pc = "program"
  /\ \/ RomSucceeds(app, BodyPage) /\ AfterBodyPage
     \/ /\ RomFails(app, BodyPage)
        /\ IF (at % PageLen) # 0 THEN AfterBodyPage
           ELSE pc' = "restart" /\ UNCHANGED <<at, total>>
  /\ UNCHANGED <<down, bkp, remain, src>>

HeaderPage == Programmed(app, [i \in AppCells |-> <<src, i - (AppLen - HdrLen)>>],
                         Cells(app, at, PageStep(AppLen)))

AfterHeaderPage ==
  /\ at' = at + PageStep(AppLen)
  /\ pc' = IF at' < AppLen THEN "header" ELSE "verify"

(* src_header goes to the end of the app partition. *)
ProgramHeaderPage ==
  /\ pc = "header"
  /\ \/ RomSucceeds(app, HeaderPage) /\ AfterHeaderPage
     \/ /\ RomFails(app, HeaderPage)
        /\ IF (at % PageLen) # 0 THEN AfterHeaderPage
           ELSE pc' = "restart" /\ UNCHANGED at
  /\ UNCHANGED <<down, bkp, remain, src, total>>

(* Slip: the result of the closing check is not looked at. *)
Unverified ==
  /\ pc = "verify"
  /\ pc' = "eraseDown"
  /\ at' = 0
  /\ UNCHANGED <<app, down, bkp, remain, src, total, faults>>

(* The closing check_part_firm(app_part). *)
Verify ==
  /\ pc = "verify"
  /\ pc' = IF \E f \in Firmware : AppHolds(f) THEN "eraseDown" ELSE "restart"
  /\ at' = 0
  /\ UNCHANGED <<app, down, bkp, remain, src, total, faults>>

(* fal_partition_erase_all(download_part): its result is not looked at. *)
EraseDownSector ==
  /\ pc = "eraseDown"
  /\ \/ /\ RomSucceeds(down, SectorOf(down))
        /\ at' = at + SectorLen
        /\ pc' = IF at + SectorLen < DownLen THEN "eraseDown" ELSE "enable"
     \/ /\ RomFails(down, SectorOf(down))
        /\ pc' = "enable"
        /\ UNCHANGED at
  /\ UNCHANGED <<app, bkp, remain, src, total>>

(* boot_app_enable: the mark, then a software reset. *)
EnableApp ==
  /\ pc = "enable"
  /\ bkp' = TRUE
  /\ pc' = "reset"
  /\ UNCHANGED <<app, down, remain, src, total, at, faults>>

(* firm_upgrade failed: a software reset without the mark. *)
Restart ==
  /\ pc = "restart"
  /\ pc' = "reset"
  /\ UNCHANGED <<app, down, bkp, remain, src, total, at, faults>>

(***************************************************************************)
(* The supply drops: a flash operation in progress leaves its cells torn,  *)
(* and the backup register keeps its value or loses it.                    *)
(***************************************************************************)

PowerLoss ==
  /\ faults < MaxFaults
  /\ faults' = faults + 1
  /\ pc' = "reset"
  /\ bkp' \in {bkp, FALSE}
  /\ CASE pc = "eraseApp"  -> app' \in Torn(app, SectorOf(app)) /\ UNCHANGED down
       [] pc = "program"   -> app' \in Torn(app, BodyPage) /\ UNCHANGED down
       [] pc = "header"    -> app' \in Torn(app, HeaderPage) /\ UNCHANGED down
       [] pc = "eraseDown" -> down' \in Torn(down, SectorOf(down)) /\ UNCHANGED app
       [] OTHER            -> UNCHANGED <<app, down>>
  /\ UNCHANGED <<remain, src, total, at>>

(* The main thread's own steps, which nothing but a fault can stop. *)
Update ==
  \/ CheckDownload \/ EraseAppSector \/ ReadChunk \/ ProgramBodyPage
  \/ ProgramHeaderPage \/ Verify \/ EraseDownSector \/ EnableApp \/ Restart

Environment == Sync \/ Quit \/ Deliver \/ DeliverRaw \/ SdCardUpdate \/ AppReset

Next == ResetHandler \/ SyncTimeout \/ Update \/ Environment \/ PowerLoss

Spec == Init /\ [][Next]_vars

(* The processor runs, and without a host the sync window closes. *)
Fairness == WF_vars(ResetHandler) /\ WF_vars(SyncTimeout) /\ WF_vars(Update)

FairSpec == Spec /\ Fairness

(***************************************************************************)
(* Properties                                                              *)
(***************************************************************************)

PC == {"reset", "session", "check", "eraseApp", "read", "program", "header",
       "verify", "eraseDown", "enable", "restart", "app"}

(* Every variable keeps to its type: in particular no address in use by an *)
(* erase or write loop, and no length, is negative.                        *)
TypeOK ==
  /\ app \in [AppCells -> Cell] /\ down \in [DownCells -> Cell]
  /\ bkp \in BOOLEAN /\ remain \in BOOLEAN
  /\ pc \in PC
  /\ src \in Firmware \cup {None}
  /\ total \in Nat /\ at \in Nat /\ faults \in 0 .. MaxFaults

(* The app partition as a complete installation of f leaves it. *)
Installed(f) ==
  [i \in AppCells |->
     IF i < RawSize[f] THEN <<f, HdrLen + i>>
     ELSE IF i < AppLen - HdrLen THEN Erased
     ELSE <<f, i - (AppLen - HdrLen)>>]

Usable(f) == DownloadHolds(f) /\ RawSize[f] + HdrLen <= AppLen

(* The image the device would end up running if it were reset now and left *)
(* alone.                                                                  *)
Effective == IF \E f \in Firmware : Usable(f)
               THEN Installed(CHOOSE f \in Firmware : Usable(f))
               ELSE app

(* boot_app_enable's mark is only ever set, and survives a reset, when the *)
(* app partition holds what should run: a mark left by an earlier attempt  *)
(* never starts a half written application.                                *)
MarkMeansInstalled == bkp => app = Effective

(* From the moment firm_upgrade starts to erase the app partition until    *)
(* the closing check has passed, the download partition still holds the    *)
(* complete package, so that a restart at any point can begin again; and   *)
(* the 32-bit size test decided as the exact one would.                    *)
PackageOutlivesCopy ==
  pc \in {"eraseApp", "read", "program", "header", "verify", "restart"}
    => Usable(src)

Phase == IF pc = "app" THEN "running" ELSE IF pc = "session" THEN "open" ELSE "closed"

Running == IF pc = "app" THEN app ELSE << >>

(* The update step as an implementation of the atomic installation: no     *)
(* step of the loader, no failed flash operation and no power loss changes *)
(* the image that will run, and the jump runs exactly that image.          *)
Install == INSTANCE FirmwareInstall WITH
  Image   <- [AppCells -> Cell],
  image   <- Effective,
  phase   <- Phase,
  running <- Running

InstallSpec == Install!Spec

(* A device nobody talks to: whatever a writer left in the download        *)
(* partition before the reset, and no host, card or application acting.    *)
Unattended ==
  /\ app \in RawImages /\ down \in Deliveries
  /\ bkp = FALSE /\ remain = FALSE
  /\ pc = "reset" /\ src = None /\ total = 0 /\ at = 0
  /\ faults = 0
  /\ [][ResetHandler \/ SyncTimeout \/ Update \/ PowerLoss]_vars
  /\ Fairness

(* Left alone, and with finitely many faults, the device always comes to   *)
(* run an application: no sequence of failed erases, failed programs and   *)
(* power losses keeps it in the loader.                                    *)
AlwaysStarts == []<>(pc = "app") 

(* Left alone, a complete package that fits is what ends up running, in    *)
(* full, however often the installation is interrupted.                    *)
PackageEventuallyRuns ==
  \A f \in Firmware : Usable(f) ~> (pc = "app" /\ app = Installed(f))
=============================================================================
