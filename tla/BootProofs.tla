------------------------------ MODULE BootProofs ------------------------------
(***************************************************************************)
(* Theorems about Boot, for every set of firmwares, every geometry of the  *)
(* flash and every number of faults.                                       *)
(*                                                                         *)
(* The inductive invariant Inv says, besides the types, what the two       *)
(* partitions hold at each place of the update step.                       *)
(***************************************************************************)
EXTENDS Boot, TLAPS

(* Where the loops of firm_upgrade and write() stand. *)
Positions ==
  /\ pc = "eraseApp" => total = 0
  /\ pc = "read" => total < RawSize[src]
  /\ pc = "program" => total < RawSize[src] /\ total <= at /\ at < total + ChunkLen
  /\ pc = "header" => AppLen - HdrLen <= at /\ at < AppLen

(* A memory into which f is being copied: nothing but erased cells, f's    *)
(* cells in their places, and what a failed program left there.            *)
Place(f) == {i \in AppCells : i < RawSize[f] \/ i >= AppLen - HdrLen}

Partial(mem, f) ==
  \A i \in AppCells : mem[i] = Installed(f)[i] \/ (i \in Place(f) /\ mem[i] \in {Erased, Garbage})

Progress ==
  /\ pc = "eraseApp" => \A i \in AppCells : i < at => app[i] = Erased
  /\ pc \in {"read", "program", "header", "verify"} => Partial(app, src)

(* Nothing is left to install. *)
NothingPending == \A f \in Firmware : Usable(f) => app = Installed(f)

(* After the closing check the installation is done, and stays done while  *)
(* the download partition is erased and until the application is started.  *)
Settled ==
  /\ bkp => pc = "reset"
  /\ (bkp \/ pc \in {"eraseDown", "enable"}) => NothingPending

Inv == TypeOK /\ PackageOutlivesCopy /\ Positions /\ Progress /\ Settled

(***************************************************************************)
(* Lemmas about the flash                                                  *)
(***************************************************************************)

Memory(S) == [S -> Cell]

(* A torn operation leaves every cell old, new or garbage, and does not    *)
(* touch the cells it was not changing.                                    *)
LEMMA TornCells ==
  ASSUME NEW S, NEW old \in Memory(S), NEW new \in Memory(S), NEW t \in Torn(old, new)
  PROVE  /\ t \in Memory(S)
         /\ \A i \in S : t[i] \in {old[i], new[i], Garbage}
         /\ \A i \in S : old[i] = new[i] => t[i] = old[i]
<1> DEFINE touched == {i \in DOMAIN old : old[i] # new[i]}
<1>1. PICK how \in [touched -> {"kept", "done", "mixed"}] :
        t = [i \in DOMAIN old |->
               IF i \notin touched THEN old[i]
               ELSE CASE how[i] = "kept" -> old[i]
                      [] how[i] = "done" -> new[i]
                      [] OTHER           -> Garbage]
  BY DEF Torn
<1>2. DOMAIN old = S
  BY DEF Memory
<1>3. \A i \in S : /\ t[i] \in {old[i], new[i], Garbage}
                   /\ old[i] = new[i] => t[i] = old[i]
  <2> TAKE i \in S
  <2>1. CASE i \notin touched
    BY <1>1, <1>2, <2>1
  <2>2. CASE i \in touched
    <3>1. how[i] \in {"kept", "done", "mixed"}
      BY <2>2
    <3>2. t[i] = CASE how[i] = "kept" -> old[i]
                   [] how[i] = "done" -> new[i]
                   [] OTHER           -> Garbage
      BY <1>1, <1>2, <2>2
    <3> QED
      BY <2>2, <3>1, <3>2
  <2> QED
    BY <2>1, <2>2
<1>4. t = [i \in S |-> t[i]]
  BY <1>1, <1>2
<1>5. \A i \in S : t[i] \in Cell
  BY <1>3 DEF Memory, Cell
<1> QED
  BY <1>3, <1>4, <1>5 DEF Memory

(* An erase leaves each cell as it was, or erased where it was asked to. *)
LEMMA WipedCells ==
  ASSUME NEW S, NEW mem \in Memory(S), NEW region
  PROVE  /\ Wiped(mem, region) \in Memory(S)
         /\ \A i \in S : Wiped(mem, region)[i] = IF i \in region THEN Erased ELSE mem[i]
BY DEF Wiped, Memory, Cell

(* A program burns the region's cells and leaves the others. *)
LEMMA ProgrammedCells ==
  ASSUME NEW S, NEW mem \in Memory(S), NEW data, NEW region,
         \A i \in S : i \in region => data[i] \in Cell
  PROVE  /\ Programmed(mem, data, region) \in Memory(S)
         /\ \A i \in S : Programmed(mem, data, region)[i] =
                            IF i \in region THEN Burn(mem[i], data[i]) ELSE mem[i]
BY DEF Programmed, Burn, Memory, Cell

(***************************************************************************)
(* Lemmas about packages                                                   *)
(***************************************************************************)

(* No cell of a package reads as erased or as garbage. *)
LEMMA PackageCells ==
  ASSUME NEW f \in Firmware, NEW i \in Nat
  PROVE  <<f, i>> \in Cell /\ <<f, i>> # Erased /\ <<f, i>> # Garbage
BY FirmwareAssumption DEF Cell

(* A complete installation is a content of the app partition, and has a    *)
(* cell of the firmware in each of its places and no other.                *)
LEMMA InstalledCells ==
  ASSUME NEW f \in Firmware, RawSize[f] + HdrLen <= AppLen
  PROVE  /\ Installed(f) \in Memory(AppCells)
         /\ \A i \in AppCells :
              /\ i < RawSize[f] => Installed(f)[i] = <<f, HdrLen + i>>
              /\ i >= AppLen - HdrLen => Installed(f)[i] = <<f, i - (AppLen - HdrLen)>>
              /\ i \notin Place(f) => Installed(f)[i] = Erased
<1>1. RawSize[f] \in Nat /\ HdrLen \in Nat /\ AppLen \in Nat
  BY FirmwareAssumption, SizeAssumption
<1>2. ASSUME NEW i \in AppCells
      PROVE  /\ Installed(f)[i] \in Cell
             /\ i < RawSize[f] => Installed(f)[i] = <<f, HdrLen + i>>
             /\ i >= AppLen - HdrLen => Installed(f)[i] = <<f, i - (AppLen - HdrLen)>>
             /\ i \notin Place(f) => Installed(f)[i] = Erased
  <2>1. i \in Nat
    BY <1>1 DEF AppCells
  <2>2. CASE i < RawSize[f]
    <3>1. Installed(f)[i] = <<f, HdrLen + i>> /\ i \in Place(f) /\ ~(i >= AppLen - HdrLen)
      BY <1>1, <2>1, <2>2 DEF Installed, Place
    <3> QED
      BY <1>1, <2>1, <2>2, <3>1, PackageCells
  <2>3. CASE i >= AppLen - HdrLen
    <3>1. Installed(f)[i] = <<f, i - (AppLen - HdrLen)>> /\ i \in Place(f) /\ ~(i < RawSize[f])
      BY <1>1, <2>1, <2>3 DEF Installed, Place
    <3> QED
      BY <1>1, <2>1, <2>3, <3>1, PackageCells
  <2>4. CASE ~(i < RawSize[f]) /\ ~(i >= AppLen - HdrLen)
    <3>1. Installed(f)[i] = Erased
      BY <1>1, <2>1, <2>4 DEF Installed
    <3> QED
      BY <2>4, <3>1 DEF Cell
  <2> QED
    BY <2>2, <2>3, <2>4
<1>3. Installed(f) = [i \in AppCells |-> Installed(f)[i]]
  BY DEF Installed
<1> QED
  BY <1>2, <1>3 DEF Memory

(* A partition has one header at most. *)
LEMMA OneHeader ==
  ASSUME NEW mem, NEW off, NEW f, NEW g, HeaderAt(mem, off, f), HeaderAt(mem, off, g)
  PROVE  f = g
<1>1. 0 \in 0 .. HdrLen - 1
  BY SizeAssumption
<1> QED
  BY <1>1 DEF HeaderAt

(* A usable package fits both partitions and its cells are in place. *)
LEMMA UsableFacts ==
  ASSUME NEW f, Usable(f)
  PROVE  /\ f \in Firmware /\ f \in Supported
         /\ RawSize[f] \in Nat /\ RawSize[f] > 0
         /\ RawSize[f] + HdrLen <= AppLen /\ RawSize[f] + HdrLen <= DownLen
         /\ \A i \in 0 .. HdrLen - 1 : down[i] = <<f, i>>
         /\ \A i \in 0 .. RawSize[f] - 1 : down[HdrLen + i] = <<f, HdrLen + i>>
<1>1. f \in Firmware /\ f \in Supported
  BY FirmwareAssumption DEF Usable, DownloadHolds, HeaderAt
<1>2. \A i \in 0 .. HdrLen - 1 : down[i] = <<f, i>>
  BY SizeAssumption DEF Usable, DownloadHolds, HeaderAt
<1> QED
  BY <1>1, <1>2, FirmwareAssumption, SizeAssumption DEF Usable, DownloadHolds, BodyAt

(* At most one package is usable. *)
LEMMA OneUsable ==
  ASSUME NEW f, NEW g, Usable(f), DownloadHolds(g)
  PROVE  f = g
BY OneHeader DEF Usable, DownloadHolds

(* firm_upgrade's 32-bit size test is exact for a package that             *)
(* check_part_firm has accepted.                                           *)
LEMMA FitsExact ==
  ASSUME NEW f \in Firmware, DownloadHolds(f)
  PROVE  Fits(f) <=> RawSize[f] + HdrLen <= AppLen
<1>1. RawSize[f] \in Nat /\ HdrLen \in Nat /\ Word \in Nat /\ DownLen \in Nat /\ AppLen \in Nat
  BY FirmwareAssumption, SizeAssumption
<1>2. RawSize[f] + HdrLen <= DownLen /\ DownLen < Word
  BY SizeAssumption DEF DownloadHolds, BodyAt
<1>3. RawSize[f] + HdrLen < Word /\ RawSize[f] + HdrLen \in Nat
  BY <1>1, <1>2
<1>4. (RawSize[f] + HdrLen) % Word = RawSize[f] + HdrLen
  BY <1>1, <1>3
<1> QED
  BY <1>4 DEF Fits

(* What the device ends up running, with and without a usable package. *)
LEMMA EffectiveOfUsable ==
  ASSUME NEW f, Usable(f)
  PROVE  Effective = Installed(f)
<1>1. f \in Firmware
  BY UsableFacts
<1>2. \E g \in Firmware : Usable(g)
  BY <1>1
<1>3. \A g : Usable(g) => g = f
  BY OneUsable DEF Usable
<1>4. (CHOOSE g \in Firmware : Usable(g)) = f
  BY <1>2, <1>3
<1> QED
  BY <1>2, <1>4 DEF Effective

(* Without a usable package it is what the app partition holds. *)
LEMMA EffectiveOfSettled == NothingPending => Effective = app
<1> SUFFICES ASSUME NothingPending PROVE Effective = app
  OBVIOUS
<1>1. CASE \E f \in Firmware : Usable(f)
  BY <1>1, EffectiveOfUsable DEF NothingPending
<1>2. CASE ~ \E f \in Firmware : Usable(f)
  BY <1>2 DEF Effective
<1> QED
  BY <1>1, <1>2

(***************************************************************************)
(* Lemmas about the copy                                                   *)
(***************************************************************************)

(* Programming f's cells in their places keeps a partial copy of f one. *)
LEMMA ProgramPartial ==
  ASSUME NEW f \in Firmware, RawSize[f] + HdrLen <= AppLen,
         NEW mem \in Memory(AppCells), Partial(mem, f), NEW data, NEW region,
         \A i \in AppCells : i \in region => i \in Place(f) /\ data[i] = Installed(f)[i]
  PROVE  /\ Programmed(mem, data, region) \in Memory(AppCells)
         /\ Partial(Programmed(mem, data, region), f)
<1>1. Installed(f) \in Memory(AppCells)
  BY InstalledCells
<1>2. \A i \in AppCells : i \in region => data[i] \in Cell
  BY <1>1 DEF Memory
<1>3. /\ Programmed(mem, data, region) \in Memory(AppCells)
      /\ \A i \in AppCells : Programmed(mem, data, region)[i] =
                              IF i \in region THEN Burn(mem[i], data[i]) ELSE mem[i]
  BY <1>2, ProgrammedCells
<1> QED
  BY <1>3 DEF Partial, Burn, Memory

(* A torn program of f's cells leaves a partial copy of f. *)
LEMMA TornPartial ==
  ASSUME NEW f \in Firmware,
         NEW old \in Memory(AppCells), NEW new \in Memory(AppCells),
         Partial(old, f), Partial(new, f), NEW t \in Torn(old, new)
  PROVE  t \in Memory(AppCells) /\ Partial(t, f)
<1>1. /\ t \in Memory(AppCells)
      /\ \A i \in AppCells : t[i] \in {old[i], new[i], Garbage}
      /\ \A i \in AppCells : old[i] = new[i] => t[i] = old[i]
  BY TornCells
<1> QED
  BY <1>1 DEF Partial, Memory

(* A page step goes forward, and not beyond the end. *)
LEMMA PageStepFacts ==
  ASSUME at \in Nat, NEW end \in Nat, at < end
  PROVE  /\ PageStep(end) \in Nat /\ PageStep(end) > 0
         /\ at + PageStep(end) <= end
<1>1. PageLen \in Nat \ {0}
  BY SizeAssumption
<1>2. at % PageLen \in 0 .. PageLen - 1
  BY <1>1
<1> HIDE SizeAssumption
<1> QED
  BY <1>1, <1>2 DEF PageStep, Smaller

(* A chunk is not empty, and not beyond the body. *)
LEMMA ChunkFacts ==
  ASSUME total \in Nat, src \in Firmware, total < RawSize[src]
  PROVE  /\ ChunkLen \in Nat /\ ChunkLen > 0 /\ total + ChunkLen <= RawSize[src]
<1>1. RawSize[src] \in Nat /\ BufLen \in Nat \ {0}
  BY FirmwareAssumption, SizeAssumption
<1> QED
  BY <1>1 DEF ChunkLen, Smaller

(* A page of the body, programmed or torn. *)
LEMMA BodyPageFacts ==
  ASSUME Inv, pc = "program"
  PROVE  /\ PageStep(total + ChunkLen) \in Nat /\ PageStep(total + ChunkLen) > 0
         /\ at + PageStep(total + ChunkLen) <= total + ChunkLen
         /\ ChunkLen \in Nat /\ total + ChunkLen <= RawSize[src]
         /\ \A m \in {BodyPage} \cup Torn(app, BodyPage) :
              m \in Memory(AppCells) /\ Partial(m, src)
<1>1. /\ total \in Nat /\ at \in Nat /\ total < RawSize[src] /\ at < total + ChunkLen
      /\ Partial(app, src) /\ app \in Memory(AppCells) /\ Usable(src)
      /\ total <= at
  BY DEF Inv, TypeOK, Positions, Progress, PackageOutlivesCopy, Memory
<1>2. /\ src \in Firmware /\ RawSize[src] \in Nat
      /\ RawSize[src] + HdrLen <= AppLen
      /\ \A i \in 0 .. RawSize[src] - 1 : down[HdrLen + i] = <<src, HdrLen + i>>
  BY <1>1, UsableFacts
<1>3. ChunkLen \in Nat /\ total + ChunkLen <= RawSize[src]
  BY <1>1, <1>2, ChunkFacts
<1> DEFINE n == PageStep(total + ChunkLen)
<1>4. n \in Nat /\ n > 0 /\ at + n <= total + ChunkLen
  <2>1. total + ChunkLen \in Nat
    BY <1>1, <1>3
  <2> QED
    BY <1>1, <2>1, PageStepFacts
<1> DEFINE data == [i \in AppCells |-> down[HdrLen + i]]
           region == Cells(app, at, n)
<1>5. ASSUME NEW i \in AppCells, i \in region
      PROVE  i \in Place(src) /\ data[i] = Installed(src)[i]
  <2>1. i \in Nat /\ i < RawSize[src]
    <3>1. AppLen \in Nat
      BY SizeAssumption
    <3>2. i \in Nat
      BY <3>1 DEF AppCells
    <3>3. i < at + n
      BY <1>5 DEF Cells
    <3> QED
      BY <3>2, <3>3, <1>1, <1>2, <1>3, <1>4
  <2>2. down[HdrLen + i] = <<src, HdrLen + i>>
    BY <1>2, <2>1
  <2>3. Installed(src)[i] = <<src, HdrLen + i>>
    BY <1>2, <2>1, InstalledCells
  <2> QED
    BY <2>1, <2>2, <2>3 DEF Place
<1>6. BodyPage = Programmed(app, data, region)
  BY DEF BodyPage
<1>7. BodyPage \in Memory(AppCells) /\ Partial(BodyPage, src)
  <2> HIDE DEF data, region
  <2> QED
    BY <1>1, <1>2, <1>5, <1>6, ProgramPartial
<1>8. \A m \in Torn(app, BodyPage) : m \in Memory(AppCells) /\ Partial(m, src)
  BY <1>1, <1>2, <1>7, TornPartial
<1> QED
  BY <1>3, <1>4, <1>7, <1>8

(* A page of the header, programmed or torn. *)
LEMMA HeaderPageFacts ==
  ASSUME Inv, pc = "header"
  PROVE  /\ PageStep(AppLen) \in Nat /\ at + PageStep(AppLen) <= AppLen
         /\ \A m \in {HeaderPage} \cup Torn(app, HeaderPage) :
              m \in Memory(AppCells) /\ Partial(m, src)
<1>1. /\ at \in Nat /\ AppLen - HdrLen <= at /\ at < AppLen
      /\ Partial(app, src) /\ app \in Memory(AppCells) /\ Usable(src)
  BY DEF Inv, TypeOK, Positions, Progress, PackageOutlivesCopy, Memory
<1>2. /\ src \in Firmware /\ RawSize[src] \in Nat
      /\ RawSize[src] + HdrLen <= AppLen
  BY <1>1, UsableFacts
<1>3. AppLen \in Nat /\ HdrLen \in Nat
  BY SizeAssumption
<1> DEFINE n == PageStep(AppLen)
<1>4. n \in Nat /\ at + n <= AppLen
  BY <1>1, <1>3, PageStepFacts
<1> DEFINE data == [i \in AppCells |-> <<src, i - (AppLen - HdrLen)>>]
           region == Cells(app, at, n)
<1>5. ASSUME NEW i \in AppCells, i \in region
      PROVE  i \in Place(src) /\ data[i] = Installed(src)[i]
  <2>1. i \in Nat
    BY <1>3 DEF AppCells
  <2>2. at <= i
    BY <1>5 DEF Cells
  <2>3. i >= AppLen - HdrLen
    BY <1>1, <1>3, <2>1, <2>2
  <2>4. Installed(src)[i] = <<src, i - (AppLen - HdrLen)>>
    BY <1>2, <2>3, InstalledCells
  <2> QED
    BY <2>3, <2>4 DEF Place
<1>6. HeaderPage = Programmed(app, data, region)
  BY DEF HeaderPage
<1>7. HeaderPage \in Memory(AppCells) /\ Partial(HeaderPage, src)
  <2> HIDE DEF data, region
  <2> QED
    BY <1>1, <1>2, <1>5, <1>6, ProgramPartial
<1>8. \A m \in Torn(app, HeaderPage) : m \in Memory(AppCells) /\ Partial(m, src)
  BY <1>1, <1>2, <1>7, TornPartial
<1> QED
  BY <1>4, <1>7, <1>8

(* A partial copy of f that passes the closing check is f, completely. *)
LEMMA CheckedIsComplete ==
  ASSUME NEW f \in Firmware, RawSize[f] + HdrLen <= AppLen,
         app \in Memory(AppCells), Partial(app, f),
         NEW h \in Firmware, AppHolds(h)
  PROVE  h = f /\ app = Installed(f)
<1>1. RawSize[f] \in Nat /\ RawSize[h] \in Nat /\ AppLen \in Nat /\ HdrLen \in Nat \ {0}
  BY FirmwareAssumption, SizeAssumption
<1>2. \A i \in 0 .. HdrLen - 1 : app[AppLen - HdrLen + i] = <<h, i>>
  BY DEF AppHolds, HeaderAt
<1>3. h = f
  <2>1. 0 \in 0 .. HdrLen - 1 /\ AppLen - HdrLen \in AppCells /\ AppLen - HdrLen + 0 = AppLen - HdrLen
    BY <1>1 DEF AppCells
  <2>2. app[AppLen - HdrLen] = <<h, 0>>
    BY <1>2, <2>1
  <2>3. app[AppLen - HdrLen] \notin {Erased, Garbage}
    BY <2>2, PackageCells
  <2>4. Installed(f)[AppLen - HdrLen] = <<f, (AppLen - HdrLen) - (AppLen - HdrLen)>>
    BY <1>1, <2>1, InstalledCells
  <2>5. app[AppLen - HdrLen] = Installed(f)[AppLen - HdrLen]
    BY <2>1, <2>3 DEF Partial
  <2> QED
    BY <2>2, <2>4, <2>5
<1>4. \A i \in 0 .. RawSize[f] - 1 : app[i] = <<f, HdrLen + i>>
  <2>1. \A i \in 0 .. RawSize[f] - 1 : app[0 + i] = <<f, HdrLen + i>>
    BY <1>3 DEF AppHolds, BodyAt
  <2> QED
    BY <2>1, <1>1
<1>5. ASSUME NEW i \in AppCells
      PROVE  app[i] = Installed(f)[i]
  <2>1. i \in Nat /\ i < AppLen
    BY <1>1 DEF AppCells
  <2>2. CASE i < RawSize[f]
    BY <1>1, <1>4, <2>1, <2>2, InstalledCells
  <2>3. CASE i >= AppLen - HdrLen
    <3>1. i - (AppLen - HdrLen) \in 0 .. HdrLen - 1 /\ AppLen - HdrLen + (i - (AppLen - HdrLen)) = i
      BY <1>1, <2>1, <2>3
    <3>2. app[i] = <<f, i - (AppLen - HdrLen)>>
      BY <1>2, <1>3, <3>1
    <3> QED
      BY <2>3, <3>2, InstalledCells
  <2>4. CASE ~(i < RawSize[f]) /\ ~(i >= AppLen - HdrLen)
    BY <2>4 DEF Partial, Place
  <2> QED
    BY <2>2, <2>3, <2>4
<1>6. Installed(f) \in Memory(AppCells)
  BY InstalledCells
<1> QED
  BY <1>3, <1>5, <1>6 DEF Memory

(***************************************************************************)
(* The invariant                                                           *)
(***************************************************************************)

(* While the download partition and the choice stay, so does usability. *)
LEMMA UsableStable ==
  ASSUME UNCHANGED <<down, src>>
  PROVE  /\ Usable(src)' <=> Usable(src)
         /\ \A f \in Firmware : Usable(f)' <=> Usable(f)
BY DEF Usable, DownloadHolds, HeaderAt, BodyAt

(* The reset state satisfies the invariant. *)
LEMMA InitInv == Init => Inv
<1> SUFFICES ASSUME Init PROVE Inv
  OBVIOUS
<1>1. TypeOK
  <2>1. app \in [AppCells -> Cell]
    BY DeliveryAssumption DEF Init
  <2>2. down \in [DownCells -> Cell]
    BY DEF Init, Cell
  <2>3. bkp \in BOOLEAN /\ remain \in BOOLEAN /\ pc \in PC /\ src \in Firmware \cup {None}
    BY DEF Init, PC
  <2>4. total \in Nat /\ at \in Nat /\ faults \in 0 .. MaxFaults
    BY SizeAssumption DEF Init
  <2> QED
    BY <2>1, <2>2, <2>3, <2>4 DEF TypeOK
<1> QED
  BY <1>1 DEF Init, Inv, PackageOutlivesCopy, Positions, Progress, Settled

(* Reset, the session and the deliveries, before and after the update step. *)
LEMMA SessionInv ==
  ASSUME Inv, ResetHandler \/ SyncTimeout \/ Environment
  PROVE  Inv'
<1>1. TypeOK'
  <2>1. TypeOK
    BY DEF Inv
  <2>2. \A d \in Deliveries : d \in [DownCells -> Cell]
    BY DeliveryAssumption
  <2>3. \A a \in RawImages : a \in [AppCells -> Cell]
    BY DeliveryAssumption
  <2>4. app' \in [AppCells -> Cell]
    BY <2>1, <2>3 DEF TypeOK, ResetHandler, SyncTimeout, Environment, Sync, Quit, Deliver,
                      DeliverRaw, SdCardUpdate, AppReset
  <2>5. down' \in [DownCells -> Cell]
    BY <2>1, <2>2 DEF TypeOK, ResetHandler, SyncTimeout, Environment, Sync, Quit, Deliver,
                      DeliverRaw, SdCardUpdate, AppReset
  <2>6. bkp' \in BOOLEAN /\ remain' \in BOOLEAN
    BY <2>1 DEF TypeOK, ResetHandler, SyncTimeout, Environment, Sync, Quit, Deliver,
                DeliverRaw, SdCardUpdate, AppReset
  <2>7. /\ pc' \in PC /\ src' \in Firmware \cup {None}
        /\ total' \in Nat /\ at' \in Nat /\ faults' \in 0 .. MaxFaults
    BY <2>1 DEF TypeOK, PC, ResetHandler, SyncTimeout, Environment, Sync, Quit, Deliver,
                DeliverRaw, SdCardUpdate, AppReset
  <2> QED
    BY <2>4, <2>5, <2>6, <2>7 DEF TypeOK
<1>2. pc' \in {"app", "session", "check", "reset"} /\ ~bkp'
  BY DEF Inv, Settled, ResetHandler, SyncTimeout, Environment, Sync, Quit, Deliver,
         DeliverRaw, SdCardUpdate, AppReset
<1> QED
  BY <1>1, <1>2 DEF Inv, PackageOutlivesCopy, Positions, Progress, Settled

(* The decision. *)
LEMMA CheckInv ==
  ASSUME Inv, CheckDownload
  PROVE  Inv'
<1>1. TypeOK'
  BY DEF Inv, TypeOK, PC, CheckDownload
<1>2. ~bkp' /\ UNCHANGED <<app, down>>
  BY DEF Inv, Settled, CheckDownload
<1>3. CASE ~ \E f \in Firmware : DownloadHolds(f)
  <2>1. pc' = "enable"
    BY <1>3 DEF CheckDownload
  <2>2. \A f \in Firmware : ~Usable(f)'
    BY <1>2, <1>3 DEF Usable, DownloadHolds, HeaderAt, BodyAt
  <2> QED
    BY <1>1, <1>2, <2>1, <2>2
    DEF Inv, PackageOutlivesCopy, Positions, Progress, Settled, NothingPending
<1>4. ASSUME NEW f \in Firmware, DownloadHolds(f), src' = f,
             pc' = IF Fits(f) THEN "eraseApp" ELSE "eraseDown"
      PROVE  Inv'
  <2>1. CASE Fits(f)
    <3>1. Usable(f) /\ pc' = "eraseApp" /\ at' = 0 /\ total' = 0
      BY <1>4, <2>1, FitsExact DEF Usable, CheckDownload
    <3>2. Usable(src)'
      BY <1>2, <1>4, <3>1 DEF Usable, DownloadHolds, HeaderAt, BodyAt
    <3>3. Progress'
      BY <3>1, SizeAssumption DEF Progress, AppCells
    <3> QED
      BY <1>1, <1>2, <3>1, <3>2, <3>3 DEF Inv, PackageOutlivesCopy, Positions, Settled
  <2>2. CASE ~Fits(f)
    <3>1. pc' = "eraseDown"
      BY <1>4, <2>2
    <3>2. \A h \in Firmware : ~Usable(h)
      <4> SUFFICES ASSUME NEW h \in Firmware, Usable(h) PROVE FALSE
        OBVIOUS
      <4>1. h = f
        BY <1>4, OneUsable
      <4> QED
        BY <1>4, <2>2, <4>1, FitsExact DEF Usable
    <3>3. \A h \in Firmware : ~Usable(h)'
      BY <1>2, <3>2 DEF Usable, DownloadHolds, HeaderAt, BodyAt
    <3> QED
      BY <1>1, <1>2, <3>1, <3>3
      DEF Inv, PackageOutlivesCopy, Positions, Progress, Settled, NothingPending
  <2> QED
    BY <2>1, <2>2
<1> QED
  BY <1>3, <1>4 DEF CheckDownload

(* The erase of the app partition. *)
LEMMA EraseAppInv ==
  ASSUME Inv, EraseAppSector
  PROVE  Inv'
<1>1. /\ app \in Memory(AppCells) /\ at \in Nat /\ Usable(src) /\ ~bkp
      /\ \A i \in AppCells : i < at => app[i] = Erased
  BY DEF Inv, TypeOK, PackageOutlivesCopy, Progress, Settled, EraseAppSector, Memory
<1>2. src \in Firmware /\ RawSize[src] + HdrLen <= AppLen /\ RawSize[src] > 0
  BY <1>1, UsableFacts
<1>3. Usable(src)' /\ ~bkp' /\ src' = src /\ total' = total
  BY <1>1, UsableStable DEF EraseAppSector
<1> DEFINE region == Cells(app, at, SectorLen)
<1>4. /\ SectorOf(app) \in Memory(AppCells)
      /\ \A i \in AppCells : SectorOf(app)[i] = IF i \in region THEN Erased ELSE app[i]
  <2>1. SectorOf(app) = Wiped(app, region)
    BY DEF SectorOf
  <2> HIDE DEF region
  <2> QED
    BY <1>1, <2>1, WipedCells
<1>5. CASE RomFails(app, SectorOf(app)) /\ pc' = "restart" /\ UNCHANGED at
  <2>1. app' \in Memory(AppCells)
    BY <1>1, <1>4, <1>5, TornCells DEF RomFails
  <2>2. TypeOK'
    BY <1>5, <2>1, SizeAssumption DEF Inv, TypeOK, PC, EraseAppSector, RomFails, Memory
  <2> QED
    BY <1>3, <1>5, <2>2 DEF Inv, PackageOutlivesCopy, Positions, Progress, Settled
<1>6. CASE /\ RomSucceeds(app, SectorOf(app)) /\ at' = at + SectorLen
           /\ pc' = IF at + SectorLen < AppLen THEN "eraseApp" ELSE "read"
  <2>1. SectorLen \in Nat /\ AppLen \in Nat
    BY SizeAssumption
  <2>2. TypeOK'
    BY <1>4, <1>6, <2>1 DEF Inv, TypeOK, PC, EraseAppSector, RomSucceeds, Memory
  <2>3. \A i \in AppCells : i < at + SectorLen => app'[i] = Erased
    <3> SUFFICES ASSUME NEW i \in AppCells, i < at + SectorLen PROVE app'[i] = Erased
      OBVIOUS
    <3>1. i \in Nat /\ DOMAIN app = AppCells
      BY <1>1, <2>1 DEF AppCells, Memory
    <3>2. i < at \/ i \in region
      BY <1>1, <3>1 DEF Cells
    <3>3. app'[i] = IF i \in region THEN Erased ELSE app[i]
      BY <1>4, <1>6 DEF RomSucceeds
    <3> HIDE DEF region
    <3> QED
      BY <1>1, <3>2, <3>3
  <2>4. Progress'
    <3>1. CASE at + SectorLen < AppLen
      BY <1>6, <2>3, <3>1 DEF Progress
    <3>2. CASE ~(at + SectorLen < AppLen)
      <4>1. \A i \in AppCells : app'[i] = Erased
        BY <1>1, <2>1, <2>3, <3>2 DEF AppCells
      <4>2. Partial(app', src)
        BY <1>2, <4>1, InstalledCells DEF Partial
      <4> QED
        BY <1>3, <1>6, <3>2, <4>2 DEF Progress
    <3> QED
      BY <3>1, <3>2
  <2>5. Positions'
    <3>1. total = 0
      BY DEF Inv, Positions, EraseAppSector
    <3> QED
      BY <1>2, <1>3, <1>6, <3>1 DEF Positions
  <2> QED
    BY <1>3, <1>6, <2>2, <2>4, <2>5 DEF Inv, PackageOutlivesCopy, Settled
<1> QED
  BY <1>5, <1>6 DEF EraseAppSector
(* The next chunk is always there to be read. *)
LEMMA ReadInv ==
  ASSUME Inv, ReadChunk
  PROVE  Inv'
<1>1. /\ total \in Nat /\ total < RawSize[src] /\ Usable(src) /\ ~bkp /\ Partial(app, src)
  BY DEF Inv, TypeOK, PackageOutlivesCopy, Positions, Progress, Settled, ReadChunk
<1>2. src \in Firmware /\ RawSize[src] \in Nat /\ RawSize[src] + HdrLen <= DownLen
  BY <1>1, UsableFacts
<1>3. ChunkLen \in Nat /\ ChunkLen > 0 /\ total + ChunkLen <= RawSize[src]
  BY <1>1, <1>2, ChunkFacts
<1>4. pc' = "program" /\ at' = total
  <2>1. HdrLen \in Nat /\ DownLen \in Nat
    BY SizeAssumption
  <2>2. HdrLen + total + ChunkLen <= DownLen
    BY <1>1, <1>2, <1>3, <2>1
  <2> QED
    BY <1>3, <2>2 DEF ReadChunk
<1>5. UNCHANGED <<app, down, bkp, src, total>>
  BY DEF ReadChunk
<1>6. TypeOK'
  BY <1>1, <1>4 DEF Inv, TypeOK, PC, ReadChunk
<1>7. Positions'
  <2>1. ChunkLen' = ChunkLen
    BY <1>5 DEF ChunkLen
  <2> QED
    BY <1>1, <1>3, <1>4, <1>5, <2>1 DEF Positions
<1>8. Usable(src)' /\ Partial(app, src)'
  BY <1>1, <1>5, UsableStable DEF Partial
<1> QED
  BY <1>1, <1>4, <1>5, <1>6, <1>7, <1>8
  DEF Inv, PackageOutlivesCopy, Progress, Settled

(* A page of the body: programmed, failed, or failed and unnoticed. *)
LEMMA BodyInv ==
  ASSUME Inv, ProgramBodyPage
  PROVE  Inv'
<1> DEFINE n == PageStep(total + ChunkLen)
<1>1. /\ total \in Nat /\ at \in Nat /\ Usable(src) /\ ~bkp
      /\ total <= at /\ at < total + ChunkLen /\ total < RawSize[src]
  BY DEF Inv, TypeOK, PackageOutlivesCopy, Positions, Settled, ProgramBodyPage
<1>2. /\ src \in Firmware /\ RawSize[src] \in Nat
      /\ RawSize[src] + HdrLen <= AppLen
  BY <1>1, UsableFacts
<1>3. /\ n \in Nat /\ n > 0 /\ at + n <= total + ChunkLen
      /\ ChunkLen \in Nat /\ total + ChunkLen <= RawSize[src]
      /\ \A m \in {BodyPage} \cup Torn(app, BodyPage) :
           m \in Memory(AppCells) /\ Partial(m, src)
  BY BodyPageFacts DEF ProgramBodyPage
<1>4. UNCHANGED <<down, bkp, remain, src>>
  BY DEF ProgramBodyPage
<1>5. app' \in {BodyPage} \cup Torn(app, BodyPage) /\ faults' \in 0 .. MaxFaults
  BY SizeAssumption DEF Inv, TypeOK, ProgramBodyPage, RomSucceeds, RomFails
<1>6. app' \in Memory(AppCells) /\ Partial(app', src')
  BY <1>3, <1>4, <1>5
<1>7. Usable(src)' /\ ~bkp'
  BY <1>1, <1>4, UsableStable
<1>8. CASE AfterBodyPage
  <2>1. CASE at + n < total + ChunkLen
    <3>1. pc' = "program" /\ at' = at + n /\ total' = total
      BY <1>8, <2>1 DEF AfterBodyPage, ProgramBodyPage
    <3>2. ChunkLen' = ChunkLen
      BY <1>4, <3>1 DEF ChunkLen
    <3>3. Positions'
      BY <1>1, <1>3, <1>4, <2>1, <3>1, <3>2 DEF Positions
    <3>4. TypeOK'
      BY <1>1, <1>3, <1>4, <1>5, <1>6, <3>1 DEF Inv, TypeOK, PC, Memory
    <3> QED
      BY <1>6, <1>7, <3>1, <3>3, <3>4 DEF Inv, PackageOutlivesCopy, Progress, Settled
  <2>2. CASE ~(at + n < total + ChunkLen)
    <3>1. total' = total + ChunkLen
      BY <1>8, <2>2 DEF AfterBodyPage
    <3>2. CASE total + ChunkLen < RawSize[src]
      <4>1. pc' = "read" /\ at' = at + n
        BY <1>8, <2>2, <3>2 DEF AfterBodyPage
      <4>2. TypeOK'
        BY <1>1, <1>3, <1>4, <1>5, <1>6, <3>1, <4>1 DEF Inv, TypeOK, PC, Memory
      <4>3. Positions'
        BY <1>4, <3>1, <3>2, <4>1 DEF Positions
      <4> QED
        BY <1>6, <1>7, <4>1, <4>2, <4>3 DEF Inv, PackageOutlivesCopy, Progress, Settled
    <3>3. CASE ~(total + ChunkLen < RawSize[src])
      <4>1. pc' = "header" /\ at' = AppLen - HdrLen
        BY <1>8, <2>2, <3>3 DEF AfterBodyPage
      <4>2. /\ AppLen \in Nat /\ HdrLen \in Nat \ {0} /\ HdrLen <= AppLen
            /\ AppLen - HdrLen \in Nat /\ AppLen - HdrLen < AppLen
        BY SizeAssumption
      <4>3. TypeOK'
        BY <1>1, <1>3, <1>4, <1>5, <1>6, <3>1, <4>1, <4>2 DEF Inv, TypeOK, PC, Memory
      <4>4. Positions'
        BY <4>1, <4>2 DEF Positions
      <4> QED
        BY <1>6, <1>7, <4>1, <4>3, <4>4 DEF Inv, PackageOutlivesCopy, Progress, Settled
    <3> QED
      BY <3>2, <3>3
  <2> QED
    BY <2>1, <2>2
<1>9. CASE pc' = "restart" /\ UNCHANGED <<at, total>>
  <2>1. TypeOK'
    BY <1>4, <1>5, <1>6, <1>9 DEF Inv, TypeOK, PC, Memory
  <2> QED
    BY <1>7, <1>9, <2>1 DEF Inv, PackageOutlivesCopy, Positions, Progress, Settled
<1> QED
  BY <1>8, <1>9 DEF ProgramBodyPage

(* A page of the header. *)
LEMMA HeaderInv ==
  ASSUME Inv, ProgramHeaderPage
  PROVE  Inv'
<1> DEFINE n == PageStep(AppLen)
<1>1. /\ at \in Nat /\ Usable(src) /\ ~bkp /\ AppLen - HdrLen <= at
  BY DEF Inv, TypeOK, PackageOutlivesCopy, Positions, Settled, ProgramHeaderPage
<1>2. /\ n \in Nat /\ at + n <= AppLen
      /\ \A m \in {HeaderPage} \cup Torn(app, HeaderPage) :
           m \in Memory(AppCells) /\ Partial(m, src)
  BY HeaderPageFacts DEF ProgramHeaderPage
<1>3. UNCHANGED <<down, bkp, remain, src, total>>
  BY DEF ProgramHeaderPage
<1>4. app' \in {HeaderPage} \cup Torn(app, HeaderPage) /\ faults' \in 0 .. MaxFaults
  BY SizeAssumption DEF Inv, TypeOK, ProgramHeaderPage, RomSucceeds, RomFails
<1>5. app' \in Memory(AppCells) /\ Partial(app', src')
  BY <1>2, <1>3, <1>4
<1>6. Usable(src)' /\ ~bkp'
  BY <1>1, <1>3, UsableStable
<1>7. CASE AfterHeaderPage
  <2>1. at' = at + n /\ pc' = IF at' < AppLen THEN "header" ELSE "verify"
    BY <1>7 DEF AfterHeaderPage
  <2>2. at' \in Nat /\ AppLen - HdrLen <= at' /\ AppLen \in Nat /\ HdrLen \in Nat
    BY <1>1, <1>2, <2>1, SizeAssumption
  <2>3. TypeOK'
    BY <1>3, <1>4, <1>5, <2>1, <2>2 DEF Inv, TypeOK, PC, Memory
  <2>4. Positions'
    BY <2>1, <2>2 DEF Positions
  <2> QED
    BY <1>5, <1>6, <2>1, <2>3, <2>4 DEF Inv, PackageOutlivesCopy, Progress, Settled
<1>8. CASE pc' = "restart" /\ UNCHANGED at
  <2>1. TypeOK'
    BY <1>3, <1>4, <1>5, <1>8 DEF Inv, TypeOK, PC, Memory
  <2> QED
    BY <1>6, <1>8, <2>1 DEF Inv, PackageOutlivesCopy, Positions, Progress, Settled
<1> QED
  BY <1>7, <1>8 DEF ProgramHeaderPage
(* The closing check passes for the package's firmware, or sends the       *)
(* device round again.                                                     *)
LEMMA VerifyInv ==
  ASSUME Inv, Verify
  PROVE  Inv'
<1>1. /\ Usable(src) /\ ~bkp /\ Partial(app, src) /\ app \in Memory(AppCells)
  BY DEF Inv, TypeOK, PackageOutlivesCopy, Progress, Settled, Verify, Memory
<1>2. UNCHANGED <<app, down, bkp, src>>
  BY DEF Verify
<1>3. TypeOK'
  BY DEF Inv, TypeOK, PC, Verify
<1>4. CASE \E f \in Firmware : AppHolds(f)
  <2>1. src \in Firmware /\ RawSize[src] + HdrLen <= AppLen
    BY <1>1, UsableFacts
  <2>2. app = Installed(src)
    BY <1>1, <1>4, <2>1, CheckedIsComplete
  <2>3. \A f \in Firmware : Usable(f) => f = src
    BY <1>1, OneUsable DEF Usable
  <2>4. NothingPending'
    BY <1>2, <2>2, <2>3, UsableStable DEF NothingPending
  <2> QED
    BY <1>2, <1>3, <1>4, <2>4
    DEF Verify, Inv, PackageOutlivesCopy, Positions, Progress, Settled
<1>5. CASE ~ \E f \in Firmware : AppHolds(f)
  <2>1. Usable(src)' /\ ~bkp'
    BY <1>1, <1>2, UsableStable
  <2> QED
    BY <1>3, <1>5, <2>1
    DEF Verify, Inv, PackageOutlivesCopy, Positions, Progress, Settled
<1> QED
  BY <1>4, <1>5

(* Taking cells away from the download partition makes no package usable   *)
(* that was not.                                                           *)
LEMMA ErasingHides ==
  ASSUME \A i \in DownCells : down'[i] \in {down[i], Erased, Garbage},
         NEW f \in Firmware, Usable(f)'
  PROVE  Usable(f)
<1>1. /\ HdrLen \in Nat \ {0} /\ DownLen \in Nat /\ HdrLen <= DownLen
      /\ RawSize[f] \in Nat
  BY SizeAssumption, FirmwareAssumption
<1>2. /\ \A i \in 0 .. HdrLen - 1 : down'[0 + i] = <<f, i>>
      /\ \A i \in 0 .. RawSize[f] - 1 : down'[HdrLen + i] = <<f, HdrLen + i>>
      /\ f \in Supported /\ RawSize[f] > 0
      /\ RawSize[f] + HdrLen <= DownLen /\ RawSize[f] + HdrLen <= AppLen
  BY DEF Usable, DownloadHolds, HeaderAt, BodyAt
<1>3. ASSUME NEW i \in DownCells, down'[i] = <<f, i>>
      PROVE  down[i] = <<f, i>>
  <2>1. i \in Nat
    BY <1>1 DEF DownCells
  <2>2. down'[i] \notin {Erased, Garbage}
    BY <1>3, <2>1, PackageCells
  <2> QED
    BY <1>3, <2>2
<1>4. \A i \in 0 .. HdrLen - 1 : down[0 + i] = <<f, i>>
  <2> TAKE i \in 0 .. HdrLen - 1
  <2>1. 0 + i = i /\ i \in DownCells
    BY <1>1 DEF DownCells
  <2>2. down'[i] = <<f, i>>
    BY <1>2, <2>1
  <2> QED
    BY <1>3, <2>1, <2>2
<1>5. \A i \in 0 .. RawSize[f] - 1 : down[HdrLen + i] = <<f, HdrLen + i>>
  <2> TAKE i \in 0 .. RawSize[f] - 1
  <2>1. HdrLen + i \in DownCells
    BY <1>1, <1>2 DEF DownCells
  <2>2. down'[HdrLen + i] = <<f, HdrLen + i>>
    BY <1>2
  <2> QED
    BY <1>3, <2>1, <2>2
<1> QED
  BY <1>2, <1>4, <1>5 DEF Usable, DownloadHolds, HeaderAt, BodyAt

(* A sector of the download partition, erased or torn. *)
LEMMA DownSectorFacts ==
  ASSUME Inv, NEW m \in {SectorOf(down)} \cup Torn(down, SectorOf(down))
  PROVE  /\ m \in Memory(DownCells)
         /\ \A i \in DownCells : m[i] \in {down[i], Erased, Garbage}
<1> DEFINE region == Cells(down, at, SectorLen)
<1>1. down \in Memory(DownCells)
  BY DEF Inv, TypeOK, Memory
<1>2. /\ SectorOf(down) \in Memory(DownCells)
      /\ \A i \in DownCells : SectorOf(down)[i] = IF i \in region THEN Erased ELSE down[i]
  <2>1. SectorOf(down) = Wiped(down, region)
    BY DEF SectorOf
  <2> HIDE DEF region
  <2> QED
    BY <1>1, <2>1, WipedCells
<1>3. CASE m = SectorOf(down)
  BY <1>2, <1>3
<1>4. CASE m \in Torn(down, SectorOf(down))
  <2>1. /\ m \in Memory(DownCells)
        /\ \A i \in DownCells : m[i] \in {down[i], SectorOf(down)[i], Garbage}
    BY <1>1, <1>2, <1>4, TornCells
  <2> HIDE DEF region
  <2> QED
    BY <1>2, <2>1
<1> QED
  BY <1>3, <1>4

(* The erase of the download partition, whatever becomes of it. *)
LEMMA EraseDownInv ==
  ASSUME Inv, EraseDownSector
  PROVE  Inv'
<1>1. ~bkp /\ NothingPending /\ at \in Nat
  BY DEF Inv, TypeOK, Settled, EraseDownSector
<1>2. UNCHANGED <<app, bkp, remain, src, total>>
  BY DEF EraseDownSector
<1>3. down' \in {SectorOf(down)} \cup Torn(down, SectorOf(down))
  BY DEF EraseDownSector, RomSucceeds, RomFails
<1>4. down' \in Memory(DownCells) /\ \A i \in DownCells : down'[i] \in {down[i], Erased, Garbage}
  BY <1>3, DownSectorFacts
<1>5. NothingPending'
  <2> SUFFICES ASSUME NEW f \in Firmware, Usable(f)' PROVE app' = Installed(f)
    BY DEF NothingPending, Installed
  <2>1. Usable(f)
    BY <1>4, ErasingHides
  <2> QED
    BY <1>1, <1>2, <2>1 DEF NothingPending
<1>6. pc' \in {"eraseDown", "enable"} /\ at' \in Nat /\ faults' \in 0 .. MaxFaults
  <2>1. SectorLen \in Nat
    BY SizeAssumption
  <2> QED
    BY <1>1, <2>1, SizeAssumption DEF Inv, TypeOK, EraseDownSector, RomSucceeds, RomFails
<1>7. TypeOK'
  BY <1>2, <1>4, <1>6 DEF Inv, TypeOK, PC, Memory
<1> QED
  BY <1>1, <1>2, <1>5, <1>6, <1>7 DEF Inv, PackageOutlivesCopy, Positions, Progress, Settled

(* The two ways back to the reset. *)
LEMMA BackInv ==
  ASSUME Inv, EnableApp \/ Restart
  PROVE  Inv'
<1>1. UNCHANGED <<app, down, remain, src, total, at, faults>> /\ pc' = "reset"
  BY DEF EnableApp, Restart
<1>2. bkp' \in BOOLEAN
  BY DEF Inv, TypeOK, EnableApp, Restart
<1>3. TypeOK'
  BY <1>1, <1>2 DEF Inv, TypeOK, PC
<1>4. bkp' => NothingPending'
  <2>1. bkp' => NothingPending
    BY DEF Inv, Settled, EnableApp, Restart
  <2> QED
    BY <1>1, <2>1, UsableStable DEF NothingPending
<1> QED
  BY <1>1, <1>3, <1>4 DEF Inv, PackageOutlivesCopy, Positions, Progress, Settled

(* A power loss, at any place. *)
LEMMA PowerLossInv ==
  ASSUME Inv, PowerLoss
  PROVE  Inv'
<1>1. /\ app \in Memory(AppCells) /\ down \in Memory(DownCells)
      /\ faults' \in 0 .. MaxFaults /\ pc' = "reset" /\ UNCHANGED <<remain, src, total, at>>
  <2>1. /\ faults < MaxFaults /\ faults' = faults + 1
        /\ pc' = "reset" /\ UNCHANGED <<remain, src, total, at>>
    BY DEF PowerLoss
  <2> QED
    BY <2>1, SizeAssumption DEF Inv, TypeOK, Memory
<1>2. bkp' \in BOOLEAN /\ (bkp' => bkp)
  <2>1. bkp \in BOOLEAN
    BY DEF Inv, TypeOK
  <2>2. CASE bkp' = bkp
    BY <2>1, <2>2
  <2>3. CASE bkp' = FALSE
    BY <2>3
  <2> QED
    BY <2>2, <2>3 DEF PowerLoss
<1>3. app' \in Memory(AppCells) /\ down' \in Memory(DownCells)
  <2>1. CASE pc = "eraseApp"
    <3>1. app' \in Torn(app, SectorOf(app)) /\ down' = down
      BY <2>1 DEF PowerLoss
    <3>2. SectorOf(app) \in Memory(AppCells)
      BY <1>1, WipedCells DEF SectorOf
    <3> QED
      BY <1>1, <3>1, <3>2, TornCells
  <2>2. CASE pc = "program"
    <3>1. app' \in Torn(app, BodyPage) /\ down' = down
      BY <2>2 DEF PowerLoss
    <3> QED
      BY <1>1, <2>2, <3>1, BodyPageFacts
  <2>3. CASE pc = "header"
    <3>1. app' \in Torn(app, HeaderPage) /\ down' = down
      BY <2>3 DEF PowerLoss
    <3> QED
      BY <1>1, <2>3, <3>1, HeaderPageFacts
  <2>4. CASE pc = "eraseDown"
    <3>1. down' \in Torn(down, SectorOf(down)) /\ app' = app
      BY <2>4 DEF PowerLoss
    <3> QED
      BY <1>1, <3>1, DownSectorFacts
  <2>5. CASE pc \notin {"eraseApp", "program", "header", "eraseDown"}
    BY <1>1, <2>5 DEF PowerLoss
  <2> QED
    BY <2>1, <2>2, <2>3, <2>4, <2>5
<1>4. bkp' => NothingPending'
  <2> SUFFICES ASSUME bkp' PROVE NothingPending'
    OBVIOUS
  <2>1. pc = "reset" /\ NothingPending
    BY <1>2 DEF Inv, Settled
  <2>2. UNCHANGED <<app, down, src>>
    BY <2>1 DEF PowerLoss
  <2> QED
    BY <2>1, <2>2, UsableStable DEF NothingPending
<1>5. TypeOK'
  BY <1>1, <1>2, <1>3 DEF Inv, TypeOK, PC, Memory
<1> QED
  BY <1>1, <1>4, <1>5 DEF Inv, PackageOutlivesCopy, Positions, Progress, Settled

(* Every step preserves the invariant. *)
LEMMA StepInv == Inv /\ [Next]_vars => Inv'
<1> SUFFICES ASSUME Inv, [Next]_vars PROVE Inv'
  OBVIOUS
<1>1. CASE UNCHANGED vars
  BY <1>1 DEF vars, Inv, TypeOK, PackageOutlivesCopy, Positions, Progress, Settled,
              NothingPending, Partial, Installed, ChunkLen,
              Usable, DownloadHolds, HeaderAt, BodyAt
<1>2. CASE ResetHandler \/ SyncTimeout \/ Environment
  BY <1>2, SessionInv
<1>3. CASE Update
  BY <1>3, CheckInv, EraseAppInv, ReadInv, BodyInv, HeaderInv, VerifyInv, EraseDownInv, BackInv
  DEF Update
<1>4. CASE PowerLoss
  BY <1>4, PowerLossInv
<1> QED
  BY <1>1, <1>2, <1>3, <1>4 DEF Next

(***************************************************************************)
(* Theorems                                                                *)
(***************************************************************************)

(* The invariant holds in every reachable state. *)
THEOREM Invariance == Spec => []Inv
BY InitInv, StepInv, PTL DEF Spec

(* Types: no address of a flash loop and no length ever leaves its range.  *)
THEOREM TypeCorrect == Spec => []TypeOK
<1>1. Inv => TypeOK
  BY DEF Inv
<1> QED
  BY <1>1, Invariance, PTL

(* The package outlives the copy: from the erase of the app partition to   *)
(* the end of the closing check, and on the way to the next attempt, the   *)
(* download partition holds the complete package (boot.c's firm_upgrade    *)
(* with the UPDATE step of system.c).                                      *)
THEOREM PackageSafe == Spec => []PackageOutlivesCopy
<1>1. Inv => PackageOutlivesCopy
  BY DEF Inv
<1> QED
  BY <1>1, Invariance, PTL

(* The mark in the backup register is set only when the app partition      *)
(* holds what should run (boot_app_enable, boot_start_application).        *)
THEOREM MarkSafe == Spec => []MarkMeansInstalled
<1>1. Inv => MarkMeansInstalled
  BY EffectiveOfSettled DEF Inv, Settled, MarkMeansInstalled
<1> QED
  BY <1>1, Invariance, PTL
(***************************************************************************)
(* The refinement                                                          *)
(***************************************************************************)

(* The effective image is a content of the app partition. *)
LEMMA EffectiveType == TypeOK => Effective \in [AppCells -> Cell]
<1> SUFFICES ASSUME TypeOK PROVE Effective \in [AppCells -> Cell]
  OBVIOUS
<1>1. CASE \E f \in Firmware : Usable(f)
  <2>1. PICK f \in Firmware : Usable(f)
    BY <1>1
  <2>2. RawSize[f] + HdrLen <= AppLen
    BY <2>1, UsableFacts
  <2> QED
    BY <2>1, <2>2, EffectiveOfUsable, InstalledCells DEF Memory
<1>2. CASE ~ \E f \in Firmware : Usable(f)
  BY <1>2 DEF Effective, TypeOK
<1> QED
  BY <1>1, <1>2

(* The same after a step. *)
LEMMA EffectiveTypeNext == (TypeOK => Effective \in [AppCells -> Cell])'
BY EffectiveType, PTL

(* A step that touches neither partition leaves the effective image. *)
LEMMA SameCells ==
  ASSUME UNCHANGED <<app, down>>
  PROVE  Effective' = Effective
BY DEF Effective, Installed, Usable, DownloadHolds, HeaderAt, BodyAt

(* Neither does a step on the app partition while the package is there. *)
LEMMA SameWhileCopying ==
  ASSUME Usable(src), UNCHANGED <<down, src>>
  PROVE  Effective' = Effective
<1>1. \A f : Usable(f)' <=> Usable(f)
  BY DEF Usable, DownloadHolds, HeaderAt, BodyAt
<1>2. \E f \in Firmware : Usable(f)
  BY UsableFacts
<1>3. Effective = Installed(CHOOSE f \in Firmware : Usable(f))
  BY <1>2 DEF Effective
<1>4. Effective' = Installed(CHOOSE f \in Firmware : Usable(f))
  BY <1>1, <1>2 DEF Effective, Installed
<1> QED
  BY <1>3, <1>4

(* EffectiveOfSettled after a step. *)
LEMMA EffectiveNext == (NothingPending => Effective = app)'
BY EffectiveOfSettled, PTL

(* Nor does one on the download partition when nothing is pending before   *)
(* it and after it.                                                        *)
LEMMA SameWhenSettled ==
  ASSUME NothingPending, NothingPending', UNCHANGED app
  PROVE  Effective' = Effective
BY EffectiveOfSettled, EffectiveNext

(* The steps of the loader that the abstract specification does not see:   *)
(* they stay inside the update step, or before a reset.                    *)
LEMMA StutterStep ==
  ASSUME Effective' = Effective, pc \notin {"app", "session"}, pc' \notin {"app", "session"}
  PROVE  UNCHANGED <<Effective, Phase, Running>>
BY DEF Phase, Running

(* The steps that end a session or an application's run, or begin neither. *)
LEMMA StopStep ==
  ASSUME Effective' = Effective, pc' \notin {"app", "session"}
  PROVE  Install!Stop
BY DEF Phase, Running, Install!Stop

(* The steps of the update are invisible to the abstract specification. *)
LEMMA UpdateStep ==
  ASSUME Inv, Inv', Update
  PROVE  UNCHANGED <<Effective, Phase, Running>>
<1>1. CASE CheckDownload \/ ReadChunk \/ Verify \/ EnableApp \/ Restart
  <2>1. UNCHANGED <<app, down>> /\ pc \notin {"app", "session"} /\ pc' \notin {"app", "session"}
    BY <1>1 DEF CheckDownload, ReadChunk, Verify, EnableApp, Restart
  <2> QED
    BY <2>1, SameCells, StutterStep
<1>2. CASE EraseAppSector \/ ProgramBodyPage \/ ProgramHeaderPage
  <2>1. UNCHANGED <<down, src>> /\ pc \in {"eraseApp", "program", "header"}
    BY <1>2 DEF EraseAppSector, ProgramBodyPage, ProgramHeaderPage
  <2>2. Usable(src)
    BY <2>1 DEF Inv, PackageOutlivesCopy
  <2>3. pc' \notin {"app", "session"}
    BY <1>2 DEF EraseAppSector, ProgramBodyPage, ProgramHeaderPage, AfterBodyPage, AfterHeaderPage
  <2> QED
    BY <2>1, <2>2, <2>3, SameWhileCopying, StutterStep
<1>3. CASE EraseDownSector
  <2>1. UNCHANGED app /\ pc = "eraseDown" /\ pc' \in {"eraseDown", "enable"}
    BY <1>3 DEF EraseDownSector
  <2>2. NothingPending /\ NothingPending'
    BY <2>1 DEF Inv, Settled
  <2> QED
    BY <2>1, <2>2, SameWhenSettled, StutterStep
<1> QED
  BY <1>1, <1>2, <1>3 DEF Update

(* A power loss stops what is running and leaves the effective image. *)
LEMMA PowerLossStep ==
  ASSUME Inv, Inv', PowerLoss
  PROVE  Install!Stop
<1>1. pc' = "reset"
  BY DEF PowerLoss
<1>2. Effective' = Effective
  <2>1. CASE pc \in {"eraseApp", "program", "header"}
    <3>1. UNCHANGED <<down, src>>
      BY <2>1 DEF PowerLoss
    <3>2. Usable(src)
      BY <2>1 DEF Inv, PackageOutlivesCopy
    <3> QED
      BY <3>1, <3>2, SameWhileCopying
  <2>2. CASE pc = "eraseDown"
    <3>1. UNCHANGED app /\ \A i \in DownCells : down'[i] \in {down[i], Erased, Garbage}
      BY <2>2, DownSectorFacts DEF PowerLoss
    <3>2. NothingPending
      BY <2>2 DEF Inv, Settled
    <3>3. NothingPending'
      <4> SUFFICES ASSUME NEW f \in Firmware, Usable(f)' PROVE app' = Installed(f)
        BY DEF NothingPending, Installed
      <4> QED
        BY <3>1, <3>2, ErasingHides DEF NothingPending
    <3> QED
      BY <3>1, <3>2, <3>3, SameWhenSettled
  <2>3. CASE pc \notin {"eraseApp", "program", "header", "eraseDown"}
    <3>1. UNCHANGED <<app, down>>
      BY <2>3 DEF PowerLoss
    <3> QED
      BY <3>1, SameCells
  <2> QED
    BY <2>1, <2>2, <2>3
<1> QED
  BY <1>1, <1>2, StopStep

(* Reset starts exactly the effective image, or opens a session. *)
LEMMA ResetStep ==
  ASSUME Inv, ResetHandler
  PROVE  Install!Start \/ Install!Open
<1>1. UNCHANGED <<app, down>> /\ pc = "reset"
  BY DEF ResetHandler
<1>2. Effective' = Effective
  BY <1>1, SameCells
<1>3. CASE bkp
  <2>1. pc' = "app" /\ Effective = app
    BY <1>3, EffectiveOfSettled DEF ResetHandler, Inv, Settled
  <2> QED
    BY <1>1, <1>2, <2>1 DEF Install!Start, Phase, Running
<1>4. CASE ~bkp
  <2>1. pc' = "session"
    BY <1>4 DEF ResetHandler
  <2> QED
    BY <1>1, <1>2, <2>1 DEF Install!Open, Phase, Running
<1> QED
  BY <1>3, <1>4

(* The session's steps publish an image, or stop. *)
LEMMA SessionStep ==
  ASSUME Inv, Inv', SyncTimeout \/ Environment
  PROVE  Install!Next \/ UNCHANGED <<Effective, Phase, Running>>
<1>1. Effective' \in [AppCells -> Cell]
  <2>1. (TypeOK => Effective \in [AppCells -> Cell])'
    BY EffectiveTypeNext
  <2> QED
    BY <2>1 DEF Inv
<1>2. CASE Sync
  <2>1. UNCHANGED <<app, down, pc>>
    BY <1>2 DEF Sync
  <2> QED
    BY <2>1, SameCells DEF Phase, Running
<1>3. CASE SyncTimeout \/ Quit \/ AppReset
  <2>1. UNCHANGED <<app, down>> /\ pc' \in {"check", "reset"}
    BY <1>3 DEF SyncTimeout, Quit, AppReset
  <2> QED
    BY <2>1, SameCells, StopStep DEF Install!Next
<1>4. CASE Deliver \/ DeliverRaw \/ SdCardUpdate
  <2>1. /\ pc \in {"app", "session"}
        /\ pc' = pc \/ (pc = "session" /\ pc' = "check")
        /\ pc = "app" => UNCHANGED app
    BY <1>4 DEF Deliver, DeliverRaw, SdCardUpdate
  <2> QED
    BY <1>1, <2>1 DEF Install!Next, Install!Publish, Phase, Running
<1> QED
  BY <1>2, <1>3, <1>4 DEF Environment

(* The loader implements the atomic installation of FirmwareInstall: no    *)
(* step of it, no failed flash operation and no power loss changes which   *)
(* image the device will run, and the jump to the application runs that    *)
(* image (boot.c and the UPDATE step of system.c).                         *)
THEOREM Refinement == Spec => InstallSpec
<1>1. Init => Install!Init
  <2> SUFFICES ASSUME Init PROVE Install!Init
    OBVIOUS
  <2>1. TypeOK
    BY InitInv DEF Inv
  <2> QED
    BY <2>1, EffectiveType DEF Init, Install!Init, Phase, Running
<1>2. Inv /\ Inv' /\ [Next]_vars => [Install!Next]_<<Effective, Phase, Running>>
  <2> SUFFICES ASSUME Inv, Inv', [Next]_vars
               PROVE  Install!Next \/ UNCHANGED <<Effective, Phase, Running>>
    OBVIOUS
  <2>1. CASE UNCHANGED vars
    <3>1. UNCHANGED <<app, down, pc>>
      BY <2>1 DEF vars
    <3> QED
      BY <3>1, SameCells DEF Phase, Running
  <2>2. CASE ResetHandler
    BY <2>2, ResetStep DEF Install!Next
  <2>3. CASE SyncTimeout \/ Environment
    BY <2>3, SessionStep
  <2>4. CASE Update
    BY <2>4, UpdateStep
  <2>5. CASE PowerLoss
    BY <2>5, PowerLossStep DEF Install!Next
  <2> QED
    BY <2>1, <2>2, <2>3, <2>4, <2>5 DEF Next
<1> QED
  BY <1>1, <1>2, Invariance, PTL DEF Spec, InstallSpec, Install!Spec
=============================================================================
