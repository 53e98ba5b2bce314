# The HPM6750 boot loader in TLA+

These modules describe the boot loader in `src/applications/` and
`src/board/fal_flash_port.c`, and the parts of the libraries it stands on: how
it decides which firmware to run, how it installs one page by page on a flash
that may fail under a supply that may drop, how a firmware gets into the device
over RS485, from a card or through a browser, and how the threads share the
flash the program itself executes from. TLC checks the modules on small
instances; TLAPS proves the main results for all of them.

## 1. The system

```
 reset_handler -> boot_start_application --mark set--> application
                          | no mark                       | may write the download
                          v                               | partition, resets
 main: loop { system_process }  <-------------------------+
   INIT -> WAIT_SYNC -> (asked to stay) BOOT_PROCESS -> UPDATE -> software reset,
              |                            |              ^       with or without
              | 500 ms                     | is_quit      |       the mark
              +----------------------------+--------------+
              +-- card found --> SDCARD ------------------+
   every pass of WAIT_SYNC and BOOT_PROCESS: iap_process, key_process, sdcard_check
 webnet thread: upload_open / upload_write / upload_done      (after WAIT_SYNC only)
 all of them -> fal partitions -> write/erase of fal_flash_port.c -> ROM calls
```

| component | state it keeps | operations | what is hard | what makes it correct |
|---|---|---|---|---|
| update step: `boot.c`, UPDATE in `system.c` | the `app` and `download` partitions, the mark `BOOT_BKP`, the loop positions | `boot_start_application`, `check_part_firm`, `firm_upgrade`, `boot_app_enable` | power loss or a failed flash operation anywhere; a mark that outlives resets; 32-bit sizes | the device only ever runs what was delivered last, all of it; it always gets there |
| main loop: `system.c`, `key.c`, `main.c` | `g_system`, `_pre_tick`, the key's `pre_state` and `tick_timeout` | one pass of `system_process`, `key_process` | the order of polls inside a pass, the wrap of the tick counter, a web thread that writes `is_quit` | it always decides; a session ends only for a reason; a held key is noticed, an unheld one is not |
| RS485 slave: `iap_slave.c` | `_iap_step`, `using_part`, `_total_len`, `_write_len`, `_write_packet`, `sync_cmd_cnt`, one partition at a time | SYNC, CHECK, START, WRITE, UPDATE | lost and late frames, repetitions, failed writes, a host that changes its mind | what the host was told is written is written; "already erased" is true; a transfer completes |
| RS485 reception: `iap.c`, the serial driver and the ring buffer under it | the controller's FIFO, the ring buffer with its mirror bits, the semaphore given by the interrupt, the 5000 byte receive buffer | `rs485_rx_ind` and the driver's interrupt, `rs485_receive`, `iap_process` | bytes that arrive between two steps or while a flash operation masks the interrupts, noise before a frame, the wrap of the ring | no byte is left waiting, none is lost but by an overrun, every intact frame is found |
| SD card: `sdcard.c` | `_check_step`, the file | `sdcard_check`, `sdcard_update` | the check needs two passes; short reads, a card pulled out, a failing flash | success means the file is stored; whatever is left, the update step can judge |
| check of a firmware: `boot.c`, `crc32.c` | the running CRC, the place in the partition | `check_part_firm`, `calc_part_firm_crc32` | pieces, an empty body, the table | only a whole firmware passes, and every whole one does |
| web upload: `web_update_firm.c`, `internal_web.c` | `file_size`, `update_ok`, `is_quit` | `upload_open`, `upload_write`, `upload_done`, the page's own test | variables shared by uploads, another writer on the same partition | an upload is whole or reported as failed |
| webnet's upload module: `wn_module_upload.c` | the session buffer | cutting the file out of a multipart request | a boundary split over two reads, what looks like one | the callbacks see the file, all of it, nothing else |
| fal partitions: `fal_partition.c`, `fal_flash.c` | the table, the data cache | `fal_init`, read, write, erase, erase_all | bounds with sizes that are rounded up; stale cache lines | calls keep to their partition, reads are fresh |
| flash port: `fal_flash_port.c` | the flash, the scheduler lock, the interrupt mask | `write`, `erase`, `FAL_ENTER_CRITICAL`, `FAL_EXIT_CRITICAL` | the code runs from the flash it writes; two threads; pages that start in the middle | the flash is never fetched from while busy; calls keep to their range and report failures |

The parts act on each other in four ways. `main` calls the polls in order and
they write `g_system`, which decides the next step. The web server's thread
writes `g_system.is_quit` and the flash behind `main`'s back. Everything that
delivers a firmware leaves it in a partition, where the update step finds it
later, possibly after a reset. The update step and the application hand over to
each other through a reset and one battery-backed register.

## 2. The modules

| module | models | its state and actions in the code |
|---|---|---|
| `NorFlash` | the flash chip | operators on memories: programming only clears bits, erasing sets a sector, and an operation that fails or loses power leaves each cell it was changing old, new or garbage |
| `FirmwareInstall` | the promise of the update | one image, published in one step by a delivery, run as it is |
| `Boot` | the update step and the resets around it | `app`, `down` are the partitions, `bkp` is `BOOT_BKP == 0xA5A5`, `pc` is the place in `system_process`/`firm_upgrade`/`write`/`erase`, `total` is `total_length`, `at` the running offset of `write` and `erase`; one action per ROM call and per decision |
| `BootProofs` | theorems about `Boot` | |
| `IapSlave` | `slave_callback` | the static variables under their names (without the underscore), `flash` both partitions; one action per command, with a disjunct for each way it can end |
| `IapLink` | `IapSlave` with the host of the repository's README and a line | `Serve` is what `iap_process` does with one frame; the host and the line are external |
| `WebUpload` | the four callbacks of an upload, and the answer the page makes of it | `file_size`, `update_ok`, and per session `user_data` and how much of the file came in; one action per callback, with a disjunct for each way it can end, and `Break` for a lost connection |
| `Uploaders` | `IapSlave` with a host that sends anything, beside `WebUpload` | `SlaveStep`, `WebStep`, `Restart`; `webWrote` and `slaveWrote` remember who has written where |
| `SlaveProofs` | theorems about `Uploaders` and `IapLink` | |
| `FlashPort` | `write` and `erase` from two threads | `lock_nest` is `rt_scheduler_lock_nest`, `irq` the interrupt mask, `step[t]` the place in the critical section; one action per call in it |
| `FlashPortProofs` | theorems about `FlashPort` | |
| `FalPartition` | fal over the port, with the data cache | one action per call, with the bounds checks in the order of the code; `cache` holds what a line was read as |
| `FalPartitionProofs` | theorems about `FalPartition` | |
| `SystemProcess` | the main loop, key, card and web thread | one action per poll, and one per step of the `switch`; `at` says which of them is next |
| `SystemProcessProofs` | theorems about `SystemProcess` | |
| `ByteQueue` | the promise of the ring buffer: a bounded queue | |
| `RingBuffer` | `ringbuffer.c` | the two indices with their mirror bits and the pool; one action per call, forced puts included |
| `RxSizes`, `Rs485Rx` | the interrupt handler, the semaphore and `rs485_receive` | `hw` is the controller's FIFO, `sem` the semaphore's count, `pc` the place in `rs485_receive`; one action per step that an interrupt can fall between |
| `Reception` | `Rs485Rx` with `RingBuffer` under it | the handler's put and the thread's get are the calls of `RingBuffer` |
| `ReceptionProofs` | the ring buffer is the queue; theorems about `Reception` | |
| `RxFraming` | `iap_process`'s buffer | `pending` is `read_buf[0 .. total_len)`; `Receive`, `HandleFrame`, `DropByte`, `PassEnds` are the steps of its loop |
| `RxFramingProofs` | theorems about `RxFraming` | |
| `FormUpload` | webnet's cutting of a multipart body | `buffer` is the session buffer; one action per read and per turn of the loop over the buffer |
| `SdCard` | `sdcard_update` | one action per step: stat, open, erase, one piece, the end |
| `FirmCheck` | `check_part_firm`, `calc_part_firm_crc32`, `crc32.c` | bytes and words are sets of bits; one action per piece of `_firm_buf` |
| `CardCheck` | `SdCard` followed by `FirmCheck`, or `FirmCheck` on a damaged firmware | what SYSTEM_STEP_SDCARD and the check of SYSTEM_STEP_UPDATE do |
| `FilesProofs` | theorems about `FormUpload` and `CardCheck` | |
| `MCBoot`, `MCIapLink`, `MCUploaders`, `MCFlashPort`, `MCFalPartition`, `MCFormUpload`, `MCCardCheck` | the instances for TLC | the other modules need only numbers |

Some modules hold operators introduced by a comment that begins with "Slip:".
Nothing uses them: each is a plausible mistake in the definition that follows
it, and `PROJECT.json` names the property that notices when it is put in that
definition's place.

### Abstractions

* A memory cell holds "cell *i* of the package of firmware *f*", "erased" or
  "garbage". A CRC check is: the cells are exactly that firmware's. `FirmCheck`
  is where this is looked into: there the bytes, the polynomial and the pieces
  are the real ones, and a body damaged in bytes next to each other is refused.
  Other collisions of CRC-32 are abstracted away, and so are headers with a good
  CRC that lie about their body; headers with a size that does not fit, that
  wraps around in 32 bits, or of a firmware that is encrypted are there (`big`,
  `wrap` and `locked` of `MCBoot`).
* In `Boot` a delivery is one step that leaves any of a set of contents, whole,
  cut or with a hole. How a transfer goes wrong is the subject of the IAP, web
  and card modules; what the update step does with the result is the subject of
  `Boot`. A card's delivery may leave what was there before, as a file that is
  refused does.
* The ERROR step, from which only a reset leads, is in `SystemProcess`; `Boot`
  has a main thread whose initialisation succeeded.
* A power loss during a ROM call leaves what the failed call leaves. It may
  also clear the mark.
* `IapSlave` does a whole request in one action, since one callback runs to its
  end before `main` does anything else. `main` has priority 10 and the web
  server 20, so a callback of an upload runs only while `main` waits, and the
  handlers of `Uploaders` follow one another. A power loss in the middle leaves
  what the failed outcome leaves, followed by `Reboot`. An upload in which the
  web thread is stopped for good, because `main` went on to the update step, is
  in `Boot` a delivery of a cut package.
* `SystemProcess` sees the RS485 line as what it does to `g_system`, and the
  web thread runs only where `main` waits: in the receive, in delays, and for
  the file system's lock. The tick advances in the first two. The result of
  `sdcard_update` is ignored, as in the code.
* `Rs485Rx` numbers the bytes in the order of the line. The one-byte read that
  the serial driver makes before it is opened for interrupts is not modelled.
* `RxFraming` takes the CRC to reject everything that is not a frame, and a
  frame not to contain another one. A pause inside a frame is longer than the
  15 ms of the receive.
* `FormUpload` works on tokens: half a boundary, a header, a line end's
  characters. The browser picks a boundary that the file does not contain.
* Callers of fal never pass an address and a size whose sum wraps around in 32
  bits; `Word` of `FalPartition` is where that would show. The layouts it is
  proved for are aligned to sectors, as the repository's is; sectors need not
  be powers of two.

## 3. The runs

| run | question | bounds | result |
|---|---|---|---|
| `boot` | does the update step implement the atomic installation (`InstallSpec`), is the package there while it is needed (`PackageOutlivesCopy`), is the mark honest (`MarkMeansInstalled`)? | two faults (failed ROM calls or power losses) | 806 k states, holds |
| `boot_live` | does a device left alone start an application (`AlwaysStarts`), and the delivered package if it fits (`PackageEventuallyRuns`)? | two faults | holds |
| `iap_link` | are acknowledged packets in the flash (`AckedInFlash`), does the device leave the loader only with the whole image (`QuitMeansComplete`), does the transfer end (`TransferCompletes`)? | three losses or late answers, or two failed flash operations; two resets | 98 k states, holds |
| `iap_answer` | does status 1 mean written (`SuccessMeansWritten`)? | one failed operation and one late answer | violated, see section 4 |
| `uploaders` | against any host and any upload: is "already erased" true (`ErasedStepMeansBlank`), does a WRITE leave accepted cells alone (`AcceptedStays`), is a reported success stored (`SuccessMeansStored`), is a file that fits accepted (`FittingFileAccepted`)? | one failed operation, one reset, two uploads, one after the other | 341 k states, holds |
| `card_check` | does the copy from a card keep to what it says (`OkMeansStored`, `CutShortAtWorst`, `Ends`), and does the check let through what is whole and only that (`IntactAccepted`, `OkMeansWhole`)? | partition of 6 bytes, pieces of 2, one failed operation | 50 k states, holds |
| `flash_port` | is the flash never used while busy (`BusyAlone`), do calls keep to their range (`StaysInRange`) and report failures of aligned writes (`AlignedReturnHonest`), do masked interrupts come back (`IrqComesBack`)? | two threads, one failed call | 71 k states, holds |
| `system` | who may keep the loader or end a session (`WebOnlyInSession`, `SessionEndsForAReason`), is the key's time right across the wrap (`KeyMeansHeld`, `HeldKeyStays`), does it always decide (`AlwaysDecides`, `QuitIsGranted`)? | 12 ticks in the counter, waits of 1 or 2 | 803 k states, holds |
| `reception` | does `main` never sleep over a byte (`NoByteUnseen`), do bytes come in order (`InOrder`), does the ring buffer hold what it should (`BufferAgrees`), is every byte handed over (`Delivered`)? | FIFO of 2, ring of 3, caller's buffer of 2, six bytes | 11 k states, holds |
| `rx_framing` | is every frame taken once and in order (`OnceInOrder`), is no byte of an intact frame given up (`IntactStays`), is every intact frame handled (`IntactHandled`)? | three frames of 2 or 5 bytes; limits of 2 and 6, calls of 3 | holds |
| `form_upload` | is there room for the closing zero (`TypeOK`), do the callbacks see the file (`DoneMeansWhole`), is the request answered (`AnsweredUnlessSplit`)? | a buffer of 18 tokens, files of up to 24 | holds |
| `fal_partition` | do calls keep to their partition (`OwnCellsOnly`), is a read fresh (`ReadIsFresh`) and an erase whole (`EraseIsWhole`)? | 6 cells, sectors and pages of 2, cache lines of 3, one failed call | holds |

### Why the bounds are enough to be interesting

* `MCBoot`: an app partition of 8 cells with sectors of 4 and pages of 2 has
  two erase steps and a body of up to two buffers; a header of 1 shares its page
  with the end of the largest body and starts off a page boundary, as the real
  header does (`sizeof(firm_pkg_t)` is not a multiple of a page). The download
  partition is larger than app, so a valid package need not fit. Two faults let a
  recovery itself be interrupted. The machine word of 16 makes the size of
  `wrap` plus its header 0.
* `MCIapLink`: five cells in packets of 2, so that the last packet is short,
  and a line of four frames, so that late answers can meet repetitions of the
  requests they belong to; two resets, so that one can fall into the transfer
  that follows another. Either the line fails or the flash does (`EitherFails`):
  with both, a failed write can be answered with success, which `iap_answer`
  shows. Packets are whole pages; with others the divergence in
  `fal_flash_port.c` (section 4) would break `AckedInFlash` by itself.
* `MCUploaders`: app has 2 cells and download 3; lengths and files fit both, one
  or none; pages of 2 let a piece begin inside a page. `Mixes` keeps the product
  small without losing a pair: any host without uploads; uploads with a host
  that only holds the loader; a host that transfers and one upload, to the same
  or to the other partition.
* `MCCardCheck`: every first byte of a body, so every entry of the CRC table,
  and damages of one to four neighbouring bytes, inside a piece and across its
  end; bodies with and without a short last piece, empty, filling the partition,
  and too long.
* `MCFlashPort`: 4 cells with pages and sectors of 2; a write that starts in the
  middle of a page and crosses into the next, one inside its first page, and a
  range that is rounded up to a sector.
* `system`: the counter wraps several times during the key's and the sync
  window's time; it starts anywhere.
* `reception`: the ring wraps more than once, can be full, and is read in two
  calls; both the FIFO and the ring can overrun.
* `rx_framing`: a frame of 5 is longer than the limit before a SYNC and fits the
  one after it, and needs two calls. Each frame may be whole, damaged anywhere,
  miss a byte, or pause anywhere.
* `MCFormUpload`: a file longer than the buffer, files with a line end or the
  beginning of a boundary inside and at the end; a read may end anywhere.
* `MCFalPartition`: a cache line reaches over the border of two partitions;
  calls end at a partition's end, one behind it, and begin inside a page; the
  chip may report less flash than the layout needs.

### Fairness

* `Boot`: the processor runs (weak fairness of reset and of the main thread's
  own steps), and without a host the sync window closes, because the tick goes
  on. Nothing is asked of hosts, cards or the application, and `boot_live` takes
  them away (`Unattended`). The number of faults is finite: a flash that fails
  for ever makes the loader reset for ever.
* `IapLink`: the device serves what has arrived (the main loop never stops
  polling, see `AlwaysDecides` of the `system` run); the host is diligent. The
  host is not part of the repository, and `TransferCompletes` is a statement
  about a host that keeps trying, as the repository's README tells it to. An
  operator who sees that the device has left the loader lets what is under way
  arrive and starts over; since frames and time-outs come in between again and
  again, that step has strong fairness.
* `CardCheck`: `main` runs (weak fairness of a step of the copy). A read of a
  card that is pulled out returns an error; the driver is assumed not to hang.
* `FlashPort`: a thread in a call goes on whenever it has the processor (strong
  fairness, since it loses it again and again), and `main` comes back to a wait
  between its calls, so that the lower thread runs.
* `SystemProcess`: weak fairness of `main`, the highest thread that is ready.
  Nothing is asked of the web thread, the key or the card.
* `Reception`: flash operations end (weak fairness of `Unmask`), and a pending
  interrupt and the receiving thread get their turn between two of them (strong
  fairness, since a flash operation takes it away again and again). The line
  owes nothing: it may be silent for ever.
* `RxFraming`: weak fairness of `iap_process`, which every pass of the main loop
  calls, and of the rest of a frame that has paused.
* `FormUpload`: weak fairness of the server's loop and of the read; a connection
  may break instead.

## 4. What the checks found

**A failed WRITE is answered as a success when it is repeated**
(`applications/iap_slave.c:218`, run `iap_answer`). `_write_packet` takes the
packet's number before `fal_partition_write` is called and keeps it when the
write fails. A host that did not get the failure answer in time repeats the
packet, and the slave takes it for one it has written already. The repository's
README (line 218) defines the status byte as 0 for failed and 1 for success. In
a transfer the damage is bounded: the position is not advanced, later packets go
to the wrong place, and the CRC check of the update step refuses the package.

Other places where the code and its documents, or its own intention, part are
described here and excepted, by name, in the properties that would meet them:

* `board/fal_flash_port.c:175`: the result of programming an unaligned first
  page is kept in a `uint32_t` and tested with `< 0`, so a failure is reported
  as a success, although the function's comment (line 156) promises the size
  that was written or an error.
  `AlignedReturnHonest` speaks of the calls that begin at a page; the variable
  `unnoticed` of `SdCard` and `WebUpload` marks the others. `firm_upgrade`'s
  aligned writes are not affected; its header write is, and only the closing
  `check_part_firm` sees it, which the `boot` run includes.
* `applications/sdcard.c:140`: `sdcard_check` sets `SUCCESS` and still returns
  an error, so a time-out or a quit on the very pass that finds the card goes to
  the update step without it, although the repository's README (line 81) gives
  the card the highest priority.
* `applications/web_update_firm.c:12`: `file_size` and `update_ok` are shared by
  all sessions. The page (`board/romfs/index.html:139`) believes the answer's
  code and size, so with two uploads at a time it can report a success for a
  file that is not stored. `uploaders` has one session at a time.
* `module/wn_module_upload.c:357`: a read that ends between CR LF and the last
  boundary makes CR LF part of the file and the boundary is not recognised, so
  that the upload is not answered, although by webnet's `docs/user-guide.md:433`
  `upload_done` answers the browser once a file was uploaded. `AnsweredUnlessSplit` excepts this one cut.
* `applications/iap_slave.c:158`: "has been erased" is remembered across
  requests; when an upload has written to the partition in between, it is not
  true any more, and START answers without erasing. `ErasedStepMeansBlank`
  excepts a partition that an upload has written to (`webWrote`).

## 5. What is proved

Every theorem is for all values of the constants that satisfy the named
assumptions, all numbers of faults and, where a bound limits the length of a
run, every bound.

### The update step (`BootProofs`)

* `TypeCorrect`: `Spec => []TypeOK`;
* `PackageSafe`: `Spec => []PackageOutlivesCopy`;
* `MarkSafe`: `Spec => []MarkMeansInstalled`;
* `Refinement`: `Spec => InstallSpec`, the loader implements `FirmwareInstall`.

**Assumptions.** `SizeAssumption`: the header fits both partitions, the
partitions are smaller than the machine word (true of a 32-bit flash address),
buffer, page and sector are not empty. Nothing is assumed of alignment: neither
pages in sectors nor the header on a page. `FirmwareAssumption` and
`DeliveryAssumption` only type the parameters. `NorFlash` assumes that erased
cells and garbage differ.

**The inductive invariant.** None of the properties is inductive by itself: that
the package is still there says nothing of what the copy has become. `Inv`
(theorem `Invariance`) adds

* `Positions`: where the loops stand: a chunk is never empty and `at` is inside
  it, the header loop is inside the header;
* `Progress`: while app is being erased every cell before `at` is erased; from
  then on to the closing check app is a `Partial` copy of the selected package:
  a cell of one of the package's places holds the right content, nothing, or
  garbage, and every other cell is erased;
* `Settled`: once the closing check has passed, a usable package in the
  download partition, if there still is one, is the one app already holds
  completely, and this stays true as the download partition is erased, fails to
  be erased, or loses power, until the application is started.

The argument has three main lemmas. A program, torn or not, of the right cells
keeps a partial copy partial (`ProgramPartial`, `TornPartial`): this is where
the erase before the copy is needed. A partial copy that passes
`check_part_firm` is complete and of the selected firmware
(`CheckedIsComplete`): this is why the swallowed error of `fal_flash_port.c:175`
does no harm here. Erasing, whole or torn, can make a package unusable but not
usable (`ErasingHides`): this is why the ignored result of the last erase does
no harm. The refinement follows: what will run (`Effective`) is the package's
complete installation while it is usable, and the app partition when nothing is
pending.

### The flash port (`FlashPortProofs`)

`PortTypeCorrect`, `AloneWhileBusy` (`BusyAlone`), `AlignedHonest`
(`AlignedReturnHonest`) and `CallsStayInRange` (`StaysInRange`), from
`PortAssumption`: nothing is empty, the ranges of the calls are in the flash,
and the flash is whole sectors. The invariant has two parts. `Locked` and
`Masked` say where the lock and the mask come from: the lock counts the one
thread that is between its enter and its exit, and that thread has the
processor, so that the other one, whose FAL_EXIT_CRITICAL may still have the
interrupts to enable, cannot do it now. `Calls` places a call: its next address
is inside its range, and, for a call that began at a page, at a page until it
ends; therefore a failure of such a call is never compared as an unsigned
number. The next address of an erase is a whole number of sectors behind its
first, which is why its last sector ends where the size is rounded up to.
`MaskedIsOwed` is the part of `IrqComesBack` that is not fairness: while the
interrupts are masked, some thread is still before its enable, although another
thread's whole critical section may come in between.

### The slave beside an upload (`SlaveProofs`, about `Uploaders`)

`SlaveTypeCorrect`, `ErasedIsBlank` (`ErasedStepMeansBlank`) and `AcceptedIsKept`
(`AcceptedStays`), for every set of requests and files, from `RequestAssumption`
and `FileAssumption`: lengths and numbers are natural numbers, and a file's part
is a partition or unknown. The invariant keeps that
(`Parsed`), and adds that what counts as erased is a partition
(`StartedMeansSelected`). `ErasedStepMeansBlank` is inductive with these; the
lemmas on the web server say that each callback changes the partition of its
session and no other, and that a partition it changed is marked. `AcceptedStays`
is a property of each step: a WRITE only changes cells from the place the slave
has reached.

`SuccessIsStored` (`SuccessMeansStored`) and `FittingIsAccepted`
(`FittingFileAccepted`) are proved for any host on the bus and `OneSession`, one
upload at a time; two sessions would share `file_size` and `update_ok`
(section 4). Neither says anything before the answer, so `WebInv`
does: while `update_ok` stands, `file_size` is what came in of the file
(`Counted`), and the partition holds exactly that and is blank behind it, unless
a program failed unnoticed or the slave wrote there (`Held`); and `update_ok`
falls only for a failed operation or a file that does not fit (`Accepting`). A
session that broke off leaves both variables as they were, and `upload_open`
sets both again: that is the step in which `Counted` could break.

### The transfer (`SlaveProofs`, about `IapLink`)

`TransferTypeCorrect`, `AckedIsKept` (`AckedInFlash`) and `QuitIsComplete`
(`QuitMeansComplete`), for every image, length of a packet, capacity of the line
and number of losses and resets, under `OneFails`: in one run either no flash
operation fails, or no frame is lost or late and packets are whole pages.
The condition is needed. With both kinds of failure a failed WRITE is answered
with success when it is repeated (section 4); and with packets that begin inside
a page a failed program goes unnoticed. With the line alone failing, packets may
have any length.

That acknowledged packets are in the flash says nothing of the frames that are
still on their way, so the invariant does. A place in the protocol is the number
of its step, from the START over each packet to UPDATE.

* While the line fails (`InOrder`): requests on the line are in the order of
  their places, none is ahead of the host, and none is behind the slave. For the
  place before the host's, and for the place of every answer that is still under
  way, `Acked` holds: the image is in the partition at least up to that place,
  a slave that stayed knows it, and no request from before it is on the line. A
  late answer to a repeated request is therefore harmless: what it acknowledges
  has been done, and no older request can come to undo it.
* While the flash fails (`OneAtATime`): nothing, one request or one answer is on
  the line, and which of them it is tells what the partition and the slave's
  counters hold (`Have`); after the answer that a write failed, the packets
  before it are still in the partition (`Kept`), and the host starts again.

`QuitMeansComplete` follows from the second invariant, and needs `QuitAfterAll`
beside the first.

### The main loop (`SystemProcessProofs`)

`SystemTypeCorrect`, `WebNeedsASession`, `HeldKeyAlwaysStays`,
`KeyAlwaysMeansHeld` and `SessionsEndForAReason`, for every width of the tick
counter, from `TickAssumption`: the counter is wider than twice the timeouts and
the waits, and a press takes at least one tick. The invariant has the reasons to
stay or to leave (`Reasons`) and the key's time (`KeyTimed`): there is a number of ticks the key
has been low for, less than a press and a wait, and the deadline's unsigned
difference is that number less the press, with the width of the counter added
while the deadline is in the future. This is what makes the unsigned comparison of `key.c:29` right.

### Reception and framing

* The ring buffer (`ReceptionProofs`): `RingTypeCorrect` (indices in the pool;
  equal mirror bits mean the writer is not behind the reader) and
  `RingIsAQueue`: the ring buffer implements the bounded queue `ByteQueue`,
  forced puts included, for every size of the pool. `TypeOK` is inductive; the
  rest is one lemma per call, that the bytes between the indices change as the
  queue does.
* `rs485_receive` over it (`ReceptionProofs`): `ReceptionTypeCorrect`,
  `NoByteUnseenAlways` (`NoByteUnseen`), `BufferAlwaysAgrees` (`BufferAgrees`)
  and `AlwaysInOrder` (`InOrder`), for all sizes of FIFO, ring and caller's
  buffer. For the first property the strengthening is `ByteTold`: between the
  read that found nothing and the take, a byte in the ring has left its mark in
  the semaphore. For the order it is that what was received, what is in the
  ring and what is in the FIFO are one rising sequence of numbers below the next
  byte of the line, out of which an overrun only takes. Both together give
  `SilenceMeansAll`: a call that sleeps with the FIFO empty has every byte of
  the line behind it, so that a timeout means silence; this is what is safe in
  `Delivered`.
* `iap_process` (`RxFramingProofs`): `FramingTypeCorrect` and
  `AlwaysRoomForACall`: what a pass keeps, and one more call, fit the buffer
  when `Big + Tmp <= Buf`, and 4200 + 100 <= 5000. On this rest
  `AlwaysOnceInOrder` (`OnceInOrder`) and `AlwaysIntactStays` (`IntactStays`):
  the bytes of the buffer, of the line and of what is still to be said come in
  the order of frames and places (`Ordered`), each with the mark of the frame it
  belongs to (`Genuine`), and all behind the frames that were handled (`Past`);
  an intact frame is handled or still there in one piece (`Here`). Dropping a
  byte or handling a frame takes a beginning off the stream, and the beginning
  of another intact frame is in neither, because a frame does not contain one.
  `AlwaysSilenceSettles`: a pass that found the line silent leaves nothing
  pending (`SilenceClears`), so that with nothing more on the line every intact
  frame has been handled; noise delays it until the silence, not longer. This
  is what is safe in `IntactHandled`.

### Files (`FilesProofs`)

* A browser's request: `FormTypeCorrect` (`TypeOK`: a place is left for the zero
  behind what was read) and `DoneIsWhole` (`DoneMeansWhole`), for every file,
  every size of the buffer and every cut of the request, from `FormAssumption`:
  a third of the buffer is longer than the heading and the last boundary, and
  the boundary is not in the file. The invariant (`FormInv`): before the heading
  is found, the buffer and what is still to come are the whole body; afterwards
  what was written, the buffer and what is to come are, one behind the other,
  the file and the last boundary. Then the last boundary can be at the front of
  the buffer only when the file has been written (`OnlyAtTheEnd`), and nothing
  in the file is taken for a second heading (`NoHeading`); both are false for a
  file that holds the boundary. That what looks like a boundary is kept back is
  not needed for this, only that no more is written than the buffer holds.
  It is needed for the request to be answered. `WaitsOnlyIfSplit` and
  `EveryLookCounts` are the parts of `AnsweredUnlessSplit` that are not
  fairness: the server never waits for more when nothing is to come or no room
  is left, unless exactly the file and a line end were written (`SplitLineEnd`);
  and every read and every turn of the loop makes a natural number smaller
  (`RequestLeft`). The strengthening is `RoomInv`: no more than the file was
  written, or the file and the two characters behind it. The lemma under it,
  `GivesTheFile`, goes through where the buffer can end: in the file, behind CR,
  behind CR LF, inside the boundary, behind it. Only the second of these makes
  `_next_possible_boundary` give away more than the file.
* A card's file: `CopiedIsStored` (`OkMeansStored`) and `PulledOutIsCutShort`
  (`CutShortAtWorst`), for every file of bytes, partition, buffer and page, from
  `CheckAssumption` and `CardAssumption`. The invariant: up to the erase the
  partition is as it was; in the copy it holds the bytes that were counted and
  is blank behind them, unless a failed program went unnoticed. The step is
  `CardWrite`: programming erased cells leaves what was programmed.
* The check behind it: `VerdictIsTheCrc`, `IntactIsAccepted` (`IntactAccepted`),
  `BurstsAreRefused` and `OkIsWhole` (both `OkMeansWhole`), for bodies, pieces
  and partitions of every size.
  - *The table.* `TableAssumption` says of each of the 256 entries that it is
    eight steps of the division by the polynomial. It is a closed statement
    about numbers of the code, without a parameter, and TLC evaluates it when
    `card_check` runs; the proofs take it from there.
  - *The number.* `EightBits`: one step of `crc32_update` on a byte is eight
    steps of the bitwise register (`Register`), because the division is linear
    and eight bits do not reach the taps they were shifted out of. `PieceTurns`:
    a piece moves the register on from any place. `CheckInv` says where the
    running CRC is in the body, so that the result does not depend on where the
    pieces end: the check says ok exactly for the packer's number.
  - *Damage.* Two bodies that differ in at most 32 bits next to each other and
    have the same number have the same register at their end, hence just behind
    these bits, and also just before them. Backwards from the end they agree in
    one place less at each bit (`Backwards`); forwards they are the same up to
    the first bit that differs, and that one would make the highest place
    differ, because the polynomial has its highest bit, while it is still among
    the places that agree. So no bit differs (`Bursts`).
    `BurstsAreRefused` says so of the body of the file and the bytes in the
    partition, wherever the latter come from; a card pulled out within the last
    four bytes is among them.
  - `OkIsWhole` is about a firmware that was damaged on its way, under three
    conditions: `NoCard` (it did not come by a copy), `FourBytes` (at most four
    bytes next to each other are damaged), and `Apart` (the header does not lie
    on a byte of the body, where it would be a second damage in another place).
    A card pulled out earlier leaves a body that differs in more than 32 bits;
    that its CRC is wrong is then a matter of 2^-32 and no theorem. The run has
    it for its files.
* `EveryStepCounts`: each step of the copy and of the check makes a natural
  number smaller, which is the part of `Ends` that is not fairness.

### Partitions (`FalPartitionProofs`)

`PartitionTypeCorrect`, `ReadsAreFresh`, `ErasesAreWhole` and
`CallsKeepToTheirPartition`, for every layout whose partitions are in the flash
and whole sectors (`LayoutAssumption`), every set of calls whose range does not
wrap around (`CallAssumption`) and every length of a cache line. The invariant
is `TypeOK` with what the last call returned.

### Only model-checked

The liveness properties (`AlwaysStarts`, `PackageEventuallyRuns`,
`TransferCompletes`, `Ends`, `IrqComesBack`, `AlwaysDecides`, `QuitIsGranted`,
`Delivered`, `IntactHandled`, `AnsweredUnlessSplit`), because fairness and
ENABLED are out of the prover's reach; of `Ends`, `IrqComesBack`,
`AnsweredUnlessSplit`, `Delivered` and `IntactHandled` the parts without
fairness are theorems. For `OkMeansWhole`, cards cut short by more than four
bytes and a header on a byte of a damaged body, as said above. Every other
invariant and action property of a run that holds is a theorem. Induction over
the bytes of a body, which the library's theorems with an operator parameter
would give, is done with a set of lengths instead (`UpTo`).

## 6. What is not modelled

* The Wi-Fi access point, board and start-up code, and the HPM SDK with its
  drivers: set-up and register access, without a decision of the loader's.
* The rest of RT-Thread (scheduler, heap, timers, devices), DFS and lwIP:
  vendored; of the kernel the models have the scheduler lock, preemption by
  priority, the semaphore and the ring buffer.
* webnet's HTTP parser, its other modules and the text fields of a form;
  agile_modbus's standard functions, which the loader does not use; the two
  callbacks that tell agile_modbus the length of a request.
* fal's search for a table in the flash, which is compiled out.
* Two uploads in parallel: what the code then does is described in section 4.

Nearly all of the repository's 7762 files are vendored (the SDK, RT-Thread, the
packages); the loader itself is about two thousand lines. The modules cover
that part and what it stands on, and so a very small share of all lines.

## 7. Plan

Done: the update step, the RS485 transfer, the flash port, the main loop, the
reception with ring buffer and framing, the web upload and the two writers, the
card and the check, the partitions, the upload module of webnet; theorems for
every safety property of them, the check of the CRC included, and for the parts
of five liveness properties that need no fairness.

Left, in this order:

1. An abstract transfer, one `Publish` of an image, implemented by `IapLink`, so
   that its deliveries and those of `Boot` are the same definition; the
   invariant of `SlaveProofs` has what the mapping needs.
2. The same for an upload and for the card, whose `Held` and `Filled` are the
   contents that `Boot` takes as deliveries.
3. Two sessions in `OneSession`'s place, once `file_size` and `update_ok` belong
   to a session in the code.
4. Measures like `StepsLeft` and `RequestLeft` for the update step, the transfer
   and the framing, so that their liveness rests on fairness alone.
