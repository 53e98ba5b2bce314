----------------------------- MODULE SystemProcess -----------------------------
(***************************************************************************)
(* The main thread's loop over system_process (applications/system.c),     *)
(* with the inputs it polls: the RS485 line (applications/iap.c, through   *)
(* what it does to g_system), the key (applications/key.c), the SD card    *)
(* (applications/sdcard.c), and the web server's thread, which shares      *)
(* g_system.is_quit with it.                                               *)
(*                                                                         *)
(* The threads are preemptive with fixed priorities and main has the       *)
(* highest of the two, so the web thread runs only while main waits: in    *)
(* the receive of iap_process, in rt_thread_mdelay, and for the file       *)
(* system of the card.  Time is the tick counter modulo TickMod; it        *)
(* advances in the first two.                                              *)
(***************************************************************************)
EXTENDS Integers

CONSTANTS
  TickMod,     \* RT_TICK_MAX + 1
  MaxWait,     \* the most ticks one wait of main takes
  SyncTicks,   \* ENTER_BOOT_TIMEOUT in ticks
  PressTicks   \* PRESS_DOWN_TIMEOUT in ticks

ASSUME TickAssumption ==
  /\ TickMod \in Nat \ {0} /\ MaxWait \in Nat \ {0}
  /\ SyncTicks \in Nat /\ PressTicks \in Nat \ {0}
  /\ 2 * (SyncTicks + MaxWait) < TickMod /\ 2 * (PressTicks + MaxWait) < TickMod

VARIABLES
  step,          \* g_system.step
  at,            \* the call of system_process main is in
  is_remain, is_quit,
  tick, pre_tick,
  key,           \* level of the key's pin
  pre_state, tick_timeout,   \* key_process's static variables
  held,          \* ticks for which key_process has seen the key low, up to PressTicks
  card,          \* "absent", "bad" (no firmware on it), "good"
  check_step,    \* sdcard.c's _check_step
  web,           \* the web server has been started
  uploading      \* the web thread is inside an upload

g      == <<is_remain, is_quit>>
keys   == <<pre_state, tick_timeout, held>>
inputs == <<key, card>>
vars   == <<step, at, g, tick, pre_tick, keys, inputs, check_step, web, uploading>>

Elapsed(since) == (tick - since + TickMod) % TickMod

Passes(d) == tick' = (tick + d) % TickMod

Init ==
  /\ step = "init" /\ at = "switch"
  /\ is_remain = FALSE /\ is_quit = FALSE
  /\ tick \in 0 .. TickMod - 1 /\ pre_tick = 0
  /\ key \in {"low", "high"}
  /\ pre_state = "high" /\ tick_timeout = 0 /\ held = 0
  /\ card \in {"absent", "bad", "good"} /\ check_step = "find"
  /\ web = FALSE /\ uploading = FALSE

(* The next pass begins with iap_process when the step is one that polls. *)
Begin(s) == at' = IF s \in {"wait_sync", "boot_process"} THEN "iap" ELSE "switch"

(***************************************************************************)
(* The polls of system_process, one after the other                        *)
(***************************************************************************)

(* iap_process: the receive waits; then the frames that came may ask to    *)
(* stay (the third SYNC) and, once that is so, to leave (UPDATE).  It      *)
(* fails when the line cannot be set up.                                   *)
IapProcess ==
  /\ at = "iap" /\ at' = "key"
  /\ \E d \in 1 .. MaxWait :
       /\ Passes(d)
       /\ held' = IF pre_state = "low"
                    THEN (IF held + d < PressTicks THEN held + d ELSE PressTicks) ELSE 0
  /\ \/ step' = step /\ is_remain' \in {is_remain, TRUE}
        /\ is_quit' \in {is_quit, is_quit \/ is_remain'}
     \/ step' = "error" /\ UNCHANGED g
  /\ UNCHANGED <<pre_tick, pre_state, tick_timeout, inputs, check_step, web, uploading>>

(* Slip: the deadline is set at every poll.  (Operators introduced as      *)
(* "Slip:" are never used: each is a plausible mistake in the definition   *)
(* after it, kept to show that the properties would notice.)               *)
RearmedDeadline == IF key = "low" THEN (tick + PressTicks) % TickMod ELSE tick_timeout

Deadline == IF key = "low" /\ pre_state = "high"
              THEN (tick + PressTicks) % TickMod ELSE tick_timeout

(* Slip: an unsigned difference is never negative. *)
AlwaysPast(deadline) == Elapsed(deadline) >= 0

Past(deadline) == Elapsed(deadline) < (TickMod - 1) \div 2

(* key_process: the deadline is set when the pin goes low and compared as  *)
(* an unsigned difference, so a deadline in the future looks very old.     *)
KeyProcess ==
  /\ at = "key" /\ at' = "sdcard"
  /\ tick_timeout' = Deadline
  /\ is_remain' = (is_remain \/ (key = "low" /\ Past(Deadline)))
  /\ pre_state' = key
  /\ held' = IF key = "low" /\ pre_state = "low" THEN held ELSE 0
  /\ UNCHANGED <<step, is_quit, tick, pre_tick, inputs, check_step, web, uploading>>

(* sdcard_check: one pass finds the card and mounts it, the next ones      *)
(* report what was found.                                                  *)
SdcardCheck ==
  /\ at = "sdcard" /\ at' = "switch"
  /\ check_step' = IF check_step = "find"
                     THEN CASE card = "absent" -> "find"
                            [] card = "bad"    -> "fail"
                            [] card = "good"   -> "success"
                     ELSE check_step
  /\ step' = IF check_step = "success" THEN "sdcard" ELSE step
  /\ UNCHANGED <<g, tick, pre_tick, keys, inputs, web, uploading>>

(***************************************************************************)
(* The switch over g_system.step                                           *)
(***************************************************************************)

(* system_init finds the partitions and mounts the web pages, or not. *)
InitStep ==
  /\ at = "switch" /\ step = "init"
  /\ \/ step' = "wait_sync" /\ pre_tick' = tick
     \/ step' = "error" /\ UNCHANGED pre_tick
  /\ Begin(step')
  /\ UNCHANGED <<g, tick, keys, inputs, check_step, web, uploading>>

(* Slip: only the very tick of the deadline counts. *)
OnTheTick == Elapsed(pre_tick) = SyncTicks

TimedOut == Elapsed(pre_tick) >= SyncTicks

(* Slip: the timeout is looked at first. *)
TimeoutFirst ==
  /\ at = "switch" /\ step = "wait_sync"
  /\ \/ TimedOut /\ step' = "update" /\ UNCHANGED web
     \/ ~TimedOut /\ is_remain /\ web' = TRUE /\ step' = "boot_process"
     \/ ~TimedOut /\ ~is_remain /\ UNCHANGED <<step, web>>
  /\ Begin(step')
  /\ UNCHANGED <<g, tick, pre_tick, keys, inputs, check_step, uploading>>

WaitSyncStep ==
  /\ at = "switch" /\ step = "wait_sync"
  /\ \/ /\ is_remain
        /\ web' = TRUE /\ step' = "boot_process"
     \/ /\ ~is_remain /\ TimedOut
        /\ step' = "update" /\ UNCHANGED web
     \/ /\ ~is_remain /\ ~TimedOut
        /\ UNCHANGED <<step, web>>
  /\ Begin(step')
  /\ UNCHANGED <<g, tick, pre_tick, keys, inputs, check_step, uploading>>

(* Slip: an upload that has begun is waited for. *)
AwaitUpload ==
  /\ at = "switch" /\ step = "boot_process"
  /\ IF is_quit /\ ~uploading THEN at' = "delay" ELSE Begin(step)
  /\ UNCHANGED <<step, g, tick, pre_tick, keys, inputs, check_step, web, uploading>>

(* The answer to the host gets out during the 100 ms before the update. *)
BootProcessStep ==
  /\ at = "switch" /\ step = "boot_process"
  /\ IF is_quit THEN at' = "delay" ELSE Begin(step)
  /\ UNCHANGED <<step, g, tick, pre_tick, keys, inputs, check_step, web, uploading>>

DelayEnds ==
  /\ at = "delay"
  /\ \E d \in 1 .. MaxWait : Passes(d)
  /\ step' = "update" /\ at' = "switch"
  /\ UNCHANGED <<g, pre_tick, keys, inputs, check_step, web, uploading>>

(* sdcard_update, whatever it returns. *)
SdcardStep ==
  /\ at = "switch" /\ step = "sdcard"
  /\ step' = "update"
  /\ UNCHANGED <<at, g, tick, pre_tick, keys, inputs, check_step, web, uploading>>

(* The UPDATE step ends in a reset (module Boot). *)
UpdateStep ==
  /\ at = "switch" /\ step = "update"
  /\ step' = "init" /\ at' = "switch"
  /\ is_remain' = FALSE /\ is_quit' = FALSE
  /\ pre_tick' = 0 /\ pre_state' = "high" /\ tick_timeout' = 0 /\ held' = 0
  /\ tick' \in 0 .. TickMod - 1
  /\ check_step' = "find" /\ web' = FALSE /\ uploading' = FALSE
  /\ UNCHANGED inputs

(* ERROR: report and wait a second, for ever. *)
ErrorStep ==
  /\ at = "switch" /\ step = "error"
  /\ \E d \in 1 .. MaxWait : Passes(d)
  /\ UNCHANGED <<step, at, g, pre_tick, keys, inputs, check_step, web, uploading>>

(***************************************************************************)
(* The web server's thread, and the world                                  *)
(***************************************************************************)

(* Where another thread may run: the receive, the delays, and the file     *)
(* system, whose lock the web pages use too.                               *)
MainWaits == at \in {"iap", "sdcard", "delay"} \/ (at = "switch" /\ step \in {"sdcard", "error"})

(* Slip: the server runs from the start. *)
UploadAnytime ==
  /\ ~uploading /\ MainWaits
  /\ uploading' = TRUE
  /\ UNCHANGED <<step, at, g, tick, pre_tick, keys, inputs, check_step, web>>

UploadOpen ==
  /\ web /\ ~uploading /\ MainWaits
  /\ uploading' = TRUE
  /\ UNCHANGED <<step, at, g, tick, pre_tick, keys, inputs, check_step, web>>

(* upload_done leaves the loader, also when the upload failed; a broken    *)
(* connection only ends the session.                                       *)
UploadDone ==
  /\ uploading /\ MainWaits
  /\ uploading' = FALSE
  /\ is_quit' \in {is_quit, TRUE}
  /\ UNCHANGED <<step, at, is_remain, tick, pre_tick, keys, inputs, check_step, web>>

(* The key is pressed or released, while main waits. *)
KeyMoves ==
  /\ at = "iap"
  /\ key' = IF key = "low" THEN "high" ELSE "low"
  /\ UNCHANGED <<step, at, g, tick, pre_tick, keys, card, check_step, web, uploading>>

(* The card's driver finds a card some time after the start. *)
CardAppears ==
  /\ at = "iap" /\ card = "absent"
  /\ card' \in {"bad", "good"}
  /\ UNCHANGED <<step, at, g, tick, pre_tick, keys, key, check_step, web, uploading>>

Main ==
  \/ IapProcess \/ KeyProcess \/ SdcardCheck
  \/ InitStep \/ WaitSyncStep \/ BootProcessStep \/ DelayEnds
  \/ SdcardStep \/ UpdateStep \/ ErrorStep

Next == Main \/ UploadOpen \/ UploadDone \/ KeyMoves \/ CardAppears

Spec == Init /\ [][Next]_vars

FairSpec == Spec /\ WF_vars(Main)

(***************************************************************************)
(* Properties                                                              *)
(***************************************************************************)

(* Every variable keeps to its type. *)
TypeOK ==
  /\ step \in {"init", "wait_sync", "boot_process", "sdcard", "update", "error"}
  /\ at \in {"iap", "key", "sdcard", "switch", "delay"}
  /\ is_remain \in BOOLEAN /\ is_quit \in BOOLEAN
  /\ tick \in 0 .. TickMod - 1 /\ pre_tick \in 0 .. TickMod - 1
  /\ key \in {"low", "high"} /\ pre_state \in {"low", "high"}
  /\ tick_timeout \in 0 .. TickMod - 1 /\ held \in 0 .. PressTicks
  /\ card \in {"absent", "bad", "good"}
  /\ check_step \in {"find", "success", "fail"}
  /\ web \in BOOLEAN /\ uploading \in BOOLEAN

(* The loader gives a session up only for a reason: it goes to the update  *)
(* step with a host or the key having asked to stay only when a host also  *)
(* asked to leave, or when a card has firmware.                            *)
SessionEndsForAReason ==
  [][(step # "update" /\ step' = "update" /\ is_remain)
       => is_quit \/ check_step = "success"]_vars

(* The web server runs, and can end a session, only in a loader that was   *)
(* asked to stay: an upload never shortens the sync window.                *)
WebOnlyInSession == (web \/ uploading \/ is_quit) => is_remain

(* The key keeps the device in the loader only when it was seen low at     *)
(* consecutive polls over PRESS_DOWN_TIMEOUT, wherever the tick counter    *)
(* wraps around.                                                           *)
KeyMeansHeld ==
  [][(at = "key" /\ is_remain' /\ ~is_remain) => pre_state = "low" /\ held >= PressTicks]_vars

(* A key held that long does keep the device in the loader. *)
HeldKeyStays == (at = "sdcard" /\ key = "low" /\ held >= PressTicks) => is_remain

(* Without a failure the loader always comes to the update step, unless a  *)
(* host or the key keeps it.                                               *)
AlwaysDecides == []<>(step = "update" \/ step = "error" \/ is_remain)

(* A host's wish to leave is granted. *)
QuitIsGranted == (step = "boot_process" /\ is_quit) ~> step # "boot_process"
=============================================================================
