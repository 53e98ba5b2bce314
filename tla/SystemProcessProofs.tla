-------------------------- MODULE SystemProcessProofs ---------------------------
(***************************************************************************)
(* Proofs about SystemProcess: who may end a session, and that the key's   *)
(* deadline, compared as an unsigned difference of a tick counter that     *)
(* wraps, means what it should, for every width of the counter and every   *)
(* timeout that TickAssumption allows.                                     *)
(***************************************************************************)
EXTENDS SystemProcess, TLAPS

(* The web server and a wish to leave are for a loader that stays; the     *)
(* SDCARD step and the delay before the update have their reason. *)
Reasons ==
  /\ web => is_remain
  /\ uploading => web
  /\ is_quit => is_remain
  /\ step = "sdcard" => check_step = "success"
  /\ at = "delay" => is_quit

(* main is in the loop that polls the key, or comes to it. *)
Polling == at \in {"iap", "key", "sdcard"} \/ step \in {"init", "wait_sync", "boot_process"}

(* The key has been low for `low' ticks when the deadline is as old as the *)
(* unsigned difference says: a deadline in the future is TickMod too old.  *)
LowFor(low) ==
  /\ Elapsed(tick_timeout) = IF low >= PressTicks THEN low - PressTicks
                             ELSE low - PressTicks + TickMod
  /\ held = IF low >= PressTicks THEN PressTicks ELSE low
  /\ at # "key" => low < PressTicks

(* While it polls and has not decided to stay, the deadline is one of the  *)
(* counter's present round, not long past; and what was polled is the key. *)
KeyTimed ==
  /\ Polling /\ pre_state = "low" /\ ~is_remain =>
       \E low \in 0 .. PressTicks + MaxWait - 1 : LowFor(low)
  /\ at = "sdcard" => pre_state = key

IInv == TypeOK /\ Reasons /\ KeyTimed

(***************************************************************************)
(* The tick counter                                                        *)
(***************************************************************************)

LEMMA Wraps ==
  ASSUME NEW x \in Nat, x < 2 * TickMod
  PROVE  x % TickMod = IF x < TickMod THEN x ELSE x - TickMod
<1> DEFINE m == TickMod
<1>1. m \in Nat \ {0}
  BY TickAssumption
<1> HIDE DEF m
<1>2. x < 2 * m
  BY DEF m
<1>3. CASE x < m
  <2>1. x % m = x
    BY <1>1, <1>3
  <2> QED
    BY <1>3, <2>1 DEF m
<1>4. CASE x >= m
  <2>1. /\ x % m \in 0 .. m - 1 /\ x \div m \in Int
        /\ x = m * (x \div m) + (x % m)
    BY <1>1
  <2>2. x \div m = 1
    <3>1. x \div m < 2
      <4> SUFFICES ASSUME x \div m >= 2 PROVE FALSE
        BY <2>1
      <4>1. m * (x \div m) >= m * 2
        BY <1>1, <2>1
      <4> QED
        BY <1>1, <1>2, <2>1, <4>1
    <3>2. x \div m > 0
      <4> SUFFICES ASSUME x \div m <= 0 PROVE FALSE
        BY <2>1
      <4>1. m * (x \div m) <= 0
        BY <1>1, <2>1
      <4> QED
        BY <1>1, <1>4, <2>1, <4>1
    <3> QED
      BY <2>1, <3>1, <3>2
  <2>3. x % m = x - m
    BY <1>1, <2>1, <2>2
  <2> QED
    BY <1>1, <1>4, <2>3 DEF m
<1> QED
  BY <1>1, <1>3, <1>4

LEMMA ElapsedIs ==
  ASSUME NEW t \in 0 .. TickMod - 1, NEW since \in 0 .. TickMod - 1
  PROVE  (t - since + TickMod) % TickMod = IF t >= since THEN t - since ELSE t - since + TickMod
<1>1. TickMod \in Nat \ {0}
  BY TickAssumption
<1>2. t - since + TickMod \in Nat /\ t - since + TickMod < 2 * TickMod
  BY <1>1
<1>3. (t - since + TickMod) % TickMod =
        IF t - since + TickMod < TickMod THEN t - since + TickMod
        ELSE t - since + TickMod - TickMod
  BY <1>1, <1>2, Wraps
<1> QED
  BY <1>1, <1>3

(* Time makes a deadline older, until the counter has gone all the way round. *)
LEMMA TimePasses ==
  ASSUME TypeOK, NEW d \in 1 .. MaxWait, Passes(d)
  PROVE  /\ tick' \in 0 .. TickMod - 1
         /\ (tick' - tick_timeout + TickMod) % TickMod =
              IF Elapsed(tick_timeout) + d < TickMod THEN Elapsed(tick_timeout) + d
              ELSE Elapsed(tick_timeout) + d - TickMod
<1>1. /\ TickMod \in Nat \ {0} /\ MaxWait \in Nat /\ d < TickMod /\ d \in Nat
      /\ tick \in 0 .. TickMod - 1 /\ tick_timeout \in 0 .. TickMod - 1
  BY TickAssumption DEF TypeOK
<1>2. tick' = IF tick + d < TickMod THEN tick + d ELSE tick + d - TickMod
  <2>1. tick + d \in Nat /\ tick + d < 2 * TickMod
    BY <1>1
  <2> QED
    BY <1>1, <2>1, Wraps DEF Passes
<1>3. tick' \in 0 .. TickMod - 1
  BY <1>1, <1>2
<1>4. /\ Elapsed(tick_timeout) =
           IF tick >= tick_timeout THEN tick - tick_timeout ELSE tick - tick_timeout + TickMod
      /\ (tick' - tick_timeout + TickMod) % TickMod =
           IF tick' >= tick_timeout THEN tick' - tick_timeout ELSE tick' - tick_timeout + TickMod
  BY <1>1, <1>3, ElapsedIs DEF Elapsed
<1> QED
  BY <1>1, <1>2, <1>3, <1>4

(* A new deadline lies PressTicks in the future: it looks very old. *)
LEMMA NewDeadline ==
  ASSUME TypeOK
  PROVE  /\ (tick + PressTicks) % TickMod \in 0 .. TickMod - 1
         /\ Elapsed((tick + PressTicks) % TickMod) = TickMod - PressTicks
<1>1. /\ TickMod \in Nat \ {0} /\ PressTicks \in Nat \ {0} /\ PressTicks < TickMod
      /\ tick \in 0 .. TickMod - 1
  BY TickAssumption DEF TypeOK
<1> DEFINE D == (tick + PressTicks) % TickMod
<1>2. D = IF tick + PressTicks < TickMod THEN tick + PressTicks ELSE tick + PressTicks - TickMod
  <2>1. tick + PressTicks \in Nat /\ tick + PressTicks < 2 * TickMod
    BY <1>1
  <2> QED
    BY <1>1, <2>1, Wraps
<1> HIDE DEF D
<1>3. D \in 0 .. TickMod - 1
  BY <1>1, <1>2
<1>4. Elapsed(D) = IF tick >= D THEN tick - D ELSE tick - D + TickMod
  BY <1>1, <1>3, ElapsedIs DEF Elapsed
<1>5. Elapsed(D) = TickMod - PressTicks
  BY <1>1, <1>2, <1>4
<1> QED
  BY <1>3, <1>5 DEF D

(* A deadline is past for an unsigned comparison when it is, while it is   *)
(* not further off than the counter's half round. *)
LEMMA PastIs ==
  ASSUME NEW low \in 0 .. PressTicks + MaxWait - 1, NEW deadline,
         Elapsed(deadline) = IF low >= PressTicks THEN low - PressTicks
                             ELSE low - PressTicks + TickMod
  PROVE  Past(deadline) <=> low >= PressTicks
<1>1. /\ TickMod \in Nat \ {0} /\ PressTicks \in Nat /\ MaxWait \in Nat
      /\ 2 * (PressTicks + MaxWait) < TickMod
  BY TickAssumption
<1>2. /\ (TickMod - 1) \div 2 \in Nat
      /\ PressTicks + MaxWait <= (TickMod - 1) \div 2
      /\ 2 * ((TickMod - 1) \div 2) <= TickMod - 1
  BY <1>1
<1>3. TickMod - PressTicks >= (TickMod - 1) \div 2
  BY <1>1, <1>2
<1> QED
  BY <1>1, <1>2, <1>3 DEF Past

(***************************************************************************)
(* The invariant is inductive                                              *)
(***************************************************************************)

LEMMA InitIInv == Init => IInv
<1> SUFFICES ASSUME Init PROVE IInv
  OBVIOUS
<1>1. TypeOK
  <2>1. 0 \in 0 .. TickMod - 1 /\ 0 \in 0 .. PressTicks
    BY TickAssumption
  <2> QED
    BY <2>1 DEF Init, TypeOK
<1>2. Reasons /\ KeyTimed
  BY DEF Init, Reasons, KeyTimed
<1> QED
  BY <1>1, <1>2 DEF IInv

(* A step that leaves the key, the counter and the polling alone leaves    *)
(* the key's timing alone. *)
LEMMA TimingKept ==
  ASSUME KeyTimed,
         UNCHANGED <<tick, tick_timeout, held, pre_state>>,
         is_remain => is_remain',
         Polling' => Polling,
         at = "key" <=> at' = "key",
         at' = "sdcard" => at = "sdcard" /\ UNCHANGED key
  PROVE  KeyTimed'
<1>1. \A low \in 0 .. PressTicks + MaxWait - 1 : LowFor(low) => LowFor(low)'
  BY DEF LowFor, Elapsed
<1> QED
  BY <1>1 DEF KeyTimed

LEMMA IapKeeps ==
  ASSUME IInv, IapProcess
  PROVE  IInv'
<1>1. /\ at = "iap" /\ at' = "key" /\ step' \in {step, "error"}
      /\ is_remain' \in {is_remain, TRUE} /\ is_quit' \in {is_quit, is_quit \/ is_remain'}
      /\ UNCHANGED <<pre_tick, pre_state, tick_timeout, key, card, check_step, web, uploading>>
  BY DEF IapProcess, g, inputs
<1>2. PICK d \in 1 .. MaxWait :
        /\ Passes(d)
        /\ held' = IF pre_state = "low"
                     THEN (IF held + d < PressTicks THEN held + d ELSE PressTicks) ELSE 0
  BY DEF IapProcess
<1>3. /\ tick' \in 0 .. TickMod - 1
      /\ Elapsed(tick_timeout)' =
           IF Elapsed(tick_timeout) + d < TickMod THEN Elapsed(tick_timeout) + d
           ELSE Elapsed(tick_timeout) + d - TickMod
  BY <1>1, <1>2, TimePasses DEF IInv, Elapsed
<1>4. /\ PressTicks \in Nat \ {0} /\ MaxWait \in Nat \ {0} /\ d \in Nat /\ d <= MaxWait
      /\ TickMod \in Nat /\ PressTicks + MaxWait < TickMod
      /\ held \in 0 .. PressTicks
  BY TickAssumption DEF IInv, TypeOK
<1>5. TypeOK'
  <2>1. held' \in 0 .. PressTicks
    BY <1>2, <1>4
  <2> QED
    BY <1>1, <1>3, <2>1 DEF IInv, TypeOK
<1>6. Reasons'
  <2>1. is_remain => is_remain'
    BY <1>1
  <2>2. is_quit' => is_remain'
    <3>1. CASE is_quit' = is_quit
      BY <2>1, <3>1 DEF IInv, Reasons
    <3>2. CASE is_quit' = (is_quit \/ is_remain')
      BY <2>1, <3>2 DEF IInv, Reasons
    <3> QED
      BY <1>1, <3>1, <3>2
  <2>3. (web' => is_remain') /\ (uploading' => web')
    BY <1>1, <2>1 DEF IInv, Reasons
  <2>4. step' = "sdcard" => check_step' = "success"
    BY <1>1 DEF IInv, Reasons
  <2>5. at' # "delay"
    BY <1>1
  <2> QED
    BY <2>2, <2>3, <2>4, <2>5 DEF Reasons
<1>7. KeyTimed'
  <2> SUFFICES ASSUME pre_state = "low", ~is_remain
               PROVE  \E low \in 0 .. PressTicks + MaxWait - 1 : LowFor(low)'
    <3>1. pre_state' = pre_state /\ at' # "sdcard"
      BY <1>1
    <3>2. is_remain => is_remain'
      BY <1>1
    <3> QED
      BY <3>1, <3>2 DEF KeyTimed
  <2>1. PICK low \in 0 .. PressTicks + MaxWait - 1 : LowFor(low)
    BY <1>1 DEF IInv, KeyTimed, Polling
  <2>2. /\ low \in Nat /\ low < PressTicks
        /\ Elapsed(tick_timeout) = low - PressTicks + TickMod /\ held = low
    BY <1>1, <1>4, <2>1 DEF LowFor
  <2>3. PICK now \in 0 .. PressTicks + MaxWait - 1 : now = low + d
    BY <1>4, <2>2
  <2>4. held' = IF now >= PressTicks THEN PressTicks ELSE now
    BY <1>2, <1>4, <2>2, <2>3
  <2>5. Elapsed(tick_timeout)' = IF now >= PressTicks THEN now - PressTicks
                                 ELSE now - PressTicks + TickMod
    BY <1>3, <1>4, <2>2, <2>3
  <2>6. LowFor(now)'
    <3>1. at' = "key"
      BY <1>1
    <3> QED
      BY <2>4, <2>5, <3>1 DEF LowFor
  <2> QED
    BY <2>3, <2>6
<1> QED
  BY <1>5, <1>6, <1>7 DEF IInv

(* What the key's poll decides: with the deadline it has, exactly when the *)
(* key has been low for PressTicks. *)
LEMMA KeyFacts ==
  ASSUME IInv, KeyProcess, ~is_remain
  PROVE  /\ key = "low" => \E low \in 0 .. PressTicks + MaxWait - 1 :
              /\ Elapsed(Deadline) = IF low >= PressTicks THEN low - PressTicks
                                     ELSE low - PressTicks + TickMod
              /\ held' = IF low >= PressTicks THEN PressTicks ELSE low
              /\ is_remain' <=> low >= PressTicks
              /\ low > 0 => pre_state = "low"
         /\ key # "low" => ~is_remain'
<1>1. /\ at = "key" /\ is_remain' = (is_remain \/ (key = "low" /\ Past(Deadline)))
      /\ held' = IF key = "low" /\ pre_state = "low" THEN held ELSE 0
  BY DEF KeyProcess
<1>2. /\ PressTicks \in Nat \ {0} /\ MaxWait \in Nat \ {0} /\ TickMod \in Nat
      /\ pre_state \in {"low", "high"}
  BY TickAssumption DEF IInv, TypeOK
<1>3. CASE key = "low" /\ pre_state = "low"
  <2>1. PICK low \in 0 .. PressTicks + MaxWait - 1 : LowFor(low)
    BY <1>1, <1>3 DEF IInv, KeyTimed, Polling
  <2>2. Deadline = tick_timeout
    BY <1>3 DEF Deadline
  <2>3. Elapsed(Deadline) = IF low >= PressTicks THEN low - PressTicks
                            ELSE low - PressTicks + TickMod
    BY <2>1, <2>2 DEF LowFor
  <2>4. is_remain' <=> low >= PressTicks
    BY <1>1, <1>3, <2>3, PastIs
  <2>5. held' = IF low >= PressTicks THEN PressTicks ELSE low
    BY <1>1, <1>3, <2>1 DEF LowFor
  <2> QED
    BY <1>3, <2>3, <2>4, <2>5
<1>4. CASE key = "low" /\ pre_state = "high"
  <2>1. Deadline = (tick + PressTicks) % TickMod
    BY <1>4 DEF Deadline
  <2>2. Elapsed(Deadline) = 0 - PressTicks + TickMod
    BY <1>2, <2>1, NewDeadline DEF IInv
  <2>3. 0 \in 0 .. PressTicks + MaxWait - 1 /\ ~(0 >= PressTicks)
    BY <1>2
  <2>4. Elapsed(Deadline) = IF 0 >= PressTicks THEN 0 - PressTicks ELSE 0 - PressTicks + TickMod
    BY <2>2, <2>3
  <2>5. ~Past(Deadline)
    BY <2>3, <2>4, PastIs
  <2> QED
    <3>1. held' = IF 0 >= PressTicks THEN PressTicks ELSE 0
      BY <1>1, <1>4, <2>3
    <3>2. is_remain' <=> 0 >= PressTicks
      BY <1>1, <2>3, <2>5
    <3>3. ~(0 > 0)
      OBVIOUS
    <3> QED
      BY <1>4, <2>3, <2>4, <3>1, <3>2, <3>3, Zenon
<1>5. CASE key # "low"
  BY <1>1, <1>5
<1> QED
  BY <1>2, <1>3, <1>4, <1>5

LEMMA KeyKeeps ==
  ASSUME IInv, KeyProcess
  PROVE  IInv'
<1>1. /\ at = "key" /\ at' = "sdcard" /\ tick_timeout' = Deadline /\ pre_state' = key
      /\ is_remain' = (is_remain \/ (key = "low" /\ Past(Deadline)))
      /\ held' = IF key = "low" /\ pre_state = "low" THEN held ELSE 0
      /\ UNCHANGED <<step, is_quit, tick, pre_tick, key, card, check_step, web, uploading>>
  BY DEF KeyProcess, inputs
<1>2. TypeOK'
  <2>1. Deadline \in 0 .. TickMod - 1
    BY NewDeadline DEF Deadline, IInv, TypeOK
  <2>2. held' \in 0 .. PressTicks
    BY <1>1, TickAssumption DEF IInv, TypeOK
  <2>3. is_remain' \in BOOLEAN
    BY <1>1 DEF IInv, TypeOK
  <2> QED
    BY <1>1, <2>1, <2>2, <2>3 DEF IInv, TypeOK
<1>3. Reasons'
  BY <1>1 DEF IInv, Reasons
<1>4. KeyTimed'
  <2> SUFFICES ASSUME key = "low", ~is_remain'
               PROVE  \E low \in 0 .. PressTicks + MaxWait - 1 : LowFor(low)'
    BY <1>1 DEF KeyTimed
  <2>1. PICK low \in 0 .. PressTicks + MaxWait - 1 :
          /\ Elapsed(Deadline) = IF low >= PressTicks THEN low - PressTicks
                                 ELSE low - PressTicks + TickMod
          /\ held' = IF low >= PressTicks THEN PressTicks ELSE low
          /\ is_remain' <=> low >= PressTicks
    BY <1>1, KeyFacts
  <2>2. Elapsed(tick_timeout)' = Elapsed(Deadline)
    BY <1>1 DEF Elapsed
  <2>3. low < PressTicks
    BY <2>1, TickAssumption
  <2> QED
    BY <2>1, <2>2, <2>3 DEF LowFor
<1> QED
  BY <1>2, <1>3, <1>4 DEF IInv

(* The other steps of main, but for the reset, leave the key alone. *)
LEMMA SdcardKeeps ==
  ASSUME IInv, SdcardCheck
  PROVE  IInv'
<1>1. /\ at = "sdcard" /\ at' = "switch"
      /\ check_step' \in {"find", "success", "fail"}
      /\ check_step = "success" => check_step' = "success"
      /\ step' = IF check_step = "success" THEN "sdcard" ELSE step
      /\ UNCHANGED <<is_remain, is_quit, tick, pre_tick, pre_state, tick_timeout, held,
                     key, card, web, uploading>>
  BY DEF SdcardCheck, g, keys, inputs, IInv, TypeOK
<1>2. TypeOK'
  BY <1>1 DEF IInv, TypeOK
<1>3. Reasons'
  BY <1>1 DEF IInv, Reasons
<1>4. KeyTimed'
  BY <1>1, TimingKept DEF IInv, Polling
<1> QED
  BY <1>2, <1>3, <1>4 DEF IInv

LEMMA SwitchKeeps ==
  ASSUME IInv, InitStep \/ WaitSyncStep \/ BootProcessStep \/ SdcardStep
  PROVE  IInv'
<1>1. /\ at = "switch"
      /\ step \in {"init", "wait_sync", "boot_process"} \/ (step = "sdcard" /\ step' = "update")
      /\ UNCHANGED <<is_remain, is_quit, tick, pre_state, tick_timeout, held,
                     key, card, check_step, uploading>>
  BY DEF InitStep, WaitSyncStep, BootProcessStep, SdcardStep, g, keys, inputs
<1>2. /\ step' \in {"init", "wait_sync", "boot_process", "update", "error"}
      /\ at' \in {"iap", "switch"} \/ (at' = "delay" /\ is_quit)
      /\ pre_tick' \in {tick, pre_tick}
      /\ web' = web \/ (web' = TRUE /\ is_remain)
      /\ step = "sdcard" => at' = "switch"
  BY DEF InitStep, WaitSyncStep, BootProcessStep, SdcardStep, Begin
<1>3. TypeOK'
  <2>1. web' \in BOOLEAN
    BY <1>2 DEF IInv, TypeOK
  <2>2. pre_tick' \in 0 .. TickMod - 1
    BY <1>2 DEF IInv, TypeOK
  <2>3. at' \in {"iap", "key", "sdcard", "switch", "delay"}
    BY <1>2
  <2> QED
    BY <1>1, <1>2, <2>1, <2>2, <2>3 DEF IInv, TypeOK
<1>4. Reasons'
  BY <1>1, <1>2 DEF IInv, Reasons
<1>5. KeyTimed'
  BY <1>1, <1>2, TimingKept DEF IInv, Polling
<1> QED
  BY <1>3, <1>4, <1>5 DEF IInv

(* Where time passes without a poll, the loader stays or has given up. *)
LEMMA WaitKeeps ==
  ASSUME IInv, DelayEnds \/ ErrorStep
  PROVE  IInv'
<1>1. /\ \E d \in 1 .. MaxWait : Passes(d)
      /\ at' = "switch" /\ step' \in {"update", "error"}
      /\ UNCHANGED <<is_remain, is_quit, pre_tick, pre_state, tick_timeout, held,
                     key, card, check_step, web, uploading>>
  BY DEF DelayEnds, ErrorStep, g, keys, inputs
<1>2. tick' \in 0 .. TickMod - 1
  BY <1>1, TimePasses DEF IInv
<1>3. TypeOK'
  BY <1>1, <1>2 DEF IInv, TypeOK
<1>4. Reasons'
  BY <1>1 DEF IInv, Reasons
<1>5. KeyTimed'
  BY <1>1 DEF KeyTimed, Polling
<1> QED
  BY <1>3, <1>4, <1>5 DEF IInv

LEMMA UpdateKeeps ==
  ASSUME IInv, UpdateStep
  PROVE  IInv'
<1>1. /\ step' = "init" /\ at' = "switch"
      /\ is_remain' = FALSE /\ is_quit' = FALSE
      /\ pre_tick' = 0 /\ pre_state' = "high" /\ tick_timeout' = 0 /\ held' = 0
      /\ tick' \in 0 .. TickMod - 1
      /\ check_step' = "find" /\ web' = FALSE /\ uploading' = FALSE
      /\ UNCHANGED <<key, card>>
  BY DEF UpdateStep, inputs
<1>2. 0 \in 0 .. TickMod - 1 /\ 0 \in 0 .. PressTicks
  BY TickAssumption
<1>3. TypeOK'
  BY <1>1, <1>2 DEF IInv, TypeOK
<1>4. Reasons' /\ KeyTimed'
  BY <1>1 DEF Reasons, KeyTimed
<1> QED
  BY <1>3, <1>4 DEF IInv

(* The web server's thread, the key's pin and the card's driver. *)
LEMMA OthersKeep ==
  ASSUME IInv, UploadOpen \/ UploadDone \/ KeyMoves \/ CardAppears
  PROVE  IInv'
<1>1. UNCHANGED <<step, at, is_remain, tick, pre_tick, pre_state, tick_timeout, held,
                  check_step, web>>
  BY DEF UploadOpen, UploadDone, KeyMoves, CardAppears, g, keys, inputs
<1>2. /\ key' = key \/ at = "iap"
      /\ key' \in {"low", "high"} /\ card' \in {"absent", "bad", "good"}
  BY DEF UploadOpen, UploadDone, KeyMoves, CardAppears, inputs, IInv, TypeOK
<1>3. /\ uploading' \in {uploading, FALSE} \/ (uploading' = TRUE /\ web)
      /\ is_quit' = is_quit \/ (is_quit' = TRUE /\ uploading)
  BY DEF UploadOpen, UploadDone, KeyMoves, CardAppears, g
<1>4. TypeOK'
  <2>1. uploading' \in BOOLEAN
    BY <1>3 DEF IInv, TypeOK
  <2>2. is_quit' \in BOOLEAN
    BY <1>3 DEF IInv, TypeOK
  <2> QED
    BY <1>1, <1>2, <2>1, <2>2 DEF IInv, TypeOK
<1>5. Reasons'
  <2>1. uploading' => web
    BY <1>3 DEF IInv, Reasons
  <2>2. is_quit => is_quit'
    BY <1>3
  <2>3. is_quit' => is_remain
    BY <1>3 DEF IInv, Reasons
  <2> QED
    BY <1>1, <2>1, <2>2, <2>3 DEF IInv, Reasons
<1>6. KeyTimed'
  BY <1>1, <1>2, TimingKept DEF IInv, Polling
<1> QED
  BY <1>4, <1>5, <1>6 DEF IInv

THEOREM StepIInv == IInv /\ [Next]_vars => IInv'
<1> SUFFICES ASSUME IInv, [Next]_vars PROVE IInv'
  OBVIOUS
<1>1. CASE UNCHANGED vars
  <2>1. UNCHANGED <<step, at, is_remain, is_quit, tick, pre_tick, pre_state, tick_timeout,
                    held, key, card, check_step, web, uploading>>
    BY <1>1 DEF vars, g, keys, inputs
  <2>2. KeyTimed'
    BY <2>1, TimingKept DEF IInv, Polling
  <2> QED
    BY <2>1, <2>2 DEF IInv, TypeOK, Reasons
<1> QED
  BY <1>1, IapKeeps, KeyKeeps, SdcardKeeps, SwitchKeeps, WaitKeeps, UpdateKeeps, OthersKeep
  DEF Next, Main

THEOREM Invariance == Spec => []IInv
BY InitIInv, StepIInv, PTL DEF Spec

(***************************************************************************)
(* The results                                                             *)
(***************************************************************************)

(* The variables of the main loop keep to their types. *)
THEOREM SystemTypeCorrect == Spec => []TypeOK
<1>1. IInv => TypeOK
  BY DEF IInv
<1> QED
  BY Invariance, <1>1, PTL

(* The web server runs, and a wish to leave is there, only in a loader     *)
(* that was asked to stay. *)
THEOREM WebNeedsASession == Spec => []WebOnlyInSession
<1>1. IInv => WebOnlyInSession
  BY DEF IInv, Reasons, WebOnlyInSession
<1> QED
  BY Invariance, <1>1, PTL

(* A key held for PRESS_DOWN_TIMEOUT keeps the device in the loader,       *)
(* wherever the tick counter wraps. *)
THEOREM HeldKeyAlwaysStays == Spec => []HeldKeyStays
<1>1. IInv => HeldKeyStays
  <2> SUFFICES ASSUME IInv, at = "sdcard", key = "low", held >= PressTicks, ~is_remain
               PROVE  FALSE
    BY DEF HeldKeyStays
  <2>1. PICK low \in 0 .. PressTicks + MaxWait - 1 : LowFor(low)
    BY DEF IInv, KeyTimed, Polling
  <2>2. low < PressTicks /\ held = low /\ PressTicks \in Nat
    BY <2>1, TickAssumption DEF LowFor
  <2> QED
    BY <2>2
<1> QED
  BY Invariance, <1>1, PTL

(* And only a key held that long does: a deadline in the future, which an  *)
(* unsigned difference takes for a very old one, is not taken for past. *)
THEOREM KeyAlwaysMeansHeld == Spec => KeyMeansHeld
<1> DEFINE Held == (at = "key" /\ is_remain' /\ ~is_remain) => pre_state = "low" /\ held >= PressTicks
<1>1. IInv /\ [Next]_vars => [Held]_vars
  <2> SUFFICES ASSUME IInv, Next, at = "key", is_remain', ~is_remain
               PROVE  pre_state = "low" /\ held >= PressTicks
    BY DEF vars, g
  <2>1. KeyProcess
    BY DEF Next, Main, IapProcess, SdcardCheck, InitStep, WaitSyncStep, BootProcessStep,
           DelayEnds, SdcardStep, UpdateStep, ErrorStep, UploadOpen, UploadDone, MainWaits,
           KeyMoves, CardAppears, g
  <2>2. key = "low"
    BY <2>1, KeyFacts
  <2>3. PICK low \in 0 .. PressTicks + MaxWait - 1 :
          /\ held' = IF low >= PressTicks THEN PressTicks ELSE low
          /\ low >= PressTicks
          /\ low > 0 => pre_state = "low"
    BY <2>1, <2>2, KeyFacts
  <2>4. pre_state = "low"
    BY <2>3, TickAssumption
  <2>5. held = PressTicks
    BY <2>1, <2>2, <2>3, <2>4 DEF KeyProcess
  <2> QED
    BY <2>4, <2>5, TickAssumption
<1> QED
  BY Invariance, <1>1, PTL DEF Spec, KeyMeansHeld

(* A session is given up only when somebody asked for it, or for a card    *)
(* with a firmware: never by the timeout. *)
THEOREM SessionsEndForAReason == Spec => SessionEndsForAReason
<1> DEFINE Ended ==
      (step # "update" /\ step' = "update" /\ is_remain) => is_quit \/ check_step = "success"
<1>1. IInv /\ [Next]_vars => [Ended]_vars
  <2> SUFFICES ASSUME IInv, Next, step # "update", step' = "update", is_remain
               PROVE  is_quit \/ check_step = "success"
    OBVIOUS
  <2>1. DelayEnds \/ SdcardStep
    BY DEF Next, Main, IapProcess, KeyProcess, SdcardCheck, InitStep, WaitSyncStep,
           BootProcessStep, UpdateStep, ErrorStep, UploadOpen, UploadDone,
           KeyMoves, CardAppears
  <2> QED
    BY <2>1 DEF DelayEnds, SdcardStep, IInv, Reasons
<1> QED
  BY Invariance, <1>1, PTL DEF Spec, SessionEndsForAReason
=============================================================================
