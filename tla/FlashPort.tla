------------------------------- MODULE FlashPort -------------------------------
(***************************************************************************)
(* write() and erase() of board/fal_flash_port.c, called by the main       *)
(* thread and by the web server's thread, with the critical sections       *)
(* around every ROM call.                                                  *)
(*                                                                         *)
(* The program executes from the flash it writes.  While a ROM call is in  *)
(* progress nothing may fetch from the flash: no other thread, and no      *)
(* handler of an external interrupt (the timer's handler and the scheduler *)
(* are in RAM).  The scheduler lock is one global counter and the          *)
(* interrupt mask one bit, both shared by the threads.                     *)
(***************************************************************************)
EXTENDS NorFlash

CONSTANTS
  PartLen,         \* cells of the flash
  PageLen,     \* page size, and sizeof(buf_32)
  SectorLen,   \* blk_size
  Ranges,      \* the offsets and sizes that calls are made with
  MaxFaults    \* bound on failed ROM calls

ASSUME PortAssumption ==
  /\ PartLen \in Nat \ {0} /\ PageLen \in Nat \ {0} /\ SectorLen \in Nat \ {0}
  /\ PartLen % SectorLen = 0
  /\ \A r \in Ranges : r.off \in Nat /\ r.size \in Nat \ {0} /\ r.off + r.size <= PartLen
  /\ MaxFaults \in Nat

Thread == {"main", "web"}       \* main has the higher priority

VARIABLES
  mem,          \* the flash
  call,         \* the call each thread is in, or was in last
  step,         \* where each thread is
  allDone,      \* every ROM call of the thread's call succeeded
  current,      \* the running thread
  mainReady,    \* main is not waiting
  lock_nest,    \* rt_scheduler_lock_nest
  irq,          \* external interrupts are enabled
  faults

sched == <<current, mainReady, lock_nest, irq>>
vars  == <<mem, call, step, allDone, sched, faults>>

(* A call: its function, its range, the next address, and its result.      *)
Call == [fn : {"write", "erase"}, off : 0 .. PartLen - 1, size : 1 .. PartLen,
         at : Nat, ret : {"size", "error"}]

EndOf(c) == c.off + c.size

(* erase() rounds the size up to whole sectors. *)
EraseEnd(c) == c.off + ((c.size + SectorLen - 1) \div SectorLen) * SectorLen

(* Slip: the last page is programmed whole.  (Operators introduced as      *)
(* "Slip:" are never used: each is a plausible mistake in the definition   *)
(* after it, kept to show that the properties would notice.)               *)
WholePage(c) == IF c.fn = "erase" THEN SectorLen ELSE PageLen - (c.at % PageLen)

(* write() stops at the next page boundary, erase() does a sector. *)
Stretch(c) == IF c.fn = "erase" THEN SectorLen
              ELSE Smaller(PageLen - (c.at % PageLen), EndOf(c) - c.at)

Wanted(t) ==
  LET c == call[t]
      region == Cells(mem, c.at, Stretch(c))
  IN  IF c.fn = "erase" THEN Wiped(mem, region)
      ELSE Programmed(mem, [i \in region |-> t], region)

(***************************************************************************)
(* The calls                                                               *)
(***************************************************************************)

At(t, s) == current = t /\ step[t] = s
Go(t, s) == step' = [step EXCEPT ![t] = s]

(* A thread calls write() or, on a sector boundary, erase(). *)
Begin(t) ==
  /\ At(t, "idle")
  /\ \E r \in Ranges, fn \in {"write", "erase"} :
       /\ fn = "erase" => r.off % SectorLen = 0
       /\ call' = [call EXCEPT ![t] =
            [fn |-> fn, off |-> r.off, size |-> r.size, at |-> r.off, ret |-> "size"]]
  /\ allDone' = [allDone EXCEPT ![t] = TRUE]
  /\ Go(t, "enter")
  /\ UNCHANGED <<mem, sched, faults>>

(* Slip: only the interrupts are masked. *)
EnterUnlocked(t) ==
  /\ At(t, "enter")
  /\ Go(t, "mask")
  /\ UNCHANGED <<mem, call, allDone, sched, faults>>

(* FAL_ENTER_CRITICAL: rt_enter_critical, then disable_irq_from_intc. *)
EnterCritical(t) ==
  /\ At(t, "enter")
  /\ lock_nest' = lock_nest + 1
  /\ Go(t, "mask")
  /\ UNCHANGED <<mem, call, allDone, current, mainReady, irq, faults>>

MaskIrq(t) ==
  /\ At(t, "mask")
  /\ irq' = FALSE
  /\ Go(t, "busy")
  /\ UNCHANGED <<mem, call, allDone, current, mainReady, lock_nest, faults>>

(* Slip: every failed program goes unnoticed, not only the first one. *)
SwallowedAll(c) == c.fn = "write"

(* After a success the call goes on; after a failure it ends with an error *)
(* unless it was the program of an unaligned first page, whose result is   *)
(* compared as an unsigned number and never found negative.                *)
Swallowed(c) == c.fn = "write" /\ (c.at % PageLen) # 0

RomCall(t) ==
  /\ At(t, "busy")
  /\ \/ /\ mem' = Wanted(t)
        /\ call' = [call EXCEPT ![t].at = @ + Stretch(call[t])]
        /\ UNCHANGED <<allDone, faults>>
     \/ /\ faults < MaxFaults
        /\ faults' = faults + 1
        /\ mem' \in Torn(mem, Wanted(t))
        /\ allDone' = [allDone EXCEPT ![t] = FALSE]
        /\ call' = IF Swallowed(call[t])
                     THEN [call EXCEPT ![t].at = @ + Stretch(call[t])]
                     ELSE [call EXCEPT ![t].ret = "error"]
  /\ Go(t, "unlock")
  /\ UNCHANGED sched

(* FAL_EXIT_CRITICAL: the controller is reset, then rt_exit_critical,      *)
(* which runs the thread of highest priority that is ready, and only then  *)
(* the interrupts.                                                         *)
ExitCritical(t) ==
  /\ At(t, "unlock")
  /\ lock_nest' = lock_nest - 1
  /\ current' = IF lock_nest' = 0 /\ mainReady THEN "main" ELSE t
  /\ Go(t, "unmask")
  /\ UNCHANGED <<mem, call, allDone, mainReady, irq, faults>>

Finished(c) == c.ret = "error" \/ c.at >= (IF c.fn = "erase" THEN EraseEnd(c) ELSE EndOf(c))

(* Slip: a finished call leaves the interrupts masked. *)
UnmaskMissed(t) ==
  /\ At(t, "unmask")
  /\ irq' = ~Finished(call[t])
  /\ Go(t, IF Finished(call[t]) THEN "idle" ELSE "enter")
  /\ UNCHANGED <<mem, call, allDone, current, mainReady, lock_nest, faults>>

UnmaskIrq(t) ==
  /\ At(t, "unmask")
  /\ irq' = TRUE
  /\ Go(t, IF Finished(call[t]) THEN "idle" ELSE "enter")
  /\ UNCHANGED <<mem, call, allDone, current, mainReady, lock_nest, faults>>

(***************************************************************************)
(* The scheduler                                                           *)
(***************************************************************************)

(* main waits (the receive's semaphore, rt_thread_mdelay). *)
MainBlocks ==
  /\ At("main", "idle") /\ lock_nest = 0
  /\ mainReady' = FALSE
  /\ current' = "web"
  /\ UNCHANGED <<mem, call, step, allDone, lock_nest, irq, faults>>

(* The tick, whose handler is never masked, or a received byte, whose      *)
(* handler is, ends the wait; main runs at once unless the scheduler is    *)
(* locked.                                                                 *)
MainWakes ==
  /\ ~mainReady
  /\ mainReady' = TRUE
  /\ current' = IF lock_nest = 0 THEN "main" ELSE current
  /\ UNCHANGED <<mem, call, step, allDone, lock_nest, irq, faults>>

Init ==
  /\ mem = [i \in 0 .. PartLen - 1 |-> Erased]
  /\ call = [t \in Thread |-> [fn |-> "write", off |-> 0, size |-> 1, at |-> 1, ret |-> "size"]]
  /\ step = [t \in Thread |-> "idle"]
  /\ allDone = [t \in Thread |-> TRUE]
  /\ current = "main" /\ mainReady = TRUE /\ lock_nest = 0 /\ irq = TRUE
  /\ faults = 0

InCall(t) ==
  EnterCritical(t) \/ MaskIrq(t) \/ RomCall(t) \/ ExitCritical(t) \/ UnmaskIrq(t)

Next ==
  \/ \E t \in Thread : Begin(t) \/ InCall(t)
  \/ MainBlocks \/ MainWakes

Spec == Init /\ [][Next]_vars

(* A thread that runs makes progress in its call; main's loop always comes *)
(* back to a wait.                                                         *)
Fairness ==
  /\ \A t \in Thread : SF_vars(InCall(t))
  /\ SF_vars(MainBlocks)

FairSpec == Spec /\ Fairness

(***************************************************************************)
(* Properties                                                              *)
(***************************************************************************)

(* Every variable keeps to its type; the lock is never held twice. *)
TypeOK ==
  /\ mem \in [0 .. PartLen - 1 -> {Erased, Garbage} \cup Thread]
  /\ call \in [Thread -> Call]
  /\ step \in [Thread -> {"idle", "enter", "mask", "busy", "unlock", "unmask"}]
  /\ allDone \in [Thread -> BOOLEAN]
  /\ current \in Thread /\ mainReady \in BOOLEAN
  /\ lock_nest \in 0 .. 1 /\ irq \in BOOLEAN /\ faults \in 0 .. MaxFaults

(* While the flash is busy nothing else can fetch from it: the caller is   *)
(* the running thread, the scheduler cannot take the processor from it,    *)
(* and no external interrupt is taken, although another thread's           *)
(* FAL_EXIT_CRITICAL may still have its enable_irq_from_intc to do.        *)
BusyAlone ==
  \A t \in Thread : step[t] = "busy" => current = t /\ lock_nest > 0 /\ ~irq

(* A call never touches a cell outside the range it was given, rounded up  *)
(* to sectors for an erase, however the two threads' calls interleave.     *)
StaysInRange ==
  [][\A t \in Thread, i \in 0 .. PartLen - 1 :
       (step[t] = "busy" /\ step'[t] # "busy" /\ mem'[i] # mem[i])
         => /\ call[t].off <= i
            /\ i < (IF call[t].fn = "erase" THEN EraseEnd(call[t]) ELSE EndOf(call[t]))]_vars

(* An erase, or a write from a page boundary (the only ones firm_upgrade   *)
(* makes but for the header), that returned the size has done all of it.   *)
(* A write from elsewhere has not always: it does not look at the result   *)
(* of its first program (fal_flash_port.c:175).                            *)
AlignedReturnHonest ==
  \A t \in Thread :
    (step[t] = "idle" /\ call[t].ret = "size" /\ call[t].off % PageLen = 0) => allDone[t]

(* Interrupts masked around a ROM call are enabled again, although the     *)
(* thread that masked them may lose the processor before it does so.       *)
IrqComesBack == ~irq ~> irq
=============================================================================
