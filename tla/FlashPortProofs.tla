---------------------------- MODULE FlashPortProofs -----------------------------
(***************************************************************************)
(* Proofs about FlashPort: that a busy flash is used by nobody else, that  *)
(* a call keeps to its range and that it says what became of it, for every *)
(* geometry, every set of calls and every number of failures.              *)
(***************************************************************************)
EXTENDS FlashPort, TLAPS

(* The thread is between FAL_ENTER_CRITICAL's lock and its release. *)
Holding(t) == step[t] \in {"mask", "busy", "unlock"}

(* The lock counts its only holder, which has the processor.               *)
Locked ==
  /\ lock_nest = IF \E t \in Thread : Holding(t) THEN 1 ELSE 0
  /\ \A t \in Thread : Holding(t) => current = t

(* No thread that could enable the interrupts runs while the flash is busy. *)
Masked == \A t \in Thread : step[t] = "busy" => ~irq

(* What is known of a call c whose thread is at s. *)
Progress(c, s) ==
  /\ c.off <= c.at
  /\ c.fn = "erase" => \E n \in Nat : c.at = c.off + n * SectorLen
  /\ s \in {"enter", "mask", "busy"} => ~Finished(c)

(* A write that began at a page is at one again, or at its end; and what a *)
(* call has not said yet did not happen to it. *)
Honest(c, done) ==
  c.ret = "size" /\ c.off % PageLen = 0 =>
    done /\ (c.fn = "write" /\ c.at < EndOf(c) => c.at % PageLen = 0)

Calls ==
  \A t \in Thread : Progress(call[t], step[t]) /\ Honest(call[t], allDone[t])

IInv == TypeOK /\ Locked /\ Masked /\ Calls

(***************************************************************************)
(* Arithmetic                                                              *)
(***************************************************************************)

LEMMA Multiples ==
  ASSUME NEW s \in Nat \ {0}, NEW m \in Nat, NEW n \in Nat, n * s < m * s
  PROVE  n * s + s <= m * s
<1>1. n < m
  <2> SUFFICES ASSUME m <= n PROVE FALSE
    OBVIOUS
  <2>1. PICK d \in Nat : n = m + d
    <3> WITNESS n - m \in Nat
    <3> QED
      OBVIOUS
  <2>2. n * s = m * s + d * s
    BY <2>1
  <2>3. d * s >= 0
    OBVIOUS
  <2>4. n * s \in Int /\ m * s \in Int /\ d * s \in Int
    OBVIOUS
  <2> QED
    BY <2>2, <2>3, <2>4
<1>2. PICK d \in Nat : m = n + 1 + d
  <2> WITNESS m - n - 1 \in Nat
  <2> QED
    BY <1>1
<1>3. m * s = n * s + s + d * s
  BY <1>2
<1>4. d * s >= 0
  OBVIOUS
<1>5. n * s \in Int /\ m * s \in Int /\ d * s \in Int
  OBVIOUS
<1> QED
  BY <1>3, <1>4, <1>5

(* The next page boundary is one. *)
LEMMA NextPage ==
  ASSUME NEW a \in Nat, NEW p \in Nat \ {0}
  PROVE  /\ a % p \in 0 .. p - 1
         /\ (a + (p - (a % p))) % p = 0
<1>1. a % p \in 0 .. p - 1
  OBVIOUS
<1>2. a = p * (a \div p) + (a % p) /\ a \div p \in Int
  OBVIOUS
<1>3. a + (p - (a % p)) = p * (a \div p) + p
  BY <1>1, <1>2
<1>4. p * (a \div p) + p = p * (a \div p + 1)
  BY <1>2
<1>5. (p * (a \div p + 1)) % p = 0
  BY <1>2
<1> QED
  BY <1>1, <1>3, <1>4, <1>5

(***************************************************************************)
(* A ROM call                                                              *)
(***************************************************************************)

(* The stretch of a call that is not finished lies in its range, and the   *)
(* next address is again one the call can be at. *)
LEMMA StretchFacts ==
  ASSUME NEW c \in Call, Progress(c, "busy"), c.fn = "erase" \/ c.fn = "write"
  PROVE  /\ Stretch(c) \in Nat \ {0}
         /\ c.at + Stretch(c) <= IF c.fn = "erase" THEN EraseEnd(c) ELSE EndOf(c)
         /\ c.fn = "erase" => \E n \in Nat : c.at + Stretch(c) = c.off + n * SectorLen
         /\ c.fn = "write" /\ c.at + Stretch(c) < EndOf(c) =>
              (c.at + Stretch(c)) % PageLen = 0
<1>1. /\ c.at \in Nat /\ c.off \in Nat /\ c.size \in Nat \ {0}
      /\ PageLen \in Nat \ {0} /\ SectorLen \in Nat \ {0}
  BY PortAssumption DEF Call
<1>2. CASE c.fn = "erase"
  <2>1. PICK n \in Nat : c.at = c.off + n * SectorLen
    BY <1>2 DEF Progress
  <2> DEFINE m == (c.size + SectorLen - 1) \div SectorLen
  <2>2. m \in Nat
    BY <1>1
  <2>3. EraseEnd(c) = c.off + m * SectorLen
    BY DEF EraseEnd
  <2>4. c.at < EraseEnd(c)
    <3>1. ~(c.at >= EraseEnd(c))
      BY <1>2 DEF Progress, Finished
    <3>2. EraseEnd(c) \in Int
      BY <1>1, <2>2, <2>3
    <3> QED
      BY <1>1, <3>1, <3>2
  <2> HIDE DEF m
  <2>5. n * SectorLen \in Nat /\ m * SectorLen \in Nat
    BY <1>1, <2>2
  <2>6. n * SectorLen + SectorLen <= m * SectorLen
    <3>1. n * SectorLen < m * SectorLen
      BY <1>1, <2>1, <2>3, <2>4, <2>5
    <3> QED
      BY <1>1, <2>2, <3>1, Multiples
  <2>7. c.at + SectorLen = c.off + (n + 1) * SectorLen
    <3>1. (n + 1) * SectorLen = n * SectorLen + SectorLen
      BY <1>1
    <3> QED
      BY <1>1, <2>1, <2>5, <3>1
  <2>8. Stretch(c) = SectorLen
    BY <1>2 DEF Stretch
  <2>9. c.at + SectorLen <= EraseEnd(c)
    BY <1>1, <2>1, <2>3, <2>5, <2>6
  <2>10. \E k \in Nat : c.at + SectorLen = c.off + k * SectorLen
    <3>1. n + 1 \in Nat
      OBVIOUS
    <3> QED
      BY <2>7, <3>1
  <2> QED
    BY <1>1, <1>2, <2>8, <2>9, <2>10
<1>3. CASE c.fn = "write"
  <2>1. c.at < EndOf(c) /\ EndOf(c) \in Nat
    BY <1>1, <1>3 DEF Progress, Finished, EndOf
  <2> DEFINE toNext == PageLen - (c.at % PageLen)
  <2>2. toNext \in Nat \ {0} /\ (c.at + toNext) % PageLen = 0
    <3>1. /\ c.at % PageLen \in 0 .. PageLen - 1
          /\ (c.at + (PageLen - (c.at % PageLen))) % PageLen = 0
      BY <1>1, NextPage, Zenon
    <3>2. PageLen - (c.at % PageLen) \in Nat \ {0}
      BY <1>1, <3>1
    <3> QED
      BY <3>1, <3>2
  <2> HIDE DEF toNext
  <2>3. Stretch(c) = Smaller(toNext, EndOf(c) - c.at)
    BY <1>3 DEF Stretch, toNext
  <2> QED
    BY <1>1, <1>3, <2>1, <2>2, <2>3 DEF Smaller
<1> QED
  BY <1>2, <1>3

(* Whether it succeeds or fails, a ROM call changes only the cells of its  *)
(* stretch, to what a cell can hold. *)
LEMMA RomChanges ==
  ASSUME TypeOK, NEW t \in Thread, RomCall(t)
  PROVE  /\ mem' \in [0 .. PartLen - 1 -> {Erased, Garbage} \cup Thread]
         /\ \A i \in 0 .. PartLen - 1 :
              mem'[i] # mem[i] => call[t].at <= i /\ i < call[t].at + Stretch(call[t])
<1> DEFINE region == Cells(mem, call[t].at, Stretch(call[t]))
           V      == {Erased, Garbage} \cup Thread
<1>1. mem \in [0 .. PartLen - 1 -> V]
  BY DEF TypeOK
<1>2. /\ Wanted(t) \in [0 .. PartLen - 1 -> V]
      /\ \A i \in 0 .. PartLen - 1 : i \notin region => Wanted(t)[i] = mem[i]
  <2>1. CASE call[t].fn = "erase"
    <3>1. Wanted(t) = Wiped(mem, region)
      BY <2>1 DEF Wanted
    <3> QED
      BY <1>1, <3>1 DEF Wiped
  <2>2. CASE call[t].fn # "erase"
    <3>1. Wanted(t) = Programmed(mem, [i \in region |-> t], region)
      BY <2>2 DEF Wanted
    <3> QED
      BY <1>1, <3>1 DEF Programmed, Burn
  <2> QED
    BY <2>1, <2>2
<1>3. CASE mem' = Wanted(t)
  BY <1>2, <1>3 DEF Cells
<1>4. CASE mem' \in Torn(mem, Wanted(t))
  <2> DEFINE touched == {i \in DOMAIN mem : mem[i] # Wanted(t)[i]}
  <2>1. PICK how \in [touched -> {"kept", "done", "mixed"}] :
          mem' = [i \in DOMAIN mem |->
                    IF i \notin touched THEN mem[i]
                    ELSE CASE how[i] = "kept" -> mem[i]
                           [] how[i] = "done" -> Wanted(t)[i]
                           [] OTHER           -> Garbage]
    BY <1>4 DEF Torn
  <2>2. \A i \in 0 .. PartLen - 1 : mem'[i] # mem[i] => i \in region
    BY <1>1, <1>2, <2>1
  <2> QED
    BY <1>1, <1>2, <2>1, <2>2 DEF Cells
<1> QED
  BY <1>3, <1>4 DEF RomCall

(***************************************************************************)
(* The invariant is inductive                                              *)
(***************************************************************************)

LEMMA InitIInv == Init => IInv
<1> SUFFICES ASSUME Init PROVE IInv
  OBVIOUS
<1>1. TypeOK
  BY PortAssumption DEF Init, TypeOK, Call, Thread
<1>2. Locked /\ Masked
  BY DEF Init, Locked, Masked, Holding
<1>3. Calls
  <2> SUFFICES ASSUME NEW t \in Thread
               PROVE  Progress(call[t], step[t]) /\ Honest(call[t], allDone[t])
    BY DEF Calls
  <2>1. /\ call[t] = [fn |-> "write", off |-> 0, size |-> 1, at |-> 1, ret |-> "size"]
        /\ step[t] = "idle" /\ allDone[t] = TRUE
    BY DEF Init
  <2> QED
    BY <2>1 DEF Progress, Honest, EndOf
<1> QED
  BY <1>1, <1>2, <1>3 DEF IInv

(* The lock is only taken by the thread that has the processor, and then   *)
(* the processor stays with it. *)
LEMMA LockFacts ==
  ASSUME IInv, NEW t \in Thread, current = t
  PROVE  /\ \A u \in Thread : u # t => ~Holding(u)
         /\ lock_nest = IF Holding(t) THEN 1 ELSE 0
BY DEF IInv, Locked

LEMMA BeginKeeps ==
  ASSUME IInv, NEW t \in Thread, Begin(t)
  PROVE  IInv'
<1>1. PICK r \in Ranges, fn \in {"write", "erase"} :
        call' = [call EXCEPT ![t] =
          [fn |-> fn, off |-> r.off, size |-> r.size, at |-> r.off, ret |-> "size"]]
  BY DEF Begin
<1>2. /\ step' = [step EXCEPT ![t] = "enter"] /\ step[t] = "idle"
      /\ allDone' = [allDone EXCEPT ![t] = TRUE]
      /\ UNCHANGED <<mem, current, mainReady, lock_nest, irq, faults>>
  BY DEF Begin, At, Go, sched
<1>3. /\ r.off \in 0 .. PartLen - 1 /\ r.size \in 1 .. PartLen
      /\ r.off \in Nat /\ r.size \in Nat \ {0}
  BY PortAssumption
<1> DEFINE c == [fn |-> fn, off |-> r.off, size |-> r.size, at |-> r.off, ret |-> "size"]
<1>4. TypeOK'
  <2>1. c \in Call
    BY <1>3 DEF Call
  <2> QED
    BY <1>1, <1>2, <2>1 DEF IInv, TypeOK
<1>5. Locked' /\ Masked'
  BY <1>2 DEF IInv, TypeOK, Locked, Masked, Holding
<1>6. Progress(c, "enter") /\ Honest(c, TRUE)
  <2>1. r.off < EndOf(c)
    BY <1>3 DEF EndOf
  <2>2. fn = "erase" => r.off < EraseEnd(c) /\ EraseEnd(c) \in Int
    <3> DEFINE m == (r.size + SectorLen - 1) \div SectorLen
    <3>1. m \in Nat \ {0} /\ SectorLen \in Nat \ {0}
      BY <1>3, PortAssumption
    <3>2. EraseEnd(c) = r.off + m * SectorLen
      BY DEF EraseEnd
    <3> HIDE DEF m
    <3>3. m * SectorLen \in Nat \ {0}
      BY <3>1
    <3> QED
      BY <1>3, <3>2, <3>3
  <2>3. ~Finished(c)
    BY <1>3, <2>1, <2>2 DEF Finished, EndOf
  <2>4. fn = "erase" => \E n \in Nat : r.off = r.off + n * SectorLen
    <3>1. r.off = r.off + 0 * SectorLen
      BY <1>3, PortAssumption
    <3> QED
      BY <3>1
  <2>5. Progress(c, "enter")
    BY <1>3, <2>3, <2>4 DEF Progress
  <2>6. Honest(c, TRUE)
    BY DEF Honest
  <2> QED
    BY <2>5, <2>6
<1>7. Calls'
  <2> SUFFICES ASSUME NEW u \in Thread
               PROVE  Progress(call'[u], step'[u]) /\ Honest(call'[u], allDone'[u])
    BY DEF Calls
  <2>1. /\ call' = [call EXCEPT ![t] = c]
        /\ DOMAIN call = Thread /\ DOMAIN step = Thread /\ DOMAIN allDone = Thread
    BY <1>1 DEF IInv, TypeOK
  <2> HIDE DEF c
  <2>2. CASE u = t
    BY <1>2, <1>6, <2>1, <2>2
  <2>3. CASE u # t
    BY <1>2, <2>1, <2>3 DEF IInv, Calls
  <2> QED
    BY <2>2, <2>3
<1> QED
  BY <1>4, <1>5, <1>7 DEF IInv

LEMMA EnterKeeps ==
  ASSUME IInv, NEW t \in Thread, EnterCritical(t)
  PROVE  IInv'
<1>1. /\ current = t /\ step[t] = "enter" /\ step' = [step EXCEPT ![t] = "mask"]
      /\ lock_nest' = lock_nest + 1
      /\ UNCHANGED <<mem, call, allDone, current, mainReady, irq, faults>>
  BY DEF EnterCritical, At, Go
<1>2. lock_nest = 0 /\ \A u \in Thread : ~Holding(u)
  BY <1>1, LockFacts DEF Holding
<1>3. TypeOK'
  BY <1>1, <1>2 DEF IInv, TypeOK
<1>4. Locked' /\ Masked'
  BY <1>1, <1>2 DEF IInv, TypeOK, Locked, Masked, Holding
<1>5. Calls'
  BY <1>1 DEF IInv, TypeOK, Calls, Progress
<1> QED
  BY <1>3, <1>4, <1>5 DEF IInv

LEMMA MaskKeeps ==
  ASSUME IInv, NEW t \in Thread, MaskIrq(t)
  PROVE  IInv'
<1>1. /\ current = t /\ step[t] = "mask" /\ step' = [step EXCEPT ![t] = "busy"]
      /\ irq' = FALSE
      /\ UNCHANGED <<mem, call, allDone, current, mainReady, lock_nest, faults>>
  BY DEF MaskIrq, At, Go
<1>2. TypeOK'
  BY <1>1 DEF IInv, TypeOK
<1>3. Locked' /\ Masked'
  BY <1>1 DEF IInv, TypeOK, Locked, Masked, Holding
<1>4. Calls'
  BY <1>1 DEF IInv, TypeOK, Calls, Progress
<1> QED
  BY <1>2, <1>3, <1>4 DEF IInv

LEMMA RomKeeps ==
  ASSUME IInv, NEW t \in Thread, RomCall(t)
  PROVE  IInv'
<1> DEFINE c == call[t]
           further == [call EXCEPT ![t].at = c.at + Stretch(c)]
           failed  == [call EXCEPT ![t].ret = "error"]
<1>1. /\ step[t] = "busy" /\ step' = [step EXCEPT ![t] = "unlock"]
      /\ UNCHANGED <<current, mainReady, lock_nest, irq>>
  BY DEF RomCall, At, Go, sched
<1>2. /\ call \in [Thread -> Call] /\ DOMAIN step = Thread
      /\ allDone \in [Thread -> BOOLEAN] /\ c \in Call
      /\ c.at \in Nat /\ c.off \in Nat /\ c.size \in Nat
      /\ c.fn \in {"write", "erase"} /\ c.ret \in {"size", "error"}
  BY DEF IInv, TypeOK, Call
<1>3. Progress(c, "busy") /\ Honest(c, allDone[t])
  BY <1>1 DEF IInv, Calls
<1>4. /\ Stretch(c) \in Nat \ {0}
      /\ c.fn = "erase" => \E n \in Nat : c.at + Stretch(c) = c.off + n * SectorLen
      /\ c.fn = "write" /\ c.at + Stretch(c) < EndOf(c) => (c.at + Stretch(c)) % PageLen = 0
  BY <1>2, <1>3, StretchFacts
<1>5. \/ call' = further /\ UNCHANGED <<allDone, faults>>
      \/ /\ faults < MaxFaults /\ faults' = faults + 1
         /\ allDone' = [allDone EXCEPT ![t] = FALSE]
         /\ call' = IF Swallowed(c) THEN further ELSE failed
  BY DEF RomCall
<1>6. /\ further \in [Thread -> Call] /\ failed \in [Thread -> Call]
      /\ further[t] = [c EXCEPT !.at = c.at + Stretch(c)]
      /\ failed[t] = [c EXCEPT !.ret = "error"]
      /\ \A u \in Thread : u # t => further[u] = call[u] /\ failed[u] = call[u]
  BY <1>2, <1>4 DEF Call
<1> HIDE DEF further, failed
<1>7. TypeOK'
  <2>1. faults' \in 0 .. MaxFaults
    BY <1>5, PortAssumption DEF IInv, TypeOK
  <2>2. call' \in [Thread -> Call] /\ allDone' \in [Thread -> BOOLEAN]
    BY <1>2, <1>5, <1>6
  <2>3. mem' \in [0 .. PartLen - 1 -> {Erased, Garbage} \cup Thread]
    BY RomChanges DEF IInv
  <2> QED
    BY <1>1, <2>1, <2>2, <2>3 DEF IInv, TypeOK
<1>8. Locked' /\ Masked'
  BY <1>1, <1>2 DEF IInv, Locked, Masked, Holding
<1>9. Progress(call'[t], "unlock") /\ Honest(call'[t], allDone'[t])
  <2> DEFINE d == [c EXCEPT !.at = c.at + Stretch(c)]
             e == [c EXCEPT !.ret = "error"]
  <2>1. /\ d.at = c.at + Stretch(c) /\ d.off = c.off /\ d.fn = c.fn /\ d.ret = c.ret
        /\ EndOf(d) = EndOf(c)
        /\ e.at = c.at /\ e.off = c.off /\ e.fn = c.fn /\ e.ret = "error"
    BY <1>2 DEF Call, EndOf
  <2> HIDE DEF d, e
  <2>2. Progress(d, "unlock") /\ Progress(e, "unlock")
    BY <1>2, <1>3, <1>4, <2>1 DEF Progress
  <2>3. Honest(e, FALSE)
    BY <2>1 DEF Honest
  <2>4. Honest(d, allDone[t])
    BY <1>2, <1>3, <1>4, <2>1 DEF Honest
  <2>5. Swallowed(c) => Honest(d, FALSE)
    <3>1. c.at < EndOf(c) /\ c.fn = "write" /\ c.at % PageLen # 0
          => ~(c.ret = "size" /\ c.off % PageLen = 0)
      BY <1>3 DEF Honest
    <3>2. c.fn = "write" => c.at < EndOf(c)
      BY <1>2, <1>3 DEF Progress, Finished, EndOf
    <3>3. Swallowed(c) => ~(d.ret = "size" /\ d.off % PageLen = 0)
      BY <2>1, <3>1, <3>2 DEF Swallowed
    <3> QED
      BY <3>3 DEF Honest
  <2>6. \/ call'[t] = d /\ allDone'[t] = allDone[t]
        \/ call'[t] = d /\ allDone'[t] = FALSE /\ Swallowed(c)
        \/ call'[t] = e /\ allDone'[t] = FALSE
    BY <1>2, <1>5, <1>6 DEF d, e
  <2> QED
    BY <2>2, <2>3, <2>4, <2>5, <2>6
<1>10. Calls'
  <2> SUFFICES ASSUME NEW u \in Thread
               PROVE  Progress(call'[u], step'[u]) /\ Honest(call'[u], allDone'[u])
    BY DEF Calls
  <2>1. CASE u = t
    BY <1>1, <1>2, <1>9, <2>1
  <2>2. CASE u # t
    <3>1. call'[u] = call[u] /\ step'[u] = step[u] /\ allDone'[u] = allDone[u]
      BY <1>1, <1>2, <1>5, <1>6, <2>2
    <3> QED
      BY <3>1 DEF IInv, Calls
  <2> QED
    BY <2>1, <2>2
<1> QED
  BY <1>7, <1>8, <1>10 DEF IInv

LEMMA ExitKeeps ==
  ASSUME IInv, NEW t \in Thread, ExitCritical(t)
  PROVE  IInv'
<1>1. /\ current = t /\ step[t] = "unlock" /\ step' = [step EXCEPT ![t] = "unmask"]
      /\ lock_nest' = lock_nest - 1 /\ current' \in {"main", t}
      /\ UNCHANGED <<mem, call, allDone, mainReady, irq, faults>>
  BY DEF ExitCritical, At, Go
<1>2. lock_nest = 1 /\ \A u \in Thread : u # t => ~Holding(u)
  BY <1>1, LockFacts DEF Holding
<1>3. TypeOK'
  BY <1>1, <1>2 DEF IInv, TypeOK, Thread
<1>4. Locked' /\ Masked'
  BY <1>1, <1>2 DEF IInv, TypeOK, Locked, Masked, Holding
<1>5. Calls'
  BY <1>1 DEF IInv, TypeOK, Calls, Progress
<1> QED
  BY <1>3, <1>4, <1>5 DEF IInv

LEMMA UnmaskKeeps ==
  ASSUME IInv, NEW t \in Thread, UnmaskIrq(t)
  PROVE  IInv'
<1> DEFINE next == IF Finished(call[t]) THEN "idle" ELSE "enter"
<1>1. /\ current = t /\ step[t] = "unmask" /\ step' = [step EXCEPT ![t] = next]
      /\ irq' = TRUE
      /\ UNCHANGED <<mem, call, allDone, current, mainReady, lock_nest, faults>>
  BY DEF UnmaskIrq, At, Go
<1>2. /\ next \in {"idle", "enter"}
      /\ next = "enter" => ~Finished(call[t])
  OBVIOUS
<1> HIDE DEF next
<1>3. \A u \in Thread : ~Holding(u)
  BY <1>1, LockFacts DEF Holding
<1>4. TypeOK'
  BY <1>1, <1>2 DEF IInv, TypeOK
<1>5. Locked' /\ Masked'
  BY <1>1, <1>2, <1>3 DEF IInv, TypeOK, Locked, Masked, Holding
<1>6. Calls'
  <2> SUFFICES ASSUME NEW u \in Thread
               PROVE  Progress(call[u], step'[u]) /\ Honest(call[u], allDone[u])
    BY <1>1 DEF Calls
  <2>1. CASE u = t
    BY <1>1, <1>2, <2>1 DEF IInv, TypeOK, Calls, Progress
  <2>2. CASE u # t
    BY <1>1, <2>2 DEF IInv, TypeOK, Calls
  <2> QED
    BY <2>1, <2>2
<1> QED
  BY <1>4, <1>5, <1>6 DEF IInv

(* The scheduler takes the processor from a thread only while nobody holds *)
(* the lock. *)
LEMMA SchedulerKeeps ==
  ASSUME IInv, MainBlocks \/ MainWakes
  PROVE  IInv'
<1>1. /\ UNCHANGED <<mem, call, step, allDone, lock_nest, irq, faults>>
      /\ current' \in Thread /\ mainReady' \in BOOLEAN
      /\ lock_nest # 0 => current' = current
  BY DEF MainBlocks, MainWakes, IInv, TypeOK, Thread
<1>2. TypeOK'
  BY <1>1 DEF IInv, TypeOK
<1>3. Locked' /\ Masked'
  BY <1>1 DEF IInv, Locked, Masked, Holding
<1>4. Calls'
  BY <1>1 DEF IInv, Calls
<1> QED
  BY <1>2, <1>3, <1>4 DEF IInv

THEOREM StepIInv == IInv /\ [Next]_vars => IInv'
<1> SUFFICES ASSUME IInv, [Next]_vars PROVE IInv'
  OBVIOUS
<1>1. ASSUME NEW t \in Thread, Begin(t) PROVE IInv'
  BY <1>1, BeginKeeps
<1>2. ASSUME NEW t \in Thread, InCall(t) PROVE IInv'
  BY <1>2, EnterKeeps, MaskKeeps, RomKeeps, ExitKeeps, UnmaskKeeps DEF InCall
<1>3. CASE MainBlocks \/ MainWakes
  BY <1>3, SchedulerKeeps
<1>4. CASE UNCHANGED vars
  BY <1>4 DEF vars, sched, IInv, TypeOK, Locked, Masked, Holding, Calls
<1> QED
  BY <1>1, <1>2, <1>3, <1>4 DEF Next

THEOREM Invariance == Spec => []IInv
BY InitIInv, StepIInv, PTL DEF Spec

(***************************************************************************)
(* The results                                                             *)
(***************************************************************************)

(* Every variable keeps to its type; in particular the scheduler's lock,   *)
(* which rt_enter_critical nests, is never held twice. *)
THEOREM PortTypeCorrect == Spec => []TypeOK
<1>1. IInv => TypeOK
  BY DEF IInv
<1> QED
  BY Invariance, <1>1, PTL

(* The code between FAL_ENTER_CRITICAL and FAL_EXIT_CRITICAL has the flash *)
(* for itself, whatever the other thread was about to do to the interrupts. *)
THEOREM AloneWhileBusy == Spec => []BusyAlone
<1>1. IInv => BusyAlone
  <2> SUFFICES ASSUME IInv, NEW t \in Thread, step[t] = "busy"
               PROVE  current = t /\ lock_nest > 0 /\ ~irq
    BY DEF BusyAlone
  <2>1. Holding(t)
    BY DEF Holding
  <2> QED
    BY <2>1 DEF IInv, Locked, Masked
<1> QED
  BY Invariance, <1>1, PTL

(* write() and erase() say what became of a call that began at a page. *)
THEOREM AlignedHonest == Spec => []AlignedReturnHonest
<1>1. IInv => AlignedReturnHonest
  BY DEF IInv, Calls, Honest, AlignedReturnHonest
<1> QED
  BY Invariance, <1>1, PTL

(* No call touches a cell outside of its range. *)
THEOREM CallsStayInRange == Spec => StaysInRange
<1> DEFINE InRange ==
      \A t \in Thread, i \in 0 .. PartLen - 1 :
        (step[t] = "busy" /\ step'[t] # "busy" /\ mem'[i] # mem[i])
          => /\ call[t].off <= i
             /\ i < (IF call[t].fn = "erase" THEN EraseEnd(call[t]) ELSE EndOf(call[t]))
<1>1. IInv /\ [Next]_vars => [InRange]_vars
  <2> SUFFICES ASSUME IInv, [Next]_vars,
                      NEW t \in Thread, NEW i \in 0 .. PartLen - 1,
                      step[t] = "busy", step'[t] # "busy", mem'[i] # mem[i]
               PROVE  /\ call[t].off <= i
                      /\ i < (IF call[t].fn = "erase" THEN EraseEnd(call[t]) ELSE EndOf(call[t]))
    OBVIOUS
  <2>1. RomCall(t)
    <3>1. DOMAIN step = Thread
      BY DEF IInv, TypeOK
    <3>2. ASSUME NEW u \in Thread, Begin(u) \/ (InCall(u) /\ ~RomCall(u))
          PROVE  mem' = mem
      BY <3>2 DEF Begin, InCall, EnterCritical, MaskIrq, ExitCritical, UnmaskIrq
    <3>3. ASSUME NEW u \in Thread, RomCall(u)
          PROVE  u = t
      BY <3>1, <3>3 DEF RomCall, At, Go
    <3>4. ~(MainBlocks \/ MainWakes \/ UNCHANGED vars)
      BY DEF MainBlocks, MainWakes, vars
    <3> QED
      BY <3>2, <3>3, <3>4 DEF Next
  <2> DEFINE c == call[t]
  <2>2. c.at <= i /\ i < c.at + Stretch(c)
    BY <2>1, RomChanges DEF IInv
  <2>3. /\ c \in Call /\ Progress(c, "busy") /\ (c.fn = "erase" \/ c.fn = "write")
        /\ c.at \in Nat /\ c.off \in Nat /\ c.size \in Nat
    BY DEF IInv, TypeOK, Calls, Call
  <2>4. /\ Stretch(c) \in Nat
        /\ c.at + Stretch(c) <= IF c.fn = "erase" THEN EraseEnd(c) ELSE EndOf(c)
    BY <2>3, StretchFacts
  <2>5. EraseEnd(c) \in Int /\ EndOf(c) \in Int
    <3>1. (c.size + SectorLen - 1) \div SectorLen \in Int /\ SectorLen \in Nat
      BY <2>3, PortAssumption
    <3> QED
      BY <2>3, <3>1 DEF EraseEnd, EndOf
  <2>6. c.off <= c.at
    BY <2>3 DEF Progress
  <2> HIDE DEF c
  <2>7. c.off <= i /\ i < (IF c.fn = "erase" THEN EraseEnd(c) ELSE EndOf(c))
    BY <2>2, <2>3, <2>4, <2>5, <2>6
  <2> QED
    BY <2>7 DEF c
<1> QED
  BY Invariance, <1>1, PTL DEF Spec, StaysInRange

(***************************************************************************)
(* Masked interrupts come back                                             *)
(***************************************************************************)

(* While the interrupts are masked some thread still has its               *)
(* enable_irq_from_intc to do. *)
Owed == ~irq => \E t \in Thread : step[t] \in {"busy", "unlock", "unmask"}

LEMMA OwedKept == IInv /\ Owed /\ [Next]_vars => Owed'
<1> SUFFICES ASSUME IInv, Owed, [Next]_vars, ~irq'
             PROVE  \E u \in Thread : step'[u] \in {"busy", "unlock", "unmask"}
  BY DEF Owed
<1>1. DOMAIN step = Thread
  BY DEF IInv, TypeOK
<1>2. ASSUME NEW t \in Thread, MaskIrq(t)
      PROVE  step'[t] = "busy"
  BY <1>1, <1>2 DEF MaskIrq, Go
<1>3. ASSUME NEW t \in Thread, RomCall(t) \/ ExitCritical(t)
      PROVE  step'[t] \in {"unlock", "unmask"}
  BY <1>1, <1>3 DEF RomCall, ExitCritical, Go
<1>4. ASSUME NEW t \in Thread, Begin(t) \/ EnterCritical(t)
      PROVE  \E u \in Thread : step'[u] \in {"busy", "unlock", "unmask"}
  <2>1. /\ irq' = irq /\ step[t] \in {"idle", "enter"}
        /\ \A u \in Thread : u # t => step'[u] = step[u]
    BY <1>1, <1>4 DEF Begin, EnterCritical, At, Go, sched
  <2> QED
    BY <2>1 DEF Owed
<1>5. ASSUME NEW t \in Thread
      PROVE  ~UnmaskIrq(t)
  BY DEF UnmaskIrq
<1>6. CASE MainBlocks \/ MainWakes \/ UNCHANGED vars
  BY <1>6 DEF MainBlocks, MainWakes, vars, sched, Owed
<1> QED
  BY <1>2, <1>3, <1>4, <1>5, <1>6 DEF Next, InCall

(* Interrupts are masked only while a thread is between its                *)
(* disable_irq_from_intc and its enable_irq_from_intc, although another    *)
(* thread's pair may come in between: with both threads outside of write() *)
(* and erase() they are enabled. *)
THEOREM MaskedIsOwed == Spec => []Owed
<1>1. Init => Owed
  BY DEF Init, Owed
<1> QED
  BY Invariance, <1>1, OwedKept, PTL DEF Spec
=============================================================================
