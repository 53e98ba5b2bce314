-------------------------------- MODULE SdCard ---------------------------------
(***************************************************************************)
(* sdcard_update of applications/sdcard.c: the firmware file of the card   *)
(* goes to the download partition, in pieces as long as the file system    *)
(* likes to return them, with a card that may be pulled out and a flash    *)
(* that may fail.  system_process goes on to the update step whatever      *)
(* comes of it: CardCheck.                                                 *)
(***************************************************************************)
EXTENDS NorFlash

CONSTANTS
  PartLen,      \* length of the download partition
  PageLen,
  FirmBufSize,  \* FIRM_BUF_SIZE
  MaxFaults     \* bound on failed flash operations

VARIABLES
  down,         \* the download partition
  file,         \* the card's file, a sequence of cells
  pulled,       \* the card is out
  pc,           \* "stat", "open", "erase", "copy", "done"
  total_length,
  ret,
  faults,
  unnoticed     \* a failed program went unnoticed

Blank == [i \in 0 .. PartLen - 1 |-> Erased]
Before == [i \in 0 .. PartLen - 1 |-> Garbage]

Init ==
  /\ down = Before /\ pulled = FALSE
  /\ pc = "stat" /\ total_length = 0 /\ ret = "error" /\ faults = 0 /\ unnoticed = FALSE

GiveUp == pc' = "done" /\ UNCHANGED <<down, total_length, ret, faults, unnoticed>>

Fits == Len(file) \in 1 .. PartLen

Stat ==
  /\ pc = "stat"
  /\ \/ (pulled \/ ~Fits) /\ GiveUp
     \/ /\ ~pulled /\ Fits
        /\ pc' = "open" /\ UNCHANGED <<down, total_length, ret, faults, unnoticed>>

Open ==
  /\ pc = "open"
  /\ \/ pulled /\ GiveUp
     \/ ~pulled /\ pc' = "erase" /\ UNCHANGED <<down, total_length, ret, faults, unnoticed>>

Erase ==
  /\ pc = "erase"
  /\ \/ /\ down' = Blank
        /\ pc' = "copy" /\ UNCHANGED faults
     \/ /\ faults < MaxFaults /\ faults' = faults + 1
        /\ down' \in Torn(down, Blank)
        /\ pc' = "done"
  /\ UNCHANGED <<total_length, ret, unnoticed>>

(* Slip: the length of the buffer counts, not the one that was read.       *)
(* (Operators introduced as "Slip:" are never used: each is a plausible    *)
(* mistake in the definition after it, kept to show that the properties    *)
(* would notice.)                                                          *)
CountBuffer(n) == total_length' = total_length + FirmBufSize

Count(n) == total_length' = total_length + n

AfterPiece ==
  IF total_length' < Len(file) THEN pc' = "copy" /\ UNCHANGED ret
  ELSE pc' = "done" /\ ret' = "ok"

(* Slip: a failed write does not end the copy. *)
WriteGoesOn(n) == Count(n) /\ AfterPiece

WriteStops(n) == pc' = "done" /\ UNCHANGED <<total_length, ret>>

(* read() returns a part of what was asked for; the piece is written.      *)
CopyPiece ==
  /\ pc = "copy" /\ ~pulled
  /\ \E n \in 1 .. Smaller(FirmBufSize, Len(file) - total_length) :
       LET piece == SubSeq(file, total_length + 1, total_length + n)
       IN  \/ /\ down' = WriteDone(down, piece, total_length)
              /\ Count(n) /\ AfterPiece
              /\ UNCHANGED <<faults, unnoticed>>
           \/ /\ total_length % PageLen # 0
              /\ faults < MaxFaults /\ faults' = faults + 1
              /\ down' \in WriteUnnoticed(down, piece, total_length, PageLen)
              /\ unnoticed' = TRUE
              /\ Count(n) /\ AfterPiece
           \/ /\ faults < MaxFaults /\ faults' = faults + 1
              /\ down' \in WriteFailed(down, piece, total_length, PageLen)
              /\ WriteStops(n)
              /\ UNCHANGED unnoticed

(* Slip: a read that returns nothing is tried again. *)
ReadAgain == pc = "copy" /\ pulled /\ UNCHANGED <<down, pc, total_length, ret, faults, unnoticed>>

ReadFails == pc = "copy" /\ pulled /\ GiveUp

Pull ==
  /\ ~pulled /\ pc # "done" /\ pulled' = TRUE
  /\ UNCHANGED <<down, file, pc, total_length, ret, faults, unnoticed>>

Update == (Stat \/ Open \/ Erase \/ CopyPiece \/ ReadFails) /\ UNCHANGED <<file, pulled>>

(***************************************************************************)
(* Properties                                                              *)
(***************************************************************************)

Holds(s) == down = [i \in 0 .. PartLen - 1 |-> IF i < Len(s) THEN s[i + 1] ELSE Erased]

(* What the update step finds afterwards: without a failed flash operation *)
(* the partition is as it was, or holds the file up to where the card was  *)
(* pulled out and is blank behind it; after a failed one it may be torn,   *)
(* but whatever was refused before the erase left the package alone.       *)
CutShortAtWorst ==
  pc = "done" /\ faults = 0 =>
    down = Before \/ \E n \in 0 .. Len(file) : Holds(SubSeq(file, 1, n))

(* sdcard_update returns RT_EOK only when the partition holds the whole    *)
(* file, unless a failed program went unnoticed.                           *)
OkMeansStored == ret = "ok" /\ ~unnoticed => Holds(file)
=============================================================================
