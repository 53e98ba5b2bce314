------------------------------- MODULE CardCheck -------------------------------
(***************************************************************************)
(* What gets through the check to an installation: SYSTEM_STEP_SDCARD and  *)
(* the check of SYSTEM_STEP_UPDATE.  sdcard_update (SdCard) writes the     *)
(* download partition, from a card that may be pulled out and to a flash   *)
(* that may fail; system_process does not look at its result and goes on   *)
(* to check_part_firm (FirmCheck).  Or there is no card, and the check     *)
(* meets a firmware that is intact or damaged, in either partition.        *)
(***************************************************************************)
EXTENDS FirmCheck

CONSTANTS
  CardFirms,              \* the bodies of the firmware a card may hold
  Erased, Garbage, PageLen, MaxFaults

ASSUME CellAssumption == Header \notin {Erased, Garbage} /\ Erased = 0 .. 7 /\ Garbage \in Byte
ASSUME CardAssumption == CardFirms \subseteq Seq(Byte) /\ PageLen \in Nat \ {0} /\ MaxFaults \in Nat

VARIABLES
  file, pulled, step, copied, card_ret, faults, unnoticed   \* of SdCard

Card == INSTANCE SdCard WITH
  down <- part, pc <- step, total_length <- copied, ret <- card_ret

check   == <<firm, body_crc32, firm_off, pc, crc, total_length, ret>>
card    == <<file, pulled, step, copied, card_ret, faults, unnoticed>>
allVars == <<check, part, card>>

NoCard ==
  /\ Init
  /\ file = << >> /\ pulled = TRUE /\ step = "done" /\ copied = 0
  /\ card_ret = "error" /\ faults = 0 /\ unnoticed = FALSE

(* The card's file is a header and a body, or empty. *)
WithCard ==
  /\ firm \in CardFirms /\ body_crc32 = Packed(firm) /\ firm_off = 1
  /\ InitCheck
  /\ file \in {<<Header>> \o firm, << >>}
  /\ Card!Init

CardStep == (Card!Update \/ Card!Pull) /\ UNCHANGED check

CheckStep == step = "done" /\ Check /\ UNCHANGED card

CardNext == CardStep \/ CheckStep

(* Main runs, and the driver of the card returns from every read.          *)
Spec ==
  /\ (NoCard \/ WithCard) /\ [][CardNext]_allVars
  /\ WF_allVars(Card!Update /\ UNCHANGED check)

(***************************************************************************)
(* Properties                                                              *)
(***************************************************************************)

(* sdcard_update returns RT_EOK only when the partition holds the whole    *)
(* file, unless a failed program went unnoticed.                           *)
OkMeansStored == Card!OkMeansStored

(* Without a failed flash operation sdcard_update leaves the partition as  *)
(* it was, or with the file up to where the card was pulled out.           *)
CutShortAtWorst == step = "done" /\ file # << >> => Card!CutShortAtWorst

(* The copy ends, whatever is pulled out or fails: main goes on to the     *)
(* update step.                                                            *)
Ends == <>(step = "done")
=============================================================================
