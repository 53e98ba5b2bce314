--------------------------- MODULE FirmwareInstall ---------------------------
(***************************************************************************)
(* What the boot loader promises about the firmware, with flash pages,     *)
(* partitions and resets taken away.                                       *)
(*                                                                         *)
(* The device has one effective image.  While it is open to deliveries, or *)
(* running, somebody may publish another one in a single step.  Whenever   *)
(* the application is started it is the image published last, all of it.   *)
(* Nothing else, in particular no reset, power cut or failed flash         *)
(* operation, changes which image that is.                                 *)
(***************************************************************************)
CONSTANT Image      \* every content the application partition can have

VARIABLES image,    \* the image the next start will run
          phase,    \* "closed", "open" to deliveries, or "running"
          running   \* the image being executed, << >> when none is

Init == image \in Image /\ phase = "closed" /\ running = << >>

(* A delivery is completed, abandoned or damaged; a card's delivery also   *)
(* ends the session.                                                       *)
Publish ==
  /\ phase \in {"open", "running"}
  /\ image' \in Image
  /\ phase' = phase \/ (phase = "open" /\ phase' = "closed")
  /\ UNCHANGED running

Open == phase = "closed" /\ phase' = "open" /\ UNCHANGED <<image, running>>

(* The processor is handed to the application. *)
Start ==
  /\ phase = "closed" /\ phase' = "running"
  /\ running' = image
  /\ UNCHANGED image

(* A session ends, the application resets the processor, power is lost. *)
Stop == phase' = "closed" /\ running' = << >> /\ UNCHANGED image

Next == Publish \/ Open \/ Start \/ Stop

Spec == Init /\ [][Next]_<<image, phase, running>>
=============================================================================
