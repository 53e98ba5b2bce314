------------------------------ MODULE FormUpload -------------------------------
(***************************************************************************)
(* How the upload module of webnet cuts the file out of a request:         *)
(* _webnet_module_upload_handle and _next_possible_boundary of             *)
(* module/wn_module_upload.c.  The body of the request is                  *)
(*                                                                         *)
(*   boundary header-lines file CR LF boundary "--"                        *)
(*                                                                         *)
(* and comes in pieces of any size.  A token stands for a character or a   *)
(* run of characters: "b1" "b2" are the two halves of the boundary, "hd"   *)
(* the header lines of the section, "dd" the dashes that end the body.     *)
(***************************************************************************)
EXTENDS Integers, Sequences, SequencesExt

CONSTANTS
  Token,        \* the tokens of a request
  Third,        \* a third of the session buffer
  Files         \* the files a browser may send

Size == 3 * Third
Boundary == <<"b1", "b2">>
Common == <<"cr", "lf">> \o Boundary
LastBoundary == Common \o <<"dd">>
Heading == Boundary \o <<"hd">>

(* The browser picks a boundary that is not in the file; a third of the    *)
(* buffer is longer than the last boundary and than the header.            *)
ASSUME FormAssumption ==
  /\ Third \in Nat /\ Third > Len(LastBoundary) /\ Third > Len(Heading)
  /\ {"b1", "b2", "hd", "dd", "cr", "lf"} \subseteq Token /\ Files \subseteq Seq(Token)
  /\ \A f \in Files : ~\E i \in 1 .. Len(f) : IsPrefix(Boundary, SubSeq(f, i, Len(f)))

VARIABLES
  payload,      \* the file of the request
  rest,         \* what is still to be received
  buffer,       \* session->buffer, from upload_buffer on
  phase,        \* "read": the socket is read next; "loop"; "closed"
  broken,       \* the connection broke
  file_opened,
  written,      \* what upload_write was given
  done          \* upload_done was called

formVars == <<payload, rest, buffer, phase, broken, file_opened, written, done>>

Has(s, buf) == \E i \in 1 .. Len(buf) : IsPrefix(s, SubSeq(buf, i, Len(buf)))

FormInit ==
  /\ payload \in Files
  /\ \E k \in 0 .. Size - 2 :    \* what came in behind the request line and its header
       /\ k <= Len(Heading \o payload \o LastBoundary)
       /\ buffer = SubSeq(Heading \o payload \o LastBoundary, 1, k)
       /\ rest = SubSeq(Heading \o payload \o LastBoundary, k + 1, Len(Heading \o payload \o LastBoundary))
  /\ phase = "read" /\ broken = FALSE /\ file_opened = FALSE /\ written = << >> /\ done = FALSE

(***************************************************************************)
(* Reading the socket                                                      *)
(***************************************************************************)

(* Slip: no place is kept for the zero behind what was read.  (Operators   *)
(* introduced as "Slip:" are never used: each is a plausible mistake in    *)
(* the definition after it, kept to show that the properties would notice.) *)
WholeRoom == Size - Len(buffer)

Room == Size - Len(buffer) - 1

Read ==
  /\ phase = "read" /\ ~Has(LastBoundary, buffer)
  /\ \E k \in 1 .. Room :
       /\ k <= Len(rest)
       /\ buffer' = buffer \o SubSeq(rest, 1, k)
       /\ rest' = SubSeq(rest, k + 1, Len(rest))
  /\ phase' = "loop"
  /\ UNCHANGED <<payload, broken, file_opened, written, done>>

ReadNothing ==
  /\ phase = "read" /\ Has(LastBoundary, buffer)
  /\ phase' = "loop"
  /\ UNCHANGED <<payload, rest, buffer, broken, file_opened, written, done>>

(* The connection breaks: what is in the buffer is looked at once more.    *)
Break ==
  /\ phase = "read" /\ ~Has(LastBoundary, buffer)
  /\ broken' = TRUE
  /\ phase' = IF buffer = << >> THEN "closed" ELSE "loop"
  /\ UNCHANGED <<payload, rest, buffer, file_opened, written, done>>

(***************************************************************************)
(* The loop over the buffer                                                *)
(***************************************************************************)

NextRead == IF broken THEN "closed" ELSE "read"

UploadDone ==
  /\ phase = "loop" /\ IsPrefix(LastBoundary, buffer)
  /\ done' = TRUE /\ phase' = "closed"
  /\ UNCHANGED <<payload, rest, buffer, broken, file_opened, written>>

ReadMore ==
  /\ phase = "loop" /\ ~IsPrefix(LastBoundary, buffer)
  /\ buffer = << >> \/ (Len(buffer) < Third /\ ~Has(LastBoundary, buffer))
  /\ phase' = NextRead
  /\ UNCHANGED <<payload, rest, buffer, broken, file_opened, written, done>>

(* Slip: only a whole boundary is looked for. *)
WholeBoundary(buf) ==
  LET found == {i \in 1 .. Len(buf) : IsPrefix(Common, SubSeq(buf, i, Len(buf)))}
  IN  IF found = {} THEN Len(buf) ELSE Min(found) - 1

(* The length of the data in front of the next boundary, or of what may    *)
(* become one with the next read.                                          *)
NextPossibleBoundary(buf) ==
  LET found == {i \in 1 .. Len(buf) : IsPrefix(Common, SubSeq(buf, i, Len(buf)))}
      cr    == {i \in 1 .. Len(buf) : buf[i] = "cr"}
      last  == Max(cr)
  IN  IF found # {} THEN Min(found) - 1
      ELSE IF cr = {} THEN Len(buf)
      ELSE IF last = Len(buf) - 1 /\ buf[last + 1] = "lf" THEN Len(buf)
      ELSE IF IsPrefix(SubSeq(buf, last + 2, Len(buf)), Boundary) THEN last - 1
      ELSE Len(buf)

(* Slip: the possible boundary goes into the file as well. *)
HandleAll(buf) == written' = written \o buf /\ buffer' = SubSeq(buf, NextPossibleBoundary(buf) + 1, Len(buf))

HandleSection(buf) ==
  LET n == NextPossibleBoundary(buf)
  IN  /\ written' = written \o SubSeq(buf, 1, n)
      /\ buffer' = SubSeq(buf, n + 1, Len(buf))

Section ==
  /\ phase = "loop" /\ buffer # << >> /\ ~IsPrefix(LastBoundary, buffer)
  /\ Len(buffer) >= Third \/ Has(LastBoundary, buffer)
  /\ \/ /\ IsPrefix(Heading, buffer)
        /\ file_opened' = TRUE
        /\ HandleSection(SubSeq(buffer, Len(Heading) + 1, Len(buffer)))
     \/ /\ ~IsPrefix(Heading, buffer)
        /\ HandleSection(buffer)
        /\ UNCHANGED file_opened
  /\ UNCHANGED <<payload, rest, phase, broken, done>>

FormNext == Read \/ ReadNothing \/ Break \/ UploadDone \/ ReadMore \/ Section

FormSpec == FormInit /\ [][FormNext]_formVars

(* What the browser sent comes in, and the thread of the server runs.      *)
FairForm == FormSpec /\ WF_formVars(Read) /\ WF_formVars(ReadNothing \/ UploadDone \/ ReadMore \/ Section)

(***************************************************************************)
(* Properties                                                              *)
(***************************************************************************)

(* The session buffer keeps a place for the zero that is written behind    *)
(* what was read, however the body is cut.                                 *)
TypeOK ==
  /\ payload \in Files
  /\ Len(buffer) \in 0 .. Size - 1
  /\ phase \in {"read", "loop", "closed"}
  /\ broken \in BOOLEAN /\ file_opened \in BOOLEAN /\ done \in BOOLEAN

(* The file is complete when upload_done answers the browser: of the       *)
(* boundary, and of anything that looked like one, nothing went to the     *)
(* partition.                                                              *)
DoneMeansWhole == done => written = payload /\ file_opened

(* A request that comes in whole is answered, unless a read ended between  *)
(* the line end in front of the last boundary and the boundary.            *)
SplitLineEnd == written = payload \o <<"cr", "lf">>
AnsweredUnlessSplit == <>(done \/ broken \/ SplitLineEnd)
=============================================================================
