------------------------------- MODULE WebUpload -------------------------------
(***************************************************************************)
(* Firmware upload through the web server: upload_open, upload_write and   *)
(* upload_done of applications/web_update_firm.c, called by the upload     *)
(* module of webnet as the request of a session comes in, and what the     *)
(* page board/romfs/index.html makes of the answer.                        *)
(*                                                                         *)
(* All sessions are served by one thread, a handler at a time, and share   *)
(* file_size and update_ok.  The module has no specification of its own:   *)
(* Uploaders runs it beside the RS485 slave.                               *)
(***************************************************************************)
EXTENDS NorFlash, FiniteSets

CONSTANTS
  PartLen,      \* length of each partition, a function of the partition
  PageLen,      \* flash page size
  Files,        \* [part, data]: where the extension sends the file, its cells
  Sessions,     \* sessions of the server at a time
  MaxFaults,    \* bound on failed flash operations
  MaxUploads    \* bound on requests

Parts == DOMAIN PartLen
NoPart == "null"

VARIABLES
  flash,        \* the content of each partition
  is_quit, faults,
  file_size, update_ok,
  session,      \* [open, file, user_data, taken]: taken cells of the file came in
  page,         \* what the page last said for each session: "success", "failed" or "none"
  uploads,      \* requests so far
  unnoticed     \* a failed program went unnoticed since the partition was erased

NoFile == [part |-> NoPart, data |-> << >>]
Closed == [open |-> FALSE, file |-> NoFile, user_data |-> NoPart, taken |-> 0]

Blank(p) == [i \in 0 .. PartLen[p] - 1 |-> Erased]

InitUpload ==
  /\ file_size = 0 /\ update_ok = FALSE
  /\ session = [s \in Sessions |-> Closed] /\ page = [s \in Sessions |-> "none"]
  /\ unnoticed = FALSE

(***************************************************************************)
(* upload_open                                                             *)
(***************************************************************************)

Opened(s, f, part) ==
  session' = [session EXCEPT ![s] = [open |-> TRUE, file |-> f, user_data |-> part, taken |-> 0]]

OpenUnsupported(s, f) ==
  /\ f.part = NoPart
  /\ update_ok' = FALSE
  /\ Opened(s, f, NoPart)
  /\ UNCHANGED <<flash, faults, unnoticed>>

OpenErases(s, f) ==
  /\ f.part # NoPart
  /\ flash' = [flash EXCEPT ![f.part] = Blank(f.part)]
  /\ update_ok' = TRUE
  /\ Opened(s, f, f.part)
  /\ unnoticed' = FALSE
  /\ UNCHANGED faults

OpenEraseFails(s, f) ==
  /\ f.part # NoPart /\ faults < MaxFaults
  /\ \E torn \in Torn(flash[f.part], Blank(f.part)) : flash' = [flash EXCEPT ![f.part] = torn]
  /\ faults' = faults + 1
  /\ update_ok' = FALSE
  /\ Opened(s, f, NoPart)
  /\ UNCHANGED unnoticed

(* Slip: the size of the upload before is kept.  (Operators introduced as  *)
(* "Slip:" are never used: each is a plausible mistake in the definition   *)
(* after it, kept to show that the properties would notice.)               *)
KeepSize == UNCHANGED file_size

NewSize == file_size' = 0

Open(s) ==
  /\ ~session[s].open /\ uploads < MaxUploads
  /\ uploads' = uploads + 1
  /\ NewSize
  /\ page' = [page EXCEPT ![s] = "none"]
  /\ \E f \in Files : OpenUnsupported(s, f) \/ OpenErases(s, f) \/ OpenEraseFails(s, f)
  /\ UNCHANGED is_quit

(***************************************************************************)
(* upload_write: the next n cells of the request's file                    *)
(***************************************************************************)

Piece(s, n) == SubSeq(session[s].file.data, session[s].taken + 1, session[s].taken + n)

Fits(s, n) == file_size + n <= PartLen[session[s].user_data]

(* After a failure the rest of the request is read and dropped. *)
WriteSkipped(s, n) ==
  /\ ~(update_ok /\ session[s].user_data # NoPart /\ Fits(s, n))
  /\ update_ok' = FALSE
  /\ UNCHANGED <<flash, faults, file_size, unnoticed>>

WriteSucceeds(s, n) ==
  LET p == session[s].user_data
  IN  /\ \/ /\ flash' = [flash EXCEPT ![p] = WriteDone(flash[p], Piece(s, n), file_size)]
            /\ UNCHANGED <<faults, unnoticed>>
         \/ /\ faults < MaxFaults /\ file_size % PageLen # 0
            /\ faults' = faults + 1 /\ unnoticed' = TRUE
            /\ \E mem \in WriteUnnoticed(flash[p], Piece(s, n), file_size, PageLen) :
                 flash' = [flash EXCEPT ![p] = mem]
      /\ file_size' = file_size + n
      /\ UNCHANGED update_ok

(* Slip: the length counts although the write failed. *)
CountFailed(n) == file_size' = file_size + n /\ UNCHANGED update_ok

StopAtFailure(n) == update_ok' = FALSE /\ UNCHANGED file_size

WriteFails(s, n) ==
  LET p == session[s].user_data
  IN  /\ faults < MaxFaults
      /\ faults' = faults + 1
      /\ \E mem \in WriteFailed(flash[p], Piece(s, n), file_size, PageLen) :
           flash' = [flash EXCEPT ![p] = mem]
      /\ StopAtFailure(n)
      /\ UNCHANGED unnoticed

Write(s) ==
  /\ session[s].open
  /\ \E n \in 1 .. Len(session[s].file.data) - session[s].taken :
       /\ session' = [session EXCEPT ![s].taken = @ + n]
       /\ \/ WriteSkipped(s, n)
          \/ /\ update_ok /\ session[s].user_data # NoPart /\ Fits(s, n)
             /\ WriteSucceeds(s, n) \/ WriteFails(s, n)
  /\ UNCHANGED <<is_quit, page, uploads>>

(***************************************************************************)
(* The end of a session                                                    *)
(***************************************************************************)

(* upload_done answers with a code and file_size; the page reports a       *)
(* success when the code is 0 and the size is that of its file.            *)
Done(s) ==
  /\ session[s].open /\ session[s].taken = Len(session[s].file.data)
  /\ page' = [page EXCEPT ![s] =
                IF update_ok /\ file_size = Len(session[s].file.data) THEN "success" ELSE "failed"]
  /\ is_quit' = TRUE
  /\ session' = [session EXCEPT ![s] = Closed]
  /\ UNCHANGED <<flash, faults, file_size, update_ok, uploads, unnoticed>>

(* The connection breaks: the session is closed and nothing else happens. *)
Break(s) ==
  /\ session[s].open
  /\ session' = [session EXCEPT ![s] = Closed]
  /\ UNCHANGED <<flash, is_quit, faults, file_size, update_ok, page, uploads, unnoticed>>

Upload == \E s \in Sessions : Open(s) \/ Write(s) \/ Done(s) \/ Break(s)

(* The partition holds the cells s and nothing behind them. *)
Holds(mem, s) ==
  /\ Len(s) <= Cardinality(DOMAIN mem)
  /\ mem = [i \in DOMAIN mem |-> IF i < Len(s) THEN s[i + 1] ELSE Erased]
=============================================================================
