------------------------------ MODULE WebPage ------------------------------
(***************************************************************************)
(* The firmware page of the CGI program (httpd_cgi.c main, multipart/form- *)
(* data, and SaveNewFirmware).  httpd runs one process per request.        *)
(***************************************************************************)
EXTENDS Integers, Firmware

CONSTANTS Cgi,          \* the processes of the web server
          MaxUploads    \* bound

ASSUME WebAssumption == MaxUploads \in Nat

VARIABLES
  step,          \* where each process is
  upload,        \* what it received: image, whether its size is accepted
  reload_flag,   \* /mnt/user/reload_flag
  stored,        \* the page says the firmware is stored
  uploads

webVars == <<step, upload, reload_flag, stored, uploads>>

Upload == [image : Image, fits : BOOLEAN]

WebInit ==
  /\ step = [c \in Cgi |-> "idle"]
  /\ upload = [c \in Cgi |-> [image |-> CHOOSE i \in Image : TRUE, fits |-> FALSE]]
  /\ reload_flag = FALSE
  /\ stored = [c \in Cgi |-> FALSE]
  /\ uploads = 0

WebStep(c, from, to) == step[c] = from /\ step' = [step EXCEPT ![c] = to]

(* The form is read; unless it says saveconfig=on the flag is written.     *)
Receive(c) ==
  /\ WebStep(c, "idle", "received") /\ uploads < MaxUploads
  /\ uploads' = uploads + 1
  /\ \E u \in Upload : upload' = [upload EXCEPT ![c] = u]
  /\ reload_flag' \in {reload_flag, TRUE}
  /\ stored' = [stored EXCEPT ![c] = FALSE]
  /\ UNCHANGED vmlinux

(* Too large, too small or no file: no page at all, and the flag stays.    *)
Reject(c) ==
  /\ ~upload[c].fits /\ WebStep(c, "received", "idle")
  /\ UNCHANGED <<vmlinux, upload, reload_flag, stored, uploads>>

RemoveFile(c) ==
  /\ upload[c].fits /\ WebStep(c, "received", "removed")
  /\ vmlinux' = None
  /\ UNCHANGED <<upload, reload_flag, stored, uploads>>

OpenFile(c) ==
  /\ \/ WebStep(c, "removed", "opened") /\ vmlinux' = Part(upload[c].image)
     \/ WebStep(c, "removed", "idle") /\ UNCHANGED vmlinux
  /\ UNCHANGED <<upload, reload_flag, stored, uploads>>

(* A short write is taken back. *)
WriteFile(c) ==
  /\ WebStep(c, "opened", "idle")
  /\ \/ vmlinux' = Whole(upload[c].image) /\ stored' = [stored EXCEPT ![c] = TRUE]
     \/ vmlinux' = None /\ UNCHANGED stored
  /\ UNCHANGED <<upload, reload_flag, uploads>>

CgiStep(c) == Receive(c) \/ Reject(c) \/ RemoveFile(c) \/ OpenFile(c) \/ WriteFile(c)

Storing == \E c \in Cgi : step[c] \in {"removed", "opened"}
=============================================================================
