------------------------------ MODULE Upgrades ------------------------------
(***************************************************************************)
(* The remote manager and the firmware page of the web server, two         *)
(* programs that write and use the same /tmp/vmlinux.ub without a lock.    *)
(***************************************************************************)
EXTENDS RemoteManager, WebPage

VARIABLE touched   \* the page changed the file after the manager's download

vars == <<managerVars, webVars, vmlinux, touched>>

Init == ManagerInit /\ WebInit /\ touched = FALSE

Manager ==
  /\ ManagerNext
  /\ touched' = (touched /\ ~(pc[U] = "download" /\ pc'[U] = "check"))
  /\ UNCHANGED webVars

(* Bound: only the update thread has to do with the file, so the page is   *)
(* used where the monitor thread is off.                                   *)
Web ==
  /\ M \notin enabled
  /\ \E c \in Cgi : CgiStep(c)
  /\ touched' = (touched \/ vmlinux' # vmlinux)
  /\ UNCHANGED managerVars

Next == Manager \/ Web

Spec == Init /\ [][Next]_vars

-----------------------------------------------------------------------------
(* The types of the variables (remotemanager.h, httpd_cgi.c). *)
TypeOK ==
  /\ ManagerTypeOK
  /\ step \in [Cgi -> {"idle", "received", "removed", "opened"}]
  /\ upload \in [Cgi -> Upload]
  /\ reload_flag \in BOOLEAN /\ stored \in [Cgi -> BOOLEAN]
  /\ uploads \in 0 .. MaxUploads /\ touched \in BOOLEAN

(* Firmware other than the requested, or a part of it, is started only     *)
(* after a download that failed, a request without a file (remotemanager.c *)
(* 324, 342), or when the web page wrote the file between the download and *)
(* the test that it exists (347, httpd_cgi.c 641).                         *)
UpgradeAsAsked ==
  [][upgrade' # upgrade =>
       upgrade' = Whole(wanted) \/ ~fetched \/ wanted = NoFile \/ touched]_vars
=============================================================================
