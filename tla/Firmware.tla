------------------------------ MODULE Firmware ------------------------------
(***************************************************************************)
(* The one file, /tmp/vmlinux.ub, into which both the web page             *)
(* (httpd_cgi.c 74) and the remote manager (remotemanager.c 339) put new   *)
(* firmware, and from which /etc/firm_up, outside the sources, takes it.   *)
(***************************************************************************)
CONSTANTS Image, NoFile       \* firmware images; no image

ASSUME FirmwareAssumption == NoFile \notin Image

VARIABLE vmlinux    \* its image and whether it is whole

None == [image |-> NoFile, whole |-> FALSE]
File == [image : Image, whole : BOOLEAN]
Part(image)  == [image |-> image, whole |-> FALSE]
Whole(image) == [image |-> image, whole |-> TRUE]
=============================================================================
