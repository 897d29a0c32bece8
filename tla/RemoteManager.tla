--------------------------- MODULE RemoteManager ---------------------------
(***************************************************************************)
(* The remote manager (remotemanager/remotemanager.c): the monitor thread, *)
(* a TCP client that reports, keeps itself alive and answers queries, and  *)
(* the update thread, a UDP client that is told to fetch firmware.  Both   *)
(* run AT commands through one interpreter (atcmd/at_cmd.c) whose response *)
(* buffer and whose handlers' buffer are shared and not locked.            *)
(***************************************************************************)
EXTENDS Integers, Sequences, Firmware

CONSTANTS Command, Sets,   \* the AT commands, and those that set options
          Query,           \* monitor_query_const
          Asked,           \* what a remoteQuery can ask
          Content,         \* the AT content of an upgradeIgnore
          Settings,        \* uci: the threads that menabled and uenabled start
          MonitorIntvl, HeartIntvl, UpdateIntvl,  \* configured seconds
          MaxMessages, MaxDrops, MaxFaults        \* bounds

M == "monitor"
U == "update"
Thread == {M, U}

ASSUME ManagerAssumption ==
  /\ Sets \subseteq Command /\ Query \in Seq(Command)
  /\ Asked \subseteq Seq(Command) /\ Content \subseteq Seq(Command)
  /\ Settings \subseteq SUBSET Thread
  /\ {MonitorIntvl, HeartIntvl, UpdateIntvl, MaxMessages, MaxDrops, MaxFaults} \subseteq Nat

VARIABLES
  enabled,          \* menabled, uenabled
  alive,            \* the process
  pc,               \* where each thread is
  todo, place,      \* in AtCmd_Dispatch: commands left, step of the first
  g_InnerRspBuf, cmd_para_buf,   \* the shared buffers
  overlap,          \* both threads were in it since this one entered
  foreign,          \* a command was run that is not the thread's own
  reason, asked, reply,   \* monitor: why it dispatched, what, and the result
  monitor_cnt, heartpkt_cnt, update_cnt,
  quiet,            \* seconds of the connection since a packet was sent
  open,             \* descriptors of sockets
  unanswered,       \* queries whose answer could not be sent
  ftp_filepath,     \* the file to fetch, kept from request to request
  wanted,           \* what the latest upgradeNeed names
  fetched,          \* the latest download was complete
  upgrade,          \* what /etc/firm_up was started with
  messages, drops, faults

dispatchVars == <<todo, place, g_InnerRspBuf, cmd_para_buf, overlap, foreign>>
monitorVars  == <<reason, asked, reply, monitor_cnt, heartpkt_cnt, quiet, unanswered>>
counterVars  == <<monitor_cnt, heartpkt_cnt>>
upgradeVars  == <<ftp_filepath, wanted, fetched, upgrade>>
updateVars   == <<update_cnt, upgradeVars, vmlinux>>
boundVars    == <<messages, drops, faults>>
managerVars == <<enabled, alive, pc, dispatchVars, monitorVars, update_cnt, upgradeVars,
                 open, boundVars>>

Text == {"command", "answer"} \X Command

ManagerInit ==
  /\ enabled \in Settings
  /\ alive = TRUE
  /\ pc = [t \in Thread |-> IF t \in enabled THEN "resolve" ELSE "off"]
  /\ todo = [t \in Thread |-> <<>>] /\ place = [t \in Thread |-> "out"]
  /\ g_InnerRspBuf = <<>> /\ cmd_para_buf = <<>>
  /\ overlap = [t \in Thread |-> FALSE] /\ foreign = [t \in Thread |-> FALSE]
  /\ reason = "login" /\ asked = <<>> /\ reply = <<>>
  /\ monitor_cnt = 0 /\ heartpkt_cnt = 0 /\ update_cnt = 0
  /\ quiet = 0 /\ open = 0 /\ unanswered = 0
  /\ ftp_filepath = NoFile /\ wanted = NoFile /\ vmlinux = None
  /\ fetched = FALSE /\ upgrade = None
  /\ messages = 0 /\ drops = 0 /\ faults = 0

Goto(t, where) == pc' = [pc EXCEPT ![t] = where]
Fault == faults < MaxFaults /\ faults' = faults + 1 /\ UNCHANGED <<messages, drops>>
Loss  == drops < MaxDrops /\ drops' = drops + 1 /\ UNCHANGED <<messages, faults>>
Message == messages < MaxMessages /\ messages' = messages + 1 /\ UNCHANGED <<drops, faults>>

-----------------------------------------------------------------------------
(* AtCmd_Dispatch and the handlers, as far as the two buffers go.          *)
Inside(t) == place[t] # "out"

StartDispatch(t, commands) ==
  /\ Goto(t, "dispatch")
  /\ todo' = [todo EXCEPT ![t] = commands]
  /\ place' = [place EXCEPT ![t] = "clear"]
  /\ overlap' = [o \in Thread |-> IF o = t THEN \E u \in Thread \ {t} : Inside(u)
                                  ELSE overlap[o] \/ Inside(o)]
  /\ foreign' = [foreign EXCEPT ![t] = FALSE]
  /\ UNCHANGED <<g_InnerRspBuf, cmd_para_buf>>

(* A handler that sets runs a shell command first; all fill in an answer.  *)
FirstStep(commands) ==
  IF commands = <<>> THEN "copy"
  ELSE IF Head(commands) \in Sets THEN "format" ELSE "fill"

Step(t, from, to) == alive /\ place[t] = from /\ place' = [place EXCEPT ![t] = to]

(* Mutant: the response buffer is not cleared. *)
ClearNothing(t) ==
  /\ Step(t, "clear", FirstStep(todo[t]))
  /\ UNCHANGED <<g_InnerRspBuf, cmd_para_buf, todo, foreign>>

Clear(t) ==
  /\ Step(t, "clear", FirstStep(todo[t]))
  /\ g_InnerRspBuf' = <<>>
  /\ UNCHANGED <<cmd_para_buf, todo, foreign>>

Format(t) ==
  /\ Step(t, "format", "run")
  /\ cmd_para_buf' = <<"command", Head(todo[t])>>
  /\ UNCHANGED <<g_InnerRspBuf, todo, foreign>>

Run(t) ==
  /\ Step(t, "run", "fill")
  /\ foreign' = [foreign EXCEPT ![t] = @ \/ cmd_para_buf # <<"command", Head(todo[t])>>]
  /\ UNCHANGED <<g_InnerRspBuf, cmd_para_buf, todo>>

Fill(t) ==
  /\ Step(t, "fill", "respond")
  /\ cmd_para_buf' = <<"answer", Head(todo[t])>>
  /\ UNCHANGED <<g_InnerRspBuf, todo, foreign>>

Respond(t) ==
  /\ Step(t, "respond", FirstStep(Tail(todo[t])))
  /\ g_InnerRspBuf' = Append(g_InnerRspBuf, cmd_para_buf)
  /\ todo' = [todo EXCEPT ![t] = Tail(@)]
  /\ UNCHANGED <<cmd_para_buf, foreign>>

Copy(t) ==
  /\ Step(t, "copy", "out")
  /\ Goto(t, IF t = M THEN "send" ELSE "select")
  /\ IF t = M THEN reply' = g_InnerRspBuf ELSE UNCHANGED reply
  /\ UNCHANGED <<g_InnerRspBuf, cmd_para_buf, todo, foreign>>

Dispatch(t) ==
  /\ \/ /\ Clear(t) \/ Format(t) \/ Run(t) \/ Fill(t) \/ Respond(t)
        /\ UNCHANGED <<pc, reply>>
     \/ Copy(t)
  /\ UNCHANGED <<enabled, alive, overlap, reason, asked, counterVars, quiet, unanswered,
                 updateVars, open, boundVars>>

-----------------------------------------------------------------------------
(* A name that does not resolve: the message that says so reads the        *)
(* address through the null pointer, and the process ends.                 *)
Resolve(t) ==
  /\ alive /\ pc[t] = "resolve"
  /\ \/ Goto(t, "connect") /\ UNCHANGED alive
     \/ alive' = FALSE /\ UNCHANGED pc
  /\ UNCHANGED <<enabled, dispatchVars, monitorVars, updateVars, open, boundVars>>

(* No usable address, no socket, no port, no connection; what was opened   *)
(* is closed.                                                              *)
NoSocket(t) ==
  /\ alive /\ pc[t] = "connect"
  /\ Goto(t, "resolve")
  /\ UNCHANGED <<enabled, alive, dispatchVars, monitorVars, updateVars, open, boundVars>>

-----------------------------------------------------------------------------
(* The monitor thread. *)
MonitorAt(where) == alive /\ pc[M] = where

Report(why, commands) ==
  /\ StartDispatch(M, commands)
  /\ reason' = why /\ asked' = commands

(* Connected: it sends its login, and a report if there is memory.         *)
Connect ==
  /\ MonitorAt("connect")
  /\ open' = open + 1
  /\ quiet' = 0
  /\ \/ Report("login", Query) /\ UNCHANGED boundVars
     \/ Goto(M, "select") /\ Fault /\ UNCHANGED <<dispatchVars, reason, asked>>
  /\ UNCHANGED <<enabled, alive, reply, counterVars, unanswered, updateVars>>

(* Mutant: a report that cannot be sent leaves the connection open. *)
SendLeavesOpen ==
  /\ MonitorAt("send")
  /\ \/ Goto(M, "select") /\ quiet' = 0
        /\ UNCHANGED <<open, unanswered, boundVars>>
     \/ Goto(M, "resolve") /\ Loss
        /\ unanswered' = (IF reason = "query" THEN unanswered + 1 ELSE unanswered)
        /\ UNCHANGED <<open, quiet>>
  /\ UNCHANGED <<enabled, alive, dispatchVars, reason, asked, reply, counterVars, updateVars>>

(* The answer goes out, or the connection is given up; after a query it is *)
(* not closed (line 635).                                                  *)
Send ==
  /\ MonitorAt("send")
  /\ \/ Goto(M, "select") /\ quiet' = 0
        /\ UNCHANGED <<open, unanswered, boundVars>>
     \/ Goto(M, "resolve") /\ Loss /\ UNCHANGED quiet
        /\ IF reason = "query"
           THEN unanswered' = unanswered + 1 /\ UNCHANGED open
           ELSE open' = open - 1 /\ UNCHANGED unanswered
  /\ UNCHANGED <<enabled, alive, dispatchVars, reason, asked, reply, counterVars, updateVars>>

PeerCloses ==
  /\ MonitorAt("select")
  /\ Goto(M, "resolve") /\ open' = open - 1 /\ Loss
  /\ UNCHANGED <<enabled, alive, dispatchVars, monitorVars, updateVars>>

(* A message: a query is answered; one without the trailer, of another     *)
(* kind, or that finds no memory is passed over.                           *)
MonitorRecv ==
  /\ MonitorAt("select") /\ Message
  /\ \/ \E commands \in Asked : Report("query", commands)
     \/ UNCHANGED <<pc, dispatchVars, reason, asked>>
  /\ UNCHANGED <<enabled, alive, reply, counterVars, quiet, unanswered, updateVars, open>>

(* Mutant: the heartbeat is counted on by a report. *)
MonitorSecondCountsOn ==
  /\ MonitorAt("select")
  /\ quiet' = quiet + 1
  /\ \/ /\ monitor_cnt >= MonitorIntvl
        /\ monitor_cnt' = 0 /\ UNCHANGED <<heartpkt_cnt, open, boundVars>>
        /\ Report("report", Query)
     \/ /\ monitor_cnt < MonitorIntvl
        /\ monitor_cnt' = monitor_cnt + 1
        /\ heartpkt_cnt' = heartpkt_cnt + 1
        /\ UNCHANGED <<pc, dispatchVars, reason, asked, open, boundVars>>
  /\ UNCHANGED <<enabled, alive, reply, unanswered, updateVars>>

(* A second without a message: a report, a heartbeat, or neither.  The     *)
(* counters go on from one connection to the next.                         *)
MonitorSecond ==
  /\ MonitorAt("select")
  /\ \/ /\ monitor_cnt >= MonitorIntvl
        /\ monitor_cnt' = 0 /\ heartpkt_cnt' = 0 /\ UNCHANGED open
        /\ quiet' = quiet + 1
        /\ \/ Report("report", Query) /\ UNCHANGED boundVars
           \/ Fault /\ UNCHANGED <<pc, dispatchVars, reason, asked>>
     \/ /\ monitor_cnt < MonitorIntvl
        /\ monitor_cnt' = monitor_cnt + 1
        /\ UNCHANGED <<dispatchVars, reason, asked>>
        /\ \/ /\ heartpkt_cnt < HeartIntvl
              /\ heartpkt_cnt' = heartpkt_cnt + 1
              /\ quiet' = quiet + 1
              /\ UNCHANGED <<pc, open, boundVars>>
           \/ /\ heartpkt_cnt >= HeartIntvl
              /\ heartpkt_cnt' = 0
              /\ \/ quiet' = 0 /\ UNCHANGED <<pc, open, boundVars>>
                 \/ Goto(M, "resolve") /\ open' = open - 1 /\ Loss /\ UNCHANGED quiet
  /\ UNCHANGED <<enabled, alive, reply, unanswered, updateVars>>

-----------------------------------------------------------------------------
(* The update thread.  Its other exits (lines 390-431) test a setting that *)
(* does not change and flags that nobody sets.                             *)
UpdateAt(where) == alive /\ pc[U] = where

(* Bound: it sends what device this is. *)
Bind ==
  /\ UpdateAt("connect")
  /\ Goto(U, "select") /\ open' = open + 1
  /\ UNCHANGED <<enabled, alive, dispatchVars, monitorVars, updateVars, boundVars>>

UpdateSecond ==
  /\ UpdateAt("select")
  /\ update_cnt' = IF update_cnt >= UpdateIntvl THEN 0 ELSE update_cnt + 1
  /\ UNCHANGED <<enabled, alive, pc, dispatchVars, monitorVars, upgradeVars, vmlinux,
                 open, boundVars>>

UpgradeIgnore ==
  /\ UpdateAt("select") /\ Message
  /\ \E commands \in Content : StartDispatch(U, commands)
  /\ UNCHANGED <<enabled, alive, monitorVars, updateVars, open>>

(* Mutant: the file name is set once. *)
UpgradeNeedOnce ==
  /\ UpdateAt("select") /\ Message
  /\ wanted' \in Image \cup {NoFile}
  /\ ftp_filepath' = IF ftp_filepath = NoFile THEN wanted' ELSE ftp_filepath
  /\ Goto(U, "download")
  /\ UNCHANGED <<enabled, alive, dispatchVars, monitorVars, update_cnt, vmlinux, fetched, upgrade, open>>

(* http_jason_getkeyval leaves a value alone whose key is not there.       *)
UpgradeNeed ==
  /\ UpdateAt("select") /\ Message
  /\ wanted' \in Image \cup {NoFile}
  /\ ftp_filepath' = IF wanted' = NoFile THEN ftp_filepath ELSE wanted'
  /\ Goto(U, "download")
  /\ UNCHANGED <<enabled, alive, dispatchVars, monitorVars, update_cnt, vmlinux, fetched, upgrade, open>>

(* wget, outside the sources: all of the file, some of it, or nothing.     *)
Download ==
  /\ UpdateAt("download")
  /\ Goto(U, "check")
  /\ \/ ftp_filepath \in Image
        /\ \E whole \in BOOLEAN :
             vmlinux' = [image |-> ftp_filepath, whole |-> whole] /\ fetched' = whole
     \/ fetched' = FALSE /\ UNCHANGED vmlinux
  /\ UNCHANGED <<enabled, alive, dispatchVars, monitorVars, update_cnt, ftp_filepath, wanted,
                 upgrade, open, boundVars>>

(* A file of that name is enough for /etc/firm_up. *)
Check ==
  /\ UpdateAt("check")
  /\ Goto(U, "select")
  /\ IF vmlinux # None THEN upgrade' = vmlinux ELSE UNCHANGED upgrade
  /\ UNCHANGED <<enabled, alive, dispatchVars, monitorVars, update_cnt, ftp_filepath, wanted,
                 vmlinux, fetched, open, boundVars>>

-----------------------------------------------------------------------------
ManagerNext ==
  \/ \E t \in Thread : Dispatch(t) \/ Resolve(t) \/ NoSocket(t)
  \/ Connect \/ Send \/ PeerCloses \/ MonitorRecv \/ MonitorSecond
  \/ Bind \/ UpdateSecond \/ UpgradeIgnore \/ UpgradeNeed \/ Download \/ Check

-----------------------------------------------------------------------------
(* The types of the variables (remotemanager.h, at_cmd.c). *)
ManagerTypeOK ==
  /\ enabled \subseteq Thread
  /\ alive \in BOOLEAN
  /\ pc \in [Thread -> {"off", "resolve", "connect", "select", "dispatch", "send",
                        "download", "check"}]
  /\ place \in [Thread -> {"out", "clear", "format", "run", "fill", "respond", "copy"}]
  /\ todo \in [Thread -> Seq(Command)]
  /\ g_InnerRspBuf \in Seq(Text) /\ cmd_para_buf \in Text \cup {<<>>}
  /\ overlap \in [Thread -> BOOLEAN] /\ foreign \in [Thread -> BOOLEAN]
  /\ monitor_cnt \in 0 .. MonitorIntvl /\ heartpkt_cnt \in 0 .. HeartIntvl
  /\ update_cnt \in 0 .. UpdateIntvl
  /\ vmlinux \in File \cup {None} /\ upgrade \in File \cup {None}

Answers(commands) == [i \in DOMAIN commands |-> <<"answer", commands[i]>>]

(* What the monitor sends are the answers to what it asked, in order, and  *)
(* what a thread runs is its own command, unless the other thread used the *)
(* interpreter in the same time (remotemanager.c 374, 562, 622).           *)
OwnAnswers ==
  /\ pc[M] = "send" /\ ~overlap[M] => reply = Answers(asked)
  /\ \A t \in Thread : foreign[t] => overlap[t]

(* Every way out of a connection closes its socket but one: the answer to  *)
(* a query that cannot be sent (remotemanager.c 635).                      *)
SocketsAccounted ==
  LET inUse(t) == pc[t] \notin {"off", "resolve", "connect"}
      used(t)  == IF inUse(t) THEN 1 ELSE 0
  IN  open = used(M) + used(U) + unanswered

(* Only lack of memory keeps the server waiting longer than the heartbeat  *)
(* interval, although the counters survive reconnects and each other       *)
(* (remotemanager.c 654-681).                                              *)
HeardInTime == faults = 0 /\ pc[M] = "select" => quiet <= HeartIntvl
=============================================================================
