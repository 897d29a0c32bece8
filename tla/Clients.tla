------------------------------ MODULE Clients ------------------------------
(***************************************************************************)
(* The life of the socket threads of one ser2net process: how they connect *)
(* and give up, count the seconds of silence, and report both in the files *)
(* of LogFiles.tla; the HTTP and the SSL client with the serial bytes they *)
(* take; and the cron script that reboots the box when every port reports  *)
(* silence.  What threads that hold a connection do with data is in        *)
(* Ser2Net, NetToSerial and TcpServer.                                     *)
(***************************************************************************)
EXTENDS LogFiles, FiniteSets

CONSTANTS Settings,          \* triples <<workmode, workmodeb, commbuffer>> as configured
          ResetTimeout,      \* portParam.reset_timeout, at least 600 (main.c 158)
          ReconnectTimeout,  \* portParam.reconnecttimeout, 0 for never
          LongSleep,         \* sleep(10) after a failed attempt
          Room,              \* bytes dev_info.data has left after the header
          MaxData,           \* bound: messages from the network
          MaxDrops,          \* bound: connections lost
          MaxBytes           \* bound: serial bytes

A == "socketa"
B == "socketb"

ASSUME ClientsAssumption ==
  /\ A \in Thread
  /\ {ResetTimeout, LongSleep, Room} \subseteq Nat \ {0}
  /\ {ReconnectTimeout, MaxData, MaxDrops, MaxBytes} \subseteq Nat

HttpIdle == 3                \* httpdclient.c 323

VARIABLES
  workmode, workmodeb, commbuffer, \* portParam
  pc,          \* where each thread is
  reset_cnt,   \* seconds without data that thread A has counted
  reconn_cnt,
  ring, valid, timer,         \* ring 0, socket_tx.valid[0], the packet timer
  count, pkt, sent, lost,  \* HTTP and SSL: bytes counted, held, sent, lost
  serial,      \* serial bytes so far
  data, drops, \* network messages and lost connections so far
  script,      \* reset_timeout.sh: "idle", "mine" or "all" files read as "0"
  heard,       \* data came since the last decision that the port is silent
  late,        \* what the script saw of the port is out of date
  silent,      \* the thread closed its connection and did not log it
  swallowed,   \* a wake-up was lost, and none came since
  oom          \* the HTTP client had no memory for a request

portVars   == <<workmode, workmodeb, commbuffer>>
counters   == <<reset_cnt, reconn_cnt>>
wakeVars   == <<valid, timer, swallowed>>
httpVars   == <<count, pkt, sent, lost, oom>>
serialVars == <<ring, wakeVars, httpVars, serial>>
peerVars   == <<data, drops>>
scriptVars == <<script, late>>
theFiles   == <<status, log_buffer, resetfile, missed, unwritten, mixed>>
otherFiles == <<theFiles, faults>>
vars == <<fileVars, portVars, pc, counters, serialVars, peerVars, scriptVars, heard, silent>>

(* main.c 600-645: what each thread runs. *)
Runs(t) ==
  LET mode == IF t = A THEN workmode ELSE workmodeb
  IN  CASE mode = "tcpc" -> "tcpc"
        [] mode = "udpc" \/ (mode = "udps" /\ t = A) -> "udp"
        [] mode \in {"tcps", "htpc", "sslc"} /\ t = A -> mode
        [] OTHER -> "none"

CountsReset(t) == t = A

Init ==
  /\ \E s \in Settings : workmode = s[1] /\ workmodeb = s[2] /\ commbuffer = s[3]
  /\ FilesInit
  /\ pc = [t \in Thread |-> "start"]
  /\ reset_cnt = 0 /\ reconn_cnt = [t \in Thread |-> 0]
  /\ ring = <<>> /\ valid = FALSE /\ timer = FALSE /\ swallowed = FALSE
  /\ count = 0 /\ pkt = <<>> /\ sent = <<>> /\ oom = FALSE
  /\ script = "idle" /\ heard = FALSE /\ late = FALSE
  /\ silent = [t \in Thread |-> FALSE]
  /\ faults = 0 /\ serial = 0 /\ data = 0 /\ drops = 0 /\ lost = {}

Ready(t) == Free(t) /\ Runs(t) # "none"

Goto(t, place) == pc' = [pc EXCEPT ![t] = place]

-----------------------------------------------------------------------------
(* The first lines of a thread. *)
Start(t) ==
  /\ Ready(t) /\ pc[t] = "start"
  /\ CASE Runs(t) \in {"tcpc", "tcps"} -> log_socklk(t, "disconnect")
       [] Runs(t) = "udp" -> log_socklk(t, "connect")
       [] OTHER -> NoLog
  /\ Goto(t, IF Runs(t) = "htpc" THEN "wait" ELSE "top")
  /\ UNCHANGED <<otherFiles, portVars, counters, serialVars, peerVars, scriptVars, heard, silent>>

(* The counter has run out: the port is silent. *)
Expired(n) == n >= ResetTimeout

DecideSilent(t, n) ==
  IF Expired(n)
  THEN reset_cnt' = 0 /\ heard' = FALSE /\ log_resettimeout(t, "0")
  ELSE reset_cnt' = n /\ NoLog /\ UNCHANGED heard

(* An attempt fails: no address, no socket, no listener, no free port.     *)
(* Socket A counts the sleep, which its next round looks at; the server's  *)
(* bind loop looks at once.                                                *)
AttemptFails(t) ==
  /\ Ready(t) /\ pc[t] = "top" /\ Runs(t) # "htpc"
  /\ Goto(t, "retry")
  /\ IF ~CountsReset(t)
     THEN NoLog /\ UNCHANGED <<reset_cnt, heard>>
     ELSE IF Runs(t) = "tcps"
          THEN DecideSilent(t, reset_cnt + LongSleep)
          ELSE reset_cnt' = reset_cnt + LongSleep /\ NoLog /\ UNCHANGED heard
  /\ UNCHANGED <<otherFiles, portVars, reconn_cnt, serialVars, peerVars, scriptVars, silent>>

(* Mutant: the count is set back and nothing is reported. *)
RoundForgets(t) ==
  /\ Ready(t) /\ pc[t] = "retry"
  /\ Goto(t, "top")
  /\ reset_cnt' = IF CountsReset(t) /\ Expired(reset_cnt) THEN 0 ELSE reset_cnt
  /\ NoLog
  /\ UNCHANGED <<otherFiles, portVars, reconn_cnt, serialVars, peerVars, scriptVars, heard, silent>>

(* The head of the outer loop. *)
Round(t) ==
  /\ Ready(t) /\ pc[t] = "retry"
  /\ Goto(t, "top")
  /\ IF CountsReset(t)
     THEN DecideSilent(t, reset_cnt)
     ELSE NoLog /\ UNCHANGED <<reset_cnt, heard>>
  /\ UNCHANGED <<otherFiles, portVars, reconn_cnt, serialVars, peerVars, scriptVars, silent>>

(* The SSL client clears the wake-up of socket A when the buffer is not to *)
(* be kept, and leaves the bytes in the ring; the TCP client flushes both  *)
(* (Ser2Net).                                                              *)
AttemptSucceeds(t) ==
  /\ Ready(t) /\ pc[t] = "top" /\ Runs(t) # "htpc"
  /\ Goto(t, "loop")
  /\ IF Runs(t) = "tcpc"
     THEN log_socklk(t, "connect") /\ silent' = [silent EXCEPT ![t] = FALSE]
     ELSE NoLog /\ UNCHANGED silent
  /\ IF Runs(t) = "sslc" /\ ~commbuffer
     THEN valid' = FALSE /\ swallowed' = (swallowed \/ (valid /\ ~timer /\ ring # <<>>))
     ELSE UNCHANGED <<valid, swallowed>>
  /\ UNCHANGED <<otherFiles, portVars, counters, ring, timer, httpVars, serial,
                 peerVars, scriptVars, heard>>

-----------------------------------------------------------------------------
(* A connection, or a socket, in use.                                      *)
InUse(t) == Ready(t) /\ pc[t] = "loop"

(* Mutant: data are reported only when some silence has been counted. *)
HearsAfterSilence ==
  /\ reset_cnt' = 0
  /\ IF reset_cnt > 0 THEN log_resettimeout(A, "port") ELSE NoLog
  /\ heard' = TRUE
  /\ late' = TRUE

Hears ==
  /\ reset_cnt' = 0
  /\ log_resettimeout(A, "port")
  /\ heard' = TRUE
  /\ late' = TRUE

(* Data from the network (what becomes of them: NetToSerial). *)
Recv(t) ==
  /\ InUse(t) /\ Runs(t) # "sslc" /\ data < MaxData
  /\ data' = data + 1
  /\ IF CountsReset(t)
     THEN Hears
     ELSE NoLog /\ UNCHANGED <<reset_cnt, heard, late>>
  /\ reconn_cnt' = [reconn_cnt EXCEPT ![t] = 0]
  /\ UNCHANGED <<otherFiles, portVars, pc, serialVars, drops, script, silent>>

(* Mutant: socket A says nothing either. *)
DropSilently(t) ==
  /\ InUse(t) /\ Runs(t) \in {"tcpc", "htpc"} /\ drops < MaxDrops
  /\ drops' = drops + 1
  /\ Goto(t, IF Runs(t) = "htpc" THEN "wait" ELSE "retry")
  /\ NoLog
  /\ UNCHANGED <<otherFiles, portVars, counters, serialVars, data, scriptVars, heard, silent>>

(* recv() <= 0 or select() < 0.  Socket B logs only the second (tcpc.c     *)
(* 586).  The HTTP client asks for its next request.                       *)
Drop(t) ==
  /\ InUse(t) /\ Runs(t) \in {"tcpc", "htpc"} /\ drops < MaxDrops
  /\ drops' = drops + 1
  /\ IF Runs(t) = "htpc"
     THEN /\ Goto(t, "wait")
          /\ reconn_cnt' = [reconn_cnt EXCEPT ![t] = 0]
          /\ NoLog /\ UNCHANGED silent
     ELSE /\ Goto(t, "retry")
          /\ \/ log_socklk(t, "disconnect") /\ UNCHANGED silent
             \/ t = B /\ NoLog /\ silent' = [silent EXCEPT ![t] = TRUE]
          /\ UNCHANGED reconn_cnt
  /\ UNCHANGED <<otherFiles, portVars, reset_cnt, serialVars, data, scriptVars, heard>>

Quiet(t) == ReconnectTimeout > 0 /\ reconn_cnt[t] + 1 >= ReconnectTimeout

(* One second without data on a TCP client's connection: too long, and it  *)
(* is closed, with no word in the status file; socket A's count for the    *)
(* reset is looked at when the connection stays.                           *)
TcpSecond(t) ==
  /\ InUse(t) /\ Runs(t) = "tcpc"
  /\ IF Quiet(t)
     THEN /\ Goto(t, "retry")
          /\ reconn_cnt' = [reconn_cnt EXCEPT ![t] = 0]
          /\ silent' = [silent EXCEPT ![t] = TRUE]
          /\ reset_cnt' = IF CountsReset(t) THEN reset_cnt + 1 ELSE reset_cnt
          /\ NoLog /\ UNCHANGED heard
     ELSE /\ reconn_cnt' = [reconn_cnt EXCEPT ![t] =
                              IF ReconnectTimeout > 0 THEN @ + 1 ELSE @]
          /\ IF CountsReset(t)
             THEN DecideSilent(t, reset_cnt + 1)
             ELSE NoLog /\ UNCHANGED <<reset_cnt, heard>>
          /\ UNCHANGED <<pc, silent>>
  /\ UNCHANGED <<otherFiles, portVars, serialVars, peerVars, scriptVars>>

(* The same for UDP socket A and the TCP server, which never give up. *)
IdleSecond(t) ==
  /\ InUse(t) /\ Runs(t) \in {"udp", "tcps"} /\ CountsReset(t)
  /\ DecideSilent(t, reset_cnt + 1)
  /\ UNCHANGED <<otherFiles, portVars, pc, reconn_cnt, serialVars, peerVars, scriptVars, silent>>

-----------------------------------------------------------------------------
(* The HTTP client: a request per wake-up.                                 *)
Http(place) == Ready(A) /\ Runs(A) = "htpc" /\ pc[A] = place

HttpWaits ==
  /\ Http("wait") /\ ~valid
  /\ DecideSilent(A, reset_cnt + 1)
  /\ UNCHANGED <<otherFiles, portVars, pc, reconn_cnt, serialVars, peerVars, scriptVars, silent>>

(* RingBufUsed and malloc; then the wake-up is cleared; then the bytes are *)
(* read into the request, which drops what it has no room for (init_httphdr*)
(* 79, 110), or, without memory, the old request stays.                    *)
HttpCounts ==
  /\ Http("wait") /\ valid
  /\ count' = Len(ring)
  /\ Goto(A, "clear")
  /\ NoLog
  /\ UNCHANGED <<otherFiles, portVars, counters, ring, wakeVars, pkt, sent, lost, oom,
                 serial, peerVars, scriptVars, heard, silent>>

HttpClears ==
  /\ Http("clear")
  /\ valid' = FALSE
  /\ swallowed' = (swallowed \/ (Len(ring) > count /\ ~timer))
  /\ Goto(A, "read")
  /\ NoLog
  /\ UNCHANGED <<otherFiles, portVars, counters, ring, timer, httpVars,
                 serial, peerVars, scriptVars, heard, silent>>

(* Mutant: the ring advances by one byte less than were read. *)
HttpReadsOneLess ==
  /\ Http("read")
  /\ pkt' = SubSeq(ring, 1, count)
  /\ ring' = SubSeq(ring, IF count = 0 THEN 1 ELSE count, Len(ring))
  /\ Goto(A, "attempt")
  /\ NoLog
  /\ UNCHANGED <<otherFiles, portVars, counters, wakeVars, count, sent, lost, oom,
                 serial, peerVars, scriptVars, heard, silent>>

HttpReads ==
  /\ Http("read")
  /\ \/ LET fits == IF count < Room THEN count ELSE Room
        IN  /\ pkt' = SubSeq(ring, 1, fits)
            /\ lost' = lost \cup {ring[i] : i \in fits + 1 .. count}
            /\ ring' = SubSeq(ring, count + 1, Len(ring))
            /\ UNCHANGED <<oom, swallowed, faults>>
     \/ /\ faults < MaxFaults /\ faults' = faults + 1
        /\ oom' = TRUE
        /\ swallowed' = (swallowed \/ (ring # <<>> /\ ~valid /\ ~timer))
        /\ UNCHANGED <<pkt, ring, lost>>
  /\ Goto(A, "attempt")
  /\ NoLog
  /\ UNCHANGED <<theFiles, portVars, counters, valid, timer,
                 count, sent, serial, peerVars, scriptVars, heard, silent>>

Held == {pkt[i] : i \in DOMAIN pkt}

(* A request that cannot be sent is not tried again: the loop waits for    *)
(* the next wake-up.  A name that does not resolve is asked for again and  *)
(* again instead, and nothing is counted.                                  *)
HttpAttempts ==
  /\ Http("attempt")
  /\ \/ Goto(A, "wait") /\ lost' = lost \cup Held /\ UNCHANGED sent
     \/ Goto(A, "loop") /\ sent' = sent \o pkt /\ UNCHANGED lost
  /\ NoLog
  /\ UNCHANGED <<otherFiles, portVars, counters, ring, wakeVars, count, pkt, oom,
                 serial, peerVars, scriptVars, heard, silent>>

(* A second of the exchange: after three without an answer the connection  *)
(* is closed.  The reset count goes on but is not looked at here.          *)
HttpSecond ==
  /\ Http("loop")
  /\ reset_cnt' = IF Expired(reset_cnt) THEN reset_cnt ELSE reset_cnt + 1
  /\ IF reconn_cnt[A] + 1 >= HttpIdle
     THEN reconn_cnt' = [reconn_cnt EXCEPT ![A] = 0] /\ Goto(A, "wait")
     ELSE reconn_cnt' = [reconn_cnt EXCEPT ![A] = @ + 1] /\ UNCHANGED pc
  /\ NoLog
  /\ UNCHANGED <<otherFiles, portVars, serialVars, peerVars, scriptVars, heard, silent>>

-----------------------------------------------------------------------------
(* The SSL client connects first and then waits for a wake-up, with no     *)
(* timeout and no look at the connection or the counters.                  *)
Ssl(place) == Ready(A) /\ Runs(A) = "sslc" /\ pc[A] = place

SslWakes ==
  /\ Ssl("loop") /\ valid
  /\ valid' = FALSE
  /\ Goto(A, "read")
  /\ NoLog
  /\ UNCHANGED <<otherFiles, portVars, counters, ring, timer, swallowed, httpVars,
                 serial, peerVars, scriptVars, heard, silent>>

SslReads ==
  /\ Ssl("read")
  /\ \/ /\ pkt' = ring /\ ring' = <<>>
        /\ Goto(A, "exchange")
        /\ UNCHANGED <<swallowed, faults>>
     \/ /\ faults < MaxFaults /\ faults' = faults + 1
        /\ swallowed' = (swallowed \/ (ring # <<>> /\ ~valid /\ ~timer))
        /\ Goto(A, "loop")
        /\ UNCHANGED <<pkt, ring>>
  /\ NoLog
  /\ UNCHANGED <<theFiles, portVars, counters, valid, timer,
                 count, sent, lost, oom, serial, peerVars, scriptVars, heard, silent>>

(* Handshake, SSL_write, one SSL_read, close: with an answer or without.   *)
SslExchanges ==
  /\ Ssl("exchange")
  /\ \/ /\ data < MaxData /\ data' = data + 1
        /\ heard' = TRUE /\ late' = TRUE
        /\ log_resettimeout(A, "port")
        /\ reset_cnt' = 1
        /\ sent' = sent \o pkt /\ UNCHANGED lost
     \/ /\ reset_cnt' = reset_cnt + 1
        /\ \/ sent' = sent \o pkt /\ UNCHANGED lost
           \/ lost' = lost \cup Held /\ UNCHANGED sent
        /\ NoLog /\ UNCHANGED <<data, heard, late>>
  /\ pkt' = <<>>
  /\ Goto(A, "retry")
  /\ UNCHANGED <<otherFiles, portVars, reconn_cnt, ring, wakeVars, count, oom,
                 serial, drops, script, silent>>

-----------------------------------------------------------------------------
(* The serial side, in full in Ser2Net.tla: a byte is put into ring 0 and  *)
(* starts the packet timer, whose handler wakes the thread if the ring has *)
(* bytes.                                                                  *)
Serial ==
  /\ Runs(A) \in {"htpc", "sslc"} /\ serial < MaxBytes
  /\ serial' = serial + 1
  /\ ring' = Append(ring, serial + 1)
  /\ timer' = TRUE
  /\ UNCHANGED <<fileVars, portVars, pc, counters, valid, swallowed, httpVars, peerVars,
                 scriptVars, heard, silent>>

Alarm ==
  /\ timer
  /\ timer' = FALSE
  /\ IF ring # <<>> THEN valid' = TRUE /\ swallowed' = FALSE ELSE UNCHANGED <<valid, swallowed>>
  /\ UNCHANGED <<fileVars, portVars, pc, counters, ring, httpVars, serial, peerVars,
                 scriptVars, heard, silent>>

-----------------------------------------------------------------------------
(* reset_timeout.sh reads the files one after the other, this port's and   *)
(* those of the others, which are the environment; uptime is long enough   *)
(* at any time.  All of them "0": the box restarts, with an empty /tmp.    *)
ScriptReadsMine ==
  /\ script = "idle" /\ resetfile = "0"
  /\ script' = "mine"
  /\ late' = (missed \/ (At(A, "r_open") /\ job[A].msg[2] = "port"))
  /\ UNCHANGED <<fileVars, portVars, pc, counters, serialVars, peerVars, heard, silent>>

ScriptReadsOthers ==
  /\ script = "mine"
  /\ script' \in {"idle", "all"}
  /\ UNCHANGED <<fileVars, portVars, pc, counters, serialVars, peerVars, late, heard, silent>>

Reboot ==
  /\ script = "all"
  /\ FilesCleared
  /\ pc' = [t \in Thread |-> "start"]
  /\ reset_cnt' = 0 /\ reconn_cnt' = [t \in Thread |-> 0]
  /\ ring' = <<>> /\ valid' = FALSE /\ timer' = FALSE /\ swallowed' = FALSE
  /\ count' = 0 /\ pkt' = <<>> /\ sent' = <<>> /\ oom' = FALSE
  /\ script' = "idle" /\ heard' = FALSE /\ late' = FALSE
  /\ silent' = [t \in Thread |-> FALSE]
  /\ lost' = 1 .. serial
  /\ UNCHANGED <<portVars, faults, serial, peerVars>>

-----------------------------------------------------------------------------
Logs(t) ==
  /\ LogStep(t)
  /\ UNCHANGED <<portVars, pc, counters, serialVars, peerVars, scriptVars, heard, silent>>

ThreadStep(t) ==
  \/ Logs(t) \/ Start(t) \/ AttemptFails(t) \/ AttemptSucceeds(t) \/ Round(t)
  \/ Recv(t) \/ Drop(t) \/ TcpSecond(t) \/ IdleSecond(t)

HttpStep == HttpWaits \/ HttpCounts \/ HttpClears \/ HttpReads \/ HttpSecond

SslStep == SslWakes \/ SslReads

Next ==
  \/ \E t \in Thread : ThreadStep(t)
  \/ HttpStep \/ HttpAttempts \/ SslStep \/ SslExchanges
  \/ Serial \/ Alarm
  \/ ScriptReadsMine \/ ScriptReadsOthers \/ Reboot

Spec == Init /\ [][Next]_vars

(* Socket A's thread runs, but the HTTP client may wait for a name and the *)
(* SSL client for an answer as long as they like.  Nothing is assumed of   *)
(* the peers, the serial device or cron.                                   *)
FairSpec == Spec /\ WF_vars(ThreadStep(A) \/ HttpStep \/ SslStep)

-----------------------------------------------------------------------------
(* The types of the variables (macros.h, main.c). *)
TypeOK ==
  /\ FilesTypeOK
  /\ <<workmode, workmodeb, commbuffer>> \in Settings
  /\ pc \in [Thread -> {"start", "top", "retry", "loop", "wait", "clear", "read",
                        "attempt", "exchange"}]
  /\ reset_cnt \in Nat
  /\ reconn_cnt \in [Thread -> Nat]
  /\ {valid, timer, swallowed, heard, late, oom} \subseteq BOOLEAN
  /\ silent \in [Thread -> BOOLEAN]
  /\ script \in {"idle", "mine", "all"}
  /\ serial \in 0 .. MaxBytes /\ data \in 0 .. MaxData /\ drops \in 0 .. MaxDrops

(* AT+SOCKALK (and AT+SOCKBLK, which is not in the table): what the first  *)
(* line of a thread that grep finds says.                                  *)
Says(t, val) ==
  \E i \in DOMAIN status :
    status[i] = <<t, val>> /\ \A h \in 1 .. i - 1 : status[h][1] # t

(* The status file never says of a TCP client what is not so, although two *)
(* threads truncate and append to one file, unless the thread was closed   *)
(* without a word (tcpc.c 462, 586), the file could not be opened, or the  *)
(* shared buffer of log_socklk let the other thread write an older line of *)
(* it first (utils.c 493, 507); it may say nothing.                        *)
StatusTruthful ==
  \A t \in Thread :
    Runs(t) = "tcpc" /\ Free(t) /\ t \notin unwritten \cup mixed =>
      /\ Says(t, "connect") => pc[t] = "loop" \/ silent[t]
      /\ Says(t, "disconnect") => pc[t] # "loop"

(* The box restarts for silence although data came only if they came, or   *)
(* were being recorded, after the script had looked at this port's file,   *)
(* or their record could not be written (utils.c 551, 527).                *)
RebootOnlyIfSilent == script = "all" /\ heard => late

(* Socket A waits for serial data (SSL) or a name (HTTP) and counts not.   *)
Blind == Runs(A) = "none" \/ (Runs(A) = "sslc" /\ pc[A] \in {"loop", "exchange"})
                          \/ (Runs(A) = "htpc" /\ pc[A] = "attempt")

(* A port that stays without data says so, whatever its connections do, as *)
(* long as it can write and counts (bounds make data and losses cease).    *)
SilenceReported == []<>(resetfile = "0" \/ missed \/ Blind)

(* Bytes wait for an HTTP or SSL client without a trigger only if it was   *)
(* cleared after they came: httpdclient.c 202, sslc.c 159, 169.            *)
NoLostWakeup ==
  ring # <<>> /\ ~swallowed =>
    timer \/ valid \/ (pc[A] = "read" /\ (Runs(A) = "htpc" => Len(ring) <= count))

Increasing(s) == \A i, k \in DOMAIN s : i < k => s[i] < s[k]

(* Each serial byte is sent at most once and in order, and is in the ring, *)
(* held, sent, or lost with a request that could not be sent or had no     *)
(* room for it (110); only a request for which there was no memory repeats *)
(* the one before (httpdclient.c 203, 253).                                *)
SentOnce ==
  LET holding == pc[A] \in {"attempt", "exchange"}
      path    == sent \o (IF holding THEN pkt ELSE <<>>) \o ring
  IN  /\ ~oom => Increasing(path)
      /\ 1 .. serial = {path[i] : i \in DOMAIN path} \cup lost
=============================================================================
