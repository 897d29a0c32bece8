------------------------------ MODULE Ser2Net ------------------------------
(***************************************************************************)
(* One USR_N668 process, from its UART to the network (socket/main.c,      *)
(* tcpc.c, udp.c); the other direction is NetToSerial.tla.                  *)
(*                                                                         *)
(*   main      reads the UART, copies every chunk into ring 0 and, when    *)
(*             socket B is configured, into ring 1, and arms a one-shot    *)
(*             timer (the packet time); it also recognises "+++", which    *)
(*             enters the AT command mode.                                 *)
(*   handler   sigroutine(), on SIGALRM: wakes the socket threads, or, in  *)
(*             AT mode, reads ring 0 as a command line.  The kernel runs   *)
(*             it on the main thread, whose steps wait for it.             *)
(*   A, B      the socket threads.  A is a TCP client; B is absent, a TCP  *)
(*             client or a UDP client.                                     *)
(*                                                                         *)
(* The rings, socket_tx.valid and atcmd_flag are shared without a lock.    *)
(* A byte of a ring is a payload stamp, "+", the escape letter "a", or one *)
(* whole line typed in AT mode (a command, or at+entm).                    *)
(***************************************************************************)
EXTENDS RingBuf, FiniteSets

CONSTANTS SocketB,     \* "none", "tcpc" or "udp"
          PackLen,     \* portParam.packlen
          CommBuffer,  \* portParam.commbuffer: keep old bytes on connect
          Paced,       \* the serial peer never sends more than fits the rings
          MaxBytes,    \* bound: payload bytes the UART ever receives
          MaxChunk,    \* bound: payload bytes of one read()
          MaxPlus,     \* bound: "+" characters typed
          MaxLines,    \* bound: lines typed in AT mode
          MaxLosses,   \* bound: connections lost
          Plus, Letter, Command, Entm

Rings   == {0, 1}
Threads == {"A", "B"}
Stamps  == 1 .. MaxBytes

ASSUME ByteContents ==
  /\ Byte = Stamps \cup {NoByte, Plus, Letter, Command, Entm}
  /\ Cardinality({NoByte, Plus, Letter, Command, Entm}) = 5
  /\ {NoByte, Plus, Letter, Command, Entm} \cap Nat = {}
ASSUME ModeAssumption ==
  /\ CommBuffer \in BOOLEAN
  /\ Paced \in BOOLEAN
  /\ SocketB \in {"none", "tcpc", "udp"}
ASSUME BoundAssumption ==
  {PackLen, MaxBytes, MaxChunk, MaxPlus, MaxLines, MaxLosses} \subseteq Nat

VARIABLES
  rb,          \* g_sRxBuf[0], g_sRxBuf[1]
  valid,       \* socket_tx.valid
  atcmd_flag,
  timer,       \* ITIMER_REAL is running
  mpc,         \* where main is
  chunk, pos,  \* serial_buf and the next byte of it to copy
  nread_len,   \* the bytes in ring 0 after the copies
  jjja_len,    \* plus signs get_jjja_char has collected
  temp,        \* what the handler's RingBufUsed returned; 0: no handler runs
  pc,          \* where each socket thread is
  writeset,    \* the thread's fd is in the set it gives select()
  want,        \* the bytes RingBufRead has left to copy out
  \* counters for the bounds
  stamped, plusses, lines, losses,
  \* history
  fed, taken,  \* bytes written to, read from each ring since it was flushed
  swallowed,   \* a wake-up of the thread is lost, and none came since
  broken,      \* "write", "read": such an ASSERT of ringbuf.c would have failed
  leaked       \* reads of a ring by the thread since the AT mode began

mainVars   == <<mpc, chunk, pos, nread_len, jjja_len>>
serialVars == <<stamped, plusses, lines>>
history    == <<fed, taken, broken>>
vars == <<rb, valid, atcmd_flag, timer, mainVars, temp, pc, writeset, want, serialVars, losses, history, swallowed, leaked>>

(* Socket B's TCP client counts ring 1 and copies from ring 0.             *)
CountedRing(t) == IF t = "A" THEN 0 ELSE 1
CopiedRing(t)  == IF t = "B" /\ SocketB = "udp" THEN 1 ELSE 0

Init ==
  /\ rb = [i \in Rings |-> RingBufInit]
  /\ valid = [i \in Rings |-> FALSE]
  /\ atcmd_flag = FALSE
  /\ timer = FALSE
  /\ mpc = "read" /\ chunk = << >> /\ pos = 1 /\ nread_len = 0 /\ jjja_len = 0
  /\ temp = 0
  /\ pc = [t \in Threads |-> IF t = "B" /\ SocketB = "none" THEN "absent" ELSE "connect"]
  /\ writeset \in [Threads -> BOOLEAN]       \* a local fd_set nobody clears
  /\ want = [t \in Threads |-> 0]
  /\ stamped = 0 /\ plusses = 0 /\ lines = 0 /\ losses = 0
  /\ fed = [i \in Rings |-> << >>]
  /\ taken = [i \in Rings |-> << >>]
  /\ swallowed = [t \in Threads |-> FALSE]
  /\ broken = {}
  /\ leaked = [t \in Threads |-> 0]

-----------------------------------------------------------------------------
(* Calls of ringbuf.c on the shared rings.                                 *)
Breaks(name, condition) == broken' = broken \cup (IF condition THEN {name} ELSE {})

WriteByte(i, b) ==
  /\ rb' = [rb EXCEPT ![i] = RingBufWriteOne(@, b)]
  /\ fed' = [fed EXCEPT ![i] = Append(@, b)]
  /\ Breaks("write", ~WriteContract(rb[i], 1))
  /\ UNCHANGED taken

ReadBytes(i, n) ==
  /\ rb' = [rb EXCEPT ![i] = RingBufRead(@, n)]
  /\ taken' = [taken EXCEPT ![i] = @ \o BytesRead(rb[i], n)]
  /\ UNCHANGED fed

Flush(S) ==
  /\ rb' = [i \in Rings |-> IF i \in S THEN RingBufFlush(rb[i]) ELSE rb[i]]
  /\ fed' = [i \in Rings |-> IF i \in S THEN << >> ELSE fed[i]]
  /\ taken' = [i \in Rings |-> IF i \in S THEN << >> ELSE taken[i]]
  /\ UNCHANGED broken

(* Mutant: the loop stops one socket early. *)
WakeFirst ==
  /\ valid' = [valid EXCEPT ![0] = TRUE]
  /\ swallowed' = [t \in Threads |-> FALSE]

(* for (i = 0; i < SOCKET_CLIENT_MAX; i++) socket_tx.valid[i] = 1 *)
WakeAll ==
  /\ valid' = [i \in Rings |-> TRUE]
  /\ swallowed' = [t \in Threads |-> FALSE]

-----------------------------------------------------------------------------
(* main: the serial loop. *)
Main(here, there) == mpc = here /\ temp = 0 /\ mpc' = there

Plusses(n) == [k \in 1 .. n |-> Plus]
Fits(s)    == Paced => \A i \in Rings : WriteContract(rb[i], Len(s))

(* read(fd_serial, serial_buf): payload, plus signs or, in AT mode, a line. *)
Receive ==
  /\ Main("read", "ring0")
  /\ \/ \E n \in 1 .. MaxChunk :
          /\ ~atcmd_flag
          /\ stamped + n <= MaxBytes
          /\ chunk' = [k \in 1 .. n |-> stamped + k]
          /\ stamped' = stamped + n
          /\ UNCHANGED <<plusses, lines>>
     \/ \E n \in 1 .. 3 :
          /\ plusses + n <= MaxPlus
          /\ chunk' = Plusses(n)
          /\ plusses' = plusses + n
          /\ UNCHANGED <<stamped, lines>>
     \/ \E line \in {Command, Entm} :
          /\ atcmd_flag
          /\ lines < MaxLines
          /\ chunk' = <<line>>
          /\ lines' = lines + 1
          /\ UNCHANGED <<stamped, plusses>>
  /\ Fits(chunk')
  /\ UNCHANGED <<rb, valid, atcmd_flag, timer, pos, nread_len, jjja_len, temp, pc,
                 writeset, want, losses, history, swallowed, leaked>>

(* One byte of RingBufWrite(&g_sRxBuf[i], ...); after the last one, on.    *)
CopyIn(i, here, there) ==
  /\ mpc = here
  /\ temp = 0
  /\ WriteByte(i, chunk[pos])
  /\ IF pos < Len(chunk)
     THEN pos' = pos + 1 /\ UNCHANGED mpc
     ELSE pos' = 1 /\ mpc' = there
  /\ UNCHANGED <<valid, atcmd_flag, timer, chunk, nread_len, jjja_len, temp, pc,
                 writeset, want, serialVars, losses, swallowed, leaked>>

Ring0Byte == CopyIn(0, "ring0", IF SocketB = "none" THEN "used" ELSE "ring1")
Ring1Byte == CopyIn(1, "ring1", "used")

LoadUsed ==
  /\ Main("used", "check")
  /\ nread_len' = RingBufUsed(rb[0])
  /\ UNCHANGED <<rb, valid, atcmd_flag, timer, chunk, pos, jjja_len, temp, pc,
                 writeset, want, serialVars, losses, history, swallowed, leaked>>

(* get_jjja_char up to the prompt. *)
AllPlus  == \A k \in 1 .. Len(chunk) : chunk[k] = Plus
Collects == AllPlus /\ jjja_len + Len(chunk) < 3
Escapes  == AllPlus /\ jjja_len + Len(chunk) = 3 /\ ~atcmd_flag

Escape ==
  /\ Main("check", "prompt")
  /\ Escapes
  /\ nread_len' = 0
  /\ UNCHANGED <<rb, valid, atcmd_flag, timer, chunk, pos, jjja_len, temp, pc,
                 writeset, want, serialVars, losses, history, swallowed, leaked>>

(* Mutant: a full packet wakes the sockets in AT mode too. *)
ArmAlsoInAt ==
  /\ Main("check", "read")
  /\ ~Escapes
  /\ jjja_len' = IF Collects THEN jjja_len + Len(chunk) ELSE 0
  /\ timer' = TRUE
  /\ IF nread_len >= PackLen THEN WakeAll ELSE UNCHANGED <<valid, swallowed>>
  /\ chunk' = << >>
  /\ nread_len' = 0
  /\ UNCHANGED <<rb, atcmd_flag, pos, temp, pc, writeset, want, serialVars, losses,
                 history, leaked>>

(* No escape: start the packet timer; a full packet does not wait for it.  *)
Arm ==
  /\ Main("check", "read")
  /\ ~Escapes
  /\ jjja_len' = IF Collects THEN jjja_len + Len(chunk) ELSE 0
  /\ timer' = TRUE
  /\ IF nread_len >= PackLen /\ ~atcmd_flag THEN WakeAll ELSE UNCHANGED <<valid, swallowed>>
  /\ chunk' = << >>
  /\ nread_len' = 0
  /\ UNCHANGED <<rb, atcmd_flag, pos, temp, pc, writeset, want, serialVars, losses,
                 history, leaked>>

(* "a" is sent; the answer is nothing, "a", or something else.  It goes    *)
(* into ring 0 only.                                                       *)
Prompt ==
  /\ \E reply \in {<< >>, <<Letter>>, <<Letter, Letter>>} :
       /\ chunk' = reply
       /\ Fits(reply)
       /\ Main("prompt", IF reply = << >> THEN "fail" ELSE "reply")
  /\ UNCHANGED <<rb, valid, atcmd_flag, timer, pos, nread_len, jjja_len, temp, pc,
                 writeset, want, serialVars, losses, history, swallowed, leaked>>

Reply == CopyIn(0, "reply", IF Len(chunk) = 1 THEN "enter" ELSE "fail")

Fail ==
  /\ Main("fail", "read")
  /\ atcmd_flag' = FALSE
  /\ timer' = TRUE
  /\ jjja_len' = 0
  /\ chunk' = << >>
  /\ UNCHANGED <<rb, valid, pos, nread_len, temp, pc, writeset, want, serialVars,
                 losses, history, swallowed, leaked>>

(* The flag is set first, outside write_lock; then the rings are flushed.  *)
Enter ==
  /\ Main("enter", "flush0")
  /\ atcmd_flag' = TRUE
  /\ leaked' = [t \in Threads |-> 0]
  /\ UNCHANGED <<rb, valid, timer, chunk, pos, nread_len, jjja_len, temp, pc,
                 writeset, want, serialVars, losses, history, swallowed>>

(* Mutant: the second ring is flushed twice. *)
FlushRing1(i, here, there) ==
  /\ Main(here, there)
  /\ Flush({1})
  /\ jjja_len' = IF there = "read" THEN 0 ELSE jjja_len
  /\ chunk' = << >>
  /\ UNCHANGED <<valid, atcmd_flag, timer, pos, nread_len, temp, pc, writeset, want,
                 serialVars, losses, swallowed, leaked>>

FlushAfterEscape(i, here, there) ==
  /\ Main(here, there)
  /\ Flush({i})
  /\ jjja_len' = IF there = "read" THEN 0 ELSE jjja_len
  /\ chunk' = << >>
  /\ UNCHANGED <<valid, atcmd_flag, timer, pos, nread_len, temp, pc, writeset, want,
                 serialVars, losses, swallowed, leaked>>

Flush0 == FlushAfterEscape(0, "flush0", "flush1")
Flush1 == FlushAfterEscape(1, "flush1", "read")

-----------------------------------------------------------------------------
(* Mutant: the alarm wakes the sockets for a full packet only. *)
HandlerWakesFull ==
  /\ timer /\ temp = 0
  /\ timer' = FALSE
  /\ IF RingBufUsed(rb[0]) >= PackLen /\ ~atcmd_flag
     THEN WakeAll
     ELSE UNCHANGED <<valid, swallowed>>
  /\ UNCHANGED <<rb, temp, atcmd_flag, mainVars, pc, writeset, want, serialVars, losses,
                 history, leaked>>

(* sigroutine, on SIGALRM. *)
HandlerStart ==
  /\ timer /\ temp = 0
  /\ timer' = FALSE
  /\ LET n == RingBufUsed(rb[0])
     IN  \/ /\ n = 0
            /\ UNCHANGED <<rb, history, valid, swallowed, temp>>
         \/ /\ n > 0 /\ atcmd_flag          \* malloc succeeds
            /\ temp' = n
            /\ UNCHANGED <<rb, history, valid, swallowed>>
         \/ /\ n > 0 /\ atcmd_flag          \* malloc fails
            /\ Flush({0})
            /\ UNCHANGED <<valid, swallowed, temp>>
         \/ /\ n > 0 /\ ~atcmd_flag
            /\ WakeAll
            /\ UNCHANGED <<rb, history, temp>>
  /\ UNCHANGED <<atcmd_flag, mainVars, pc, writeset, want, serialVars, losses,
                 leaked>>

(* The line is read; at+entm ends the AT mode, any other is dispatched.    *)
HandlerAct ==
  /\ temp > 0
  /\ temp' = 0
  /\ IF FrontByte(rb[0]) = Entm
     THEN /\ rb' = [i \in Rings |-> RingBufFlush(rb[i])]
          /\ fed' = [i \in Rings |-> << >>]
          /\ taken' = [i \in Rings |-> << >>]
          /\ atcmd_flag' = FALSE
     ELSE /\ ReadBytes(0, temp)
          /\ UNCHANGED atcmd_flag
  /\ Breaks("read", ~ReadContract(rb[0], temp))
  /\ UNCHANGED <<valid, timer, mainVars, pc, writeset, want, serialVars, losses,
                 swallowed, leaked>>

-----------------------------------------------------------------------------
(* The socket threads. *)
Thread(t, here, there) == pc[t] = here /\ pc' = [pc EXCEPT ![t] = there]

(* Connected, or the datagram socket is bound. *)
Connect(t) ==
  /\ Thread(t, "connect", IF t = "A" /\ ~CommBuffer THEN "clear" ELSE "loop")
  /\ UNCHANGED <<rb, valid, atcmd_flag, timer, mainVars, temp, writeset, want,
                 serialVars, losses, history, swallowed, leaked>>

(* A clears the wake-ups of both sockets, but only its own ring. *)
ClearValid ==
  /\ Thread("A", "clear", "flush")
  /\ valid' = [i \in Rings |-> FALSE]
  /\ swallowed' = [swallowed EXCEPT !["B"] = @ \/ valid[1]]
  /\ UNCHANGED <<rb, atcmd_flag, timer, mainVars, temp, writeset, want, serialVars,
                 losses, history, leaked>>

FlushOnConnect ==
  /\ Thread("A", "flush", "loop")
  /\ Flush({0})
  /\ UNCHANGED <<valid, atcmd_flag, timer, mainVars, temp, writeset, want,
                 serialVars, losses, swallowed, leaked>>

(* A wake-up moves from socket_tx.valid into the set select() is given.    *)
TakeValid(t) ==
  /\ Thread(t, "loop", "select")
  /\ valid' = [valid EXCEPT ![CountedRing(t)] = FALSE]
  /\ writeset' = [writeset EXCEPT ![t] = @ \/ valid[CountedRing(t)]]
  /\ UNCHANGED <<rb, atcmd_flag, timer, mainVars, temp, want, serialVars, losses,
                 history, swallowed, leaked>>

(* select() leaves in writeset only what is ready: an armed socket that is *)
(* not writable now is disarmed, whether select() timed out or returned    *)
(* for bytes to receive (NetToSerial.tla models what the thread then does). *)
Select(t) ==
  /\ \E wr \in BOOLEAN :
       /\ wr => writeset[t]
       /\ Thread(t, "select", IF wr THEN "tx" ELSE "loop")
       /\ writeset' = [writeset EXCEPT ![t] = wr]
       /\ swallowed' = [swallowed EXCEPT ![t] = @ \/ (writeset[t] /\ ~wr)]
  /\ UNCHANGED <<rb, valid, atcmd_flag, timer, mainVars, temp, want, serialVars,
                 losses, history, leaked>>

(* recv() or select() fails, or the reconnect timeout closes the socket.   *)
(* The next socket may have another number than the one in writeset.       *)
Lose(t) ==
  /\ losses < MaxLosses
  /\ ~(t = "B" /\ SocketB = "udp")
  /\ Thread(t, "select", "connect")
  /\ losses' = losses + 1
  /\ \E kept \in BOOLEAN :
       /\ writeset' = [writeset EXCEPT ![t] = @ /\ kept]
       /\ swallowed' = [swallowed EXCEPT ![t] = @ \/ (writeset[t] /\ ~kept)]
  /\ UNCHANGED <<rb, valid, atcmd_flag, timer, mainVars, temp, want, serialVars,
                 history, leaked>>

(* Count the bytes to send and get a buffer for them; nothing asks for the *)
(* AT mode here.                                                           *)
Tx(t) ==
  /\ writeset' = [writeset EXCEPT ![t] = FALSE]
  /\ LET n == RingBufUsed(rb[CountedRing(t)])
     IN  \/ /\ n = 0
            /\ Thread(t, "tx", "loop")
            /\ UNCHANGED <<want, leaked, swallowed>>
         \/ /\ n > 0                        \* malloc succeeds
            /\ Thread(t, "tx", "copy")
            /\ want' = [want EXCEPT ![t] = n]
            /\ leaked' = [leaked EXCEPT ![t] = IF atcmd_flag THEN @ + 1 ELSE @]
            /\ UNCHANGED swallowed
         \/ /\ n > 0                        \* malloc fails
            /\ Thread(t, "tx", "loop")
            /\ swallowed' = [swallowed EXCEPT ![t] = TRUE]
            /\ UNCHANGED <<want, leaked>>
  /\ UNCHANGED <<rb, valid, atcmd_flag, timer, mainVars, temp, serialVars, losses,
                 history>>

(* One byte of RingBufRead; the last one is sent. *)
Copy(t) ==
  /\ Thread(t, "copy", IF want[t] = 1 THEN "loop" ELSE "copy")
  /\ ReadBytes(CopiedRing(t), 1)
  /\ want' = [want EXCEPT ![t] = @ - 1]
  /\ Breaks("read", ~ReadContract(rb[CopiedRing(t)], want[t]))
  /\ UNCHANGED <<valid, atcmd_flag, timer, mainVars, temp, writeset, serialVars,
                 losses, swallowed, leaked>>

-----------------------------------------------------------------------------
MainStep ==
  \/ Ring0Byte \/ Ring1Byte \/ LoadUsed \/ Escape \/ Arm
  \/ Prompt \/ Reply \/ Fail \/ Enter \/ Flush0 \/ Flush1

Handler == HandlerStart \/ HandlerAct

SocketStep(t) ==
  \/ Connect(t) \/ TakeValid(t) \/ Select(t) \/ Tx(t) \/ Copy(t)

Next ==
  \/ Receive
  \/ MainStep
  \/ Handler
  \/ ClearValid
  \/ FlushOnConnect
  \/ \E t \in Threads : SocketStep(t) \/ Lose(t)

Spec == Init /\ [][Next]_vars

(* The kernel schedules every runnable thread and delivers the alarm; it   *)
(* owes no serial byte and no loss of a connection.                        *)
Fairness ==
  /\ WF_vars(MainStep)
  /\ WF_vars(Handler)
  /\ WF_vars(ClearValid \/ FlushOnConnect)
  /\ \A t \in Threads : WF_vars(SocketStep(t))

FairSpec == Spec /\ Fairness

-----------------------------------------------------------------------------
MainLabels == {"read", "ring0", "ring1", "used", "check", "prompt", "reply", "fail",
               "enter", "flush0", "flush1"}
SocketLabels == {"absent", "connect", "clear", "flush", "loop", "select", "tx",
                 "copy"}

(* The types of the variables (main.c, macros.h). *)
TypeOK ==
  /\ rb \in [Rings -> Ring]
  /\ valid \in [Rings -> BOOLEAN]
  /\ atcmd_flag \in BOOLEAN
  /\ timer \in BOOLEAN
  /\ mpc \in MainLabels
  /\ chunk \in Seq(Byte)
  /\ pos \in Nat \ {0}
  /\ mpc \in {"ring0", "ring1", "reply"} => pos <= Len(chunk)
  /\ nread_len \in Nat
  /\ jjja_len \in 0 .. 2
  /\ temp \in Nat
  /\ pc \in [Threads -> SocketLabels]
  /\ writeset \in [Threads -> BOOLEAN]
  /\ want \in [Threads -> Nat]
  /\ \A t \in Threads : pc[t] = "copy" <=> want[t] > 0
  /\ {stamped, plusses, lines, losses} \subseteq Nat
  /\ fed \in [Rings -> Seq(Byte)]
  /\ taken \in [Rings -> Seq(Byte)]
  /\ swallowed \in [Threads -> BOOLEAN]
  /\ broken \subseteq {"write", "read"}
  /\ leaked \in [Threads -> Nat]

(* Something will still make the thread look at its ring.                  *)
Trigger(t) ==
  timer \/ valid[CountedRing(t)] \/ writeset[t] \/ mpc # "read"

(* Serial bytes never wait in ring 0 with nobody left to send them: a      *)
(* pending alarm, wake-up flag, armed writeset or busy main loop survives  *)
(* every interleaving of the copy into the ring, the one-shot timer, its   *)
(* handler and the socket thread's clear-then-send (main.c 220-262,        *)
(* 683-734; tcpc.c 351-412), unless select(), malloc() or a lost           *)
(* connection swallowed the wake-up.                                       *)
NoLostWakeup ==
  broken = {} /\ ~atcmd_flag /\ ~swallowed["A"] /\ pc["A"] # "flush"
    => RingBufUsed(rb[0]) <= want["A"] \/ Trigger("A")

(* The alarm handler looks at ring 0 only (main.c 220), so socket B's      *)
(* bytes can be left without a trigger, but never while ring 0 has bytes.  *)
StrandedOnlyBehindA ==
  broken = {} /\ ~atcmd_flag /\ ~swallowed["B"]
    => \/ RingBufUsed(rb[CountedRing("B")]) <= want["B"]
       \/ Trigger("B")
       \/ RingBufEmpty(rb[0])
       \/ pc["A"] = "flush"

(* The bytes read from a ring and the bytes waiting in it are the bytes    *)
(* written to it since its last flush, in order, whoever reads, writes or  *)
(* flushes it, as long as every call kept the contract of ringbuf.c.       *)
Conserved ==
  broken = {} =>
    \A i \in Rings : taken[i] \o Contents(rb[i]) = fed[i]

(* Nothing stops a socket thread from sending bytes of the AT dialogue     *)
(* (tcpc.c 401-439), but in one AT session a thread does it at most twice: *)
(* for the set it had armed and for the wake-up flag still standing.       *)
LeakBound == \A t \in Threads : leaked[t] <= 2

(* Once main has flushed ring 0 after the escape (main.c 543), no payload  *)
(* received before it is left to be parsed as an AT command.               *)
CleanCommandLine ==
  broken = {} /\ atcmd_flag /\ mpc # "flush0" =>
    \A k \in 1 .. RingBufUsed(rb[0]) : Contents(rb[0])[k] \notin Stamps \cup {Letter}

(* Payload does not wait for socket A for ever: ring 0 is rid of it again  *)
(* and again, or its wake-up is swallowed, or the AT mode begins (main.c   *)
(* 220, tcpc.c 401).  The bound on the bytes makes the input cease.        *)
Drained == \A j \in 1 .. RingBufUsed(rb[0]) : Contents(rb[0])[j] \notin Stamps

Delivered == []<>(Drained \/ swallowed["A"] \/ atcmd_flag)

(* "Verify that data is available in the buffer": no RingBufRead is called *)
(* for more bytes than are waiting (ringbuf.c, RingBufRead).               *)
ReadAssert == "read" \notin broken
=============================================================================
