---------------------------- MODULE NetToSerial ----------------------------
(***************************************************************************)
(* One USR_N668 process, from the network to its UART: the socket threads  *)
(* of tcpc.c receive into one shared buffer, look for a baud-rate packet   *)
(* (xfrc2217), convert Modbus TCP to RTU in place, and write the UART      *)
(* under write_lock unless the AT command mode is on; they also write the  *)
(* serial heartbeat.  The device on the serial line answers the Modbus     *)
(* polls, and thread A sends an answer back behind the saved header.       *)
(* main sets atcmd_flag and the alarm handler clears it, neither with the  *)
(* lock (Ser2Net.tla has the whole escape).                                *)
(***************************************************************************)
EXTENDS Integers, Sequences, FiniteSets

CONSTANTS Threads,      \* the socket threads
          Modbus,       \* portParam.modbustcp
          Forms,        \* what peers send: a subset of AllForms
          MaxNet,       \* bound: chunks the network ever sends
          MaxHearts,    \* bound: heartbeats
          MaxSessions   \* bound: times the AT mode is entered

(* A parameter packet, a Modbus TCP frame, the RTU frame made of it, else. *)
AllForms == {"baud", "poll", "rtu", "other"}

ASSUME ThreadAssumption == "A" \in Threads /\ "free" \notin Threads
ASSUME ModeAssumption  == Modbus \in BOOLEAN /\ Forms \subseteq AllForms
ASSUME BoundAssumption == {MaxNet, MaxHearts, MaxSessions} \subseteq Nat

VARIABLES
  socket_rx,    \* the shared receive buffer: [id, form] of the chunk in it
  header,       \* modbustcp_frame: the id of the frame the header came from
  atcmd_flag,
  write_lock,   \* the thread that holds it, or "free"
  pc,
  ret,          \* whether the thread found bytes to write
  uart,         \* the chunks written to the UART, in order
  polls,        \* the ids of the polls among them
  answered,     \* how many of those the device has answered
  ring,         \* answers waiting in the ring
  acks,         \* answers sent: [poll, header]
  received, hearts, sessions,   \* counters for the bounds
  shared,       \* some chunk was overwritten before its thread was done
  pipelined,    \* some chunk came before all earlier polls were answered
  late,         \* chunks written since the AT mode began
  lateHearts    \* heartbeats of each thread written since then

bufferVars  == <<socket_rx, header, received, shared, pipelined>>
atVars      == <<atcmd_flag, sessions>>
lateVars    == <<late, lateHearts>>
answerVars  == <<answered, ring, acks>>
uartVars    == <<uart, polls>>
vars == <<bufferVars, atVars, lateVars, answerVars, uartVars, write_lock, pc, ret, hearts>>

Nothing == [id |-> 0, form |-> "other"]

Init ==
  /\ socket_rx = Nothing
  /\ header = 0
  /\ atcmd_flag = FALSE
  /\ write_lock = "free"
  /\ pc = [t \in Threads |-> "idle"]
  /\ ret = [t \in Threads |-> FALSE]
  /\ uart = << >> /\ polls = << >>
  /\ answered = 0 /\ ring = << >> /\ acks = << >>
  /\ received = 0 /\ hearts = 0 /\ sessions = 0
  /\ shared = FALSE /\ pipelined = FALSE
  /\ late = 0
  /\ lateHearts = [t \in Threads |-> 0]

Thread(t, here, there) == pc[t] = here /\ pc' = [pc EXCEPT ![t] = there]

-----------------------------------------------------------------------------
(* recv() into socket_rx. *)
Recv(t) ==
  /\ Thread(t, "idle", "parse")
  /\ received < MaxNet
  /\ received' = received + 1
  /\ \E f \in Forms : socket_rx' = [id |-> received + 1, form |-> f]
  /\ shared' = (shared \/ \E u \in Threads \ {t} : pc[u] \in {"parse", "convert", "lock",
                                                                "check", "write"})
  /\ pipelined' = (pipelined \/ shared' \/ Len(acks) < Len(polls))
  /\ UNCHANGED <<header, atVars, lateVars, answerVars, write_lock, ret, uartVars, hearts>>

(* xfrc2217 sets the line parameters and swallows a parameter packet.      *)
Xfrc2217(t) ==
  /\ Thread(t, "parse", IF socket_rx.form = "baud" THEN "idle"
                        ELSE IF Modbus THEN "convert" ELSE "lock")
  /\ ret' = [ret EXCEPT ![t] = socket_rx.form # "baud"]
  /\ UNCHANGED <<bufferVars, atVars, lateVars, answerVars, write_lock, uartVars, hearts>>

(* Mutant: the header is saved once. *)
RevFirstHeader(t) ==
  /\ Thread(t, "convert", "lock")
  /\ ret' = [ret EXCEPT ![t] = socket_rx.form = "poll"]
  /\ IF socket_rx.form = "poll"
     THEN /\ header' = IF header = 0 THEN socket_rx.id ELSE header
          /\ socket_rx' = [socket_rx EXCEPT !.form = "rtu"]
     ELSE UNCHANGED <<header, socket_rx>>
  /\ UNCHANGED <<received, shared, pipelined, atVars, lateVars, answerVars, write_lock,
                 uartVars, hearts>>

(* rev_modbustcp_frame saves the header in a global and shifts the frame   *)
(* over it; a chunk whose length field is wrong counts no bytes.           *)
RevModbusTcpFrame(t) ==
  /\ Thread(t, "convert", "lock")
  /\ ret' = [ret EXCEPT ![t] = socket_rx.form = "poll"]
  /\ IF socket_rx.form = "poll"
     THEN /\ header' = socket_rx.id
          /\ socket_rx' = [socket_rx EXCEPT !.form = "rtu"]
     ELSE UNCHANGED <<header, socket_rx>>
  /\ UNCHANGED <<received, shared, pipelined, atVars, lateVars, answerVars, write_lock,
                 uartVars, hearts>>

(* Mutant: nobody waits for the lock. *)
LockNoWait(t) ==
  /\ \/ Thread(t, "lock", "check")
     \/ Thread(t, "heartlock", "heartwrite")
  /\ write_lock' = t
  /\ UNCHANGED <<bufferVars, atVars, lateVars, answerVars, ret, uartVars, hearts>>

Lock(t) ==
  /\ \/ Thread(t, "lock", "check")
     \/ Thread(t, "heartlock", "heartwrite")
  /\ write_lock = "free"
  /\ write_lock' = t
  /\ UNCHANGED <<bufferVars, atVars, lateVars, answerVars, ret, uartVars, hearts>>

(* Mutant: the dropped chunk's path does not unlock. *)
TestFlagNoUnlock(t) ==
  /\ Thread(t, "check", IF atcmd_flag THEN "idle" ELSE "write")
  /\ UNCHANGED <<bufferVars, atVars, lateVars, answerVars, write_lock, ret, uartVars, hearts>>

(* In AT mode the chunk is dropped. *)
TestFlag(t) ==
  /\ Thread(t, "check", IF atcmd_flag THEN "idle" ELSE "write")
  /\ write_lock' = IF atcmd_flag THEN "free" ELSE t
  /\ UNCHANGED <<bufferVars, atVars, lateVars, answerVars, ret, uartVars, hearts>>

(* Mutant: the write is tried again. *)
WriteAgain(t) ==
  /\ \E there \in {"idle", "lock"} : Thread(t, "write", there)
  /\ uart' = IF ret[t] THEN Append(uart, socket_rx) ELSE uart
  /\ polls' = IF ret[t] /\ socket_rx.form = "rtu" THEN Append(polls, socket_rx.id) ELSE polls
  /\ late' = IF ret[t] /\ atcmd_flag THEN late + 1 ELSE late
  /\ write_lock' = "free"
  /\ UNCHANGED <<bufferVars, atVars, lateHearts, answerVars, ret, hearts>>

(* write() of what the buffer holds by now. *)
WriteSerial(t) ==
  /\ Thread(t, "write", "idle")
  /\ uart' = IF ret[t] THEN Append(uart, socket_rx) ELSE uart
  /\ polls' = IF ret[t] /\ socket_rx.form = "rtu" THEN Append(polls, socket_rx.id) ELSE polls
  /\ late' = IF ret[t] /\ atcmd_flag THEN late + 1 ELSE late
  /\ write_lock' = "free"
  /\ UNCHANGED <<bufferVars, atVars, lateHearts, answerVars, ret, hearts>>

(* The serial heartbeat tests the flag before it waits for the lock.       *)
HeartTest(t) ==
  /\ Thread(t, "idle", "heartlock")
  /\ hearts < MaxHearts
  /\ ~atcmd_flag
  /\ hearts' = hearts + 1
  /\ UNCHANGED <<bufferVars, atVars, lateVars, answerVars, write_lock, ret, uartVars>>

HeartWrite(t) ==
  /\ Thread(t, "heartwrite", "idle")
  /\ lateHearts' = [lateHearts EXCEPT ![t] = IF atcmd_flag THEN @ + 1 ELSE @]
  /\ write_lock' = "free"
  /\ UNCHANGED <<bufferVars, atVars, late, answerVars, ret, uartVars, hearts>>

(* The serial device answers its oldest unanswered poll. *)
Answer ==
  /\ answered < Len(polls)
  /\ answered' = answered + 1
  /\ ring' = Append(ring, polls[answered + 1])
  /\ UNCHANGED <<bufferVars, atVars, lateVars, acks, write_lock, pc, ret, uartVars, hearts>>

(* rev_modbus_frame puts the saved header before an answer; two answers    *)
(* read as one fail the CRC and are dropped.  Without modbustcp the bytes  *)
(* are sent as they are.                                                   *)
RevModbusFrame ==
  /\ pc["A"] = "idle"
  /\ ring # << >>
  /\ ring' = << >>
  /\ acks' = IF Modbus /\ Len(ring) = 1
             THEN Append(acks, [poll |-> ring[1], header |-> header])
             ELSE acks
  /\ UNCHANGED <<bufferVars, atVars, lateVars, answered, write_lock, pc, ret, uartVars, hearts>>

(* main: an escape succeeds; the handler: at+entm. *)
EnterAt ==
  /\ ~atcmd_flag
  /\ sessions < MaxSessions
  /\ atcmd_flag' = TRUE
  /\ sessions' = sessions + 1
  /\ late' = 0
  /\ lateHearts' = [t \in Threads |-> 0]
  /\ UNCHANGED <<bufferVars, answerVars, write_lock, pc, ret, uartVars, hearts>>

LeaveAt ==
  /\ atcmd_flag
  /\ atcmd_flag' = FALSE
  /\ UNCHANGED <<bufferVars, sessions, lateVars, answerVars, write_lock, pc, ret, uartVars,
                 hearts>>

ThreadStep(t) ==
  \/ Xfrc2217(t) \/ RevModbusTcpFrame(t) \/ Lock(t) \/ TestFlag(t) \/ WriteSerial(t)
  \/ HeartWrite(t)

Next ==
  \/ \E t \in Threads : Recv(t) \/ ThreadStep(t) \/ HeartTest(t)
  \/ RevModbusFrame
  \/ Answer
  \/ EnterAt
  \/ LeaveAt

Spec == Init /\ [][Next]_vars

(* The kernel schedules a runnable thread; a mutex owes no waiter its turn. *)
FairSpec == Spec /\ \A t \in Threads : WF_vars(ThreadStep(t))

-----------------------------------------------------------------------------
Labels == {"idle", "parse", "convert", "lock", "check", "write", "heartlock", "heartwrite"}

Chunk == [id : Nat, form : AllForms]

(* The types of the variables (macros.h, utils.c); whoever is between lock *)
(* and unlock, and nobody else, holds the lock.                            *)
TypeOK ==
  /\ socket_rx \in Chunk
  /\ atcmd_flag \in BOOLEAN
  /\ write_lock \in Threads \cup {"free"}
  /\ pc \in [Threads -> Labels]
  /\ ret \in [Threads -> BOOLEAN]
  /\ uart \in Seq(Chunk) /\ polls \in Seq(Nat)
  /\ ring \in Seq(Nat)
  /\ acks \in Seq([poll : Nat, header : Nat])
  /\ {header, answered, received, hearts, sessions, late} \subseteq Nat
  /\ shared \in BOOLEAN /\ pipelined \in BOOLEAN
  /\ \A t \in Threads : write_lock = t <=> pc[t] \in {"check", "write", "heartwrite"}
  /\ lateHearts \in [Threads -> Nat]

(* atcmd_flag is set without write_lock (main.c 542), so a chunk from the  *)
(* network can reach the UART in AT mode; that the flag is tested under    *)
(* the lock (tcpc.c 388-391) keeps it to one per session, however many     *)
(* threads receive.  The heartbeat tests the flag before the lock (144-148)*)
(* and there the bound is one per thread.                                  *)
LateBounded == late <= 1 /\ \A t \in Threads : lateHearts[t] <= 1

(* A chunk from the network is written to the UART at most once and in     *)
(* order, unless the other thread received into the shared socket_rx       *)
(* between its recv and its write (tcpc.c 367-391, 583-606).               *)
ReceivedOnce ==
  ~shared => \A j, k \in 1 .. Len(uart) : j < k => uart[j].id < uart[k].id

(* As long as peers wait for the answer to one poll before the next, the   *)
(* single saved header is the one of the poll that is answered             *)
(* (utils.c 290, 335).                                                     *)
AckMatchesAlone ==
  ~pipelined => \A k \in 1 .. Len(acks) : acks[k].poll = acks[k].header

(* Every path out of the critical section unlocks it, the dropped chunk's  *)
(* too (tcpc.c 388-391, 146-148).                                          *)
LockReleased == \A t \in Threads : write_lock = t ~> write_lock # t
=============================================================================
