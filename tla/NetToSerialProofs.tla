------------------------- MODULE NetToSerialProofs -------------------------
(***************************************************************************)
(* Proofs about the path from the network to the UART (NetToSerial.tla),   *)
(* for any number of socket threads, every kind of traffic and every bound.*)
(***************************************************************************)
EXTENDS NetToSerial, TLAPS

USE ThreadAssumption, ModeAssumption, BoundAssumption

-----------------------------------------------------------------------------
(* The types of the variables the properties are about; whoever is between *)
(* pthread_mutex_lock and unlock, and nobody else, holds write_lock (tcpc.c *)
(* 388-391, 146-148).                                                      *)
Types ==
  /\ socket_rx \in Chunk
  /\ pc \in [Threads -> Labels]
  /\ ret \in [Threads -> BOOLEAN]
  /\ uart \in Seq(Chunk)
  /\ received \in Nat /\ late \in Nat
  /\ lateHearts \in [Threads -> Nat]
  /\ \A t \in Threads : write_lock = t <=> pc[t] \in {"check", "write", "heartwrite"}

LEMMA InitTypes == Init => Types
  <1> SUFFICES ASSUME Init PROVE Types
    OBVIOUS
  <1>1. socket_rx \in Chunk
    BY DEF Init, Nothing, Chunk, AllForms
  <1>2. \A t \in Threads : write_lock # t /\ pc[t] = "idle"
    BY DEF Init
  <1>3. QED
    BY <1>1, <1>2 DEF Init, Types, Labels

LEMMA StepTypes == Types /\ [Next]_vars => Types'
  <1> SUFFICES ASSUME Types, [Next]_vars PROVE Types'
    OBVIOUS
  <1> USE DEF Types, bufferVars, atVars, lateVars, answerVars, uartVars
  <1>1. ASSUME NEW t \in Threads, Recv(t) PROVE Types'
    <2>1. PICK f \in Forms : socket_rx' = [id |-> received + 1, form |-> f]
      BY <1>1 DEF Recv
    <2>2. socket_rx' \in Chunk /\ received' \in Nat
      BY <1>1, <2>1 DEF Recv, Chunk
    <2>3. QED
      BY <1>1, <2>2 DEF Recv, Thread, Labels
  <1>2. ASSUME NEW t \in Threads, Xfrc2217(t) PROVE Types'
    BY <1>2 DEF Xfrc2217, Thread, Labels
  <1>3. ASSUME NEW t \in Threads, RevModbusTcpFrame(t) PROVE Types'
    <2>1. socket_rx' \in Chunk
      BY <1>3 DEF RevModbusTcpFrame, Chunk, AllForms
    <2>2. QED
      BY <1>3, <2>1 DEF RevModbusTcpFrame, Thread, Labels
  <1>4. ASSUME NEW t \in Threads, Lock(t) PROVE Types'
    BY <1>4 DEF Lock, Thread, Labels
  <1>5. ASSUME NEW t \in Threads, TestFlag(t) PROVE Types'
    BY <1>5 DEF TestFlag, Thread, Labels
  <1>6. ASSUME NEW t \in Threads, WriteSerial(t) PROVE Types'
    <2>1. uart' \in Seq(Chunk)
      BY <1>6 DEF WriteSerial
    <2>2. QED
      BY <1>6, <2>1 DEF WriteSerial, Thread, Labels
  <1>7. ASSUME NEW t \in Threads, HeartTest(t) PROVE Types'
    BY <1>7 DEF HeartTest, Thread, Labels
  <1>8. ASSUME NEW t \in Threads, HeartWrite(t) PROVE Types'
    BY <1>8 DEF HeartWrite, Thread, Labels
  <1>9. CASE Answer
    BY <1>9 DEF Answer
  <1>10. CASE RevModbusFrame
    BY <1>10 DEF RevModbusFrame
  <1>11. CASE EnterAt
    BY <1>11 DEF EnterAt
  <1>12. CASE LeaveAt
    BY <1>12 DEF LeaveAt
  <1>13. CASE UNCHANGED vars
    BY <1>13 DEF vars
  <1>14. QED
    BY <1>1, <1>2, <1>3, <1>4, <1>5, <1>6, <1>7, <1>8, <1>9, <1>10, <1>11, <1>12, <1>13
       DEF Next, ThreadStep

-----------------------------------------------------------------------------
(* In AT mode a chunk that is about to be written passed its test before   *)
(* the mode began, so it is the first of the session; and so is a          *)
(* heartbeat that waits.                                                   *)
LateInv ==
  /\ late <= 1
  /\ \A t \in Threads : atcmd_flag /\ pc[t] = "write" => late = 0
  /\ \A t \in Threads : lateHearts[t] <= 1
  /\ \A t \in Threads :
       atcmd_flag /\ pc[t] \in {"heartlock", "heartwrite"} => lateHearts[t] = 0

LEMMA StepLateInv == Types /\ LateInv /\ [Next]_vars => LateInv'
  <1> SUFFICES ASSUME Types, LateInv, [Next]_vars PROVE LateInv'
    OBVIOUS
  <1> USE DEF Types, LateInv, bufferVars, atVars, lateVars, answerVars, uartVars
  <1>1. ASSUME NEW t \in Threads, Recv(t) PROVE LateInv'
    BY <1>1 DEF Recv, Thread
  <1>2. ASSUME NEW t \in Threads, Xfrc2217(t) PROVE LateInv'
    BY <1>2 DEF Xfrc2217, Thread
  <1>3. ASSUME NEW t \in Threads, RevModbusTcpFrame(t) PROVE LateInv'
    BY <1>3 DEF RevModbusTcpFrame, Thread
  <1>4. ASSUME NEW t \in Threads, Lock(t) PROVE LateInv'
    BY <1>4 DEF Lock, Thread
  <1>5. ASSUME NEW t \in Threads, TestFlag(t) PROVE LateInv'
    BY <1>5 DEF TestFlag, Thread
  <1>6. ASSUME NEW t \in Threads, WriteSerial(t) PROVE LateInv'
    <2>1. write_lock = t /\ \A u \in Threads \ {t} : pc[u] # "write"
      BY <1>6 DEF WriteSerial, Thread
    <2>2. \A u \in Threads : pc'[u] # "write"
      BY <1>6, <2>1 DEF WriteSerial, Thread
    <2>3. QED
      BY <1>6, <2>2 DEF WriteSerial, Thread
  <1>7. ASSUME NEW t \in Threads, HeartTest(t) PROVE LateInv'
    BY <1>7 DEF HeartTest, Thread
  <1>8. ASSUME NEW t \in Threads, HeartWrite(t) PROVE LateInv'
    BY <1>8 DEF HeartWrite, Thread
  <1>9. CASE Answer
    BY <1>9 DEF Answer
  <1>10. CASE RevModbusFrame
    BY <1>10 DEF RevModbusFrame
  <1>11. CASE EnterAt
    BY <1>11 DEF EnterAt
  <1>12. CASE LeaveAt
    BY <1>12 DEF LeaveAt
  <1>13. CASE UNCHANGED vars
    BY <1>13 DEF vars
  <1>14. QED
    BY <1>1, <1>2, <1>3, <1>4, <1>5, <1>6, <1>7, <1>8, <1>9, <1>10, <1>11, <1>12, <1>13
       DEF Next, ThreadStep

(* However many socket threads there are and however often the AT mode     *)
(* comes and goes, at most one chunk from the network, and one heartbeat   *)
(* of each thread, reaches the UART in one AT session (tcpc.c 144, 388).   *)
THEOREM LateIsBounded == Spec => []LateBounded
  <1>1. Init => Types /\ LateInv
    BY InitTypes DEF Init, LateInv
  <1>2. Types /\ LateInv /\ [Next]_vars => (Types /\ LateInv)'
    BY StepTypes, StepLateInv
  <1>3. LateInv => LateBounded
    BY DEF LateInv, LateBounded
  <1>4. QED
    BY <1>1, <1>2, <1>3, PTL DEF Spec

-----------------------------------------------------------------------------
(* A thread that is between its recv and its write holds the newest chunk, *)
(* as long as no other thread is.                                          *)
Handling(t) == pc[t] \in {"parse", "convert", "lock", "check", "write"}

ReceiveInv ==
  /\ socket_rx.id <= received
  /\ \A k \in 1 .. Len(uart) : uart[k].id <= received
  /\ ~shared =>
       /\ \A j, k \in 1 .. Len(uart) : j < k => uart[j].id < uart[k].id
       /\ \A t \in Threads : Handling(t) =>
            /\ \A u \in Threads : Handling(u) => u = t
            /\ socket_rx.id = received
            /\ \A k \in 1 .. Len(uart) : uart[k].id < received

LEMMA ChunkIds == \A s \in Seq(Chunk) : \A k \in 1 .. Len(s) : s[k].id \in Nat
  <1> SUFFICES ASSUME NEW s \in Seq(Chunk), NEW k \in 1 .. Len(s) PROVE s[k].id \in Nat
    OBVIOUS
  <1>1. s[k] \in Chunk
    OBVIOUS
  <1>2. QED
    BY <1>1 DEF Chunk

LEMMA StepReceiveInv == Types /\ ReceiveInv /\ [Next]_vars => ReceiveInv'
  <1> SUFFICES ASSUME Types, ReceiveInv, [Next]_vars PROVE ReceiveInv'
    OBVIOUS
  <1> USE DEF Types, ReceiveInv, Handling, Chunk, bufferVars, atVars, lateVars, answerVars, uartVars
  <1>1. ASSUME NEW t \in Threads, Recv(t) PROVE ReceiveInv'
    <2>1. /\ received' = received + 1 /\ socket_rx'.id = received'
          /\ uart' = uart
          /\ pc[t] = "idle" /\ pc' = [pc EXCEPT ![t] = "parse"]
      BY <1>1 DEF Recv, Thread
    <2>2. ~shared' => ~shared /\ \A u \in Threads \ {t} : ~Handling(u)
      BY <1>1 DEF Recv
    <2>3. \A k \in 1 .. Len(uart') : uart'[k].id < received' /\ uart'[k].id <= received'
      <3> SUFFICES ASSUME NEW k \in 1 .. Len(uart)
                   PROVE  uart[k].id < received + 1 /\ uart[k].id <= received + 1
        BY <2>1
      <3>1. uart[k].id \in Nat
        BY ChunkIds
      <3>2. uart[k].id <= received
        OBVIOUS
      <3>3. QED
        BY <3>1, <3>2
    <2>4. ~shared' => \A u \in Threads : Handling(u)' => u = t
      BY <2>1, <2>2
    <2>5. ~shared' => \A j, k \in 1 .. Len(uart') : j < k => uart'[j].id < uart'[k].id
      BY <2>1, <2>2
    <2>6. socket_rx'.id <= received' /\ received' \in Nat
      BY <2>1
    <2>7. QED
      BY <2>1, <2>2, <2>3, <2>4, <2>5, <2>6
  <1>2. ASSUME NEW t \in Threads, Xfrc2217(t) PROVE ReceiveInv'
    <2>1. \A u \in Threads : Handling(u)' => Handling(u)
      BY <1>2 DEF Xfrc2217, Thread
    <2>2. QED
      BY <1>2, <2>1 DEF Xfrc2217
  <1>3. ASSUME NEW t \in Threads, RevModbusTcpFrame(t) PROVE ReceiveInv'
    <2>1. \A u \in Threads : Handling(u)' => Handling(u)
      BY <1>3 DEF RevModbusTcpFrame, Thread
    <2>2. socket_rx'.id = socket_rx.id
      BY <1>3 DEF RevModbusTcpFrame
    <2>3. QED
      BY <1>3, <2>1, <2>2 DEF RevModbusTcpFrame
  <1>4. ASSUME NEW t \in Threads, Lock(t) PROVE ReceiveInv'
    <2>1. \A u \in Threads : Handling(u)' => Handling(u)
      BY <1>4 DEF Lock, Thread
    <2>2. QED
      BY <1>4, <2>1 DEF Lock
  <1>5. ASSUME NEW t \in Threads, TestFlag(t) PROVE ReceiveInv'
    <2>1. \A u \in Threads : Handling(u)' => Handling(u)
      BY <1>5 DEF TestFlag, Thread
    <2>2. QED
      BY <1>5, <2>1 DEF TestFlag
  <1>6. ASSUME NEW t \in Threads, WriteSerial(t) PROVE ReceiveInv'
    <2>1. /\ pc[t] = "write" /\ pc' = [pc EXCEPT ![t] = "idle"]
          /\ uart' = IF ret[t] THEN Append(uart, socket_rx) ELSE uart
          /\ UNCHANGED <<socket_rx, received, shared>>
      BY <1>6 DEF WriteSerial, Thread
    <2>2. \A u \in Threads : Handling(u)' => Handling(u) /\ u # t
      BY <2>1
    <2>3. ~shared => /\ socket_rx.id = received
                     /\ \A k \in 1 .. Len(uart) : uart[k].id < received
                     /\ \A u \in Threads : ~Handling(u)'
      BY <2>1, <2>2
    <2>4. CASE ~ret[t]
      BY <2>1, <2>2, <2>3, <2>4
    <2>5. CASE ret[t]
      <3>1. /\ Len(uart') = Len(uart) + 1
            /\ \A k \in 1 .. Len(uart) : uart'[k] = uart[k]
            /\ uart'[Len(uart) + 1] = socket_rx
        BY <2>1, <2>5
      <3>2. socket_rx.id <= received
        BY <2>1, <2>3
      <3>3. QED
        BY <2>1, <2>2, <2>3, <3>1, <3>2, SMTT(30)
    <2>6. QED
      BY <2>4, <2>5
  <1>7. ASSUME NEW t \in Threads, HeartTest(t) PROVE ReceiveInv'
    <2>1. \A u \in Threads : Handling(u)' => Handling(u)
      BY <1>7 DEF HeartTest, Thread
    <2>2. QED
      BY <1>7, <2>1 DEF HeartTest
  <1>8. ASSUME NEW t \in Threads, HeartWrite(t) PROVE ReceiveInv'
    <2>1. \A u \in Threads : Handling(u)' => Handling(u)
      BY <1>8 DEF HeartWrite, Thread
    <2>2. QED
      BY <1>8, <2>1 DEF HeartWrite
  <1>9. CASE Answer
    BY <1>9 DEF Answer
  <1>10. CASE RevModbusFrame
    BY <1>10 DEF RevModbusFrame
  <1>11. CASE EnterAt
    BY <1>11 DEF EnterAt
  <1>12. CASE LeaveAt
    BY <1>12 DEF LeaveAt
  <1>13. CASE UNCHANGED vars
    BY <1>13 DEF vars
  <1>14. QED
    BY <1>1, <1>2, <1>3, <1>4, <1>5, <1>6, <1>7, <1>8, <1>9, <1>10, <1>11, <1>12, <1>13
       DEF Next, ThreadStep

(* Unless another thread received into socket_rx in between, what is       *)
(* written to the UART is what was received, each chunk once and in order  *)
(* (tcpc.c 367-391).                                                       *)
THEOREM WrittenOnce == Spec => []ReceivedOnce
  <1>1. Init => Types /\ ReceiveInv
    <2> SUFFICES ASSUME Init PROVE Types /\ ReceiveInv
      OBVIOUS
    <2>1. Len(uart) = 0 /\ socket_rx.id = 0 /\ received = 0
      BY DEF Init, Nothing
    <2>2. \A t \in Threads : ~Handling(t)
      BY DEF Init, Handling
    <2>3. QED
      BY <2>1, <2>2, InitTypes DEF ReceiveInv
  <1>2. Types /\ ReceiveInv /\ [Next]_vars => (Types /\ ReceiveInv)'
    BY StepTypes, StepReceiveInv
  <1>3. ReceiveInv => ReceivedOnce
    BY DEF ReceiveInv, ReceivedOnce
  <1>4. QED
    BY <1>1, <1>2, <1>3, PTL DEF Spec

-----------------------------------------------------------------------------
(* The types of what is on the serial line and in the ring.                *)
Acks == [poll : Nat, header : Nat]

LineTypes ==
  /\ polls \in Seq(Nat) /\ ring \in Seq(Nat) /\ acks \in Seq(Acks)
  /\ header \in Nat /\ answered \in Nat

(* What Append does, and the elements of a sequence.                       *)
LEMMA Appended ==
  ASSUME NEW S, NEW s \in Seq(S), NEW e \in S
  PROVE  /\ Append(s, e) \in Seq(S)
         /\ Len(s) \in Nat /\ Len(Append(s, e)) = Len(s) + 1
         /\ \A k \in 1 .. Len(s) : Append(s, e)[k] = s[k]
         /\ Append(s, e)[Len(s) + 1] = e
  OBVIOUS

LEMMA Element ==
  ASSUME NEW S, NEW s \in Seq(S), NEW k \in 1 .. Len(s)
  PROVE  s[k] \in S
  OBVIOUS

LEMMA StepLineTypes == Types /\ LineTypes /\ [Next]_vars => LineTypes'
  <1> SUFFICES ASSUME Types, LineTypes, [Next]_vars PROVE LineTypes'
    OBVIOUS
  <1>0. socket_rx.id \in Nat
    BY DEF Types, Chunk
  <1> USE DEF LineTypes, bufferVars, atVars, lateVars, answerVars, uartVars
  <1>1. ASSUME NEW t \in Threads, RevModbusTcpFrame(t) PROVE LineTypes'
    BY <1>0, <1>1 DEF RevModbusTcpFrame
  <1>2. ASSUME NEW t \in Threads, WriteSerial(t) PROVE LineTypes'
    <2>1. polls' \in Seq(Nat)
      BY <1>0, <1>2, Appended DEF WriteSerial
    <2>2. QED
      BY <1>2, <2>1 DEF WriteSerial
  <1>3. CASE Answer
    <2>1. answered + 1 \in 1 .. Len(polls) /\ answered' \in Nat
      BY <1>3 DEF Answer
    <2>2. polls[answered + 1] \in Nat
      BY <2>1, Element
    <2>3. ring' \in Seq(Nat)
      BY <1>3, <2>2, Appended DEF Answer
    <2>4. QED
      BY <1>3, <2>1, <2>3 DEF Answer
  <1>4. CASE RevModbusFrame
    <2>1. ASSUME Len(ring) = 1 PROVE [poll |-> ring[1], header |-> header] \in Acks
      <3>1. 1 \in 1 .. Len(ring)
        BY <2>1
      <3>2. ring[1] \in Nat
        BY <3>1, Element
      <3>3. QED
        BY <3>2 DEF Acks
    <2>2. acks' \in Seq(Acks)
      BY <1>4, <2>1, Appended DEF RevModbusFrame
    <2>3. QED
      BY <1>4, <2>2 DEF RevModbusFrame
  <1>5. ASSUME NEW t \in Threads,
               Recv(t) \/ Xfrc2217(t) \/ Lock(t) \/ TestFlag(t) \/ HeartTest(t) \/ HeartWrite(t)
        PROVE  LineTypes'
    BY <1>5 DEF Recv, Xfrc2217, Lock, TestFlag, HeartTest, HeartWrite
  <1>6. CASE EnterAt \/ LeaveAt \/ UNCHANGED vars
    BY <1>6 DEF EnterAt, LeaveAt, vars
  <1>7. QED
    BY <1>1, <1>2, <1>3, <1>4, <1>5, <1>6 DEF Next, ThreadStep

(* While every peer waits for its answer, polls and answers take turns:    *)
(* at most one poll is on the line, its answer the only one in the ring,   *)
(* and header the one saved from it; a thread that handles a chunk came to *)
(* an empty line.                                                          *)
Converted(t) == pc[t] \in {"lock", "check", "write"} /\ ret[t]

Matched == \A k \in 1 .. Len(acks) : acks[k].poll = acks[k].header

OnLine ==
  /\ Len(acks) <= Len(polls) /\ Len(polls) <= Len(acks) + 1
  /\ answered = Len(acks) + Len(ring) /\ answered <= Len(polls)
  /\ Len(polls) = Len(acks) + 1 => header = polls[Len(polls)]
  /\ ring # << >> => ring[1] = polls[Len(polls)]

AloneWith(t) ==
  /\ \A u \in Threads : Handling(u) => u = t
  /\ Len(polls) = Len(acks)
  /\ Converted(t) => socket_rx.form = "rtu" /\ header = socket_rx.id

AckInv ==
  ~pipelined => /\ ~shared
                /\ Matched
                /\ OnLine
                /\ \A t \in Threads : Handling(t) => AloneWith(t)

(* The sums of OnLine when an answer is in the ring.                       *)
LEMMA OneOnLine ==
  ASSUME NEW p \in Nat, NEW a \in Nat, NEW r \in Nat, NEW n \in Nat,
         p <= a + 1, n = a + r, n <= p, r >= 1
  PROVE  r = 1 /\ p = a + 1 /\ n = a + 1
  OBVIOUS

(* A step that leaves the line, the buffer and who handles it alone.       *)
LEMMA SameAck ==
  ASSUME AckInv, pipelined' = pipelined, shared' = shared,
         UNCHANGED <<socket_rx, header, polls, answered, ring, acks>>,
         \A t \in Threads : /\ Handling(t)' => Handling(t)
                            /\ Converted(t)' => Converted(t)
  PROVE  AckInv'
  BY DEF AckInv, AloneWith, OnLine, Matched

LEMMA StepAckInv == Modbus /\ Types /\ LineTypes /\ AckInv /\ [Next]_vars => AckInv'
  <1> SUFFICES ASSUME Modbus, Types, LineTypes, AckInv, [Next]_vars PROVE AckInv'
    OBVIOUS
  <1>0. /\ Len(polls) \in Nat /\ Len(acks) \in Nat /\ Len(ring) \in Nat
        /\ answered \in Nat /\ pc \in [Threads -> Labels] /\ ret \in [Threads -> BOOLEAN]
        /\ socket_rx \in Chunk
    BY DEF LineTypes, Types
  <1> USE DEF bufferVars, atVars, lateVars, answerVars, uartVars
  <1>1. ASSUME NEW t \in Threads, Recv(t) PROVE AckInv'
    <2> SUFFICES ASSUME ~pipelined' PROVE AckInv'
      BY DEF AckInv
    <2>1. /\ ~pipelined /\ ~shared' /\ ~(Len(acks) < Len(polls))
          /\ \A u \in Threads \ {t} : ~Handling(u)
          /\ UNCHANGED <<header, polls, answered, ring, acks>>
      BY <1>1 DEF Recv, Handling
    <2>2. OnLine' /\ Matched' /\ Len(polls) = Len(acks)
      BY <2>1 DEF AckInv, OnLine, Matched
    <2>3. pc' = [pc EXCEPT ![t] = "parse"]
      BY <1>1 DEF Recv, Thread
    <2>4. \A u \in Threads : Handling(u)' => u = t
      BY <2>1, <2>3 DEF Handling
    <2>5. ~Converted(t)'
      BY <1>0, <2>3 DEF Converted
    <2>6. QED
      BY <2>1, <2>2, <2>4, <2>5 DEF AckInv, AloneWith
  <1>2. ASSUME NEW t \in Threads, Xfrc2217(t) PROVE AckInv'
    <2>1. /\ pc[t] = "parse" /\ \E there \in {"idle", "convert"} : pc' = [pc EXCEPT ![t] = there]
          /\ \E b \in BOOLEAN : ret' = [ret EXCEPT ![t] = b]
      BY <1>2 DEF Xfrc2217, Thread
    <2>2. \A u \in Threads : (Handling(u)' => Handling(u)) /\ (Converted(u)' => Converted(u))
      BY <2>1 DEF Handling, Converted
    <2>3. QED
      BY <1>2, <2>2, SameAck DEF Xfrc2217
  <1>3. ASSUME NEW t \in Threads, RevModbusTcpFrame(t) PROVE AckInv'
    <2> SUFFICES ASSUME ~pipelined PROVE AckInv'
      BY <1>3 DEF RevModbusTcpFrame, AckInv
    <2>1. /\ pc[t] = "convert" /\ pc' = [pc EXCEPT ![t] = "lock"]
          /\ ret' = [ret EXCEPT ![t] = socket_rx.form = "poll"]
          /\ UNCHANGED <<pipelined, shared, polls, answered, ring, acks>>
      BY <1>3 DEF RevModbusTcpFrame, Thread
    <2>2. AloneWith(t) /\ Matched /\ OnLine /\ ~shared
      BY <2>1 DEF AckInv, Handling
    <2>3. \A u \in Threads : Handling(u)' => u = t
      BY <2>1, <2>2 DEF AloneWith, Handling
    <2>4. Len(polls) = Len(acks) /\ Matched' /\ OnLine'
      BY <2>1, <2>2 DEF AloneWith, Matched, OnLine
    <2>5. ret'[t] => socket_rx'.form = "rtu" /\ header' = socket_rx'.id
      BY <1>0, <1>3, <2>1 DEF RevModbusTcpFrame, Chunk
    <2>6. QED
      BY <2>1, <2>2, <2>3, <2>4, <2>5 DEF AckInv, AloneWith, Converted
  <1>4. ASSUME NEW t \in Threads, Lock(t) PROVE AckInv'
    <2>1. \A u \in Threads : (Handling(u)' => Handling(u)) /\ (Converted(u)' => Converted(u))
      BY <1>0, <1>4 DEF Lock, Thread, Handling, Converted
    <2>2. QED
      BY <1>4, <2>1, SameAck DEF Lock
  <1>5. ASSUME NEW t \in Threads, TestFlag(t) PROVE AckInv'
    <2>1. \A u \in Threads : (Handling(u)' => Handling(u)) /\ (Converted(u)' => Converted(u))
      BY <1>0, <1>5 DEF TestFlag, Thread, Handling, Converted
    <2>2. QED
      BY <1>5, <2>1, SameAck DEF TestFlag
  <1>6. ASSUME NEW t \in Threads, WriteSerial(t) PROVE AckInv'
    <2> SUFFICES ASSUME ~pipelined PROVE AckInv'
      BY <1>6 DEF WriteSerial, AckInv
    <2>1. /\ pc[t] = "write" /\ pc' = [pc EXCEPT ![t] = "idle"]
          /\ polls' = IF ret[t] /\ socket_rx.form = "rtu" THEN Append(polls, socket_rx.id) ELSE polls
          /\ UNCHANGED <<pipelined, shared, socket_rx, header, answered, ring, acks, ret>>
      BY <1>6 DEF WriteSerial, Thread
    <2>2. AloneWith(t) /\ Matched /\ OnLine /\ ~shared
      BY <2>1 DEF AckInv, Handling
    <2>3. \A u \in Threads : ~Handling(u)'
      BY <1>0, <2>1, <2>2 DEF AloneWith, Handling
    <2>4. Matched'
      BY <2>1, <2>2 DEF Matched
    <2>5. CASE ~(ret[t] /\ socket_rx.form = "rtu")
      BY <2>1, <2>2, <2>3, <2>4, <2>5 DEF AckInv, OnLine
    <2>6. CASE ret[t] /\ socket_rx.form = "rtu"
      <3>1. Converted(t) /\ header = socket_rx.id /\ Len(polls) = Len(acks)
        BY <2>1, <2>2, <2>6 DEF AloneWith, Converted
      <3>2. ring = << >>
        BY <2>2, <3>1 DEF OnLine
      <3>3. socket_rx.id \in Nat
        BY <1>0 DEF Chunk
      <3>4. polls' = Append(polls, socket_rx.id)
        BY <2>1, <2>6
      <3>5. Len(polls') = Len(polls) + 1 /\ polls'[Len(polls')] = socket_rx.id
        BY <3>3, <3>4
      <3>6. OnLine'
        BY <2>1, <2>2, <3>1, <3>2, <3>5 DEF OnLine
      <3>7. QED
        BY <2>1, <2>2, <2>3, <2>4, <3>6 DEF AckInv
    <2>7. QED
      BY <2>5, <2>6
  <1>7. ASSUME NEW t \in Threads, HeartTest(t) \/ HeartWrite(t) PROVE AckInv'
    <2>1. \A u \in Threads : (Handling(u)' => Handling(u)) /\ (Converted(u)' => Converted(u))
      BY <1>0, <1>7 DEF HeartTest, HeartWrite, Thread, Handling, Converted
    <2>2. QED
      BY <1>7, <2>1, SameAck DEF HeartTest, HeartWrite
  <1>8. CASE Answer
    <2> SUFFICES ASSUME ~pipelined PROVE AckInv'
      BY <1>8 DEF Answer, AckInv
    <2>1. /\ answered < Len(polls) /\ answered' = answered + 1
          /\ ring' = Append(ring, polls[answered + 1])
          /\ UNCHANGED <<pipelined, shared, socket_rx, header, polls, acks, ret, pc>>
      BY <1>8 DEF Answer
    <2>2. Matched /\ OnLine /\ ~shared
      BY DEF AckInv
    <2>3. Len(polls) = Len(acks) + 1 /\ answered = Len(acks) /\ Len(ring) = 0
      BY <1>0, <2>1, <2>2 DEF OnLine
    <2>4. polls[answered + 1] \in Nat
      BY <1>0, <2>1, Element DEF LineTypes
    <2>5. Len(ring') = 1 /\ ring'[1] = polls[Len(polls)]
      BY <1>0, <2>1, <2>3, <2>4, Appended DEF LineTypes
    <2>6. OnLine' /\ Matched'
      BY <2>1, <2>2, <2>3, <2>5 DEF OnLine, Matched
    <2>7. \A t \in Threads : ~Handling(t)
      BY <2>3 DEF AckInv, AloneWith
    <2>8. QED
      BY <2>1, <2>2, <2>6, <2>7 DEF AckInv, Handling
  <1>9. CASE RevModbusFrame
    <2> SUFFICES ASSUME ~pipelined PROVE AckInv'
      BY <1>9 DEF RevModbusFrame, AckInv
    <2>1. /\ ring # << >> /\ ring' = << >>
          /\ acks' = IF Len(ring) = 1 THEN Append(acks, [poll |-> ring[1], header |-> header])
                                     ELSE acks
          /\ UNCHANGED <<pipelined, shared, socket_rx, header, polls, answered, ret, pc>>
      BY <1>9 DEF RevModbusFrame
    <2>2. Matched /\ OnLine /\ ~shared
      BY DEF AckInv
    <2>0. Len(ring) >= 1
      BY <2>1 DEF LineTypes
    <2>c. /\ Len(polls) <= Len(acks) + 1
          /\ answered = Len(acks) + Len(ring) /\ answered <= Len(polls)
      BY <2>2 DEF OnLine
    <2>d. Len(polls) \in Nat /\ Len(acks) \in Nat /\ Len(ring) \in Nat
      BY <1>0
    <2>a. Len(ring) = 1 /\ Len(polls) = Len(acks) + 1 /\ answered = Len(acks) + 1
      BY <1>0, <2>0, <2>c, <2>d, OneOnLine
    <2>b. ring[1] = header
      BY <2>1, <2>2, <2>a DEF OnLine
    <2>3. Len(ring) = 1 /\ Len(polls) = Len(acks) + 1 /\ ring[1] = header /\ answered = Len(acks) + 1
      BY <2>a, <2>b
    <2>4. [poll |-> ring[1], header |-> header] \in Acks
      BY <2>3 DEF Acks, LineTypes
    <2>5. /\ Len(acks') = Len(acks) + 1
          /\ \A k \in 1 .. Len(acks) : acks'[k] = acks[k]
          /\ acks'[Len(acks) + 1] = [poll |-> ring[1], header |-> header]
      BY <2>1, <2>3, <2>4, Appended DEF LineTypes
    <2>6. Matched'
      BY <2>2, <2>3, <2>5 DEF Matched
    <2>7. OnLine'
      BY <2>1, <2>2, <2>3, <2>5 DEF OnLine
    <2>8. \A t \in Threads : ~Handling(t)
      BY <2>3 DEF AckInv, AloneWith
    <2>9. QED
      BY <2>1, <2>2, <2>6, <2>7, <2>8 DEF AckInv, Handling
  <1>10. CASE EnterAt \/ LeaveAt \/ UNCHANGED vars
    <2>1. \A u \in Threads : (Handling(u)' => Handling(u)) /\ (Converted(u)' => Converted(u))
      BY <1>10 DEF EnterAt, LeaveAt, vars, Handling, Converted
    <2>2. QED
      BY <1>10, <2>1, SameAck DEF EnterAt, LeaveAt, vars
  <1>11. QED
    BY <1>1, <1>2, <1>3, <1>4, <1>5, <1>6, <1>7, <1>8, <1>9, <1>10 DEF Next, ThreadStep

(* As long as no poll is sent before the answer to the last one left, the  *)
(* one global header belongs to the poll that is answered: neither the     *)
(* in-place conversion, the lock, the AT mode nor another thread's         *)
(* heartbeat mixes them up (utils.c 290, 335).                             *)
THEOREM AcksMatch == Spec => []AckMatchesAlone
  <1>1. CASE ~Modbus
    <2>1. Init => acks = << >>
      BY DEF Init
    <2>2. acks = << >> /\ [Next]_vars => (acks = << >>)'
      <3> SUFFICES ASSUME acks = << >>, [Next]_vars PROVE acks' = << >>
        OBVIOUS
      <3> USE DEF answerVars
      <3>1. CASE RevModbusFrame
        BY <1>1, <3>1 DEF RevModbusFrame
      <3>2. CASE ~RevModbusFrame
        BY <3>2 DEF Next, vars, Recv, ThreadStep, Xfrc2217, RevModbusTcpFrame, Lock, TestFlag,
                    WriteSerial, HeartTest, HeartWrite, Answer, EnterAt, LeaveAt
      <3>3. QED
        BY <3>1, <3>2
    <2>3. acks = << >> => AckMatchesAlone
      BY DEF AckMatchesAlone
    <2>4. QED
      BY <2>1, <2>2, <2>3, PTL DEF Spec
  <1>2. CASE Modbus
    <2>1. Init => Types /\ LineTypes /\ AckInv
      <3> SUFFICES ASSUME Init PROVE LineTypes /\ AckInv
        BY InitTypes
      <3>1. /\ Len(polls) = 0 /\ Len(acks) = 0 /\ ring = << >> /\ Len(ring) = 0 /\ answered = 0
            /\ ~shared /\ LineTypes
        BY DEF Init, LineTypes
      <3>2. \A t \in Threads : ~Handling(t)
        BY DEF Init, Handling
      <3>3. QED
        BY <3>1, <3>2 DEF AckInv, Matched, OnLine
    <2>2. Types /\ LineTypes /\ AckInv /\ [Next]_vars => (Types /\ LineTypes /\ AckInv)'
      BY <1>2, StepTypes, StepLineTypes, StepAckInv
    <2>3. AckInv => AckMatchesAlone
      BY DEF AckInv, Matched, AckMatchesAlone
    <2>4. QED
      BY <2>1, <2>2, <2>3, PTL DEF Spec
  <1>3. QED
    BY <1>1, <1>2
=============================================================================
