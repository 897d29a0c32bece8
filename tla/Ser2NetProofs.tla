--------------------------- MODULE Ser2NetProofs ---------------------------
(***************************************************************************)
(* Proofs about the path from the UART to the network (Ser2Net.tla), for   *)
(* every ring size, packet length, bound and mode.                          *)
(***************************************************************************)
EXTENDS Ser2Net, SequenceTheorems, FiniteSetTheorems, TLAPS

USE SizeAssumption

-----------------------------------------------------------------------------
(* The operators of ringbuf.c. *)

LEMMA UpdateIndexType == \A i \in Index, n \in Nat : UpdateIndex(i, n) \in Index
  BY DEF Index, UpdateIndex

(* One subtraction is enough for a delta that fits the ring. *)
LEMMA UpdateIndexWraps ==
  ASSUME NEW i \in Index, NEW n \in 0 .. Size
  PROVE  UpdateIndex(i, n) = IF i + n >= Size THEN i + n - Size ELSE i + n
  BY DEF Index, UpdateIndex

LEMMA UsedRange == \A r \in Ring : RingBufUsed(r) \in 0 .. Size - 1
  <1> SUFFICES ASSUME NEW r \in Ring PROVE RingBufUsed(r) \in 0 .. Size - 1
    OBVIOUS
  <1>1. r.r \in Index /\ r.w \in Index
    BY DEF Ring
  <1>2. QED
    BY <1>1 DEF Index, RingBufUsed

LEMMA InitType == RingBufInit \in Ring
  BY ByteAssumption DEF RingBufInit, Ring, Index

LEMMA FlushType == \A r \in Ring : RingBufFlush(r) \in Ring /\ RingBufUsed(RingBufFlush(r)) = 0
  <1> SUFFICES ASSUME NEW r \in Ring
               PROVE  RingBufFlush(r) \in Ring /\ RingBufUsed(RingBufFlush(r)) = 0
    OBVIOUS
  <1>1. 0 \in Index
    BY DEF Index
  <1>2. RingBufFlush(r) \in Ring
    BY <1>1 DEF RingBufFlush, Ring
  <1>3. RingBufFlush(r).r = 0 /\ RingBufFlush(r).w = 0
    BY DEF RingBufFlush, Ring
  <1>4. QED
    BY <1>2, <1>3 DEF RingBufUsed

LEMMA ReadType == \A r \in Ring, n \in Nat : RingBufRead(r, n) \in Ring
  BY UpdateIndexType DEF RingBufRead, Ring

LEMMA WriteOneType == \A r \in Ring, b \in Byte : RingBufWriteOne(r, b) \in Ring
  BY UpdateIndexType DEF RingBufWriteOne, Ring

LEMMA BytesReadType == \A r \in Ring, n \in Nat : BytesRead(r, n) \in Seq(Byte)
  <1> SUFFICES ASSUME NEW r \in Ring, NEW n \in Nat PROVE BytesRead(r, n) \in Seq(Byte)
    OBVIOUS
  <1>1. \A k \in 1 .. n : r.buf[UpdateIndex(r.r, k - 1)] \in Byte
    BY UpdateIndexType DEF Ring
  <1>2. QED
    BY <1>1 DEF BytesRead

(* A read inside its contract takes exactly what it asked for. *)
LEMMA UsedAfterRead ==
  ASSUME NEW r \in Ring, NEW n \in Nat, n <= RingBufUsed(r)
  PROVE  RingBufUsed(RingBufRead(r, n)) = RingBufUsed(r) - n
  <1>1. r.r \in Index /\ r.w \in Index
    BY DEF Ring
  <1>2. n \in 0 .. Size
    BY <1>1 DEF RingBufUsed, Index
  <1>3. /\ RingBufRead(r, n).w = r.w
        /\ RingBufRead(r, n).r = IF r.r + n >= Size THEN r.r + n - Size ELSE r.r + n
    BY <1>1, <1>2, UpdateIndexWraps DEF RingBufRead, Ring
  <1>4. QED
    BY <1>1, <1>3 DEF RingBufUsed, Index

-----------------------------------------------------------------------------
(* Type correctness, in parts: the rings, the main thread, the socket      *)
(* threads.  Between two copies pos is back at the first byte.             *)
Copying == {"ring0", "ring1", "reply"}

RingType ==
  /\ rb \in [Rings -> Ring]
  /\ fed \in [Rings -> Seq(Byte)]
  /\ taken \in [Rings -> Seq(Byte)]
  /\ broken \subseteq {"write", "read"}

MainType ==
  /\ atcmd_flag \in BOOLEAN
  /\ timer \in BOOLEAN
  /\ mpc \in MainLabels
  /\ chunk \in Seq(Byte)
  /\ pos \in Nat \ {0}
  /\ mpc \in Copying => pos <= Len(chunk)
  /\ mpc \notin Copying => pos = 1
  /\ nread_len \in Nat
  /\ jjja_len \in 0 .. 2
  /\ temp \in Nat
  /\ stamped \in Nat /\ plusses \in Nat /\ lines \in Nat /\ losses \in Nat

SocketType ==
  /\ valid \in [Rings -> BOOLEAN]
  /\ pc \in [Threads -> SocketLabels]
  /\ writeset \in [Threads -> BOOLEAN]
  /\ want \in [Threads -> Nat]
  /\ \A t \in Threads : pc[t] = "copy" <=> want[t] > 0
  /\ swallowed \in [Threads -> BOOLEAN]
  /\ leaked \in [Threads -> Nat]

TypeInv == RingType /\ MainType /\ SocketType

LEMMA TypeInvImplies == TypeInv => TypeOK
  BY DEF TypeInv, RingType, MainType, SocketType, TypeOK, Copying

LEMMA InitTypeInv == Init => TypeInv
  <1> SUFFICES ASSUME Init PROVE TypeInv
    OBVIOUS
  <1>1. RingType
    <2>1. rb \in [Rings -> Ring]
      BY InitType DEF Init
    <2>2. fed \in [Rings -> Seq(Byte)] /\ taken \in [Rings -> Seq(Byte)]
      BY DEF Init
    <2>3. QED
      BY <2>1, <2>2 DEF Init, RingType
  <1>2. MainType
    <2>1. chunk \in Seq(Byte) /\ pos = 1 /\ mpc = "read"
      BY DEF Init
    <2>2. atcmd_flag \in BOOLEAN /\ timer \in BOOLEAN
      BY DEF Init
    <2>3. nread_len \in Nat /\ jjja_len \in 0 .. 2 /\ temp \in Nat
      BY DEF Init
    <2>4. stamped \in Nat /\ plusses \in Nat /\ lines \in Nat /\ losses \in Nat
      BY DEF Init
    <2>5. QED
      BY <2>1, <2>2, <2>3, <2>4 DEF MainType, MainLabels, Copying
  <1>3. SocketType
    <2>1. valid \in [Rings -> BOOLEAN] /\ swallowed \in [Threads -> BOOLEAN]
      BY DEF Init
    <2>2. pc \in [Threads -> SocketLabels] /\ \A t \in Threads : pc[t] # "copy"
      BY DEF Init, SocketLabels
    <2>3. want \in [Threads -> Nat] /\ leaked \in [Threads -> Nat] /\ \A t \in Threads : want[t] = 0
      BY DEF Init
    <2>4. writeset \in [Threads -> BOOLEAN]
      BY DEF Init
    <2>5. QED
      BY <2>1, <2>2, <2>3, <2>4 DEF SocketType
  <1>4. QED
    BY <1>1, <1>2, <1>3 DEF TypeInv

(* What a call of ringbuf.c does to the types. *)
LEMMA WriteByteKeeps ==
  ASSUME RingType, NEW i \in Rings, NEW b \in Byte, WriteByte(i, b)
  PROVE  RingType'
  <1>1. rb[i] \in Ring /\ fed[i] \in Seq(Byte)
    BY DEF RingType
  <1>2. RingBufWriteOne(rb[i], b) \in Ring
    BY <1>1, WriteOneType
  <1>3. Append(fed[i], b) \in Seq(Byte)
    BY <1>1
  <1>4. rb' \in [Rings -> Ring]
    BY <1>2 DEF WriteByte, RingType
  <1>5. fed' \in [Rings -> Seq(Byte)]
    BY <1>3 DEF WriteByte, RingType
  <1>6. taken' = taken /\ broken' \subseteq broken \cup {"write"}
    BY DEF WriteByte, Breaks
  <1>7. QED
    BY <1>4, <1>5, <1>6 DEF RingType

LEMMA ReadBytesKeeps ==
  ASSUME RingType, NEW i \in Rings, NEW n \in Nat, ReadBytes(i, n),
         broken' \subseteq {"write", "read"}
  PROVE  RingType'
  <1>1. rb[i] \in Ring /\ taken[i] \in Seq(Byte)
    BY DEF RingType
  <1>2. RingBufRead(rb[i], n) \in Ring
    BY <1>1, ReadType
  <1>3. taken[i] \o BytesRead(rb[i], n) \in Seq(Byte)
    BY <1>1, BytesReadType
  <1>4. rb' \in [Rings -> Ring]
    BY <1>2 DEF ReadBytes, RingType
  <1>5. taken' \in [Rings -> Seq(Byte)]
    BY <1>3 DEF ReadBytes, RingType
  <1>6. fed' = fed
    BY DEF ReadBytes
  <1>7. QED
    BY <1>4, <1>5, <1>6 DEF RingType

LEMMA FlushKeeps ==
  ASSUME RingType, NEW S \in SUBSET Rings, Flush(S)
  PROVE  RingType'
  <1>1. rb' \in [Rings -> Ring]
    BY FlushType DEF Flush, RingType
  <1>2. fed' \in [Rings -> Seq(Byte)] /\ taken' \in [Rings -> Seq(Byte)]
    BY DEF Flush, RingType
  <1>3. broken' = broken
    BY DEF Flush
  <1>4. QED
    BY <1>1, <1>2, <1>3 DEF RingType

(* The chunks main receives. *)
LEMMA ReceiveKeeps ==
  ASSUME MainType, Receive
  PROVE  MainType'
  <1> USE ByteContents, BoundAssumption
  <1>1. mpc = "read" /\ mpc' = "ring0" /\ pos' = pos /\ pos = 1
    BY DEF Receive, Main, MainType, Copying
  <1>2. /\ UNCHANGED <<atcmd_flag, timer, nread_len, jjja_len, temp, losses>>
    BY DEF Receive
  <1>3. /\ chunk' \in Seq(Byte) /\ Len(chunk') >= 1
        /\ stamped' \in Nat /\ plusses' \in Nat /\ lines' \in Nat
    <2>1. ASSUME NEW n \in 1 .. MaxChunk, stamped + n <= MaxBytes,
                 chunk' = [k \in 1 .. n |-> stamped + k], stamped' = stamped + n
          PROVE  chunk' \in Seq(Byte) /\ Len(chunk') >= 1 /\ stamped' \in Nat
      <3>1. \A k \in 1 .. n : stamped + k \in Byte
        BY <2>1 DEF MainType, Stamps
      <3>2. chunk' \in Seq(Byte) /\ Len(chunk') = n
        BY <2>1, <3>1
      <3>3. QED
        BY <2>1, <3>2 DEF MainType
    <2>2. ASSUME NEW n \in 1 .. 3, chunk' = Plusses(n), plusses' = plusses + n
          PROVE  chunk' \in Seq(Byte) /\ Len(chunk') >= 1 /\ plusses' \in Nat
      <3>1. chunk' \in Seq(Byte) /\ Len(chunk') = n
        BY <2>2 DEF Plusses
      <3>2. QED
        BY <2>2, <3>1 DEF MainType
    <2>3. ASSUME NEW line \in {Command, Entm}, chunk' = <<line>>, lines' = lines + 1
          PROVE  chunk' \in Seq(Byte) /\ Len(chunk') >= 1 /\ lines' \in Nat
      BY <2>3 DEF MainType
    <2>4. stamped \in Nat /\ plusses \in Nat /\ lines \in Nat
      BY DEF MainType
    <2>5. QED
      BY <2>1, <2>2, <2>3, <2>4 DEF Receive
  <1>4. QED
    BY <1>1, <1>2, <1>3 DEF MainType, MainLabels, Copying

LEMMA CopyInKeeps ==
  ASSUME RingType, MainType, SocketType,
         NEW i \in Rings, NEW here \in Copying, NEW there \in MainLabels, CopyIn(i, here, there)
  PROVE  RingType' /\ MainType' /\ SocketType'
  <1>1. mpc = here /\ pos \in 1 .. Len(chunk) /\ chunk \in Seq(Byte)
    BY DEF CopyIn, MainType
  <1>2. chunk[pos] \in Byte
    BY <1>1
  <1>3. RingType'
    BY <1>2, WriteByteKeeps DEF CopyIn
  <1>4. MainType'
    <2>1. UNCHANGED <<atcmd_flag, timer, chunk, nread_len, jjja_len, temp, stamped, plusses, lines, losses>>
      BY DEF CopyIn, serialVars
    <2>2. \/ pos < Len(chunk) /\ pos' = pos + 1 /\ mpc' = here
          \/ pos' = 1 /\ mpc' = there
      BY <1>1 DEF CopyIn
    <2>3. pos' \in 1 .. Len(chunk) /\ mpc' \in MainLabels
      BY <1>1, <2>2 DEF MainLabels, Copying
    <2>4. mpc' \notin Copying => pos' = 1
      BY <2>2
    <2>5. QED
      BY <2>1, <2>3, <2>4 DEF MainType
  <1>5. SocketType'
    BY DEF CopyIn, SocketType
  <1>6. QED
    BY <1>3, <1>4, <1>5

LEMMA WakeAllKeeps ==
  ASSUME SocketType, WakeAll, UNCHANGED <<pc, writeset, want, leaked>>
  PROVE  SocketType'
  <1>1. valid' \in [Rings -> BOOLEAN] /\ swallowed' \in [Threads -> BOOLEAN]
    BY DEF WakeAll
  <1>2. QED
    BY <1>1 DEF SocketType

LEMMA MainKeeps ==
  ASSUME TypeInv, MainStep
  PROVE  TypeInv'
  <1>0. RingType /\ MainType /\ SocketType
    BY DEF TypeInv
  <1> USE DEF mainVars, serialVars, history, Main
  <1>1. CASE Ring0Byte \/ Ring1Byte \/ Reply
    BY <1>0, <1>1, CopyInKeeps
       DEF Ring0Byte, Ring1Byte, Reply, Rings, Copying, MainLabels, TypeInv
  <1>2. CASE LoadUsed
    <2>1. rb[0] \in Ring
      BY <1>0 DEF RingType, Rings
    <2>2. nread_len' \in Nat
      BY <1>2, <2>1, UsedRange DEF LoadUsed
    <2>3. RingType' /\ SocketType'
      BY <1>0, <1>2 DEF LoadUsed, RingType, SocketType
    <2>4. MainType'
      BY <1>0, <1>2, <2>2 DEF LoadUsed, MainType, MainLabels, Copying
    <2>5. QED
      BY <2>3, <2>4 DEF TypeInv
  <1>3. CASE Escape
    <2>1. RingType' /\ SocketType'
      BY <1>0, <1>3 DEF Escape, RingType, SocketType
    <2>2. MainType'
      BY <1>0, <1>3 DEF Escape, MainType, MainLabels, Copying
    <2>3. QED
      BY <2>1, <2>2 DEF TypeInv
  <1>4. CASE Arm
    <2>1. RingType'
      BY <1>0, <1>4 DEF Arm, RingType
    <2>2. SocketType'
      <3>1. WakeAll \/ UNCHANGED <<valid, swallowed>>
        BY <1>4 DEF Arm
      <3>2. UNCHANGED <<pc, writeset, want, leaked>>
        BY <1>4 DEF Arm
      <3>3. QED
        BY <1>0, <3>1, <3>2, WakeAllKeeps DEF SocketType
    <2>3. jjja_len' \in 0 .. 2
      BY <1>0, <1>4 DEF Arm, Collects, MainType
    <2>4. timer' \in BOOLEAN /\ atcmd_flag' \in BOOLEAN
      BY <1>0, <1>4 DEF Arm, MainType
    <2>5. MainType'
      BY <1>0, <1>4, <2>3, <2>4 DEF Arm, MainType, MainLabels, Copying
    <2>6. QED
      BY <2>1, <2>2, <2>5 DEF TypeInv
  <1>5. CASE Prompt
    <2>1. RingType' /\ SocketType'
      BY <1>0, <1>5 DEF Prompt, RingType, SocketType
    <2>2. /\ chunk' \in Seq(Byte)
          /\ (mpc' = "reply" /\ Len(chunk') >= 1) \/ mpc' = "fail"
      <3>1. PICK reply \in {<< >>, <<Letter>>, <<Letter, Letter>>} :
               chunk' = reply /\ mpc' = IF reply = << >> THEN "fail" ELSE "reply"
        BY <1>5 DEF Prompt
      <3>2. Letter \in Byte
        BY ByteContents
      <3>3. reply \in Seq(Byte) /\ (reply = << >> \/ Len(reply) >= 1)
        <4>1. << >> \in Seq(Byte) /\ <<Letter>> \in Seq(Byte) /\ <<Letter, Letter>> \in Seq(Byte)
          BY <3>2
        <4>2. Len(<<Letter>>) = 1 /\ Len(<<Letter, Letter>>) = 2
          OBVIOUS
        <4>3. CASE reply = << >>
          BY <4>1, <4>3
        <4>4. CASE reply = <<Letter>>
          BY <4>1, <4>2, <4>4
        <4>5. CASE reply = <<Letter, Letter>>
          BY <4>1, <4>2, <4>5
        <4>6. QED
          BY <4>3, <4>4, <4>5, Zenon
      <3>4. QED
        BY <3>1, <3>3
    <2>3. mpc = "prompt"
      BY <1>5 DEF Prompt
    <2>4. UNCHANGED <<atcmd_flag, timer, pos, nread_len, jjja_len, temp, stamped, plusses, lines, losses>>
      BY <1>5 DEF Prompt
    <2>5. MainType'
      BY <1>0, <2>2, <2>3, <2>4 DEF MainType, MainLabels, Copying
    <2>6. QED
      BY <2>1, <2>5 DEF TypeInv
  <1>6. CASE Fail
    <2>1. RingType' /\ SocketType'
      BY <1>0, <1>6 DEF Fail, RingType, SocketType
    <2>2. timer' \in BOOLEAN /\ atcmd_flag' \in BOOLEAN
      BY <1>0, <1>6 DEF Fail, MainType
    <2>3. MainType'
      BY <1>0, <1>6, <2>2 DEF Fail, MainType, MainLabels, Copying
    <2>4. QED
      BY <2>1, <2>3 DEF TypeInv
  <1>7. CASE Enter
    <2>1. RingType'
      BY <1>0, <1>7 DEF Enter, RingType
    <2>2. leaked' \in [Threads -> Nat]
      BY <1>7 DEF Enter
    <2>3. SocketType'
      BY <1>0, <1>7, <2>2 DEF Enter, SocketType
    <2>4. timer' \in BOOLEAN /\ atcmd_flag' \in BOOLEAN
      BY <1>0, <1>7 DEF Enter, MainType
    <2>5. MainType'
      BY <1>0, <1>7, <2>4 DEF Enter, MainType, MainLabels, Copying
    <2>6. QED
      BY <2>1, <2>3, <2>5 DEF TypeInv
  <1>8. CASE Flush0 \/ Flush1
    <2>1. PICK i \in Rings, here \in {"flush0", "flush1"}, there \in {"flush1", "read"} :
             FlushAfterEscape(i, here, there)
      BY <1>8 DEF Flush0, Flush1, Rings
    <2>2. RingType'
      BY <1>0, <2>1, FlushKeeps DEF FlushAfterEscape
    <2>3. SocketType'
      BY <1>0, <2>1 DEF FlushAfterEscape, SocketType
    <2>4. timer' \in BOOLEAN /\ atcmd_flag' \in BOOLEAN /\ jjja_len' \in 0 .. 2
      BY <1>0, <2>1 DEF FlushAfterEscape, MainType
    <2>5. MainType'
      BY <1>0, <2>1, <2>4 DEF FlushAfterEscape, MainType, MainLabels, Copying
    <2>6. QED
      BY <2>2, <2>3, <2>5 DEF TypeInv
  <1>9. QED
    BY <1>1, <1>2, <1>3, <1>4, <1>5, <1>6, <1>7, <1>8 DEF MainStep

LEMMA HandlerKeeps ==
  ASSUME TypeInv, Handler
  PROVE  TypeInv'
  <1>0. RingType /\ MainType /\ SocketType
    BY DEF TypeInv
  <1>1. rb[0] \in Ring
    BY <1>0 DEF RingType, Rings
  <1> USE DEF mainVars, serialVars, history
  <1>2. CASE HandlerStart
    <2>1. RingBufUsed(rb[0]) \in Nat
      BY <1>1, UsedRange
    <2>2. timer' = FALSE /\ temp' \in Nat
      BY <1>0, <1>2, <2>1 DEF HandlerStart, MainType
    <2>3. UNCHANGED <<atcmd_flag, mpc, chunk, pos, nread_len, jjja_len, stamped, plusses, lines, losses>>
      BY <1>2 DEF HandlerStart
    <2>4. MainType'
      <3>1. timer' \in BOOLEAN
        BY <2>2
      <3>2. QED
        BY <1>0, <2>2, <2>3, <3>1 DEF MainType
    <2>5. RingType'
      <3>1. Flush({0}) \/ UNCHANGED <<rb, fed, taken, broken>>
        BY <1>2 DEF HandlerStart
      <3>2. CASE Flush({0})
        BY <1>0, <3>2, FlushKeeps DEF Rings
      <3>3. CASE UNCHANGED <<rb, fed, taken, broken>>
        BY <1>0, <3>3 DEF RingType
      <3>4. QED
        BY <3>1, <3>2, <3>3
    <2>6. SocketType'
      <3>1. WakeAll \/ UNCHANGED <<valid, swallowed>>
        BY <1>2 DEF HandlerStart
      <3>2. UNCHANGED <<pc, writeset, want, leaked>>
        BY <1>2 DEF HandlerStart
      <3>3. QED
        BY <1>0, <3>1, <3>2, WakeAllKeeps DEF SocketType
    <2>7. QED
      BY <2>4, <2>5, <2>6 DEF TypeInv
  <1>3. CASE HandlerAct
    <2>1. broken' \subseteq {"write", "read"}
      BY <1>0, <1>3 DEF HandlerAct, Breaks, RingType
    <2>2. RingType'
      <3>1. CASE FrontByte(rb[0]) = Entm
        <4>1. rb' \in [Rings -> Ring]
          <5>1. rb' = [i \in Rings |-> RingBufFlush(rb[i])]
            BY <1>3, <3>1, Zenon DEF HandlerAct
          <5>2. QED
            BY <1>0, <5>1, FlushType DEF RingType
        <4>2. fed' \in [Rings -> Seq(Byte)] /\ taken' \in [Rings -> Seq(Byte)]
          <5>1. fed' = [i \in Rings |-> << >>] /\ taken' = [i \in Rings |-> << >>]
            BY <1>3, <3>1, Zenon DEF HandlerAct
          <5>2. << >> \in Seq(Byte)
            OBVIOUS
          <5>3. QED
            BY <5>1, <5>2
        <4>3. QED
          BY <2>1, <4>1, <4>2 DEF RingType
      <3>2. CASE FrontByte(rb[0]) # Entm
        <4>1. ReadBytes(0, temp) /\ temp \in Nat
          BY <1>0, <1>3, <3>2 DEF HandlerAct, MainType
        <4>2. QED
          BY <1>0, <2>1, <4>1, ReadBytesKeeps DEF Rings
      <3>3. QED
        BY <3>1, <3>2
    <2>3. atcmd_flag' \in BOOLEAN
      BY <1>0, <1>3 DEF HandlerAct, MainType
    <2>4. temp' = 0 /\ UNCHANGED <<timer, mpc, chunk, pos, nread_len, jjja_len, stamped, plusses, lines, losses>>
      BY <1>3 DEF HandlerAct
    <2>5. MainType'
      BY <1>0, <2>3, <2>4 DEF MainType
    <2>6. SocketType'
      BY <1>0, <1>3 DEF HandlerAct, SocketType
    <2>7. QED
      BY <2>2, <2>5, <2>6 DEF TypeInv
  <1>4. QED
    BY <1>2, <1>3 DEF Handler

(* A move of one thread between labels other than "copy". *)
LEMMA MoveKeeps ==
  ASSUME SocketType, NEW t \in Threads,
         NEW here \in SocketLabels \ {"copy"}, NEW there \in SocketLabels \ {"copy"},
         Thread(t, here, there), UNCHANGED want,
         valid' \in [Rings -> BOOLEAN], writeset' \in [Threads -> BOOLEAN],
         swallowed' \in [Threads -> BOOLEAN], leaked' \in [Threads -> Nat]
  PROVE  SocketType'
  <1>1. pc[t] = here /\ pc' = [pc EXCEPT ![t] = there]
    BY DEF Thread
  <1>2. pc' \in [Threads -> SocketLabels]
    BY <1>1 DEF SocketType
  <1>3. \A u \in Threads : pc'[u] = "copy" <=> pc[u] = "copy"
    BY <1>1 DEF SocketType
  <1>4. QED
    BY <1>2, <1>3 DEF SocketType

LEMMA TxKeeps ==
  ASSUME TypeInv, NEW t \in Threads, Tx(t)
  PROVE  TypeInv'
  <1>0. RingType /\ MainType /\ SocketType
    BY DEF TypeInv
  <1> DEFINE n == RingBufUsed(rb[CountedRing(t)])
  <1>1. n \in Nat
    BY <1>0, UsedRange DEF RingType, CountedRing, Rings
  <1>2. RingType' /\ MainType'
    BY <1>0 DEF Tx, RingType, MainType, mainVars, serialVars, history
  <1>3. /\ valid' = valid /\ pc[t] = "tx"
        /\ writeset' = [writeset EXCEPT ![t] = FALSE]
    BY DEF Tx, Thread
  <1>4. \/ pc' = [pc EXCEPT ![t] = "loop"] /\ want' = want
        \/ n > 0 /\ pc' = [pc EXCEPT ![t] = "copy"] /\ want' = [want EXCEPT ![t] = n]
    BY DEF Tx, Thread
  <1>5. leaked' = leaked \/ leaked' = [leaked EXCEPT ![t] = IF atcmd_flag THEN @ + 1 ELSE @]
    BY DEF Tx
  <1>6. swallowed' = swallowed \/ swallowed' = [swallowed EXCEPT ![t] = TRUE]
    BY DEF Tx
  <1> HIDE DEF n
  <1>7. leaked' \in [Threads -> Nat]
    BY <1>0, <1>5 DEF SocketType
  <1>8. /\ swallowed' \in [Threads -> BOOLEAN]
        /\ writeset' \in [Threads -> BOOLEAN]
        /\ valid' \in [Rings -> BOOLEAN]
    BY <1>0, <1>3, <1>6 DEF SocketType
  <1>9. /\ pc' \in [Threads -> SocketLabels]
        /\ want' \in [Threads -> Nat]
    BY <1>0, <1>1, <1>4 DEF SocketType, SocketLabels
  <1>10. \A u \in Threads : pc'[u] = "copy" <=> want'[u] > 0
    BY <1>0, <1>1, <1>3, <1>4 DEF SocketType
  <1>11. SocketType'
    BY <1>7, <1>8, <1>9, <1>10 DEF SocketType
  <1>12. QED
    BY <1>2, <1>11 DEF TypeInv

LEMMA CopyKeeps ==
  ASSUME TypeInv, NEW t \in Threads, Copy(t)
  PROVE  TypeInv'
  <1>0. RingType /\ MainType /\ SocketType
    BY DEF TypeInv
  <1>1. RingType'
    <2>1. broken' \subseteq {"write", "read"}
      BY <1>0 DEF Copy, Breaks, RingType
    <2>2. CopiedRing(t) \in Rings
      BY DEF CopiedRing, Rings
    <2>3. QED
      BY <1>0, <2>1, <2>2, ReadBytesKeeps DEF Copy
  <1>2. MainType'
    BY <1>0 DEF Copy, MainType, mainVars, serialVars
  <1>3. pc[t] = "copy" /\ want[t] \in Nat /\ want[t] > 0
    BY <1>0 DEF Copy, Thread, SocketType
  <1>4. pc' = [pc EXCEPT ![t] = IF want[t] = 1 THEN "loop" ELSE "copy"]
    BY DEF Copy, Thread
  <1>5. want' = [want EXCEPT ![t] = @ - 1]
    BY DEF Copy
  <1>6. pc' \in [Threads -> SocketLabels] /\ want' \in [Threads -> Nat]
    BY <1>0, <1>3, <1>4, <1>5 DEF SocketType, SocketLabels
  <1>7. \A u \in Threads : pc'[u] = "copy" <=> want'[u] > 0
    BY <1>0, <1>3, <1>4, <1>5 DEF SocketType
  <1>8. SocketType'
    BY <1>0, <1>6, <1>7 DEF Copy, SocketType
  <1>9. QED
    BY <1>1, <1>2, <1>8 DEF TypeInv

LEMMA SocketsKeep ==
  ASSUME TypeInv, NEW t \in Threads,
         ClearValid \/ FlushOnConnect \/ Connect(t) \/ TakeValid(t) \/ Select(t) \/ Lose(t)
  PROVE  TypeInv'
  <1>0. RingType /\ MainType /\ SocketType
    BY DEF TypeInv
  <1>1. "A" \in Threads /\ CountedRing(t) \in Rings
    BY DEF Threads, CountedRing, Rings
  <1> USE DEF mainVars, serialVars, history
  <1>2. CASE ClearValid
    <2>1. valid' \in [Rings -> BOOLEAN] /\ swallowed' \in [Threads -> BOOLEAN]
      BY <1>0, <1>2 DEF ClearValid, SocketType, Rings
    <2>2. SocketType'
      BY <1>0, <1>1, <1>2, <2>1, MoveKeeps DEF ClearValid, SocketType, SocketLabels
    <2>3. RingType' /\ MainType'
      BY <1>0, <1>2 DEF ClearValid, RingType, MainType
    <2>4. QED
      BY <2>2, <2>3 DEF TypeInv
  <1>3. CASE FlushOnConnect
    <2>1. RingType'
      BY <1>0, <1>3, FlushKeeps DEF FlushOnConnect, Rings
    <2>2. SocketType'
      BY <1>0, <1>1, <1>3, MoveKeeps DEF FlushOnConnect, SocketType, SocketLabels
    <2>3. MainType'
      BY <1>0, <1>3 DEF FlushOnConnect, MainType
    <2>4. QED
      BY <2>1, <2>2, <2>3 DEF TypeInv
  <1>4. CASE Connect(t)
    <2>1. SocketType'
      BY <1>0, <1>4, MoveKeeps DEF Connect, SocketType, SocketLabels
    <2>2. RingType' /\ MainType'
      BY <1>0, <1>4 DEF Connect, RingType, MainType
    <2>3. QED
      BY <2>1, <2>2 DEF TypeInv
  <1>5. CASE TakeValid(t)
    <2>1. valid' \in [Rings -> BOOLEAN] /\ writeset' \in [Threads -> BOOLEAN]
      BY <1>0, <1>1, <1>5 DEF TakeValid, SocketType
    <2>2. SocketType'
      BY <1>0, <1>5, <2>1, MoveKeeps DEF TakeValid, SocketType, SocketLabels
    <2>3. RingType' /\ MainType'
      BY <1>0, <1>5 DEF TakeValid, RingType, MainType
    <2>4. QED
      BY <2>2, <2>3 DEF TypeInv
  <1>6. CASE Select(t)
    <2>1. PICK there \in {"tx", "loop"} : Thread(t, "select", there)
      BY <1>6 DEF Select
    <2>2. writeset' \in [Threads -> BOOLEAN] /\ swallowed' \in [Threads -> BOOLEAN]
      BY <1>0, <1>6 DEF Select, SocketType
    <2>3. SocketType'
      BY <1>0, <1>6, <2>1, <2>2, MoveKeeps DEF Select, SocketType, SocketLabels
    <2>4. RingType' /\ MainType'
      BY <1>0, <1>6 DEF Select, RingType, MainType
    <2>5. QED
      BY <2>3, <2>4 DEF TypeInv
  <1>7. CASE Lose(t)
    <2>1. writeset' \in [Threads -> BOOLEAN] /\ swallowed' \in [Threads -> BOOLEAN]
      BY <1>0, <1>7 DEF Lose, SocketType
    <2>2. SocketType'
      BY <1>0, <1>7, <2>1, MoveKeeps DEF Lose, SocketType, SocketLabels
    <2>3. RingType' /\ MainType'
      BY <1>0, <1>7 DEF Lose, RingType, MainType
    <2>4. QED
      BY <2>2, <2>3 DEF TypeInv
  <1>8. QED
    BY <1>2, <1>3, <1>4, <1>5, <1>6, <1>7

LEMMA TypeStep == TypeInv /\ [Next]_vars => TypeInv'
  <1> SUFFICES ASSUME TypeInv, [Next]_vars PROVE TypeInv'
    OBVIOUS
  <1>1. CASE Receive
    <2>1. MainType'
      BY <1>1, ReceiveKeeps DEF TypeInv
    <2>2. RingType' /\ SocketType'
      BY <1>1 DEF Receive, TypeInv, RingType, SocketType, history
    <2>3. QED
      BY <2>1, <2>2 DEF TypeInv
  <1>2. CASE MainStep
    BY <1>2, MainKeeps
  <1>3. CASE Handler
    BY <1>3, HandlerKeeps
  <1>4. CASE ClearValid \/ FlushOnConnect
    BY <1>4, SocketsKeep DEF Threads
  <1>5. ASSUME NEW t \in Threads, SocketStep(t) \/ Lose(t) PROVE TypeInv'
    BY <1>5, SocketsKeep, TxKeeps, CopyKeeps DEF SocketStep
  <1>6. CASE UNCHANGED vars
    BY <1>6 DEF vars, TypeInv, RingType, MainType, SocketType, mainVars, serialVars, history
  <1>7. QED
    BY <1>1, <1>2, <1>3, <1>4, <1>5, <1>6 DEF Next

(* The variables of the bridge keep their types: no copy runs past its     *)
(* chunk and a thread is copying exactly while bytes are left to copy.     *)
THEOREM TypeCorrect == Spec => []TypeOK
  <1>1. Spec => []TypeInv
    BY InitTypeInv, TypeStep, PTL DEF Spec
  <1>2. QED
    BY <1>1, TypeInvImplies, PTL

-----------------------------------------------------------------------------
(* How much of the AT dialogue can leave: in AT mode nothing raises a      *)
(* wake-up flag, so each thread has at most what was standing when the     *)
(* mode began, its armed set and its flag, and each send uses one up.      *)
Standing(t) == valid[CountedRing(t)]

Budget(t) ==
  /\ leaked[t] <= 2
  /\ atcmd_flag /\ writeset[t] => leaked[t] <= 1
  /\ atcmd_flag /\ Standing(t) => leaked[t] <= 1
  /\ atcmd_flag /\ writeset[t] /\ Standing(t) => leaked[t] = 0
  /\ pc[t] = "tx" => writeset[t]

LeakInv == \A t \in Threads : Budget(t)

LEMMA InitLeak == Init => LeakInv
  <1> SUFFICES ASSUME Init, NEW t \in Threads PROVE Budget(t)
    BY DEF LeakInv
  <1>1. leaked[t] = 0 /\ ~atcmd_flag /\ pc[t] # "tx"
    BY DEF Init
  <1>2. QED
    BY <1>1 DEF Budget

(* A step that adds no leak, no armed set and no flag in AT mode.          *)
LEMMA BudgetKept ==
  ASSUME NEW t \in Threads, Budget(t), leaked'[t] = leaked[t],
         atcmd_flag' => /\ atcmd_flag
                        /\ writeset'[t] => writeset[t]
                        /\ Standing(t)' => Standing(t),
         pc'[t] = "tx" => writeset'[t]
  PROVE  Budget(t)'
  BY DEF Budget

LEMMA MainLeak ==
  ASSUME TypeInv, LeakInv, MainStep \/ Receive
  PROVE  LeakInv'
  <1> SUFFICES ASSUME NEW t \in Threads PROVE Budget(t)'
    BY DEF LeakInv
  <1>0. Budget(t)
    BY DEF LeakInv
  <1>1. UNCHANGED <<writeset, pc>>
    BY DEF MainStep, Receive, Ring0Byte, Ring1Byte, Reply, CopyIn, LoadUsed, Escape, Arm, Prompt,
           Fail, Enter, Flush0, Flush1, FlushAfterEscape
  <1>2. CASE Enter
    <2>1. leaked'[t] = 0
      BY <1>2 DEF Enter
    <2>2. QED
      BY <1>0, <1>1, <2>1 DEF Budget
  <1>3. CASE Arm
    <2>1. atcmd_flag' = atcmd_flag /\ leaked' = leaked /\ (atcmd_flag => valid' = valid)
      BY <1>3 DEF Arm
    <2>2. QED
      BY <1>0, <1>1, <2>1, BudgetKept DEF Budget, Standing
  <1>4. CASE Fail
    <2>1. ~atcmd_flag' /\ leaked' = leaked
      BY <1>4 DEF Fail
    <2>2. QED
      BY <1>0, <1>1, <2>1 DEF Budget
  <1>5. CASE ~Enter /\ ~Arm /\ ~Fail
    <2>1. UNCHANGED <<atcmd_flag, leaked, valid>>
      BY <1>5 DEF MainStep, Receive, Ring0Byte, Ring1Byte, Reply, CopyIn, LoadUsed, Escape, Prompt,
                  Flush0, Flush1, FlushAfterEscape
    <2>2. QED
      BY <1>0, <1>1, <2>1, BudgetKept DEF Budget, Standing
  <1>6. QED
    BY <1>2, <1>3, <1>4, <1>5

LEMMA HandlerLeak ==
  ASSUME TypeInv, LeakInv, Handler
  PROVE  LeakInv'
  <1> SUFFICES ASSUME NEW t \in Threads PROVE Budget(t)'
    BY DEF LeakInv
  <1>0. Budget(t)
    BY DEF LeakInv
  <1>1. UNCHANGED <<writeset, pc, leaked>>
    BY DEF Handler, HandlerStart, HandlerAct
  <1>2. atcmd_flag' => atcmd_flag /\ valid' = valid
    BY DEF Handler, HandlerStart, HandlerAct
  <1>3. QED
    BY <1>0, <1>1, <1>2, BudgetKept DEF Budget, Standing

LEMMA SocketLeak ==
  ASSUME TypeInv, LeakInv, NEW u \in Threads,
         ClearValid \/ FlushOnConnect \/ SocketStep(u) \/ Lose(u)
  PROVE  LeakInv'
  <1> SUFFICES ASSUME NEW t \in Threads PROVE Budget(t)'
    BY DEF LeakInv
  <1>0. Budget(t) /\ SocketType
    BY DEF LeakInv, TypeInv
  <1>1. atcmd_flag' = atcmd_flag
    BY DEF ClearValid, FlushOnConnect, SocketStep, Lose, Connect, TakeValid, Select, Tx, Copy
  <1>2. CASE ClearValid \/ FlushOnConnect
    <2>1. leaked' = leaked /\ writeset' = writeset /\ (Standing(t)' => Standing(t))
      BY <1>2 DEF ClearValid, FlushOnConnect, Standing, CountedRing, Rings
    <2>2. pc'[t] # "tx" \/ pc'[t] = pc[t]
      BY <1>0, <1>2 DEF ClearValid, FlushOnConnect, Thread, SocketType
    <2>3. QED
      BY <1>0, <1>1, <2>1, <2>2, BudgetKept DEF Budget
  <1>3. CASE Connect(u) \/ Copy(u) \/ Lose(u)
    <2>1. leaked' = leaked /\ valid' = valid
      BY <1>3 DEF Connect, Copy, Lose
    <2>2. writeset'[t] => writeset[t]
      BY <1>0, <1>3 DEF Connect, Copy, Lose, SocketType
    <2>3. pc'[t] # "tx" \/ (pc'[t] = pc[t] /\ writeset'[t] = writeset[t])
      BY <1>0, <1>3 DEF Connect, Copy, Lose, Thread, SocketType
    <2>4. QED
      BY <1>0, <1>1, <2>1, <2>2, <2>3, BudgetKept DEF Budget, Standing
  <1>4. CASE TakeValid(u)
    <2>1. leaked' = leaked /\ pc' = [pc EXCEPT ![u] = "select"]
      BY <1>4 DEF TakeValid, Thread
    <2>2. CASE u = t
      <3>1. ~Standing(t)' /\ (writeset'[t] => writeset[t] \/ Standing(t)) /\ pc'[t] # "tx"
        BY <1>0, <1>4, <2>1, <2>2 DEF TakeValid, Standing, SocketType, CountedRing, Rings
      <3>2. QED
        BY <1>0, <1>1, <2>1, <3>1 DEF Budget
    <2>3. CASE u # t
      <3>1. /\ Standing(t)' = Standing(t)
            /\ writeset'[t] = writeset[t] /\ pc'[t] = pc[t]
        <4>1. CountedRing(u) # CountedRing(t) /\ CountedRing(t) \in Rings
          BY <2>3 DEF CountedRing, Threads, Rings
        <4>2. /\ valid' = [valid EXCEPT ![CountedRing(u)] = FALSE]
              /\ writeset' = [writeset EXCEPT ![u] = @ \/ valid[CountedRing(u)]]
          BY <1>4 DEF TakeValid
        <4>3. QED
          BY <1>0, <2>1, <2>3, <4>1, <4>2 DEF Standing, SocketType
      <3>2. QED
        BY <1>0, <1>1, <2>1, <3>1, BudgetKept DEF Budget
    <2>4. QED
      BY <2>2, <2>3
  <1>5. CASE Select(u)
    <2>1. leaked' = leaked /\ valid' = valid
      BY <1>5 DEF Select
    <2>2. PICK wr \in BOOLEAN :
            /\ wr => writeset[u]
            /\ pc' = [pc EXCEPT ![u] = IF wr THEN "tx" ELSE "loop"]
            /\ writeset' = [writeset EXCEPT ![u] = wr]
      BY <1>5 DEF Select, Thread
    <2>3. writeset'[t] => writeset[t]
      BY <1>0, <2>2 DEF SocketType
    <2>4. pc'[t] = "tx" => writeset'[t]
      BY <1>0, <2>2 DEF SocketType, Budget
    <2>5. QED
      BY <1>0, <1>1, <2>1, <2>3, <2>4, BudgetKept DEF Standing
  <1>6. CASE Tx(u)
    <2>1. /\ valid' = valid
          /\ writeset' = [writeset EXCEPT ![u] = FALSE]
      BY <1>6 DEF Tx
    <2>2. pc[u] = "tx" /\ pc'[u] # "tx" /\ (u # t => pc'[t] = pc[t])
      BY <1>0, <1>6 DEF Tx, Thread, SocketType
    <2>3. /\ u # t => leaked'[t] = leaked[t]
          /\ leaked'[u] = leaked[u] \/ (atcmd_flag /\ leaked'[u] = leaked[u] + 1)
      BY <1>0, <1>6 DEF Tx, SocketType
    <2>4. ~writeset'[u] /\ (u # t => writeset'[t] = writeset[t])
      BY <1>0, <2>1 DEF SocketType
    <2>5. CASE u = t
      <3>1. writeset[t]
        BY <1>0, <2>2, <2>5 DEF Budget
      <3>2. leaked[t] \in Nat
        BY <1>0 DEF SocketType
      <3>3. QED
        BY <1>0, <1>1, <2>1, <2>2, <2>3, <2>4, <2>5, <3>1, <3>2 DEF Budget, Standing
    <2>6. CASE u # t
      BY <1>0, <1>1, <2>1, <2>2, <2>3, <2>4, <2>6, BudgetKept DEF Budget, Standing
    <2>7. QED
      BY <2>5, <2>6
  <1>7. QED
    BY <1>2, <1>3, <1>4, <1>5, <1>6 DEF SocketStep

LEMMA LeakStep == TypeInv /\ LeakInv /\ [Next]_vars => LeakInv'
  <1> SUFFICES ASSUME TypeInv, LeakInv, [Next]_vars PROVE LeakInv'
    OBVIOUS
  <1>1. CASE UNCHANGED vars
    BY <1>1 DEF vars, LeakInv, Budget, Standing
  <1>2. "A" \in Threads
    BY DEF Threads
  <1>3. QED
    BY <1>1, <1>2, MainLeak, HandlerLeak, SocketLeak DEF Next

(* In one AT session no socket thread sends bytes of the AT dialogue more  *)
(* than twice, whatever the mode, sizes and interleaving: the only thing   *)
(* that stops it is that nobody arms a send in AT mode.                    *)
THEOREM LeakIsBounded == Spec => []LeakBound
  <1>1. LeakInv => LeakBound
    BY DEF LeakInv, Budget, LeakBound
  <1>2. Spec => [](TypeInv /\ LeakInv)
    BY InitTypeInv, InitLeak, TypeStep, LeakStep, PTL DEF Spec
  <1>3. QED
    BY <1>1, <1>2, PTL

-----------------------------------------------------------------------------
(* No lost wake-up.  Two facts make it inductive: a handler that has       *)
(* started to read a line was started in AT mode, so at+entm finds it on;  *)
(* and when main comes back from an escape the ring it flushed is still    *)
(* empty.                                                                  *)
LineInAtMode == temp > 0 => atcmd_flag

StillFlushed ==
  broken = {} /\ mpc = "flush1" => RingBufUsed(rb[0]) = 0 /\ temp = 0

WakeInv == LineInAtMode /\ StillFlushed /\ NoLostWakeup

LEMMA InitWake == Init => WakeInv
  <1> SUFFICES ASSUME Init PROVE WakeInv
    OBVIOUS
  <1>1. LineInAtMode /\ StillFlushed
    BY DEF Init, LineInAtMode, StillFlushed
  <1>2. RingBufUsed(rb[0]) = 0 /\ want["A"] = 0
    BY DEF Init, RingBufUsed, RingBufInit, Rings, Threads
  <1>3. QED
    BY <1>1, <1>2 DEF WakeInv, NoLostWakeup

(* What the parts of NoLostWakeup need of a step that leaves ring 0 alone. *)
LEMMA RingAlone ==
  ASSUME WakeInv, rb'[0] = rb[0], broken' = broken, temp' = temp, mpc' = mpc,
         atcmd_flag' = atcmd_flag
  PROVE  LineInAtMode' /\ StillFlushed'
  BY DEF WakeInv, LineInAtMode, StillFlushed

LEMMA MainWake ==
  ASSUME TypeInv, WakeInv, MainStep \/ Receive
  PROVE  WakeInv'
  <1>1. temp' = temp /\ temp = 0
    BY DEF MainStep, Receive, Ring0Byte, Ring1Byte, Reply, CopyIn, LoadUsed, Escape, Arm, Prompt,
           Fail, Enter, Flush0, Flush1, FlushAfterEscape, Main
  <1>2. LineInAtMode'
    BY <1>1 DEF LineInAtMode, TypeInv, MainType
  <1>3. rb \in [Rings -> Ring]
    BY DEF TypeInv, RingType
  <1>4. CASE Flush0
    <2>1. mpc' = "flush1" /\ Flush({0})
      BY <1>4 DEF Flush0, FlushAfterEscape, Main
    <2>2. RingBufUsed(rb'[0]) = 0
      BY <1>3, <2>1, FlushType DEF Flush, Rings
    <2>3. QED
      BY <1>1, <1>2, <2>1, <2>2 DEF WakeInv, StillFlushed, NoLostWakeup, Trigger
  <1>5. CASE Flush1
    <2>1. mpc = "flush1" /\ mpc' = "read" /\ Flush({1}) /\ want' = want
      BY <1>5 DEF Flush1, FlushAfterEscape, Main
    <2>2. rb'[0] = rb[0] /\ broken' = broken
      BY <1>3, <2>1 DEF Flush, Rings
    <2>3. broken' = {} => RingBufUsed(rb'[0]) = 0 /\ want'["A"] \in Nat
      BY <2>1, <2>2 DEF WakeInv, StillFlushed, TypeInv, SocketType, Threads
    <2>4. QED
      BY <1>2, <2>1, <2>3 DEF WakeInv, StillFlushed, NoLostWakeup
  <1>6. CASE Arm \/ Fail
    <2>1. timer' /\ mpc' = "read"
      BY <1>6 DEF Arm, Fail, Main
    <2>2. QED
      BY <1>2, <2>1 DEF WakeInv, StillFlushed, NoLostWakeup, Trigger
  <1>7. CASE ~Flush0 /\ ~Flush1 /\ ~Arm /\ ~Fail
    <2>1. mpc' # "read" /\ mpc' # "flush1"
      BY <1>7 DEF MainStep, Receive, Ring0Byte, Ring1Byte, Reply, CopyIn, LoadUsed, Escape, Prompt,
                  Enter, Main
    <2>2. QED
      BY <1>2, <2>1 DEF WakeInv, StillFlushed, NoLostWakeup, Trigger
  <1>8. QED
    BY <1>4, <1>5, <1>6, <1>7

LEMMA HandlerWake ==
  ASSUME TypeInv, WakeInv, Handler
  PROVE  WakeInv'
  <1>1. rb \in [Rings -> Ring] /\ want["A"] \in Nat /\ temp \in Nat
    BY DEF TypeInv, RingType, SocketType, MainType, Threads
  <1>2. want' = want /\ mpc' = mpc
    BY DEF Handler, HandlerStart, HandlerAct, mainVars
  <1>3. CASE HandlerStart
    <2> DEFINE n == RingBufUsed(rb[0])
    <2>1. n \in Nat
      BY <1>1, UsedRange DEF Rings
    <2>2. atcmd_flag' = atcmd_flag /\ temp = 0
      BY <1>3 DEF HandlerStart
    <2>3. CASE n = 0
      <3>1. rb' = rb /\ temp' = temp /\ broken' = broken
        BY <1>3, <2>3 DEF HandlerStart, history
      <3>2. NoLostWakeup'
        BY <1>1, <1>2, <2>3, <3>1 DEF NoLostWakeup
      <3>3. QED
        BY <1>2, <2>2, <3>1, <3>2, RingAlone DEF WakeInv
    <2>4. CASE n > 0 /\ atcmd_flag
      <3>1. LineInAtMode' /\ NoLostWakeup'
        BY <2>2, <2>4 DEF LineInAtMode, NoLostWakeup
      <3>2. broken' = broken
        BY <1>3 DEF HandlerStart, history, Flush
      <3>3. broken = {} => mpc # "flush1"
        BY <2>4 DEF WakeInv, StillFlushed
      <3>4. QED
        BY <1>2, <3>1, <3>2, <3>3 DEF WakeInv, StillFlushed
    <2>5. CASE n > 0 /\ ~atcmd_flag
      <3>1. rb' = rb /\ temp' = temp /\ broken' = broken /\ WakeAll
        BY <1>3, <2>5 DEF HandlerStart, history
      <3>2. valid'[0]
        BY <3>1 DEF WakeAll, Rings
      <3>3. NoLostWakeup'
        BY <3>2 DEF NoLostWakeup, Trigger, CountedRing
      <3>4. QED
        BY <1>2, <2>2, <3>1, <3>3, RingAlone DEF WakeInv
    <2>6. QED
      BY <2>1, <2>3, <2>4, <2>5
  <1>4. CASE HandlerAct
    <2>1. temp > 0 /\ temp' = 0 /\ atcmd_flag /\ broken \subseteq broken'
      BY <1>4 DEF HandlerAct, WakeInv, LineInAtMode, Breaks
    <2>2. broken' = {} => mpc' # "flush1"
      BY <1>2, <2>1 DEF WakeInv, StillFlushed
    <2>3. CASE FrontByte(rb[0]) = Entm
      <3>1. rb' = [i \in Rings |-> RingBufFlush(rb[i])]
        BY <1>4, <2>3, Zenon DEF HandlerAct
      <3>2. RingBufUsed(rb'[0]) = 0
        BY <1>1, <3>1, FlushType DEF Rings
      <3>3. QED
        BY <1>1, <1>2, <2>1, <2>2, <3>2 DEF WakeInv, LineInAtMode, StillFlushed, NoLostWakeup
    <2>4. CASE FrontByte(rb[0]) # Entm
      <3>1. atcmd_flag'
        BY <1>4, <2>1, <2>4, Zenon DEF HandlerAct
      <3>2. QED
        BY <2>1, <2>2, <3>1 DEF WakeInv, LineInAtMode, StillFlushed, NoLostWakeup
    <2>5. QED
      BY <2>3, <2>4
  <1>5. QED
    BY <1>3, <1>4 DEF Handler

(* A read of ring 0 that keeps its contract. *)
LEMMA ReadZero ==
  ASSUME TypeInv, NEW t \in Threads, Copy(t), broken' = {}, CopiedRing(t) = 0
  PROVE  /\ broken = {}
         /\ RingBufUsed(rb[0]) >= want[t] /\ want[t] > 0
         /\ RingBufUsed(rb'[0]) = RingBufUsed(rb[0]) - 1
  <1>1. rb \in [Rings -> Ring] /\ rb[0] \in Ring
    BY DEF TypeInv, RingType, Rings
  <1>2. want[t] \in Nat /\ want[t] > 0
    BY DEF TypeInv, SocketType, Copy, Thread
  <1>3. broken' = broken \cup (IF ~ReadContract(rb[0], want[t]) THEN {"read"} ELSE {})
    BY DEF Copy, Breaks
  <1>4. broken = {} /\ ReadContract(rb[0], want[t])
    BY <1>3
  <1>5. RingBufUsed(rb[0]) \in Nat
    BY <1>1, UsedRange
  <1>6. RingBufUsed(rb[0]) >= want[t] /\ 1 <= RingBufUsed(rb[0])
    BY <1>2, <1>4, <1>5 DEF ReadContract
  <1>7. rb'[0] = RingBufRead(rb[0], 1)
    BY <1>1 DEF Copy, ReadBytes, Rings
  <1>8. QED
    BY <1>1, <1>2, <1>4, <1>6, <1>7, UsedAfterRead

LEMMA CopyWake ==
  ASSUME TypeInv, WakeInv, NEW t \in Threads, Copy(t)
  PROVE  WakeInv'
  <1>1. /\ UNCHANGED <<valid, atcmd_flag, timer, mpc, temp, writeset, swallowed>>
        /\ pc[t] = "copy" /\ pc' = [pc EXCEPT ![t] = IF want[t] = 1 THEN "loop" ELSE "copy"]
        /\ want' = [want EXCEPT ![t] = @ - 1]
        /\ broken \subseteq broken'
    BY DEF Copy, Thread, mainVars, Breaks
  <1>2. rb \in [Rings -> Ring] /\ want \in [Threads -> Nat] /\ pc \in [Threads -> SocketLabels]
    BY DEF TypeInv, RingType, SocketType
  <1>3. rb[0] \in Ring /\ RingBufUsed(rb[0]) \in Nat /\ want["A"] \in Nat
    BY <1>2, UsedRange DEF Rings, Threads
  <1>4. LineInAtMode'
    BY <1>1 DEF WakeInv, LineInAtMode
  <1>5. CASE CopiedRing(t) = 0
    <2>1. broken' = {} => /\ broken = {}
                          /\ RingBufUsed(rb[0]) >= want[t] /\ want[t] > 0
                          /\ RingBufUsed(rb'[0]) = RingBufUsed(rb[0]) - 1
      BY <1>5, ReadZero
    <2>2. want[t] \in Nat
      BY <1>2
    <2>3. StillFlushed'
      BY <1>1, <1>3, <2>1, <2>2 DEF WakeInv, StillFlushed
    <2>4. want'["A"] \in {want["A"], want["A"] - 1}
      BY <1>1, <1>2, <1>3 DEF Threads
    <2>5. pc["A"] = "flush" => pc'["A"] = "flush"
      BY <1>1, <1>2 DEF Threads
    <2>6. Trigger("A")' = Trigger("A")
      BY <1>1 DEF Trigger
    <2>7. NoLostWakeup'
      BY <1>1, <1>3, <2>1, <2>4, <2>5, <2>6 DEF WakeInv, NoLostWakeup
    <2>8. QED
      BY <1>4, <2>3, <2>7 DEF WakeInv
  <1>6. CASE CopiedRing(t) # 0
    <2>1. t = "B" /\ CopiedRing(t) = 1
      BY <1>6 DEF CopiedRing
    <2>2. rb'[0] = rb[0]
      BY <1>2, <2>1 DEF Copy, ReadBytes, Rings
    <2>3. want'["A"] = want["A"] /\ pc'["A"] = pc["A"]
      BY <1>1, <1>2, <2>1 DEF Threads
    <2>4. broken' = {} => broken = {}
      BY <1>1
    <2>5. StillFlushed'
      BY <1>1, <2>2, <2>4 DEF WakeInv, StillFlushed
    <2>6. NoLostWakeup'
      BY <1>1, <2>2, <2>3, <2>4 DEF WakeInv, NoLostWakeup, Trigger
    <2>7. QED
      BY <1>4, <2>5, <2>6 DEF WakeInv
  <1>7. QED
    BY <1>5, <1>6

(* select() and the loss of a connection can only disarm, and note it.     *)
LEMMA Disarms ==
  ASSUME NEW t \in Threads, SocketType, Select(t) \/ Lose(t)
  PROVE  \E w \in BOOLEAN :
           /\ writeset' = [writeset EXCEPT ![t] = w]
           /\ swallowed' = [swallowed EXCEPT ![t] = @ \/ (writeset[t] /\ ~w)]
  <1>1. CASE Select(t)
    BY <1>1 DEF Select
  <1>2. CASE Lose(t)
    <2>1. PICK kept \in BOOLEAN :
            /\ writeset' = [writeset EXCEPT ![t] = @ /\ kept]
            /\ swallowed' = [swallowed EXCEPT ![t] = @ \/ (writeset[t] /\ ~kept)]
      BY <1>2 DEF Lose
    <2>2. writeset[t] \in BOOLEAN
      BY DEF SocketType
    <2>3. /\ (writeset[t] /\ kept) \in BOOLEAN
          /\ (writeset[t] /\ ~(writeset[t] /\ kept)) = (writeset[t] /\ ~kept)
      BY <2>2
    <2>4. QED
      BY <2>1, <2>3
  <1>3. QED
    BY <1>1, <1>2

LEMMA SocketWake ==
  ASSUME TypeInv, WakeInv, NEW t \in Threads,
         ClearValid \/ FlushOnConnect \/ Connect(t) \/ TakeValid(t) \/ Select(t) \/ Tx(t) \/ Lose(t)
  PROVE  WakeInv'
  <1>0. SocketType /\ rb \in [Rings -> Ring] /\ "A" \in Threads
    BY DEF TypeInv, RingType, Threads
  <1>1. UNCHANGED <<atcmd_flag, timer, mpc, temp, broken>>
    BY DEF ClearValid, FlushOnConnect, Connect, TakeValid, Select, Tx, Lose, mainVars, history, Flush
  <1>2. CASE FlushOnConnect
    <2>1. RingBufUsed(rb'[0]) = 0 /\ want' = want
      BY <1>0, <1>2, FlushType DEF FlushOnConnect, Flush, Rings
    <2>2. want["A"] \in Nat
      BY <1>0 DEF SocketType
    <2>3. QED
      BY <1>1, <2>1, <2>2 DEF WakeInv, LineInAtMode, StillFlushed, NoLostWakeup
  <1>3. CASE ~FlushOnConnect
    <2>1. rb' = rb
      BY <1>3 DEF ClearValid, Connect, TakeValid, Select, Tx, Lose
    <2>2. LineInAtMode' /\ StillFlushed'
      BY <1>1, <2>1, RingAlone
    <2>3. CASE ClearValid
      <3>1. pc'["A"] = "flush"
        BY <1>0, <2>3 DEF ClearValid, Thread, SocketType
      <3>2. QED
        BY <2>2, <3>1 DEF WakeInv, NoLostWakeup
    <2>4. CASE Connect(t)
      <3>1. UNCHANGED <<valid, writeset, want, swallowed>>
        BY <2>4 DEF Connect
      <3>2. pc["A"] = "flush" => pc'["A"] = "flush"
        BY <1>0, <2>4 DEF Connect, Thread, SocketType
      <3>3. QED
        BY <1>1, <2>1, <2>2, <3>1, <3>2 DEF WakeInv, NoLostWakeup, Trigger
    <2>5. CASE TakeValid(t)
      <3>1. want' = want /\ swallowed' = swallowed
        BY <2>5 DEF TakeValid
      <3>2. pc["A"] = "flush" => pc'["A"] = "flush"
        BY <1>0, <2>5 DEF TakeValid, Thread, SocketType
      <3>3. valid[0] \/ writeset["A"] => valid'[0] \/ writeset'["A"]
        <4>1. CASE t = "A"
          BY <1>0, <2>5, <4>1 DEF TakeValid, CountedRing, SocketType
        <4>2. CASE t # "A"
          BY <1>0, <2>5, <4>2 DEF TakeValid, CountedRing, SocketType, Rings
        <4>3. QED
          BY <4>1, <4>2
      <3>4. QED
        BY <1>1, <2>1, <2>2, <3>1, <3>2, <3>3 DEF WakeInv, NoLostWakeup, Trigger, CountedRing
    <2>6. CASE Select(t) \/ Lose(t)
      <3>1. want' = want /\ valid' = valid
        BY <2>6 DEF Select, Lose
      <3>2. pc["A"] = "flush" => pc'["A"] = "flush"
        BY <1>0, <2>6 DEF Select, Lose, Thread, SocketType
      <3>3. PICK w \in BOOLEAN :
              /\ writeset' = [writeset EXCEPT ![t] = w]
              /\ swallowed' = [swallowed EXCEPT ![t] = @ \/ (writeset[t] /\ ~w)]
        BY <1>0, <2>6, Disarms
      <3>4. swallowed["A"] => swallowed'["A"]
        BY <1>0, <3>3 DEF SocketType
      <3>5. writeset["A"] => writeset'["A"] \/ swallowed'["A"]
        BY <1>0, <3>3 DEF SocketType
      <3>6. QED
        BY <1>1, <2>1, <2>2, <3>1, <3>2, <3>4, <3>5 DEF WakeInv, NoLostWakeup, Trigger
    <2>7. CASE Tx(t)
      <3>1. valid' = valid
        BY <2>7 DEF Tx
      <3>2. pc["A"] = "flush" => pc'["A"] = "flush"
        BY <1>0, <2>7 DEF Tx, Thread, SocketType
      <3>3. CASE t = "A"
        <4> DEFINE n == RingBufUsed(rb[0])
        <4>1. n \in Nat
          BY <1>0, UsedRange DEF Rings
        <4>2. \/ n = 0 /\ want' = want
              \/ want' = [want EXCEPT !["A"] = n]
              \/ swallowed' = [swallowed EXCEPT !["A"] = TRUE]
          BY <2>7, <3>3 DEF Tx, CountedRing
        <4> HIDE DEF n
        <4>3. n <= want'["A"] \/ swallowed'["A"]
          BY <1>0, <4>1, <4>2 DEF SocketType
        <4>4. QED
          BY <2>1, <2>2, <4>3 DEF WakeInv, NoLostWakeup, n
      <3>4. CASE t # "A"
        <4>1. writeset'["A"] = writeset["A"] /\ want'["A"] = want["A"]
          BY <1>0, <2>7, <3>4 DEF Tx, SocketType
        <4>2. swallowed'["A"] = swallowed["A"]
          BY <1>0, <2>7, <3>4 DEF Tx, SocketType
        <4>3. QED
          BY <1>1, <2>1, <2>2, <3>1, <3>2, <4>1, <4>2 DEF WakeInv, NoLostWakeup, Trigger
      <3>5. QED
        BY <3>3, <3>4
    <2>8. QED
      BY <1>3, <2>3, <2>4, <2>5, <2>6, <2>7
  <1>4. QED
    BY <1>2, <1>3

LEMMA WakeStep == TypeInv /\ WakeInv /\ [Next]_vars => WakeInv'
  <1> SUFFICES ASSUME TypeInv, WakeInv, [Next]_vars PROVE WakeInv'
    OBVIOUS
  <1>1. CASE UNCHANGED vars
    BY <1>1 DEF vars, mainVars, history, WakeInv, LineInAtMode, StillFlushed, NoLostWakeup, Trigger
  <1>2. "A" \in Threads
    BY DEF Threads
  <1>3. QED
    BY <1>1, <1>2, MainWake, HandlerWake, SocketWake, CopyWake DEF Next, SocketStep

(* A byte of serial data never waits in ring 0 without a pending alarm,    *)
(* flag, armed set or busy main loop that will send it, for every size,    *)
(* packet length and mode, unless the wake-up was swallowed.               *)
THEOREM WakeupNotLost == Spec => []NoLostWakeup
  <1>1. Spec => [](TypeInv /\ WakeInv)
    BY InitTypeInv, InitWake, TypeStep, WakeStep, PTL DEF Spec
  <1>2. WakeInv => NoLostWakeup
    BY DEF WakeInv
  <1>3. QED
    BY <1>1, <1>2, PTL

-----------------------------------------------------------------------------
(* Socket B.  The alarm handler asks ring 0 only whether there is anything *)
(* to send, so B's bytes have a trigger of their own, or ring 0 is empty.  *)
BAbsent == SocketB = "none" => pc["B"] = "absent"

StrandedInv == BAbsent /\ StrandedOnlyBehindA

LEMMA EmptyIsUnused == \A r \in Ring : RingBufEmpty(r) <=> RingBufUsed(r) = 0
  BY DEF Ring, Index, RingBufEmpty, RingBufUsed

LEMMA InitStranded == Init => StrandedInv
  <1> SUFFICES ASSUME Init PROVE StrandedInv
    OBVIOUS
  <1>1. RingBufEmpty(rb[0])
    BY DEF Init, RingBufInit, RingBufEmpty, Rings
  <1>2. BAbsent
    BY DEF Init, BAbsent, Threads
  <1>3. QED
    BY <1>1, <1>2 DEF StrandedInv, StrandedOnlyBehindA

LEMMA MainStranded ==
  ASSUME TypeInv, WakeInv, StrandedInv, MainStep \/ Receive
  PROVE  StrandedInv'
  <1>1. rb \in [Rings -> Ring] /\ want["B"] \in Nat
    BY DEF TypeInv, RingType, SocketType, Threads
  <1>2. UNCHANGED <<pc, want, writeset>>
    BY DEF MainStep, Receive, Ring0Byte, Ring1Byte, Reply, CopyIn, LoadUsed, Escape, Arm, Prompt,
           Fail, Enter, Flush0, Flush1, FlushAfterEscape
  <1>3. BAbsent'
    BY <1>2 DEF StrandedInv, BAbsent
  <1>4. CASE Flush1
    <2>1. Flush({1})
      BY <1>4 DEF Flush1, FlushAfterEscape
    <2>2. RingBufUsed(rb'[1]) = 0
      BY <1>1, <2>1, FlushType DEF Flush, Rings
    <2>3. QED
      BY <1>1, <1>2, <1>3, <2>2 DEF StrandedInv, StrandedOnlyBehindA, CountedRing
  <1>5. CASE Arm \/ Fail
    <2>1. timer'
      BY <1>5 DEF Arm, Fail
    <2>2. QED
      BY <1>3, <2>1 DEF StrandedInv, StrandedOnlyBehindA, Trigger
  <1>6. CASE ~Flush1 /\ ~Arm /\ ~Fail
    <2>1. mpc' # "read"
      BY <1>6 DEF MainStep, Receive, Ring0Byte, Ring1Byte, Reply, CopyIn, LoadUsed, Escape, Prompt,
                  Enter, Flush0, FlushAfterEscape, Main
    <2>2. QED
      BY <1>3, <2>1 DEF StrandedInv, StrandedOnlyBehindA, Trigger
  <1>7. QED
    BY <1>4, <1>5, <1>6

LEMMA HandlerStranded ==
  ASSUME TypeInv, WakeInv, StrandedInv, Handler
  PROVE  StrandedInv'
  <1>1. rb \in [Rings -> Ring] /\ rb[0] \in Ring /\ want["B"] \in Nat
    BY DEF TypeInv, RingType, SocketType, Threads, Rings
  <1>2. UNCHANGED <<pc, want, writeset>>
    BY DEF Handler, HandlerStart, HandlerAct
  <1>3. BAbsent'
    BY <1>2 DEF StrandedInv, BAbsent
  <1>4. CASE HandlerStart
    <2> DEFINE n == RingBufUsed(rb[0])
    <2>1. n \in Nat /\ atcmd_flag' = atcmd_flag
      BY <1>1, <1>4, UsedRange DEF HandlerStart
    <2>2. CASE n = 0
      <3>1. rb' = rb
        BY <1>4, <2>2 DEF HandlerStart
      <3>2. RingBufEmpty(rb'[0])
        BY <1>1, <2>2, <3>1, EmptyIsUnused
      <3>3. QED
        BY <1>3, <3>2 DEF StrandedInv, StrandedOnlyBehindA
    <2>3. CASE n > 0 /\ ~atcmd_flag
      <3>1. WakeAll
        BY <1>4, <2>3 DEF HandlerStart
      <3>2. valid'[1]
        BY <3>1 DEF WakeAll, Rings
      <3>3. QED
        BY <1>3, <3>2 DEF StrandedInv, StrandedOnlyBehindA, Trigger, CountedRing
    <2>4. CASE atcmd_flag
      BY <1>3, <2>1, <2>4 DEF StrandedInv, StrandedOnlyBehindA
    <2>5. QED
      BY <2>1, <2>2, <2>3, <2>4
  <1>5. CASE HandlerAct
    <2>1. CASE FrontByte(rb[0]) = Entm
      <3>1. rb' = [i \in Rings |-> RingBufFlush(rb[i])]
        BY <1>5, <2>1, Zenon DEF HandlerAct
      <3>2. RingBufUsed(rb'[1]) = 0
        BY <1>1, <3>1, FlushType DEF Rings
      <3>3. QED
        BY <1>1, <1>2, <1>3, <3>2 DEF StrandedInv, StrandedOnlyBehindA, CountedRing
    <2>2. CASE FrontByte(rb[0]) # Entm
      <3>1. atcmd_flag' = atcmd_flag /\ temp > 0
        BY <1>5, <2>2, Zenon DEF HandlerAct
      <3>2. QED
        BY <1>3, <3>1 DEF WakeInv, LineInAtMode, StrandedInv, StrandedOnlyBehindA
    <2>3. QED
      BY <2>1, <2>2
  <1>6. QED
    BY <1>4, <1>5 DEF Handler

(* A UDP client B reads the ring it counted, and A only ring 0.            *)
LEMMA CopyStranded ==
  ASSUME SocketB # "tcpc", TypeInv, StrandedInv, NEW t \in Threads, Copy(t)
  PROVE  StrandedInv'
  <1>1. /\ UNCHANGED <<valid, atcmd_flag, timer, mpc, writeset, swallowed>>
        /\ pc[t] = "copy" /\ pc' = [pc EXCEPT ![t] = IF want[t] = 1 THEN "loop" ELSE "copy"]
        /\ want' = [want EXCEPT ![t] = @ - 1]
        /\ rb' = [rb EXCEPT ![CopiedRing(t)] = RingBufRead(@, 1)]
        /\ broken' = broken \cup (IF ~ReadContract(rb[CopiedRing(t)], want[t]) THEN {"read"} ELSE {})
    BY DEF Copy, Thread, mainVars, Breaks, ReadBytes
  <1>2. /\ rb \in [Rings -> Ring] /\ want \in [Threads -> Nat] /\ pc \in [Threads -> SocketLabels]
        /\ want[t] \in Nat \ {0}
    BY <1>1 DEF TypeInv, RingType, SocketType
  <1>3. rb[0] \in Ring /\ rb[1] \in Ring /\ RingBufUsed(rb[0]) \in Nat /\ RingBufUsed(rb[1]) \in Nat
    BY <1>2, UsedRange DEF Rings
  <1>4. BAbsent'
    BY <1>1, <1>2 DEF StrandedInv, BAbsent, Threads
  <1>5. Trigger("B")' = Trigger("B")
    BY <1>1 DEF Trigger
  <1>6. broken' = {} => broken = {} /\ ReadContract(rb[CopiedRing(t)], want[t])
    BY <1>1
  <1>7. CASE t = "A"
    <2>1. CopiedRing(t) = 0 /\ rb'[0] = RingBufRead(rb[0], 1) /\ rb'[1] = rb[1] /\ want'["B"] = want["B"]
      BY <1>1, <1>2, <1>7 DEF CopiedRing, Rings, Threads
    <2>2. pc["A"] # "flush"
      BY <1>1, <1>7
    <2>3. broken' = {} => ~RingBufEmpty(rb[0])
      BY <1>2, <1>3, <1>6, <2>1, EmptyIsUnused DEF ReadContract
    <2>4. QED
      BY <1>1, <1>4, <1>5, <1>6, <2>1, <2>2, <2>3 DEF StrandedInv, StrandedOnlyBehindA, CountedRing
  <1>8. CASE t = "B"
    <2>1. SocketB = "udp"
      BY <1>1, <1>8, ModeAssumption DEF StrandedInv, BAbsent
    <2>2. /\ CopiedRing(t) = 1 /\ rb'[1] = RingBufRead(rb[1], 1) /\ rb'[0] = rb[0]
          /\ want'["B"] = want["B"] - 1 /\ pc'["A"] = pc["A"]
      BY <1>1, <1>2, <1>8, <2>1 DEF CopiedRing, Rings, Threads
    <2>3. ReadContract(rb[1], want["B"]) =>
            RingBufUsed(rb'[1]) = RingBufUsed(rb[1]) - 1
      <3>1. ReadContract(rb[1], want["B"]) => 1 <= RingBufUsed(rb[1])
        BY <1>2, <1>3, <1>8 DEF ReadContract
      <3>2. QED
        BY <1>3, <2>2, <3>1, UsedAfterRead
    <2>4. want["B"] \in Nat
      BY <1>2, <1>8
    <2>5. QED
      BY <1>1, <1>3, <1>4, <1>5, <1>6, <2>2, <2>3, <2>4 DEF StrandedInv, StrandedOnlyBehindA, CountedRing
  <1>9. QED
    BY <1>7, <1>8 DEF Threads

LEMMA SocketStranded ==
  ASSUME TypeInv, StrandedInv, NEW t \in Threads,
         ClearValid \/ FlushOnConnect \/ Connect(t) \/ TakeValid(t) \/ Select(t) \/ Tx(t) \/ Lose(t)
  PROVE  StrandedInv'
  <1>0. SocketType /\ rb \in [Rings -> Ring] /\ "A" \in Threads /\ "B" \in Threads
    BY DEF TypeInv, RingType, Threads
  <1>1. UNCHANGED <<atcmd_flag, timer, mpc, broken>>
    BY DEF ClearValid, FlushOnConnect, Connect, TakeValid, Select, Tx, Lose, mainVars, history, Flush
  <1>2. BAbsent'
    <2>1. pc["B"] = "absent" => pc'["B"] = "absent"
      BY <1>0 DEF ClearValid, FlushOnConnect, Connect, TakeValid, Select, Tx, Lose, Thread, SocketType
    <2>2. QED
      BY <2>1 DEF StrandedInv, BAbsent
  <1>3. CASE FlushOnConnect
    <2>1. RingBufUsed(rb'[0]) = 0 /\ rb'[0] \in Ring
      BY <1>0, <1>3, FlushType DEF FlushOnConnect, Flush, Rings
    <2>2. RingBufEmpty(rb'[0])
      BY <2>1, EmptyIsUnused
    <2>3. QED
      BY <1>2, <2>2 DEF StrandedInv, StrandedOnlyBehindA
  <1>4. CASE ClearValid
    <2>1. pc'["A"] = "flush"
      BY <1>0, <1>4 DEF ClearValid, Thread, SocketType
    <2>2. QED
      BY <1>2, <2>1 DEF StrandedInv, StrandedOnlyBehindA
  <1>5. CASE Connect(t) \/ TakeValid(t) \/ Select(t) \/ Tx(t) \/ Lose(t)
    <2>1. rb' = rb
      BY <1>5 DEF Connect, TakeValid, Select, Tx, Lose
    <2>2. pc["A"] = "flush" => pc'["A"] = "flush"
      BY <1>0, <1>5 DEF Connect, TakeValid, Select, Tx, Lose, Thread, SocketType
    <2>3. CASE Connect(t)
      <3>1. UNCHANGED <<valid, writeset, want, swallowed>>
        BY <2>3 DEF Connect
      <3>2. QED
        BY <1>1, <1>2, <2>1, <2>2, <3>1 DEF StrandedInv, StrandedOnlyBehindA, Trigger
    <2>4. CASE TakeValid(t)
      <3>1. want' = want /\ swallowed' = swallowed
        BY <2>4 DEF TakeValid
      <3>2. valid[1] \/ writeset["B"] => valid'[1] \/ writeset'["B"]
        <4>1. CASE t = "B"
          BY <1>0, <2>4, <4>1 DEF TakeValid, CountedRing, SocketType
        <4>2. CASE t # "B"
          BY <1>0, <2>4, <4>2 DEF TakeValid, CountedRing, SocketType, Rings, Threads
        <4>3. QED
          BY <4>1, <4>2
      <3>3. QED
        BY <1>1, <1>2, <2>1, <2>2, <3>1, <3>2 DEF StrandedInv, StrandedOnlyBehindA, Trigger, CountedRing
    <2>5. CASE Select(t) \/ Lose(t)
      <3>1. want' = want /\ valid' = valid
        BY <2>5 DEF Select, Lose
      <3>2. PICK w \in BOOLEAN :
              /\ writeset' = [writeset EXCEPT ![t] = w]
              /\ swallowed' = [swallowed EXCEPT ![t] = @ \/ (writeset[t] /\ ~w)]
        BY <1>0, <2>5, Disarms
      <3>3. swallowed["B"] => swallowed'["B"]
        BY <1>0, <3>2 DEF SocketType
      <3>4. writeset["B"] => writeset'["B"] \/ swallowed'["B"]
        BY <1>0, <3>2 DEF SocketType
      <3>5. QED
        BY <1>1, <1>2, <2>1, <2>2, <3>1, <3>3, <3>4 DEF StrandedInv, StrandedOnlyBehindA, Trigger
    <2>6. CASE Tx(t)
      <3>1. valid' = valid
        BY <2>6 DEF Tx
      <3>2. CASE t = "B"
        <4> DEFINE n == RingBufUsed(rb[1])
        <4>1. n \in Nat
          BY <1>0, UsedRange DEF Rings
        <4>2. \/ n = 0 /\ want' = want
              \/ want' = [want EXCEPT !["B"] = n]
              \/ swallowed' = [swallowed EXCEPT !["B"] = TRUE]
          BY <2>6, <3>2 DEF Tx, CountedRing
        <4> HIDE DEF n
        <4>3. n <= want'["B"] \/ swallowed'["B"]
          BY <1>0, <4>1, <4>2 DEF SocketType
        <4>4. QED
          BY <1>2, <2>1, <4>3 DEF StrandedInv, StrandedOnlyBehindA, CountedRing, n
      <3>3. CASE t # "B"
        <4>1. writeset'["B"] = writeset["B"] /\ want'["B"] = want["B"]
          BY <1>0, <2>6, <3>3 DEF Tx, SocketType
        <4>2. swallowed'["B"] = swallowed["B"]
          BY <1>0, <2>6, <3>3 DEF Tx, SocketType
        <4>3. QED
          BY <1>1, <1>2, <2>1, <2>2, <3>1, <4>1, <4>2 DEF StrandedInv, StrandedOnlyBehindA, Trigger
      <3>4. QED
        BY <3>2, <3>3
    <2>7. QED
      BY <1>5, <2>3, <2>4, <2>5, <2>6
  <1>6. QED
    BY <1>3, <1>4, <1>5

LEMMA StrandedStep ==
  SocketB # "tcpc" => (TypeInv /\ WakeInv /\ StrandedInv /\ [Next]_vars => StrandedInv')
  <1> SUFFICES ASSUME SocketB # "tcpc", TypeInv, WakeInv, StrandedInv, [Next]_vars
               PROVE  StrandedInv'
    OBVIOUS
  <1>1. CASE UNCHANGED vars
    BY <1>1 DEF vars, mainVars, history, StrandedInv, BAbsent, StrandedOnlyBehindA, Trigger
  <1>2. "A" \in Threads
    BY DEF Threads
  <1>3. QED
    BY <1>1, <1>2, MainStranded, HandlerStranded, SocketStranded, CopyStranded DEF Next, SocketStep

(* A byte for a UDP client B waits in ring 1 with nothing to send it only  *)
(* while ring 0 is empty or A is about to flush it: the handler looks at   *)
(* ring 0 alone.  A TCP client B counts ring 1 and reads ring 0, and has   *)
(* no such bound.                                                          *)
THEOREM BStrandedBehindA == SocketB # "tcpc" => (Spec => []StrandedOnlyBehindA)
  <1> SUFFICES ASSUME SocketB # "tcpc" PROVE Spec => []StrandedOnlyBehindA
    OBVIOUS
  <1>1. StrandedInv => StrandedOnlyBehindA
    BY DEF StrandedInv
  <1>2. TypeInv /\ WakeInv /\ StrandedInv /\ [Next]_vars => StrandedInv'
    BY StrandedStep
  <1>3. QED
    BY <1>1, <1>2, InitTypeInv, InitWake, InitStranded, TypeStep, WakeStep, PTL DEF Spec

-----------------------------------------------------------------------------
(* What the calls of ringbuf.c do to the bytes that wait in the ring.      *)

LEMMA ContentsType == \A r \in Ring : /\ Contents(r) \in Seq(Byte)
                                      /\ Len(Contents(r)) = RingBufUsed(r)
  <1> SUFFICES ASSUME NEW r \in Ring
               PROVE  Contents(r) \in Seq(Byte) /\ Len(Contents(r)) = RingBufUsed(r)
    OBVIOUS
  <1>1. RingBufUsed(r) \in Nat
    BY UsedRange
  <1>2. Contents(r) \in Seq(Byte)
    BY <1>1, BytesReadType DEF Contents
  <1>3. QED
    BY <1>1, <1>2 DEF Contents, BytesRead

LEMMA ContentsAt ==
  ASSUME NEW r \in Ring, NEW k \in 1 .. RingBufUsed(r)
  PROVE  /\ Contents(r)[k] = r.buf[UpdateIndex(r.r, k - 1)]
         /\ UpdateIndex(r.r, k - 1) = IF r.r + (k - 1) >= Size THEN r.r + (k - 1) - Size ELSE r.r + (k - 1)
  <1>1. RingBufUsed(r) \in 0 .. Size - 1 /\ r.r \in Index
    BY UsedRange DEF Ring
  <1>2. k - 1 \in 0 .. Size
    BY <1>1
  <1>3. QED
    BY <1>1, <1>2, UpdateIndexWraps DEF Contents, BytesRead

LEMMA ContentsAfterFlush == \A r \in Ring : Contents(RingBufFlush(r)) = << >>
  BY FlushType DEF Contents, BytesRead

(* The k-th byte of a ring with u bytes lies below the write index, and    *)
(* the next one to be written at it.                                       *)
LEMMA Slots ==
  ASSUME NEW r \in Index, NEW w \in Index, NEW u \in Nat, NEW k \in 1 .. u + 1, NEW j,
         u = IF w >= r THEN w - r ELSE Size - (r - w), u <= Size - 2,
         j = IF r + (k - 1) >= Size THEN r + (k - 1) - Size ELSE r + (k - 1)
  PROVE  j \in Index /\ (j = w <=> k = u + 1)
  BY DEF Index

LEMMA ContentsAfterWrite ==
  ASSUME NEW r \in Ring, NEW b \in Byte, WriteContract(r, 1)
  PROVE  Contents(RingBufWriteOne(r, b)) = Append(Contents(r), b)
  <1> DEFINE s == RingBufWriteOne(r, b)
  <1>1. r.r \in Index /\ r.w \in Index /\ r.buf \in [Index -> Byte]
    BY DEF Ring
  <1>2. /\ s.r = r.r
        /\ s.w = UpdateIndex(r.w, 1)
        /\ s.buf = [r.buf EXCEPT ![r.w] = b]
    BY DEF RingBufWriteOne, Ring
  <1>3. s \in Ring
    BY WriteOneType
  <1>4. s.w = IF r.w + 1 >= Size THEN r.w + 1 - Size ELSE r.w + 1
    BY <1>1, <1>2, UpdateIndexWraps
  <1> HIDE DEF s
  <1>5. RingBufUsed(r) \in 0 .. Size - 2
    BY UsedRange DEF WriteContract, RingBufFree
  <1>6. RingBufUsed(s) = RingBufUsed(r) + 1
    BY <1>1, <1>2, <1>4, <1>5, SMTT(30) DEF RingBufUsed, Index
  <1>7. ASSUME NEW k \in 1 .. RingBufUsed(r) PROVE Contents(s)[k] = Contents(r)[k]
    <2> DEFINE j == UpdateIndex(r.r, k - 1)
    <2>1. Contents(r)[k] = r.buf[j] /\ Contents(s)[k] = s.buf[j]
      <3>1. k \in 1 .. RingBufUsed(s)
        BY <1>5, <1>6
      <3>2. Contents(s)[k] = s.buf[UpdateIndex(s.r, k - 1)]
        BY <1>3, <3>1, ContentsAt
      <3>3. Contents(r)[k] = r.buf[UpdateIndex(r.r, k - 1)]
        BY ContentsAt
      <3>4. QED
        BY <1>2, <3>2, <3>3
    <2>2. j = IF r.r + (k - 1) >= Size THEN r.r + (k - 1) - Size ELSE r.r + (k - 1)
      BY ContentsAt
    <2> HIDE DEF j
    <2>3. j # r.w /\ j \in Index
      <3>1. RingBufUsed(r) \in Nat /\ k \in 1 .. RingBufUsed(r) + 1 /\ k # RingBufUsed(r) + 1
        BY <1>5
      <3>2. RingBufUsed(r) <= Size - 2
        BY <1>5
      <3>3. RingBufUsed(r) = IF r.w >= r.r THEN r.w - r.r ELSE Size - (r.r - r.w)
        BY DEF RingBufUsed
      <3>4. QED
        BY <1>1, <2>2, <3>1, <3>2, <3>3, Slots
    <2>4. QED
      BY <1>1, <1>2, <2>1, <2>3
  <1>8. Contents(s)[RingBufUsed(s)] = b
    <2> DEFINE j == UpdateIndex(s.r, RingBufUsed(s) - 1)
    <2>1. RingBufUsed(s) \in 1 .. RingBufUsed(s)
      BY <1>5, <1>6
    <2>2. /\ Contents(s)[RingBufUsed(s)] = s.buf[j]
          /\ j = IF s.r + (RingBufUsed(s) - 1) >= Size THEN s.r + (RingBufUsed(s) - 1) - Size
                                                      ELSE s.r + (RingBufUsed(s) - 1)
      BY <1>3, <2>1, ContentsAt
    <2> HIDE DEF j
    <2>3. j = r.w
      <3>1. RingBufUsed(r) \in Nat /\ RingBufUsed(s) \in 1 .. RingBufUsed(r) + 1
        BY <1>5, <1>6
      <3>2. RingBufUsed(r) <= Size - 2
        BY <1>5
      <3>3. RingBufUsed(r) = IF r.w >= r.r THEN r.w - r.r ELSE Size - (r.r - r.w)
        BY DEF RingBufUsed
      <3>4. j = IF r.r + (RingBufUsed(s) - 1) >= Size THEN r.r + (RingBufUsed(s) - 1) - Size
                                                      ELSE r.r + (RingBufUsed(s) - 1)
        BY <1>2, <2>2
      <3>5. QED
        BY <1>1, <1>6, <3>1, <3>2, <3>3, <3>4, Slots
    <2>4. QED
      BY <1>1, <1>2, <2>2, <2>3
  <1>9. /\ Contents(r) \in Seq(Byte) /\ Len(Contents(r)) = RingBufUsed(r)
        /\ Contents(s) \in Seq(Byte) /\ Len(Contents(s)) = RingBufUsed(r) + 1
    BY <1>3, <1>6, ContentsType
  <1>10. \A k \in 1 .. RingBufUsed(r) + 1 : Contents(s)[k] = Append(Contents(r), b)[k]
    BY <1>5, <1>6, <1>7, <1>8, <1>9
  <1>11. QED
    <2>1. Append(Contents(r), b) \in Seq(Byte) /\ Len(Append(Contents(r), b)) = RingBufUsed(r) + 1
      BY <1>9
    <2>2. QED
      BY <1>9, <1>10, <2>1, SeqEqual DEF s

LEMMA ContentsAfterRead ==
  ASSUME NEW r \in Ring, NEW n \in Nat, ReadContract(r, n)
  PROVE  Contents(r) = BytesRead(r, n) \o Contents(RingBufRead(r, n))
  <1> DEFINE s == RingBufRead(r, n)
  <1> DEFINE u == RingBufUsed(r)
  <1>1. r.r \in Index /\ r.w \in Index /\ u \in 0 .. Size - 1 /\ n <= u
    BY UsedRange DEF Ring, ReadContract
  <1>2. s \in Ring /\ s.buf = r.buf /\ s.w = r.w /\ s.r = UpdateIndex(r.r, n)
    BY ReadType DEF RingBufRead, Ring
  <1>3. RingBufUsed(s) = u - n
    BY <1>1, UsedAfterRead
  <1>4. s.r = IF r.r + n >= Size THEN r.r + n - Size ELSE r.r + n
    BY <1>1, <1>2, UpdateIndexWraps
  <1>5. /\ Contents(r) \in Seq(Byte) /\ Len(Contents(r)) = u
        /\ Contents(s) \in Seq(Byte) /\ Len(Contents(s)) = u - n
    BY <1>2, <1>3, ContentsType
  <1>6. BytesRead(r, n) \in Seq(Byte) /\ Len(BytesRead(r, n)) = n
    BY BytesReadType DEF BytesRead
  <1> HIDE DEF s, u
  <1> DEFINE c == BytesRead(r, n) \o Contents(s)
  <1>7. c \in Seq(Byte) /\ Len(c) = u
    BY <1>1, <1>5, <1>6
  <1>8. ASSUME NEW k \in 1 .. u PROVE Contents(r)[k] = c[k]
    <2>1. Contents(r)[k] = r.buf[UpdateIndex(r.r, k - 1)]
      BY ContentsAt DEF u
    <2>2. CASE k <= n
      <3>1. c[k] = BytesRead(r, n)[k]
        BY <1>5, <1>6, <2>2
      <3>2. BytesRead(r, n)[k] = r.buf[UpdateIndex(r.r, k - 1)]
        BY <2>2 DEF BytesRead
      <3>3. QED
        BY <2>1, <3>1, <3>2
    <2>3. CASE k > n
      <3>1. k - n \in 1 .. RingBufUsed(s)
        BY <1>1, <1>3, <2>3
      <3>2. c[k] = Contents(s)[k - n]
        BY <1>1, <1>5, <1>6, <2>3
      <3>3. /\ Contents(s)[k - n] = r.buf[UpdateIndex(s.r, (k - n) - 1)]
            /\ UpdateIndex(s.r, (k - n) - 1) =
                 IF s.r + ((k - n) - 1) >= Size THEN s.r + ((k - n) - 1) - Size ELSE s.r + ((k - n) - 1)
        BY <1>2, <3>1, ContentsAt
      <3>4. UpdateIndex(r.r, k - 1) =
              IF r.r + (k - 1) >= Size THEN r.r + (k - 1) - Size ELSE r.r + (k - 1)
        BY ContentsAt DEF u
      <3>5. UpdateIndex(s.r, (k - n) - 1) = UpdateIndex(r.r, k - 1)
        BY <1>1, <1>4, <2>3, <3>3, <3>4 DEF Index
      <3>6. QED
        BY <2>1, <3>2, <3>3, <3>5
    <2>4. k \in Nat
      BY <1>1
    <2>5. k <= n \/ k > n
      BY <2>4
    <2>6. QED
      BY <2>2, <2>3, <2>5, Zenon
  <1> HIDE DEF c
  <1>9. Contents(r) = c
    BY <1>5, <1>7, <1>8, SeqEqual
  <1>10. QED
    BY <1>9 DEF c, s

-----------------------------------------------------------------------------
(* Conservation of the serial data. *)
Kept(i) == taken[i] \o Contents(rb[i]) = fed[i]

LEMMA ConcatAppend ==
  ASSUME NEW S, NEW s \in Seq(S), NEW t \in Seq(S), NEW b \in S
  PROVE  s \o Append(t, b) = Append(s \o t, b)
  <1>1. Append(t, b) = t \o <<b>> /\ <<b>> \in Seq(S)
    BY AppendIsConcat
  <1>2. s \o t \in Seq(S)
    OBVIOUS
  <1>3. Append(s \o t, b) = (s \o t) \o <<b>>
    BY <1>2, AppendIsConcat
  <1>4. (s \o t) \o <<b>> = s \o (t \o <<b>>)
    BY <1>1, ConcatAssociative
  <1>5. QED
    BY <1>1, <1>3, <1>4

LEMMA InitConserved == Init => Conserved
  <1> SUFFICES ASSUME Init, NEW i \in Rings PROVE Kept(i)
    BY DEF Conserved, Kept
  <1>1. rb[i] = RingBufInit /\ taken[i] = << >> /\ fed[i] = << >>
    BY DEF Init
  <1>2. RingBufUsed(RingBufInit) = 0
    BY DEF RingBufUsed, RingBufInit
  <1>3. Contents(RingBufInit) = << >>
    BY <1>2 DEF Contents, BytesRead
  <1>4. QED
    BY <1>1, <1>3 DEF Kept

LEMMA WriteConserves ==
  ASSUME RingType, NEW i \in Rings, NEW b \in Byte, WriteByte(i, b), Conserved
  PROVE  Conserved'
  <1>1. broken' = broken \cup (IF ~WriteContract(rb[i], 1) THEN {"write"} ELSE {})
    BY DEF WriteByte, Breaks
  <1> SUFFICES ASSUME broken' = {}, NEW h \in Rings PROVE Kept(h)'
    BY DEF Conserved, Kept
  <1>2. broken = {} /\ WriteContract(rb[i], 1) /\ Kept(h)
    BY <1>1 DEF Conserved, Kept
  <1>3. /\ rb' = [rb EXCEPT ![i] = RingBufWriteOne(@, b)]
        /\ fed' = [fed EXCEPT ![i] = Append(@, b)]
        /\ taken' = taken
    BY DEF WriteByte
  <1>4. CASE h = i
    <2>1. rb'[h] = RingBufWriteOne(rb[i], b) /\ fed'[h] = Append(fed[i], b) /\ rb[i] \in Ring
      BY <1>3, <1>4 DEF RingType
    <2>2. Contents(rb'[h]) = Append(Contents(rb[i]), b)
      BY <1>2, <2>1, ContentsAfterWrite
    <2>3. taken[i] \in Seq(Byte) /\ Contents(rb[i]) \in Seq(Byte)
      BY <2>1, ContentsType DEF RingType
    <2>4. taken[i] \o Append(Contents(rb[i]), b) = Append(taken[i] \o Contents(rb[i]), b)
      <3>1. \A x, y \in Seq(Byte) : x \o Append(y, b) = Append(x \o y, b)
        BY ConcatAppend
      <3>2. QED
        BY <2>3, <3>1, Zenon
    <2>5. QED
      BY <1>2, <1>3, <1>4, <2>1, <2>2, <2>4 DEF Kept
  <1>5. CASE h # i
    <2>1. rb'[h] = rb[h] /\ fed'[h] = fed[h]
      BY <1>3, <1>5 DEF RingType
    <2>2. QED
      BY <1>2, <1>3, <2>1 DEF Kept
  <1>6. QED
    BY <1>4, <1>5

LEMMA ReadConserves ==
  ASSUME RingType, NEW i \in Rings, NEW n \in Nat, ReadBytes(i, n), Conserved,
         broken' = {} => broken = {} /\ ReadContract(rb[i], n)
  PROVE  Conserved'
  <1> SUFFICES ASSUME broken' = {}, NEW h \in Rings PROVE Kept(h)'
    BY DEF Conserved, Kept
  <1>1. broken = {} /\ ReadContract(rb[i], n) /\ Kept(h)
    BY DEF Conserved, Kept
  <1>2. /\ rb' = [rb EXCEPT ![i] = RingBufRead(@, n)]
        /\ taken' = [taken EXCEPT ![i] = @ \o BytesRead(rb[i], n)]
        /\ fed' = fed
    BY DEF ReadBytes
  <1>3. CASE h = i
    <2>1. /\ rb'[h] = RingBufRead(rb[i], n)
          /\ taken'[h] = taken[i] \o BytesRead(rb[i], n)
          /\ rb[i] \in Ring
      BY <1>2, <1>3 DEF RingType
    <2>2. Contents(rb[i]) = BytesRead(rb[i], n) \o Contents(rb'[h])
      BY <1>1, <2>1, ContentsAfterRead
    <2>3. /\ taken[i] \in Seq(Byte) /\ BytesRead(rb[i], n) \in Seq(Byte)
          /\ Contents(rb'[h]) \in Seq(Byte)
      BY <2>1, ContentsType, BytesReadType, ReadType DEF RingType
    <2>4. taken'[h] \o Contents(rb'[h]) = taken[i] \o (BytesRead(rb[i], n) \o Contents(rb'[h]))
      <3>1. \A x, y, z \in Seq(Byte) : (x \o y) \o z = x \o (y \o z)
        BY ConcatAssociative
      <3>2. taken'[h] = taken[i] \o BytesRead(rb[i], n)
        BY <2>1
      <3>3. (taken[i] \o BytesRead(rb[i], n)) \o Contents(rb'[h]) =
              taken[i] \o (BytesRead(rb[i], n) \o Contents(rb'[h]))
        BY <2>3, <3>1, Zenon
      <3>4. QED
        BY <3>2, <3>3, Zenon
    <2>5. QED
      BY <1>1, <1>2, <1>3, <2>2, <2>4 DEF Kept
  <1>4. CASE h # i
    <2>1. rb'[h] = rb[h] /\ taken'[h] = taken[h]
      BY <1>2, <1>4 DEF RingType
    <2>2. QED
      BY <1>1, <1>2, <2>1 DEF Kept
  <1>5. QED
    BY <1>3, <1>4

LEMMA FlushConserves ==
  ASSUME RingType, NEW S \in SUBSET Rings, Flush(S), Conserved
  PROVE  Conserved'
  <1> SUFFICES ASSUME broken' = {}, NEW h \in Rings PROVE Kept(h)'
    BY DEF Conserved, Kept
  <1>1. broken = {} /\ Kept(h) /\ rb[h] \in Ring
    BY DEF Flush, Conserved, Kept, RingType
  <1>2. CASE h \in S
    <2>1. rb'[h] = RingBufFlush(rb[h]) /\ fed'[h] = << >> /\ taken'[h] = << >>
      BY <1>2 DEF Flush
    <2>2. QED
      BY <1>1, <2>1, ContentsAfterFlush DEF Kept
  <1>3. CASE h \notin S
    <2>1. rb'[h] = rb[h] /\ fed'[h] = fed[h] /\ taken'[h] = taken[h]
      BY <1>3 DEF Flush
    <2>2. QED
      BY <1>1, <2>1 DEF Kept
  <1>4. QED
    BY <1>2, <1>3

LEMMA UnchangedConserves ==
  ASSUME Conserved, UNCHANGED <<rb, fed, taken, broken>>
  PROVE  Conserved'
  BY DEF Conserved, Contents, BytesRead

LEMMA ConservedStep == TypeInv /\ Conserved /\ [Next]_vars => Conserved'
  <1> SUFFICES ASSUME TypeInv, Conserved, [Next]_vars PROVE Conserved'
    OBVIOUS
  <1>0. RingType /\ MainType /\ SocketType
    BY DEF TypeInv
  <1>1. CASE Ring0Byte \/ Ring1Byte \/ Reply
    <2>1. PICK i \in Rings, here \in Copying, there \in MainLabels : CopyIn(i, here, there)
      BY <1>1 DEF Ring0Byte, Ring1Byte, Reply, Rings, Copying, MainLabels
    <2>2. chunk[pos] \in Byte
      <3>1. pos \in 1 .. Len(chunk) /\ chunk \in Seq(Byte)
        BY <1>0, <2>1 DEF CopyIn, MainType
      <3>2. QED
        BY <3>1
    <2>3. QED
      BY <1>0, <2>1, <2>2, WriteConserves DEF CopyIn
  <1>2. CASE Flush0 \/ Flush1 \/ FlushOnConnect
    <2>1. Flush({0}) \/ Flush({1})
      BY <1>2 DEF Flush0, Flush1, FlushAfterEscape, FlushOnConnect
    <2>2. QED
      BY <1>0, <2>1, FlushConserves DEF Rings
  <1>3. CASE HandlerStart
    <2>1. Flush({0}) \/ UNCHANGED <<rb, fed, taken, broken>>
      BY <1>3 DEF HandlerStart, history
    <2>2. QED
      BY <1>0, <2>1, FlushConserves, UnchangedConserves DEF Rings
  <1>4. CASE HandlerAct
    <2>1. broken' = broken \cup (IF ~ReadContract(rb[0], temp) THEN {"read"} ELSE {})
      BY <1>4 DEF HandlerAct, Breaks
    <2>2. CASE FrontByte(rb[0]) = Entm
      <3>1. /\ rb' = [i \in Rings |-> RingBufFlush(rb[i])]
            /\ fed' = [i \in Rings |-> << >>] /\ taken' = [i \in Rings |-> << >>]
        BY <1>4, <2>2, Zenon DEF HandlerAct
      <3>2. \A h \in Rings : Contents(rb'[h]) = << >>
        BY <1>0, <3>1, ContentsAfterFlush DEF RingType
      <3>3. \A h \in Rings : Kept(h)'
        BY <3>1, <3>2 DEF Kept
      <3>4. QED
        BY <3>3 DEF Conserved, Kept
    <2>3. CASE FrontByte(rb[0]) # Entm
      <3>1. ReadBytes(0, temp)
        BY <1>4, <2>3, Zenon DEF HandlerAct
      <3>2. QED
        BY <1>0, <2>1, <3>1, ReadConserves DEF MainType, Rings
    <2>4. QED
      BY <2>2, <2>3
  <1>5. ASSUME NEW t \in Threads, Copy(t) PROVE Conserved'
    <2>1. broken' = broken \cup (IF ~ReadContract(rb[CopiedRing(t)], want[t]) THEN {"read"} ELSE {})
      BY <1>5 DEF Copy, Breaks
    <2>2. want[t] \in Nat /\ want[t] > 0 /\ CopiedRing(t) \in Rings
      BY <1>0, <1>5 DEF SocketType, Copy, Thread, CopiedRing, Rings
    <2>3. RingBufUsed(rb[CopiedRing(t)]) \in Nat
      BY <1>0, <2>2, UsedRange DEF RingType
    <2>4. broken' = {} => broken = {} /\ ReadContract(rb[CopiedRing(t)], 1)
      BY <2>1, <2>2, <2>3 DEF ReadContract
    <2>5. QED
      BY <1>0, <1>5, <2>2, <2>4, ReadConserves DEF Copy
  <1>6. CASE \/ Receive \/ LoadUsed \/ Escape \/ Arm \/ Prompt \/ Fail \/ Enter \/ ClearValid
             \/ UNCHANGED vars
    BY <1>6, UnchangedConserves
       DEF Receive, LoadUsed, Escape, Arm, Prompt, Fail, Enter, ClearValid, vars, history
  <1>7. ASSUME NEW t \in Threads, Connect(t) \/ TakeValid(t) \/ Select(t) \/ Tx(t) \/ Lose(t)
        PROVE  Conserved'
    BY <1>7, UnchangedConserves DEF Connect, TakeValid, Select, Tx, Lose, history
  <1>8. QED
    BY <1>1, <1>2, <1>3, <1>4, <1>5, <1>6, <1>7 DEF Next, MainStep, Handler, SocketStep

(* Whatever main, the handler and both socket threads do to the rings, the *)
(* bytes read and the bytes waiting are the bytes written, in order, until *)
(* the first call outside the contract of ringbuf.c.                       *)
THEOREM SerialConserved == Spec => []Conserved
  <1>1. Spec => [](TypeInv /\ Conserved)
    BY InitTypeInv, InitConserved, TypeStep, ConservedStep, PTL DEF Spec
  <1>2. QED
    BY <1>1, PTL

-----------------------------------------------------------------------------
(* The command line.  While the AT mode is on the UART delivers no payload, *)
(* the dialogue that enters it ends before the flag is set, and the flush   *)
(* of ring 0 discards what it put there.                                   *)
Foreign == Stamps \cup {Letter}

CleanRing(r) == \A k \in 1 .. RingBufUsed(r) : Contents(r)[k] \notin Foreign

DialogueOutside == mpc \in {"prompt", "reply", "fail", "enter"} => ~atcmd_flag

CleanChunk ==
  atcmd_flag /\ mpc # "flush0" => \A k \in 1 .. Len(chunk) : chunk[k] \notin Foreign

CleanInv ==
  /\ DialogueOutside
  /\ CleanChunk
  /\ broken = {} /\ atcmd_flag /\ mpc # "flush0" => CleanRing(rb[0])

LEMMA CleanInvImplies == CleanInv => CleanCommandLine
  BY DEF CleanInv, CleanRing, Foreign, CleanCommandLine

LEMMA InitClean == Init => CleanInv
  BY DEF Init, CleanInv, DialogueOutside, CleanChunk

LEMMA OneMore ==
  ASSUME NEW S, NEW T, NEW x, T = S \cup {x}, IsFiniteSet(S)
  PROVE  IsFiniteSet(T) /\ Cardinality(T) <= Cardinality(S) + 1
  <1>1. Cardinality(S) \in Nat
    BY FS_CardinalityType
  <1>2. IsFiniteSet(T) /\ Cardinality(T) = IF x \in S THEN Cardinality(S) ELSE Cardinality(S) + 1
    BY FS_AddElement
  <1>3. QED
    BY <1>1, <1>2

LEMMA FourAtMost ==
  ASSUME NEW a, NEW b, NEW c, NEW d
  PROVE  Cardinality({a, b, c, d}) <= 4
  <1>1. IsFiniteSet({a}) /\ Cardinality({a}) = 1
    BY FS_Singleton, Zenon
  <1>2. IsFiniteSet({a, b}) /\ Cardinality({a, b}) <= Cardinality({a}) + 1
    <2>1. {a, b} = {a} \cup {b}
      OBVIOUS
    <2>2. QED
      BY <1>1, <2>1, OneMore
  <1>3. IsFiniteSet({a, b, c}) /\ Cardinality({a, b, c}) <= Cardinality({a, b}) + 1
    <2>1. {a, b, c} = {a, b} \cup {c}
      OBVIOUS
    <2>2. QED
      BY <1>2, <2>1, OneMore
  <1>4. IsFiniteSet({a, b, c, d}) /\ Cardinality({a, b, c, d}) <= Cardinality({a, b, c}) + 1
    <2>1. {a, b, c, d} = {a, b, c} \cup {d}
      OBVIOUS
    <2>2. QED
      BY <1>3, <2>1, OneMore
  <1>5. /\ Cardinality({a, b}) \in Nat /\ Cardinality({a, b, c}) \in Nat
        /\ Cardinality({a, b, c, d}) \in Nat
    BY <1>2, <1>3, <1>4, FS_CardinalityType
  <1> QED
    BY <1>1, <1>2, <1>3, <1>4, <1>5

LEMMA ForeignBytes == {Plus, Command, Entm} \cap Foreign = {}
  <1>1. Cardinality({NoByte, Plus, Letter, Command, Entm}) = 5
    BY ByteContents
  <1>2. Letter \notin {Plus, Command, Entm}
    <2>1. SUFFICES ASSUME Letter \in {Plus, Command, Entm} PROVE FALSE
      OBVIOUS
    <2>2. {NoByte, Plus, Letter, Command, Entm} = {NoByte, Plus, Command, Entm}
      BY <2>1
    <2>3. Cardinality({NoByte, Plus, Command, Entm}) <= 4
      BY FourAtMost
    <2>4. QED
      BY <1>1, <2>2, <2>3
  <1>3. \A b \in {Plus, Command, Entm} : b \notin Nat
    BY ByteContents
  <1>4. Stamps \subseteq Nat
    BY BoundAssumption DEF Stamps
  <1>5. QED
    BY <1>2, <1>3, <1>4 DEF Foreign

LEMMA CleanAfterFlush == \A r \in Ring : CleanRing(RingBufFlush(r))
  BY FlushType DEF CleanRing

LEMMA CleanAfterWrite ==
  ASSUME NEW r \in Ring, NEW b \in Byte, WriteContract(r, 1), CleanRing(r), b \notin Foreign
  PROVE  CleanRing(RingBufWriteOne(r, b))
  <1> DEFINE s == RingBufWriteOne(r, b)
  <1>1. Contents(s) = Append(Contents(r), b)
    BY ContentsAfterWrite
  <1>2. /\ Contents(r) \in Seq(Byte) /\ Len(Contents(r)) = RingBufUsed(r)
        /\ Len(Contents(s)) = RingBufUsed(s) /\ RingBufUsed(r) \in Nat
    BY WriteOneType, ContentsType, UsedRange
  <1> HIDE DEF s
  <1>3. RingBufUsed(s) = RingBufUsed(r) + 1
    BY <1>1, <1>2
  <1>4. ASSUME NEW k \in 1 .. RingBufUsed(s) PROVE Contents(s)[k] \notin Foreign
    <2>1. CASE k = RingBufUsed(r) + 1
      BY <1>1, <1>2, <2>1
    <2>2. CASE k # RingBufUsed(r) + 1
      <3>1. k \in 1 .. RingBufUsed(r)
        BY <1>2, <1>3, <2>2
      <3>2. Contents(s)[k] = Contents(r)[k]
        BY <1>1, <1>2, <3>1
      <3>3. QED
        BY <3>1, <3>2 DEF CleanRing
    <2>3. QED
      BY <2>1, <2>2
  <1>5. QED
    BY <1>4 DEF CleanRing, s

LEMMA ConcatRight ==
  ASSUME NEW S, NEW s \in Seq(S), NEW t \in Seq(S), NEW k \in 1 .. Len(t)
  PROVE  t[k] = (s \o t)[Len(s) + k]
  OBVIOUS

LEMMA CleanAfterRead ==
  ASSUME NEW r \in Ring, NEW n \in Nat, ReadContract(r, n), CleanRing(r)
  PROVE  CleanRing(RingBufRead(r, n))
  <1> DEFINE s == RingBufRead(r, n)
  <1>1. Contents(r) = BytesRead(r, n) \o Contents(s)
    BY ContentsAfterRead
  <1>2. /\ Contents(r) \in Seq(Byte) /\ Len(Contents(r)) = RingBufUsed(r) /\ RingBufUsed(r) \in Nat
        /\ Contents(s) \in Seq(Byte) /\ Len(Contents(s)) = RingBufUsed(s)
    BY ReadType, ContentsType, UsedRange
  <1>3. BytesRead(r, n) \in Seq(Byte) /\ Len(BytesRead(r, n)) = n
    BY BytesReadType DEF BytesRead
  <1>4. RingBufUsed(s) = RingBufUsed(r) - n
    BY UsedAfterRead DEF ReadContract
  <1> HIDE DEF s
  <1>5. ASSUME NEW k \in 1 .. RingBufUsed(s) PROVE Contents(s)[k] \notin Foreign
    <2>1. n + k \in 1 .. RingBufUsed(r)
      BY <1>2, <1>4
    <2>2. Contents(s)[k] = Contents(r)[n + k]
      BY <1>1, <1>2, <1>3, ConcatRight
    <2>3. QED
      BY <2>1, <2>2 DEF CleanRing
  <1>6. QED
    BY <1>5 DEF CleanRing, s

(* A copy into a ring adds the byte of the chunk, if the contract is kept. *)
LEMMA CopyInClean ==
  ASSUME TypeInv, CleanInv, NEW i \in Rings, NEW here \in Copying, NEW there, CopyIn(i, here, there),
         here = "reply" => there \in {"enter", "fail"},
         here # "reply" => there \in {"ring1", "used"}
  PROVE  CleanInv'
  <1>1. /\ mpc = here /\ mpc' \in {here, there} /\ UNCHANGED <<atcmd_flag, chunk>>
        /\ rb' = [rb EXCEPT ![i] = RingBufWriteOne(@, chunk[pos])]
        /\ broken' = broken \cup (IF ~WriteContract(rb[i], 1) THEN {"write"} ELSE {})
    BY DEF CopyIn, WriteByte, Breaks
  <1>2. /\ rb[i] \in Ring /\ rb[0] \in Ring /\ rb \in [Rings -> Ring]
        /\ chunk \in Seq(Byte) /\ pos \in 1 .. Len(chunk)
    BY <1>1 DEF TypeInv, RingType, MainType, Rings
  <1>3. DialogueOutside'
    BY <1>1 DEF CleanInv, DialogueOutside, Copying
  <1>4. CleanChunk'
    BY <1>1 DEF CleanInv, CleanChunk, Copying
  <1>5. ASSUME broken' = {}, atcmd_flag' PROVE CleanRing(rb'[0])
    <2>1. broken = {} /\ WriteContract(rb[i], 1) /\ atcmd_flag /\ mpc # "flush0"
      BY <1>1, <1>5 DEF Copying
    <2>2. CleanRing(rb[0]) /\ chunk[pos] \notin Foreign /\ chunk[pos] \in Byte
      BY <1>2, <2>1 DEF CleanInv, CleanChunk
    <2>3. CASE i = 0
      BY <1>1, <1>2, <2>1, <2>2, <2>3, CleanAfterWrite
    <2>4. CASE i # 0
      <3>1. rb'[0] = rb[0]
        BY <1>1, <1>2, <2>4 DEF Rings
      <3>2. QED
        BY <2>2, <3>1
    <2>5. QED
      BY <2>3, <2>4
  <1>6. QED
    BY <1>3, <1>4, <1>5 DEF CleanInv

LEMMA ReceiveClean ==
  ASSUME TypeInv, CleanInv, Receive
  PROVE  CleanInv'
  <1>1. /\ mpc = "read" /\ mpc' = "ring0" /\ UNCHANGED <<rb, atcmd_flag, broken>>
    BY DEF Receive, Main, history
  <1>2. ASSUME atcmd_flag PROVE \A k \in 1 .. Len(chunk') : chunk'[k] \notin Foreign
    <2>1. \/ \E n \in 1 .. 3 : chunk' = Plusses(n)
          \/ \E line \in {Command, Entm} : chunk' = <<line>>
      BY <1>2 DEF Receive
    <2>2. \A k \in 1 .. Len(chunk') : chunk'[k] \in {Plus, Command, Entm}
      BY <2>1 DEF Plusses
    <2>3. QED
      BY <2>2, ForeignBytes
  <1>3. QED
    BY <1>1, <1>2 DEF CleanInv, DialogueOutside, CleanChunk

LEMMA MainClean ==
  ASSUME TypeInv, CleanInv, MainStep
  PROVE  CleanInv'
  <1>0. rb \in [Rings -> Ring] /\ rb[0] \in Ring
    BY DEF TypeInv, RingType, Rings
  <1>1. CASE Ring0Byte
    BY <1>1, CopyInClean DEF Ring0Byte, Rings, Copying
  <1>2. CASE Ring1Byte
    BY <1>2, CopyInClean DEF Ring1Byte, Rings, Copying
  <1>3. CASE Reply
    BY <1>3, CopyInClean DEF Reply, Rings, Copying
  <1>4. CASE LoadUsed \/ Escape \/ Arm
    <2>1. /\ UNCHANGED <<rb, atcmd_flag, broken>> /\ mpc # "flush0"
          /\ mpc' \in {"check", "prompt", "read"} /\ (mpc' = "prompt" => ~atcmd_flag)
      BY <1>4 DEF LoadUsed, Escape, Escapes, Arm, Main, history
    <2>2. chunk' = chunk \/ chunk' = << >>
      BY <1>4 DEF LoadUsed, Escape, Arm
    <2>3. QED
      BY <2>1, <2>2 DEF CleanInv, DialogueOutside, CleanChunk
  <1>5. CASE Prompt \/ Fail
    <2>1. ~atcmd_flag'
      BY <1>5 DEF Prompt, Fail, Main, CleanInv, DialogueOutside
    <2>2. QED
      BY <2>1 DEF CleanInv, DialogueOutside, CleanChunk
  <1>6. CASE Enter
    <2>1. mpc' = "flush0"
      BY <1>6 DEF Enter, Main
    <2>2. QED
      BY <2>1 DEF CleanInv, DialogueOutside, CleanChunk
  <1>7. CASE Flush0 \/ Flush1
    <2>1. /\ chunk' = << >> /\ mpc' \in {"flush1", "read"} /\ atcmd_flag' = atcmd_flag
          /\ broken' = broken
      BY <1>7 DEF Flush0, Flush1, FlushAfterEscape, Main, Flush
    <2>2. DialogueOutside' /\ CleanChunk'
      BY <2>1 DEF DialogueOutside, CleanChunk
    <2>3. CASE Flush0
      <3>1. rb'[0] = RingBufFlush(rb[0])
        BY <1>0, <2>3 DEF Flush0, FlushAfterEscape, Flush, Rings
      <3>2. QED
        BY <1>0, <2>2, <3>1, CleanAfterFlush DEF CleanInv
    <2>4. CASE Flush1
      <3>1. rb'[0] = rb[0] /\ mpc # "flush0"
        BY <1>0, <2>4 DEF Flush1, FlushAfterEscape, Flush, Rings, Main
      <3>2. QED
        BY <2>1, <2>2, <3>1 DEF CleanInv
    <2>5. QED
      BY <1>7, <2>3, <2>4
  <1>8. QED
    BY <1>1, <1>2, <1>3, <1>4, <1>5, <1>6, <1>7 DEF MainStep

(* What else touches ring 0 empties it or reads from it.                   *)
LEMMA OthersClean ==
  ASSUME TypeInv, CleanInv, UNCHANGED <<mpc, chunk>>, atcmd_flag' => atcmd_flag,
         broken' = {} => broken = {} /\ (CleanRing(rb[0]) => CleanRing(rb'[0]))
  PROVE  CleanInv'
  BY DEF CleanInv, DialogueOutside, CleanChunk

LEMMA HandlerClean ==
  ASSUME TypeInv, CleanInv, Handler
  PROVE  CleanInv'
  <1>1. rb \in [Rings -> Ring] /\ rb[0] \in Ring /\ temp \in Nat
    BY DEF TypeInv, RingType, MainType, Rings
  <1>2. UNCHANGED <<mpc, chunk>> /\ (atcmd_flag' => atcmd_flag)
    <2>1. UNCHANGED <<mpc, chunk>>
      BY DEF Handler, HandlerStart, HandlerAct, mainVars
    <2>2. CASE HandlerStart
      BY <2>1, <2>2 DEF HandlerStart
    <2>3. CASE HandlerAct
      BY <2>1, <2>3, Zenon DEF HandlerAct
    <2>4. QED
      BY <2>1, <2>2, <2>3 DEF Handler
  <1>3. CASE HandlerStart
    <2>1. /\ rb' = rb \/ Flush({0})
          /\ broken' = broken
      BY <1>3 DEF HandlerStart, history, Flush
    <2>2. CleanRing(rb[0]) => CleanRing(rb'[0])
      BY <1>1, <2>1, CleanAfterFlush DEF Flush, Rings
    <2>3. QED
      BY <1>2, <2>1, <2>2, OthersClean
  <1>4. CASE HandlerAct
    <2>1. broken' = broken \cup (IF ~ReadContract(rb[0], temp) THEN {"read"} ELSE {})
      BY <1>4 DEF HandlerAct, Breaks
    <2>2. CASE FrontByte(rb[0]) = Entm
      <3>1. rb' = [i \in Rings |-> RingBufFlush(rb[i])]
        BY <1>4, <2>2, Zenon DEF HandlerAct
      <3>2. CleanRing(rb'[0])
        BY <1>1, <3>1, CleanAfterFlush DEF Rings
      <3>3. QED
        BY <1>2, <2>1, <3>2, OthersClean
    <2>3. CASE FrontByte(rb[0]) # Entm
      <3>1. ReadBytes(0, temp)
        BY <1>4, <2>3, Zenon DEF HandlerAct
      <3>2. rb'[0] = RingBufRead(rb[0], temp)
        BY <1>1, <3>1 DEF ReadBytes, Rings
      <3>3. ReadContract(rb[0], temp) /\ CleanRing(rb[0]) => CleanRing(rb'[0])
        BY <1>1, <3>2, CleanAfterRead
      <3>4. QED
        BY <1>2, <2>1, <3>3, OthersClean
    <2>4. QED
      BY <2>2, <2>3
  <1>5. QED
    BY <1>3, <1>4 DEF Handler

LEMMA CopyClean ==
  ASSUME TypeInv, CleanInv, NEW t \in Threads, Copy(t)
  PROVE  CleanInv'
  <1>1. /\ UNCHANGED <<mpc, chunk, atcmd_flag>>
        /\ rb' = [rb EXCEPT ![CopiedRing(t)] = RingBufRead(@, 1)]
        /\ broken' = broken \cup (IF ~ReadContract(rb[CopiedRing(t)], want[t]) THEN {"read"} ELSE {})
    BY DEF Copy, mainVars, Breaks, ReadBytes
  <1>2. /\ rb \in [Rings -> Ring] /\ rb[0] \in Ring /\ RingBufUsed(rb[0]) \in Nat
        /\ want[t] \in Nat /\ want[t] > 0
    BY UsedRange DEF TypeInv, RingType, SocketType, Rings, Copy, Thread
  <1>3. CASE CopiedRing(t) = 0
    <2>1. rb'[0] = RingBufRead(rb[0], 1)
      BY <1>1, <1>2, <1>3 DEF Rings
    <2>2. ReadContract(rb[0], want[t]) => ReadContract(rb[0], 1)
      BY <1>2 DEF ReadContract
    <2>3. ReadContract(rb[0], want[t]) /\ CleanRing(rb[0]) => CleanRing(rb'[0])
      BY <1>2, <2>1, <2>2, CleanAfterRead
    <2>4. QED
      BY <1>1, <1>3, <2>3, OthersClean
  <1>4. CASE CopiedRing(t) # 0
    <2>1. rb'[0] = rb[0]
      BY <1>1, <1>2, <1>4 DEF Rings
    <2>2. QED
      BY <1>1, <2>1, OthersClean
  <1>5. QED
    BY <1>3, <1>4

LEMMA SocketClean ==
  ASSUME TypeInv, CleanInv, NEW t \in Threads,
         ClearValid \/ FlushOnConnect \/ Connect(t) \/ TakeValid(t) \/ Select(t) \/ Tx(t) \/ Lose(t)
  PROVE  CleanInv'
  <1>1. rb \in [Rings -> Ring] /\ rb[0] \in Ring
    BY DEF TypeInv, RingType, Rings
  <1>2. /\ UNCHANGED <<mpc, chunk, atcmd_flag, broken>>
        /\ rb' = rb \/ Flush({0})
    BY DEF ClearValid, FlushOnConnect, Connect, TakeValid, Select, Tx, Lose, mainVars, history, Flush
  <1>3. CleanRing(rb[0]) => CleanRing(rb'[0])
    BY <1>1, <1>2, CleanAfterFlush DEF Flush, Rings
  <1>4. QED
    BY <1>2, <1>3, OthersClean

LEMMA CleanStep == TypeInv /\ CleanInv /\ [Next]_vars => CleanInv'
  <1> SUFFICES ASSUME TypeInv, CleanInv, [Next]_vars PROVE CleanInv'
    OBVIOUS
  <1>1. CASE UNCHANGED vars
    BY <1>1, OthersClean DEF vars, mainVars, history
  <1>2. "A" \in Threads
    BY DEF Threads
  <1>3. QED
    BY <1>1, <1>2, ReceiveClean, MainClean, HandlerClean, SocketClean, CopyClean DEF Next, SocketStep

(* Once main has flushed ring 0 after the escape, no payload and nothing   *)
(* of the escape dialogue is left there or comes there before the AT mode  *)
(* ends, whatever the sizes, chunks and interleaving.                      *)
THEOREM CommandLineIsClean == Spec => []CleanCommandLine
  BY InitTypeInv, InitClean, TypeStep, CleanStep, CleanInvImplies, PTL DEF Spec
=============================================================================
