------------------------------ MODULE RingApi ------------------------------
(***************************************************************************)
(* One caller makes the calls of socket/ringbuf.c one after the other, each *)
(* within the contract its commented-out ASSERTs state.  The specification  *)
(* implements the bounded queue of ByteQueue.tla.                           *)
(***************************************************************************)
EXTENDS RingBuf, FiniteSets

VARIABLES rb,   \* the ring
          out   \* what the latest RingBufRead copied out

vars == <<rb, out>>

Payload == Byte \ {NoByte}
Chunk   == UNION {[1 .. n -> Payload] : n \in 1 .. Size}

Init == rb = RingBufInit /\ out = << >>

Write(s) ==
  /\ WriteContract(rb, Len(s))
  /\ rb' = RingBufWrite(rb, s)
  /\ UNCHANGED out

Read(n) ==
  /\ ReadContract(rb, n)
  /\ rb' = RingBufRead(rb, n)
  /\ out' = BytesRead(rb, n)

AdvanceRead(n) == rb' = RingBufAdvanceRead(rb, n) /\ UNCHANGED out

(* The caller stores the bytes into the cells itself, then advances. *)
FillCells(s) ==
  [rb EXCEPT !.buf = [i \in Index |->
     IF \E k \in 1 .. Len(s) : UpdateIndex(rb.w, k - 1) = i
     THEN s[CHOOSE k \in 1 .. Len(s) : UpdateIndex(rb.w, k - 1) = i]
     ELSE rb.buf[i]]]

AdvanceWrite(s) ==
  /\ rb' = RingBufAdvanceWrite(FillCells(s), Len(s))
  /\ UNCHANGED out

Flush == rb' = RingBufFlush(rb) /\ UNCHANGED out

Next ==
  \/ \E s \in Chunk : Write(s) \/ AdvanceWrite(s)
  \/ \E n \in 1 .. Size : Read(n) \/ AdvanceRead(n)
  \/ Flush

Spec == Init /\ [][Next]_vars

-----------------------------------------------------------------------------
MinOf(a, b) == IF a <= b THEN a ELSE b

(* The two contiguous-run queries (341-418) answer exactly the longest run *)
(* a caller may copy without wrapping and without overrunning the other    *)
(* index, and the full and empty tests agree with the byte counts.         *)
QueriesAgree ==
  /\ RingBufContigUsed(rb) = MinOf(RingBufUsed(rb), Size - rb.r)
  /\ RingBufContigFree(rb) = MinOf(RingBufFree(rb), Size - rb.w)
  /\ RingBufFull(rb) <=> RingBufFree(rb) = 0
  /\ RingBufEmpty(rb) <=> RingBufUsed(rb) = 0

(* The calls, within their contracts, are those of a bounded FIFO queue:   *)
(* nothing is lost, duplicated or reordered by the wrap of either index,   *)
(* and RingBufAdvanceWrite keeps the newest Size - 1 bytes.                *)
Queue == INSTANCE ByteQueue
           WITH queue <- Contents(rb), Capacity <- Size - 1, Elements <- Payload

FIFO == Queue!QSpec
=============================================================================
