------------------------------ MODULE RingBuf ------------------------------
(***************************************************************************)
(* The ring buffer of socket/ringbuf.c as operators on a record            *)
(*   [buf |-> pui8Buf, r |-> ui32ReadIndex, w |-> ui32WriteIndex].         *)
(* Every call is one step here; RingThreads.tla splits the calls into the  *)
(* loads and stores two threads can interleave.  The ASSERTs of the source *)
(* are commented out, so no operator has a guard: what a call does outside *)
(* its contract (writing into a full ring, reading from an empty one) is   *)
(* what the built program does.                                            *)
(***************************************************************************)
EXTENDS Integers, Sequences, SequencesExt

CONSTANTS Size,    \* ui32Size: TR_BUFFER_SIZE in the program
          Byte,    \* the values a cell can hold
          NoByte   \* what the cells hold before the first write (static memory)

ASSUME SizeAssumption == Size \in Nat /\ Size > 1
ASSUME ByteAssumption == NoByte \in Byte

Index == 0 .. Size - 1

Ring == [buf : [Index -> Byte], r : Index, w : Index]

RingBufInit == [buf |-> [i \in Index |-> NoByte], r |-> 0, w |-> 0]

(* UpdateIndexAtomic, its subtraction loop run to its end. *)
UpdateIndex(i, delta) == (i + delta) % Size

(* Mutant: the wrapped count is one short. *)
UsedOneShort(rb) ==
  IF rb.w >= rb.r THEN rb.w - rb.r ELSE Size - (rb.r - rb.w) - 1

RingBufUsed(rb) ==
  IF rb.w >= rb.r THEN rb.w - rb.r ELSE Size - (rb.r - rb.w)

RingBufFree(rb) == (Size - 1) - RingBufUsed(rb)

RingBufFull(rb) == (rb.w + 1) % Size = rb.r

RingBufEmpty(rb) == rb.w = rb.r

RingBufContigUsed(rb) ==
  IF rb.w >= rb.r THEN rb.w - rb.r ELSE Size - rb.r

RingBufContigFree(rb) ==
  IF rb.r > rb.w THEN (rb.r - rb.w) - 1
                 ELSE Size - rb.w - (IF rb.r = 0 THEN 1 ELSE 0)

RingBufFlush(rb) == [rb EXCEPT !.r = 0, !.w = 0]

(* The byte RingBufReadOne returns, and the ring it leaves. *)
FrontByte(rb) == rb.buf[rb.r]

RingBufReadOne(rb) == [rb EXCEPT !.r = UpdateIndex(@, 1)]

RingBufWriteOne(rb, b) ==
  [rb EXCEPT !.buf[rb.w] = b, !.w = UpdateIndex(@, 1)]

(* RingBufRead(n) copies n bytes from the read index on, fresh or stale. *)
BytesRead(rb, n) == [k \in 1 .. n |-> rb.buf[UpdateIndex(rb.r, k - 1)]]

RingBufRead(rb, n) == [rb EXCEPT !.r = UpdateIndex(@, n)]

RingBufWrite(rb, s) == FoldLeft(RingBufWriteOne, rb, s)

RingBufAdvanceRead(rb, n) ==
  [rb EXCEPT !.r = UpdateIndex(@, IF RingBufUsed(rb) < n THEN RingBufUsed(rb) ELSE n)]

(* One subtraction corrects the wrap. *)
Wrap(i) == IF i >= Size THEN i - Size ELSE i

(* Mutant: the read index is not pushed ahead of the write index. *)
AdvanceWriteOnly(rb, n) == [rb EXCEPT !.w = Wrap(rb.w + n)]

(* The read index is moved only when the caller added more than fits. *)
RingBufAdvanceWrite(rb, n) ==
  [rb EXCEPT !.w = Wrap(rb.w + n),
             !.r = IF RingBufFree(rb) < n THEN Wrap(Wrap(rb.w + n) + 1) ELSE @]

-----------------------------------------------------------------------------
(* The bytes waiting in the ring, oldest first. *)
Contents(rb) == BytesRead(rb, RingBufUsed(rb))

(* The ASSERTs of ringbuf.c that are commented out. *)
WriteContract(rb, n) == n <= RingBufFree(rb)
ReadContract(rb, n)  == n <= RingBufUsed(rb)
=============================================================================
