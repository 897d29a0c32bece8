---------------------------- MODULE RingThreads ----------------------------
(***************************************************************************)
(* The ring buffer of socket/ringbuf.c shared by two threads: the writer is *)
(* main()'s serial loop (RingBufWrite, and RingBufFlush when an escape      *)
(* succeeds), the reader is a socket thread (RingBufUsed, RingBufRead, and  *)
(* RingBufFlush when it connects or accepts).  No caller takes a lock, and  *)
(* every interrupt-disabling call of ringbuf.c is commented out.            *)
(*                                                                         *)
(* With Interruptible every load and store of an index is a step of its    *)
(* own, as the program is built; without it an index update and a flush    *)
(* are one step, as their comments promise.                                *)
(***************************************************************************)
EXTENDS Integers, Sequences

CONSTANTS Size,           \* ui32Size
          Word,           \* 2^32 in the program: indices wrap there
          MaxBytes,       \* bound: bytes the writer ever writes
          MaxChunk,       \* bound: bytes of one RingBufWrite
          MaxFlushes,     \* bound: calls of RingBufFlush
          Interruptible,  \* FALSE: IntMasterDisable() does what it says
          CallerChecks,   \* TRUE: callers honour ASSERT(len <= RingBufFree)
          Flushers        \* the threads that call RingBufFlush

Threads == {"writer", "reader"}

ASSUME SizeAssumption == Size \in Nat /\ Size > 1
ASSUME WordAssumption == Word \in Nat /\ Word > Size
ASSUME BoundAssumption ==
  /\ MaxBytes \in Nat
  /\ MaxChunk \in Nat
  /\ MaxFlushes \in Nat
ASSUME ModeAssumption ==
  /\ Interruptible \in BOOLEAN
  /\ CallerChecks \in BOOLEAN
  /\ Flushers \subseteq Threads

VARIABLES buf,      \* pui8Buf: the stamp of the byte in each cell, 0 at first
          idx,      \* ui32WriteIndex is idx["writer"], ui32ReadIndex idx["reader"]
          pc,       \* where each thread is
          tmp,      \* the value an index update or RingBufUsed has loaded
          todo,     \* the bytes left of the thread's RingBufRead or RingBufWrite
          got,      \* ui8Temp of RingBufReadOne
          written,  \* bytes written so far; byte k carries the stamp k
          out,      \* what the latest finished RingBufReadOne returned
          flushes   \* flushes begun

vars == <<buf, idx, pc, tmp, todo, got, written, out, flushes>>

Index == 0 .. Size - 1
Uint  == 0 .. Word - 1

(* Unsigned subtraction. *)
Minus(a, b) == IF a >= b THEN a - b ELSE a - b + Word

(* RingBufUsed and RingBufFree of two loaded indices. *)
UsedOf(w, r) == IF w >= r THEN w - r ELSE Minus(Size, r - w)
(* Mutant: no cell is kept free, so a full ring looks empty. *)
FreeNoSpare(w, r) == Minus(Size, UsedOf(w, r))

FreeOf(w, r) == Minus(Size - 1, UsedOf(w, r))

Goto(t, label) == pc' = [pc EXCEPT ![t] = label]

Init ==
  /\ buf = [i \in Index |-> 0]
  /\ idx = [t \in Threads |-> 0]
  /\ pc = [t \in Threads |-> "idle"]
  /\ tmp = [t \in Threads |-> 0]
  /\ todo = [t \in Threads |-> 0]
  /\ got = 0
  /\ written = 0
  /\ out = << >>
  /\ flushes = 0

-----------------------------------------------------------------------------
(* RingBufWrite of n bytes begins. *)
BeginWrite(n) ==
  /\ pc["writer"] = "idle"
  /\ written + n <= MaxBytes
  /\ CallerChecks => n <= FreeOf(idx["writer"], idx["reader"])
  /\ todo' = [todo EXCEPT !["writer"] = n]
  /\ Goto("writer", "access")
  /\ UNCHANGED <<buf, idx, tmp, got, written, out, flushes>>

(* RingBufUsed copies the write index, then the read index; its caller     *)
(* passes the count to RingBufRead.                                        *)
UsedLoadWrite ==
  /\ pc["reader"] = "idle"
  /\ tmp' = [tmp EXCEPT !["reader"] = idx["writer"]]
  /\ Goto("reader", "used")
  /\ UNCHANGED <<buf, idx, todo, got, written, out, flushes>>

UsedLoadRead ==
  /\ pc["reader"] = "used"
  /\ LET n == UsedOf(tmp["reader"], idx["reader"])
     IN  /\ todo' = [todo EXCEPT !["reader"] = n]
         /\ Goto("reader", IF n = 0 THEN "idle" ELSE "access")
  /\ UNCHANGED <<buf, idx, tmp, got, written, out, flushes>>

(* RingBufWriteOne stores its byte; RingBufReadOne copies one out. *)
Access(t) ==
  /\ pc[t] = "access"
  /\ \/ /\ t = "writer"
        /\ buf' = [buf EXCEPT ![idx[t]] = written + 1]
        /\ written' = written + 1
        /\ UNCHANGED got
     \/ /\ t = "reader"
        /\ got' = buf[idx[t]]
        /\ UNCHANGED <<buf, written>>
  /\ Goto(t, IF Interruptible THEN "load" ELSE "update")
  /\ UNCHANGED <<idx, tmp, todo, out, flushes>>

(* The byte is done: return it, and go on with the next one of the call. *)
FinishOne(t) ==
  /\ todo' = [todo EXCEPT ![t] = @ - 1]
  /\ Goto(t, IF todo[t] = 1 THEN "idle" ELSE "access")
  /\ out' = IF t = "reader" THEN <<got>> ELSE out

(* UpdateIndexAtomic as its comment describes it: not interrupted. *)
Update(t) ==
  /\ pc[t] = "update"
  /\ idx' = [idx EXCEPT ![t] = IF @ + 1 = Size THEN 0 ELSE @ + 1]
  /\ FinishOne(t)
  /\ UNCHANGED <<buf, tmp, got, written, flushes>>

(* UpdateIndexAtomic as built: adding to and subtracting from a volatile   *)
(* are a load and a store each, and the loop's condition loads again.      *)
AddLoad(t) ==
  /\ pc[t] = "load"
  /\ tmp' = [tmp EXCEPT ![t] = idx[t]]
  /\ Goto(t, "store")
  /\ UNCHANGED <<buf, idx, todo, got, written, out, flushes>>

AddStore(t) ==
  /\ pc[t] = "store"
  /\ idx' = [idx EXCEPT ![t] = tmp[t] + 1]
  /\ Goto(t, "while")
  /\ UNCHANGED <<buf, tmp, todo, got, written, out, flushes>>

WhileTest(t) ==
  /\ pc[t] = "while"
  /\ \/ /\ idx[t] >= Size
        /\ Goto(t, "subload")
        /\ UNCHANGED <<todo, out>>
     \/ /\ idx[t] < Size
        /\ FinishOne(t)
  /\ UNCHANGED <<buf, idx, tmp, got, written, flushes>>

SubLoad(t) ==
  /\ pc[t] = "subload"
  /\ tmp' = [tmp EXCEPT ![t] = idx[t]]
  /\ Goto(t, "substore")
  /\ UNCHANGED <<buf, idx, todo, got, written, out, flushes>>

(* Mutant: an if in place of the while, the condition is not tested again. *)
SubStoreOnce(t) ==
  /\ pc[t] = "substore"
  /\ idx' = [idx EXCEPT ![t] = Minus(tmp[t], Size)]
  /\ FinishOne(t)
  /\ UNCHANGED <<buf, tmp, got, written, flushes>>

SubStore(t) ==
  /\ pc[t] = "substore"
  /\ idx' = [idx EXCEPT ![t] = Minus(tmp[t], Size)]
  /\ Goto(t, "while")
  /\ UNCHANGED <<buf, tmp, todo, got, written, out, flushes>>

(* RingBufFlush: the write index is cleared first, then the read index. *)
FlushWrite(t) ==
  /\ t \in Flushers
  /\ flushes < MaxFlushes
  /\ pc[t] = "idle"
  /\ flushes' = flushes + 1
  /\ \/ /\ Interruptible
        /\ idx' = [idx EXCEPT !["writer"] = 0]
        /\ Goto(t, "flush")
     \/ /\ ~Interruptible
        /\ idx' = [u \in Threads |-> 0]
        /\ UNCHANGED pc
  /\ UNCHANGED <<buf, tmp, todo, got, written, out>>

FlushRead(t) ==
  /\ pc[t] = "flush"
  /\ idx' = [idx EXCEPT !["reader"] = 0]
  /\ Goto(t, "idle")
  /\ UNCHANGED <<buf, tmp, todo, got, written, out, flushes>>

Next ==
  \/ \E n \in 1 .. MaxChunk : BeginWrite(n)
  \/ UsedLoadWrite
  \/ UsedLoadRead
  \/ \E t \in Threads :
       \/ Access(t)
       \/ Update(t)
       \/ AddLoad(t)
       \/ AddStore(t)
       \/ WhileTest(t)
       \/ SubLoad(t)
       \/ SubStore(t)
       \/ FlushWrite(t)
       \/ FlushRead(t)

Spec == Init /\ [][Next]_vars

-----------------------------------------------------------------------------
Labels == {"idle", "used", "access", "update", "load", "store", "while",
           "subload", "substore", "flush"}

(* Every index is a machine word and every cell holds a byte.              *)
TypeOK ==
  /\ buf \in [Index -> Nat]
  /\ idx \in [Threads -> Uint]
  /\ pc \in [Threads -> Labels]
  /\ tmp \in [Threads -> Uint]
  /\ todo \in [Threads -> Nat]
  /\ got \in Nat
  /\ written \in Nat
  /\ out \in Seq(Nat)
  /\ flushes \in Nat

(* However updates and flushes of the two threads interleave, and however  *)
(* an index is corrupted on the way (a flush inside an update makes the    *)
(* subtraction of UpdateIndexAtomic underflow), pui8Buf[index] in          *)
(* RingBufReadOne and RingBufWriteOne never leaves the buffer.             *)
AccessInBounds == \A t \in Threads : pc[t] = "access" => idx[t] \in Index

(* An index on its way past the end of the buffer. *)
Settled(i) == IF i >= Size THEN i - Size ELSE i

(* With uninterrupted updates and callers inside their contract the ring   *)
(* is a first-in first-out queue between the two threads.                  *)
Unread == UsedOf(idx["writer"], idx["reader"])

Cell(k) == Settled(idx["reader"] + k - 1)

Waiting == [k \in 1 .. Unread |-> buf[Cell(k)]]

Queue == INSTANCE ByteQueue
           WITH queue <- Waiting,
                Capacity <- Size - 1,
                Elements <- 1 .. MaxBytes

FIFO == Queue!QSpec
=============================================================================
