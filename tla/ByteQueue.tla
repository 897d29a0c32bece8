----------------------------- MODULE ByteQueue -----------------------------
(***************************************************************************)
(* What a ring buffer promises its callers: a bounded first-in first-out   *)
(* queue of bytes.  out holds the bytes the latest read delivered.         *)
(***************************************************************************)
EXTENDS Integers, Sequences

CONSTANTS Capacity, Elements

VARIABLES queue, out

Newest(s, n) ==
  IF Len(s) <= n THEN s ELSE SubSeq(s, Len(s) - n + 1, Len(s))

QInit == queue = << >> /\ out = << >>

(* Accepts only what fits. *)
Put(s) ==
  /\ Len(queue) + Len(s) <= Capacity
  /\ queue' = queue \o s
  /\ UNCHANGED out

(* Accepts anything and keeps the newest bytes. *)
PutDiscarding(s) ==
  /\ queue' = Newest(queue \o s, Capacity)
  /\ UNCHANGED out

(* Delivers the oldest n bytes. *)
Get(n) ==
  /\ n <= Len(queue)
  /\ out' = SubSeq(queue, 1, n)
  /\ queue' = SubSeq(queue, n + 1, Len(queue))

(* Drops the oldest bytes, at most all of them. *)
Drop(n) ==
  /\ queue' = IF n >= Len(queue) THEN << >> ELSE SubSeq(queue, n + 1, Len(queue))
  /\ UNCHANGED out

Clear == queue' = << >> /\ UNCHANGED out

Chunks == UNION {[1 .. n -> Elements] : n \in 0 .. Capacity + 1}

QNext ==
  \/ \E s \in Chunks : Put(s) \/ PutDiscarding(s)
  \/ \E n \in 0 .. Capacity + 1 : Get(n) \/ Drop(n)
  \/ Clear

QSpec == QInit /\ [][QNext]_<<queue, out>>
=============================================================================
