----------------------------- MODULE WebProofs -----------------------------
(***************************************************************************)
(* Proofs about the web pages and the program that shares a file with them *)
(* (MCUpgrades): the posted forms (WebForm), for any forms, pages and      *)
(* sizes, and the remote manager and the firmware page (RemoteManager,     *)
(* WebPage, Upgrades), for any commands, queries, counts and number of web *)
(* processes.                                                              *)
(***************************************************************************)
EXTENDS MCUpgrades, FiniteSetTheorems, SequenceTheorems, TLAPS

-----------------------------------------------------------------------------
(***************************************************************************)
(* The forms.  A posted form is cut at the same places where it was put    *)
(* together, each piece decodes to what was encoded, and the page is       *)
(* turned into its answer item by item.                                    *)
(***************************************************************************)
(* A set of numbers has its least. *)
LEMMA MinIsLeast ==
  ASSUME NEW D \in SUBSET Nat, D # {}
  PROVE  Min(D) \in D /\ \A y \in D : Min(D) <= y
  <1> DEFINE T == {0 .. x : x \in D}
  <1>1. T \subseteq FiniteSubsetsOf(Nat)
    <2>1. ASSUME NEW x \in D PROVE 0 .. x \subseteq Nat /\ IsFiniteSet(0 .. x)
      BY FS_Interval
    <2>2. QED
      BY <2>1 DEF FiniteSubsetsOf
  <1>2. IsWellFoundedOn(StrictSubsetOrdering(Nat), FiniteSubsetsOf(Nat))
    BY FS_StrictSubsetOrderingWellFounded
  <1>3. T # {}
    OBVIOUS
  <1>4. PICK m \in T : \A t \in T : <<t, m>> \notin StrictSubsetOrdering(Nat)
    <2> HIDE DEF T
    <2>1. QED
      BY <1>1, <1>2, <1>3, WFMin
  <1>5. PICK x \in D : m = 0 .. x
    BY <1>4
  <1>6. ASSUME NEW y \in D PROVE x <= y
    <2>1. SUFFICES ASSUME y < x PROVE FALSE
      OBVIOUS
    <2>2. 0 .. y \subseteq 0 .. x /\ x \in 0 .. x /\ x \notin 0 .. y
      BY <2>1
    <2>3. <<0 .. y, m>> \in StrictSubsetOrdering(Nat)
      BY <1>5, <2>2 DEF StrictSubsetOrdering
    <2>4. QED
      BY <1>4, <2>3
  <1>7. QED
    BY <1>5, <1>6 DEF Min

LEMMA SameTexts ==
  ASSUME NEW T, NEW s \in Seq(T), NEW t \in Seq(T), Len(s) = Len(t),
         \A k \in 1 .. Len(s) : s[k] = t[k]
  PROVE  s = t
  OBVIOUS

LEMMA Joined ==
  ASSUME NEW T, NEW s \in Seq(T), NEW t \in Seq(T)
  PROVE  /\ s \o t \in Seq(T) /\ Len(s \o t) = Len(s) + Len(t)
         /\ \A i \in 1 .. Len(s) + Len(t) :
              (s \o t)[i] = IF i <= Len(s) THEN s[i] ELSE t[i - Len(s)]
  OBVIOUS

LEMMA NoneJoined ==
  ASSUME NEW T, NEW s \in Seq(T)
  PROVE  << >> \o s = s /\ s \o << >> = s
  OBVIOUS

LEMMA Sliced ==
  ASSUME NEW T, NEW s \in Seq(T), NEW m \in 1 .. Len(s) + 1, NEW n \in m - 1 .. Len(s)
  PROVE  /\ SubSeq(s, m, n) \in Seq(T) /\ Len(SubSeq(s, m, n)) = n - m + 1
         /\ \A i \in 1 .. n - m + 1 : SubSeq(s, m, n)[i] = s[m + i - 1]
  OBVIOUS

Put(u, s, t) ==
  /\ u = s \o t /\ Len(u) = Len(s) + Len(t)
  /\ \A i \in 1 .. Len(s) : u[i] = s[i]
  /\ \A i \in 1 .. Len(t) : u[Len(s) + i] = t[i]

LEMMA JoinedTo ==
  ASSUME NEW T, NEW s \in Seq(T), NEW t \in Seq(T)
  PROVE  \E u \in Seq(T) : Put(u, s, t)
  <1>1. s \o t \in Seq(T) /\ Len(s \o t) = Len(s) + Len(t)
    OBVIOUS
  <1>2. \A i \in 1 .. Len(s) : (s \o t)[i] = s[i]
    OBVIOUS
  <1>3. \A i \in 1 .. Len(t) : (s \o t)[Len(s) + i] = t[i]
    OBVIOUS
  <1>4. QED
    BY <1>1, <1>2, <1>3, Zenon DEF Put

Slice(u, s, m, n) ==
  /\ u = SubSeq(s, m, n) /\ Len(u) = n - m + 1
  /\ \A i \in 1 .. n - m + 1 : u[i] = s[m + i - 1]

LEMMA SlicedTo ==
  ASSUME NEW T, NEW s \in Seq(T), NEW m \in 1 .. Len(s) + 1, NEW n \in m - 1 .. Len(s)
  PROVE  \E u \in Seq(T) : Slice(u, s, m, n)
  <1>1. /\ SubSeq(s, m, n) \in Seq(T) /\ Len(SubSeq(s, m, n)) = n - m + 1
        /\ \A i \in 1 .. n - m + 1 : SubSeq(s, m, n)[i] = s[m + i - 1]
    BY Sliced
  <1>2. QED
    BY <1>1, Zenon DEF Slice

-----------------------------------------------------------------------------
(* Pieces put after each other: the parts of FlattenSeq, one after the     *)
(* other.                                                                  *)
Flat(fl, seqs) ==
  /\ \A i \in 0 .. Len(seqs) : fl[i] \in Seq(Nat)
  /\ fl[0] = << >> /\ \A i \in 1 .. Len(seqs) : fl[i] = fl[i - 1] \o seqs[i]

(* Up to n. *)
FlatTo(fl, seqs, n) ==
  /\ \A i \in 0 .. n : fl[i] \in Seq(Nat)
  /\ fl[0] = << >> /\ \A i \in 1 .. n : fl[i] = fl[i - 1] \o seqs[i]

LEMMA FlatExists ==
  ASSUME NEW seqs \in Seq(Seq(Nat))
  PROVE  \A n \in 0 .. Len(seqs) : \E fl : FlatTo(fl, seqs, n)
  <1> DEFINE Odd == {n \in 0 .. Len(seqs) : ~ \E fl : FlatTo(fl, seqs, n)}
  <1> SUFFICES ASSUME Odd # {} PROVE FALSE
    OBVIOUS
  <1>1. PICK n \in Odd : \A y \in Odd : n <= y
    <2>1. Odd \in SUBSET Nat
      OBVIOUS
    <2> HIDE DEF Odd
    <2>2. QED
      BY <2>1, MinIsLeast
  <1>2. n \in 0 .. Len(seqs) /\ n \in Nat /\ ~ \E fl : FlatTo(fl, seqs, n)
    BY <1>1
  <1>3. CASE n = 0
    <2>1. FlatTo([i \in {0} |-> << >>], seqs, 0)
      BY DEF FlatTo
    <2>2. QED
      BY <1>2, <1>3, <2>1
  <1>4. CASE n # 0
    <2>1. n - 1 \in 0 .. Len(seqs) /\ ~(n <= n - 1)
      BY <1>2, <1>4
    <2>2. n - 1 \notin Odd
      BY <1>1, <2>1, Zenon
    <2>3. PICK g : FlatTo(g, seqs, n - 1)
      BY <2>1, <2>2
    <2>4. g[n - 1] \in Seq(Nat) /\ seqs[n] \in Seq(Nat)
      BY <1>2, <1>4, <2>1, <2>3 DEF FlatTo
    <2>5. PICK x \in Seq(Nat) : x = g[n - 1] \o seqs[n]
      <3>1. g[n - 1] \o seqs[n] \in Seq(Nat)
        BY <2>4, Joined, Zenon
      <3>2. QED
        BY <3>1, Zenon
    <2> DEFINE h == [i \in 0 .. n |-> IF i = n THEN x ELSE g[i]]
    <2>6. h[n] = x /\ h[0] = << >> /\ \A i \in 0 .. n - 1 : h[i] = g[i] /\ h[i] \in Seq(Nat)
      BY <1>2, <1>4, <2>3 DEF FlatTo
    <2> HIDE DEF h
    <2>7. \A i \in 1 .. n : h[i] = h[i - 1] \o seqs[i]
      <3> TAKE i \in 1 .. n
      <3>1. CASE i = n
        <4>1. h[n - 1] = g[n - 1]
          <5>1. n - 1 \in 0 .. n - 1
            BY <1>2, <1>4
          <5>2. QED
            BY <2>6, <5>1, Zenon
        <4>2. QED
          BY <2>5, <2>6, <3>1, <4>1
      <3>2. CASE i # n
        <4>1. i \in 1 .. n - 1 /\ i \in 0 .. n - 1 /\ i - 1 \in 0 .. n - 1
          BY <1>2, <3>2
        <4>2. g[i] = g[i - 1] \o seqs[i]
          BY <2>3, <4>1 DEF FlatTo
        <4>3. QED
          BY <2>6, <4>1, <4>2
      <3>3. QED
        BY <3>1, <3>2
    <2>8. \A i \in 0 .. n : h[i] \in Seq(Nat)
      <3> TAKE i \in 0 .. n
      <3>1. i = n \/ i \in 0 .. n - 1
        BY <1>2
      <3>2. QED
        BY <2>5, <2>6, <3>1
    <2>9. FlatTo(h, seqs, n)
      BY <2>6, <2>7, <2>8 DEF FlatTo
    <2>10. QED
      BY <1>2, <2>9
  <1>5. QED
    BY <1>3, <1>4

LEMMA FlatRuns ==
  ASSUME NEW seqs \in Seq(Seq(Nat))
  PROVE  \E fl : Flat(fl, seqs) /\ FlattenSeq(seqs) = fl[Len(seqs)]
  <1>1. Len(seqs) \in Nat /\ Len(seqs) \in 0 .. Len(seqs)
    OBVIOUS
  <1>2. PICK g : FlatTo(g, seqs, Len(seqs))
    BY <1>1, FlatExists
  <1>3. Flat(g, seqs)
    BY <1>2 DEF Flat, FlatTo
  <1>4. CASE Len(seqs) = 0
    <2>1. FlattenSeq(seqs) = << >>
      BY <1>4 DEF FlattenSeq
    <2>2. QED
      BY <1>3, <1>4, <2>1 DEF Flat
  <1>5. CASE Len(seqs) # 0
    <2> DEFINE v == CHOOSE f : f = [i \in 1 .. Len(seqs) |->
                      IF i = 1 THEN seqs[i] ELSE f[i - 1] \o seqs[i]]
               w == [i \in 1 .. Len(seqs) |-> g[i]]
    <2>1. FlattenSeq(seqs) = v[Len(seqs)]
      BY <1>5 DEF FlattenSeq
    <2>2. \A i \in 1 .. Len(seqs) : w[i] = IF i = 1 THEN seqs[i] ELSE w[i - 1] \o seqs[i]
      <3> TAKE i \in 1 .. Len(seqs)
      <3>1. g[i] = g[i - 1] \o seqs[i] /\ g[0] = << >>
        BY <1>2, Zenon DEF FlatTo
      <3>2. seqs[i] \in Seq(Nat)
        OBVIOUS
      <3>3. CASE i = 1
        <4>1. g[1 - 1] = << >> /\ << >> \o seqs[i] = seqs[i]
          BY <3>1, <3>2, NoneJoined
        <4>2. w[i] = g[i]
          OBVIOUS
        <4> HIDE DEF w
        <4>3. QED
          BY <3>1, <3>3, <4>1, <4>2
      <3>4. CASE i # 1
        <4>1. i - 1 \in 1 .. Len(seqs)
          BY <1>1, <3>4
        <4>2. w[i] = g[i] /\ w[i - 1] = g[i - 1]
          BY <4>1
        <4> HIDE DEF w
        <4>3. QED
          BY <3>1, <3>4, <4>2
      <3>5. QED
        BY <3>3, <3>4
    <2>3. w = [i \in 1 .. Len(seqs) |-> IF i = 1 THEN seqs[i] ELSE w[i - 1] \o seqs[i]]
      BY <2>2
    <2> HIDE DEF w
    <2>4. v = [i \in 1 .. Len(seqs) |-> IF i = 1 THEN seqs[i] ELSE v[i - 1] \o seqs[i]]
      BY <2>3
    <2> HIDE DEF v
    <2> DEFINE Odd == {i \in 1 .. Len(seqs) : v[i] # g[i]}
    <2>5. Odd = {}
      <3> SUFFICES ASSUME Odd # {} PROVE FALSE
        OBVIOUS
      <3>1. PICK i \in Odd : \A y \in Odd : i <= y
        <4>1. Odd \in SUBSET Nat
          OBVIOUS
        <4> HIDE DEF Odd
        <4>2. QED
          BY <4>1, MinIsLeast
      <3>2. i \in 1 .. Len(seqs) /\ v[i] # g[i]
        BY <3>1
      <3>3. g[i] = g[i - 1] \o seqs[i] /\ g[0] = << >>
        BY <1>2, <3>2, Zenon DEF FlatTo
      <3>4. seqs[i] \in Seq(Nat)
        BY <3>2
      <3>5. CASE i = 1
        <4>1. v[i] = seqs[i]
          BY <2>4, <3>2, <3>5
        <4>2. g[1 - 1] = << >> /\ << >> \o seqs[i] = seqs[i]
          BY <3>3, <3>4, NoneJoined
        <4>3. g[i] = seqs[i]
          BY <3>3, <3>5, <4>2
        <4>4. QED
          BY <3>2, <4>1, <4>3
      <3>6. CASE i # 1
        <4>1. i - 1 \in 1 .. Len(seqs) /\ ~(i <= i - 1)
          BY <1>1, <3>2, <3>6, SMTT(30)
        <4>2. v[i - 1] = g[i - 1]
          BY <3>1, <4>1, SMTT(30)
        <4>3. v[i] = v[i - 1] \o seqs[i]
          BY <2>4, <3>2, <3>6
        <4>4. QED
          BY <3>2, <3>3, <4>2, <4>3
      <3>7. QED
        BY <3>5, <3>6
    <2>6. v[Len(seqs)] = g[Len(seqs)]
      <3>1. Len(seqs) \in 1 .. Len(seqs)
        BY <1>1, <1>5
      <3>2. Len(seqs) \notin Odd
        <4> HIDE DEF Odd
        <4>1. QED
          BY <2>5
      <3>3. QED
        BY <3>1, <3>2, Zenon
    <2>7. QED
      BY <1>3, <2>1, <2>6
  <1>6. QED
    BY <1>4, <1>5

(* A part stays where it was put. *)
Stays(fl, i, j) == Len(fl[i]) <= Len(fl[j]) /\ \A k \in 1 .. Len(fl[i]) : fl[j][k] = fl[i][k]

LEMMA FlatPrefix ==
  ASSUME NEW seqs \in Seq(Seq(Nat)), NEW fl, Flat(fl, seqs), NEW i \in 0 .. Len(seqs)
  PROVE  \A j \in i .. Len(seqs) : Stays(fl, i, j)
  <1> DEFINE Good(j) == Len(fl[i]) <= Len(fl[j]) /\ \A k \in 1 .. Len(fl[i]) : fl[j][k] = fl[i][k]
             Odd == {j \in i .. Len(seqs) : ~Good(j)}
  <1> SUFFICES ASSUME Odd # {} PROVE FALSE
    BY DEF Stays
  <1>1. PICK j \in Odd : \A y \in Odd : j <= y
    <2>1. Odd \in SUBSET Nat
      OBVIOUS
    <2> HIDE DEF Odd
    <2>2. QED
      BY <2>1, MinIsLeast
  <1>2. j \in i .. Len(seqs) /\ ~Good(j)
    BY <1>1
  <1>3. \A x \in 0 .. Len(seqs) : fl[x] \in Seq(Nat)
    BY Zenon DEF Flat
  <1>4. PICK a \in Seq(Nat) : a = fl[i]
    BY <1>3
  <1>5. CASE j = i
    BY <1>2, <1>4, <1>5
  <1>6. CASE j # i
    <2>1. j - 1 \in i .. Len(seqs) /\ ~(j <= j - 1) /\ j \in 1 .. Len(seqs) /\ j - 1 \in 0 .. Len(seqs)
      BY <1>2, <1>6
    <2>2. Good(j - 1)
      <3>1. ASSUME ~Good(j - 1) PROVE FALSE
        <4>1. j - 1 \in Odd
          BY <2>1, <3>1, Zenon
        <4>2. QED
          BY <1>1, <2>1, <4>1, Zenon
      <3>2. QED
        BY <3>1, Zenon
    <2>3. fl[j] = fl[j - 1] \o seqs[j]
      BY <2>1, Zenon DEF Flat
    <2>4. PICK b \in Seq(Nat), c \in Seq(Nat) : b = fl[j - 1] /\ c = seqs[j]
      BY <1>3, <2>1, SMTT(30)
    <2>5. PICK d \in Seq(Nat) : /\ d = b \o c /\ Len(d) = Len(b) + Len(c)
                                /\ \A k \in 1 .. Len(b) + Len(c) :
                                     d[k] = IF k <= Len(b) THEN b[k] ELSE c[k - Len(b)]
      <3>1. /\ b \o c \in Seq(Nat) /\ Len(b \o c) = Len(b) + Len(c)
            /\ \A k \in 1 .. Len(b) + Len(c) :
                 (b \o c)[k] = IF k <= Len(b) THEN b[k] ELSE c[k - Len(b)]
        BY Joined, Zenon
      <3>2. QED
        BY <3>1, Zenon
    <2>6. d = fl[j]
      BY <2>3, <2>4, <2>5, Zenon
    <2>7. Len(a) <= Len(b) /\ \A k \in 1 .. Len(a) : b[k] = a[k]
      BY <1>4, <2>2, <2>4
    <2>8. Len(a) <= Len(d) /\ \A k \in 1 .. Len(a) : d[k] = a[k]
      BY <2>5, <2>7
    <2>9. QED
      BY <1>2, <1>4, <2>6, <2>8
  <1>7. QED
    BY <1>5, <1>6

(* Where each piece ends. *)
Layout(o, s, seqs) ==
  /\ o \in [0 .. Len(seqs) -> Nat] /\ o[0] = 0 /\ o[Len(seqs)] = Len(s)
  /\ \A i \in 1 .. Len(seqs) :
       /\ o[i] = o[i - 1] + Len(seqs[i]) /\ o[i] <= Len(s)
       /\ \A k \in 1 .. Len(seqs[i]) : s[o[i - 1] + k] = seqs[i][k]

LEMMA LaidOut ==
  ASSUME NEW seqs \in Seq(Seq(Nat))
  PROVE  FlattenSeq(seqs) \in Seq(Nat) /\ \E o : Layout(o, FlattenSeq(seqs), seqs)
  <1>1. PICK fl : Flat(fl, seqs) /\ FlattenSeq(seqs) = fl[Len(seqs)]
    BY FlatRuns
  <1>2. PICK m \in Nat : m = Len(seqs)
    OBVIOUS
  <1>3. \A x \in 0 .. m : fl[x] \in Seq(Nat)
    BY <1>1, <1>2, Zenon DEF Flat
  <1>4. PICK s \in Seq(Nat) : s = FlattenSeq(seqs) /\ s = fl[m]
    <2>1. m \in 0 .. m
      OBVIOUS
    <2>2. QED
      BY <1>1, <1>2, <1>3, <2>1, Zenon
  <1> DEFINE o == [i \in 0 .. m |-> Len(fl[i])]
  <1>5. o \in [0 .. m -> Nat]
    <2>1. \A i \in 0 .. m : Len(fl[i]) \in Nat
      BY <1>3
    <2>2. QED
      BY <2>1
  <1>6. o[0] = 0
    <2>1. fl[0] = << >>
      BY <1>1, Zenon DEF Flat
    <2>2. QED
      BY <2>1
  <1>7. o[m] = Len(s)
    BY <1>4
  <1>8. ASSUME NEW i \in 1 .. m
        PROVE  /\ o[i] = o[i - 1] + Len(seqs[i]) /\ o[i] <= Len(s)
               /\ \A k \in 1 .. Len(seqs[i]) : s[o[i - 1] + k] = seqs[i][k]
    <2>1. i \in 0 .. m /\ i - 1 \in 0 .. m /\ m \in i .. m /\ i \in 1 .. Len(seqs) /\
              i \in 0 .. Len(seqs)
      BY <1>2
    <2>2. PICK b \in Seq(Nat), c \in Seq(Nat), d \in Seq(Nat) : b = fl[i - 1] /\ c = seqs[i] /\
                   d = fl[i]
      BY <1>2, <1>3, <2>1
    <2>3. fl[i] = fl[i - 1] \o seqs[i]
      BY <1>1, <2>1, Zenon DEF Flat
    <2>4. d = b \o c
      BY <2>2, <2>3, Zenon
    <2>5. /\ Len(d) = Len(b) + Len(c)
          /\ \A k \in 1 .. Len(b) + Len(c) :
                 d[k] = IF k <= Len(b) THEN b[k] ELSE c[k - Len(b)]
      BY <2>4, Joined, Zenon
    <2>6. Len(d) <= Len(s) /\ \A k \in 1 .. Len(d) : s[k] = d[k]
      <3>1. \A j \in i .. Len(seqs) : Stays(fl, i, j)
        BY <1>1, <2>1, FlatPrefix, Zenon
      <3>2. m \in i .. Len(seqs)
        BY <1>2, <2>1
      <3>3. Stays(fl, i, m)
        BY <3>1, <3>2, Zenon
      <3>4. QED
        BY <1>4, <2>2, <3>3, Zenon DEF Stays
    <2>7. o[i] = Len(d) /\ o[i - 1] = Len(b)
      BY <2>1, <2>2
    <2> HIDE DEF o
    <2>8. Len(b) \in Nat /\ Len(c) \in Nat
      OBVIOUS
    <2>9. ASSUME NEW k \in 1 .. Len(c) PROVE s[Len(b) + k] = c[k]
      <3>1. Len(b) + k \in 1 .. Len(d) /\ Len(b) + k \in 1 .. Len(b) + Len(c)
            /\ ~(Len(b) + k <= Len(b)) /\ Len(b) + k - Len(b) = k
        BY <2>5, <2>8
      <3>2. PICK p \in 1 .. Len(d) : p = Len(b) + k /\ ~(p <= Len(b)) /\ p - Len(b) = k
        BY <3>1
      <3>3. s[p] = d[p]
        BY <2>6
      <3>4. d[p] = c[k]
        BY <2>5, <3>2
      <3>5. QED
        BY <3>2, <3>3, <3>4
    <2>10. QED
      BY <2>2, <2>5, <2>6, <2>7, <2>9
  <1> HIDE DEF o
  <1>9. Layout(o, s, seqs)
    BY <1>2, <1>5, <1>6, <1>7, <1>8 DEF Layout
  <1>10. QED
    BY <1>4, <1>9

-----------------------------------------------------------------------------
(* What First finds. *)
LEMMA FirstIs ==
  ASSUME NEW s \in Seq(Nat), NEW from \in 1 .. Len(s) + 1, NEW b
  PROVE  \/ First(s, from, b) = 0 /\ \A i \in from .. Len(s) : s[i] # b
         \/ /\ First(s, from, b) \in from .. Len(s) /\ s[First(s, from, b)] = b
            /\ \A i \in from .. First(s, from, b) - 1 : s[i] # b
  <1>1. PICK n \in Nat : n = Len(s) /\ from \in 1 .. n + 1 /\ n \in from - 1 .. Len(s) /\ Len(s) \in Nat
    OBVIOUS
  <1>2. PICK t \in Seq(Nat) : /\ t = SubSeq(s, from, Len(s)) /\ Len(t) = n - from + 1
                              /\ \A i \in 1 .. n - from + 1 : t[i] = s[from + i - 1]
    <2>1. n \in from - 1 .. Len(s)
      BY <1>1
    <2>2. /\ SubSeq(s, from, n) \in Seq(Nat) /\ Len(SubSeq(s, from, n)) = n - from + 1
          /\ \A i \in 1 .. n - from + 1 : SubSeq(s, from, n)[i] = s[from + i - 1]
      BY <2>1, Sliced
    <2>3. QED
      BY <1>1, <2>2, Zenon
  <1> DEFINE I == {i \in 1 .. Len(t) : t[i] = b}
  <1>3. First(s, from, b) = IF (IF I # {} THEN Min(I) ELSE 0) = 0 THEN 0
                            ELSE from + (IF I # {} THEN Min(I) ELSE 0) - 1
    BY <1>2 DEF First, SelectInSeq
  <1>4. I \in SUBSET Nat
    OBVIOUS
  <1>5. \A i \in from .. n : i - from + 1 \in 1 .. Len(t) /\ t[i - from + 1] = s[i]
    <2> TAKE i \in from .. n
    <2>1. i - from + 1 \in 1 .. n - from + 1 /\ from + (i - from + 1) - 1 = i
      BY <1>1
    <2>2. PICK j \in 1 .. n - from + 1 : j = i - from + 1 /\ from + j - 1 = i
      BY <2>1
    <2>3. t[j] = s[i]
      BY <1>2, <2>2
    <2>4. QED
      BY <1>2, <2>2, <2>3
  <1>6. CASE I = {}
    <2>1. First(s, from, b) = 0
      BY <1>3, <1>6
    <2>2. ASSUME NEW i \in from .. n PROVE s[i] # b
      BY <1>5, <1>6
    <2>3. QED
      BY <1>1, <2>1, <2>2
  <1>7. CASE I # {}
    <2>1. PICK m : m = Min(I) /\ m \in I /\ \A y \in I : m <= y
      <3> HIDE DEF I
      <3>1. QED
        BY <1>4, <1>7, MinIsLeast
    <2>2. m \in 1 .. Len(t) /\ t[m] = b
      BY <2>1
    <2>3. m \in 1 .. n - from + 1 /\ m \in Nat /\ m # 0
      BY <1>2, <2>2
    <2>4. PICK q \in from .. n : q = from + m - 1 /\ m = q - from + 1
      BY <1>1, <2>3
    <2>5. First(s, from, b) = q
      <3> HIDE DEF I
      <3>1. QED
        BY <1>3, <1>7, <2>1, <2>3, <2>4
    <2>6. s[q] = b
      BY <1>2, <2>2, <2>3, <2>4
    <2>7. ASSUME NEW i \in from .. q - 1 PROVE s[i] # b
      <3>1. i \in from .. n /\ i - from + 1 < m
        BY <1>1, <2>3, <2>4
      <3>2. PICK j \in 1 .. Len(t) : j = i - from + 1 /\ t[j] = s[i] /\ j < m
        BY <1>5, <3>1
      <3>3. j \notin I
        <4> HIDE DEF I
        <4>1. ~(m <= j)
          BY <2>3, <3>2
        <4>2. QED
          BY <2>1, <4>1, Zenon
      <3>4. QED
        BY <3>2, <3>3
    <2>8. q \in from .. Len(s)
      BY <1>1
    <2> HIDE DEF I
    <2>9. QED
      BY <2>5, <2>6, <2>7, <2>8
  <1>8. QED
    BY <1>6, <1>7

LEMMA FirstAt ==
  ASSUME NEW s \in Seq(Nat), NEW from \in 1 .. Len(s) + 1, NEW b, NEW j \in from .. Len(s), s[j] = b,
         \A i \in from .. j - 1 : s[i] # b
  PROVE  First(s, from, b) = j
  <1>1. PICK k : k = First(s, from, b)
    OBVIOUS
  <1>2. \/ k = 0 /\ \A i \in from .. Len(s) : s[i] # b
        \/ k \in from .. Len(s) /\ s[k] = b /\ \A i \in from .. k - 1 : s[i] # b
    <2>1. \/ First(s, from, b) = 0 /\ \A i \in from .. Len(s) : s[i] # b
          \/ /\ First(s, from, b) \in from .. Len(s) /\ s[First(s, from, b)] = b
             /\ \A i \in from .. First(s, from, b) - 1 : s[i] # b
      BY FirstIs
    <2>2. QED
      BY <1>1, <2>1, Zenon
  <1>3. k \in from .. Len(s) /\ s[k] = b /\ \A i \in from .. k - 1 : s[i] # b
    BY <1>2
  <1>4. ~(k < j) /\ ~(j < k)
    <2>1. ASSUME k < j PROVE FALSE
      <3>1. k \in from .. j - 1
        BY <1>3, <2>1
      <3>2. QED
        BY <1>3, <3>1
    <2>2. ASSUME j < k PROVE FALSE
      <3>1. j \in from .. k - 1
        BY <1>3, <2>2
      <3>2. QED
        BY <1>3, <3>1
    <2>3. QED
      BY <2>1, <2>2
  <1>5. QED
    BY <1>1, <1>3, <1>4

LEMMA FirstNone ==
  ASSUME NEW s \in Seq(Nat), NEW from \in 1 .. Len(s) + 1, NEW b, \A i \in from .. Len(s) : s[i] # b
  PROVE  First(s, from, b) = 0
  <1>1. PICK k : k = First(s, from, b)
    OBVIOUS
  <1>2. k = 0 \/ (k \in from .. Len(s) /\ s[k] = b)
    BY <1>1, FirstIs, Zenon
  <1>3. QED
    BY <1>1, <1>2

(* A set of numbers up to n has its greatest. *)
LEMMA Greatest ==
  ASSUME NEW n \in Nat, NEW D \in SUBSET (0 .. n), D # {}
  PROVE  \E m \in D : \A y \in D : y <= m
  <1> DEFINE E == {n - x : x \in D}
  <1>1. E \in SUBSET Nat /\ E # {}
    <2>1. \A x \in D : n - x \in Nat
      OBVIOUS
    <2>2. QED
      BY <2>1
  <1>2. PICK e \in E : \A y \in E : e <= y
    <2> HIDE DEF E
    <2>1. QED
      BY <1>1, MinIsLeast
  <1>3. PICK m \in D : e = n - m
    BY <1>2
  <1>4. ASSUME NEW y \in D PROVE y <= m
    <2>1. e <= n - y
      BY <1>2
    <2>2. y \in 0 .. n /\ m \in 0 .. n
      BY Zenon
    <2>3. QED
      BY <1>3, <2>1, <2>2
  <1>5. QED
    BY <1>4

-----------------------------------------------------------------------------
(* What cgi_string_convert makes of byte k and what follows.               *)
Piece(f, s, k) ==
  IF k > Len(s) THEN << >>
  ELSE IF s[k] = Percent THEN <<Octet(At(s, k + 1), At(s, k + 2))>> \o f[k + 3]
  ELSE IF s[k] = Plus THEN <<Space>> \o f[k + 1]
  ELSE <<s[k]>> \o f[k + 1]

LEMMA PiecesExist ==
  ASSUME NEW s \in Seq(Nat)
  PROVE  \E f : f = [k \in 1 .. Len(s) + 3 |-> Piece(f, s, k)]
  <1>1. PICK n \in Nat : n = Len(s) + 3 /\ Len(s) \in Nat
    OBVIOUS
  <1> DEFINE Up(f, m) == \A k \in m .. n : f[k] = Piece(f, s, k)
             Odd == {m \in 0 .. n + 1 : m # 0 /\ ~ \E f : Up(f, m)}
  <1>2. Odd = {}
    <2> SUFFICES ASSUME Odd # {} PROVE FALSE
      OBVIOUS
    <2>1. PICK m \in Odd : \A y \in Odd : y <= m
      <3>1. n + 1 \in Nat /\ Odd \in SUBSET (0 .. n + 1)
        BY <1>1
      <3> HIDE DEF Odd
      <3>2. QED
        BY <3>1, Greatest
    <2>2. m \in 0 .. n + 1 /\ m # 0 /\ ~ \E f : Up(f, m)
      BY <2>1
    <2>3. m # n + 1
      <3>1. ASSUME m = n + 1 PROVE Up(s, m)
        BY <1>1, <3>1
      <3>2. QED
        BY <2>2, <3>1
    <2>4. m \in 1 .. n /\ m + 1 \in 0 .. n + 1 /\ m + 1 # 0 /\ ~(m + 1 <= m)
      BY <1>1, <2>2, <2>3
    <2>5. PICK f : Up(f, m + 1)
      <3>1. m + 1 \notin Odd
        <4> HIDE DEF Odd
        <4>1. QED
          BY <2>1, <2>4, Zenon
      <3>2. QED
        BY <2>4, <3>1
    <2> DEFINE g == [k \in m .. n |-> IF k = m THEN Piece(f, s, m) ELSE f[k]]
    <2>6. g[m] = Piece(f, s, m) /\ \A k \in m + 1 .. n : g[k] = f[k]
      BY <1>1, <2>4
    <2> HIDE DEF g
    <2>7. \A k \in m .. n : Piece(g, s, k) = Piece(f, s, k)
      <3> TAKE k \in m .. n
      <3>1. CASE k > Len(s)
        BY <3>1 DEF Piece
      <3>2. CASE ~(k > Len(s))
        <4>1. k + 1 \in m + 1 .. n /\ k + 3 \in m + 1 .. n
          BY <1>1, <2>4, <3>2
        <4>2. g[k + 1] = f[k + 1] /\ g[k + 3] = f[k + 3]
          BY <2>6, <4>1
        <4>3. QED
          BY <4>2, Zenon DEF Piece
      <3>3. QED
        BY <3>1, <3>2
    <2>8. Up(g, m)
      <3> TAKE k \in m .. n
      <3>1. CASE k = m
        BY <2>6, <2>7, <3>1
      <3>2. CASE k # m
        <4>1. k \in m + 1 .. n
          BY <1>1, <2>4, <3>2
        <4>2. QED
          BY <2>5, <2>6, <2>7, <4>1
      <3>3. QED
        BY <3>1, <3>2
    <2>9. QED
      BY <2>2, <2>8
  <1>3. PICK f : Up(f, 1)
    <2>1. 1 \in 0 .. n + 1 /\ 1 # 0
      BY <1>1
    <2> HIDE DEF Up
    <2>2. QED
      BY <1>2, <2>1
  <1> DEFINE g == [k \in 1 .. n |-> f[k]]
  <1>4. \A k \in 1 .. n : g[k] = f[k]
    OBVIOUS
  <1>5. \A k \in 1 .. n : Piece(g, s, k) = Piece(f, s, k)
    <2> HIDE DEF g
    <2> TAKE k \in 1 .. n
    <2>1. CASE k > Len(s)
      BY <2>1 DEF Piece
    <2>2. CASE ~(k > Len(s))
      <3>1. k + 1 \in 1 .. n /\ k + 3 \in 1 .. n
        BY <1>1, <2>2
      <3>2. g[k + 1] = f[k + 1] /\ g[k + 3] = f[k + 3]
        BY <1>4, <3>1
      <3>3. QED
        BY <3>2, Zenon DEF Piece
    <2>3. QED
      BY <2>1, <2>2
  <1>6. g = [k \in 1 .. n |-> f[k]]
    OBVIOUS
  <1> HIDE DEF g
  <1>7. \A k \in 1 .. n : f[k] = Piece(g, s, k)
    BY <1>3, <1>5
  <1>8. g = [k \in 1 .. n |-> Piece(g, s, k)]
    <2>1. [k \in 1 .. n |-> f[k]] = [k \in 1 .. n |-> Piece(g, s, k)]
      BY <1>7, Zenon
    <2>2. QED
      BY <1>6, <2>1, Zenon
  <1>9. QED
    BY <1>1, <1>8

LEMMA ConvertRuns ==
  ASSUME NEW s \in Seq(Nat)
  PROVE  \E v : cgi_string_convert(s) = v[1] /\ \A k \in 1 .. Len(s) + 3 : v[k] = Piece(v, s, k)
  <1> DEFINE v == CHOOSE f : f = [k \in 1 .. Len(s) + 3 |->
                    IF k > Len(s) THEN << >>
                    ELSE IF s[k] = Percent THEN <<Octet(At(s, k + 1), At(s, k + 2))>> \o f[k + 3]
                    ELSE IF s[k] = Plus THEN <<Space>> \o f[k + 1]
                    ELSE <<s[k]>> \o f[k + 1]]
  <1>1. cgi_string_convert(s) = v[1]
    BY Zenon DEF cgi_string_convert
  <1>2. v = [k \in 1 .. Len(s) + 3 |-> Piece(v, s, k)]
    BY PiecesExist, Zenon DEF Piece
  <1> HIDE DEF v
  <1>3. QED
    BY <1>1, <1>2

(* Where the value's bytes end in the text that stands for it.             *)
DecodesTo(s, value, o) ==
  /\ o \in [0 .. Len(value) -> Nat] /\ o[0] = 0 /\ o[Len(value)] = Len(s)
  /\ \A i \in 1 .. Len(value) :
       \/ /\ o[i] = o[i - 1] + 1 /\ o[i] <= Len(s) /\ s[o[i]] \notin {Percent, Plus}
          /\ value[i] = s[o[i]]
       \/ o[i] = o[i - 1] + 1 /\ o[i] <= Len(s) /\ s[o[i]] = Plus /\ value[i] = Space
       \/ /\ o[i] = o[i - 1] + 3 /\ o[i] <= Len(s) /\ s[o[i] - 2] = Percent
          /\ value[i] = Octet(s[o[i] - 1], s[o[i]])

LEMMA Headed ==
  ASSUME NEW T, NEW s \in Seq(T), NEW j \in 1 .. Len(s)
  PROVE  <<s[j]>> \o SubSeq(s, j + 1, Len(s)) = SubSeq(s, j, Len(s))
  <1>1. PICK n \in Nat : n = Len(s) /\ j \in 1 .. n
    OBVIOUS
  <1>2. j + 1 \in 1 .. Len(s) + 1 /\ n \in j + 1 - 1 .. Len(s) /\ n - (j + 1) + 1 = n - j
    BY <1>1
  <1>3. PICK k \in 1 .. Len(s) + 1 : k = j + 1 /\ n \in k - 1 .. Len(s) /\ n - k + 1 = n - j
    BY <1>2
  <1>4. /\ SubSeq(s, k, n) \in Seq(T) /\ Len(SubSeq(s, k, n)) = n - k + 1
        /\ \A i \in 1 .. n - k + 1 : SubSeq(s, k, n)[i] = s[k + i - 1]
    BY <1>3, Sliced
  <1>5. PICK a \in Seq(T) : a = SubSeq(s, k, n) /\ Len(a) = n - k + 1
                            /\ \A i \in 1 .. n - k + 1 : a[i] = s[k + i - 1]
    BY <1>4, Zenon
  <1>6. j \in 1 .. Len(s) + 1 /\ n \in j - 1 .. Len(s)
    BY <1>1
  <1>7. /\ SubSeq(s, j, n) \in Seq(T) /\ Len(SubSeq(s, j, n)) = n - j + 1
        /\ \A i \in 1 .. n - j + 1 : SubSeq(s, j, n)[i] = s[j + i - 1]
    BY <1>6, Sliced
  <1>8. PICK b \in Seq(T) : b = SubSeq(s, j, n) /\ Len(b) = n - j + 1
                            /\ \A i \in 1 .. n - j + 1 : b[i] = s[j + i - 1]
    BY <1>7, Zenon
  <1>9. s[j] \in T
    OBVIOUS
  <1>10. PICK x \in T : x = s[j]
    BY <1>9, Zenon
  <1>11. <<x>> \in Seq(T) /\ Len(<<x>>) = 1 /\ <<x>>[1] = x
    OBVIOUS
  <1>12. PICK c \in Seq(T) : c = <<x>> /\ Len(c) = 1 /\ c[1] = x
    BY <1>11, Zenon
  <1>13. /\ c \o a \in Seq(T) /\ Len(c \o a) = Len(c) + Len(a)
         /\ \A i \in 1 .. Len(c) + Len(a) :
              (c \o a)[i] = IF i <= Len(c) THEN c[i] ELSE a[i - Len(c)]
    BY Joined, Zenon
  <1>14. PICK d \in Seq(T) : /\ d = c \o a /\ Len(d) = Len(c) + Len(a)
                             /\ \A i \in 1 .. Len(c) + Len(a) :
                                  d[i] = IF i <= Len(c) THEN c[i] ELSE a[i - Len(c)]
    BY <1>13, Zenon
  <1>15. Len(d) = Len(b)
    BY <1>3, <1>5, <1>8, <1>12, <1>14
  <1>16. \A i \in 1 .. Len(d) : d[i] = b[i]
    <2> TAKE i \in 1 .. Len(d)
    <2>1. CASE i = 1
      <3>1. d[1] = x
        BY <1>12, <1>14, <2>1
      <3>2. b[1] = s[j + 1 - 1] /\ j + 1 - 1 = j
        BY <1>1, <1>8
      <3>3. QED
        BY <1>10, <2>1, <3>1, <3>2
    <2>2. CASE i # 1
      <3>1. i - 1 \in 1 .. n - k + 1 /\ i \in 1 .. n - j + 1 /\ ~(i <= 1) /\ k + (i - 1) - 1 = j + i - 1
        BY <1>1, <1>3, <1>5, <1>12, <1>14, <2>2
      <3>2. PICK h \in 1 .. n - k + 1 : h = i - 1 /\ k + h - 1 = j + i - 1
        BY <3>1
      <3>3. d[i] = a[h]
        BY <1>12, <1>14, <3>1, <3>2
      <3>4. a[h] = s[k + h - 1]
        BY <1>5
      <3>5. b[i] = s[j + i - 1]
        BY <1>8, <3>1
      <3>6. QED
        BY <3>2, <3>3, <3>4, <3>5
    <2>3. QED
      BY <2>1, <2>2
  <1>17. d = b
    BY <1>15, <1>16, SameTexts
  <1>18. <<s[j]>> \o SubSeq(s, k, n) = SubSeq(s, j, n)
    BY <1>5, <1>8, <1>10, <1>12, <1>14, <1>17, Zenon
  <1>19. QED
    BY <1>1, <1>3, <1>18, Zenon

LEMMA DecodeIs ==
  ASSUME NEW s \in Seq(Nat), NEW value \in Seq(Nat), NEW o, DecodesTo(s, value, o)
  PROVE  cgi_string_convert(s) = value
  <1>1. PICK v : cgi_string_convert(s) = v[1] /\ \A k \in 1 .. Len(s) + 3 : v[k] = Piece(v, s, k)
    BY ConvertRuns
  <1>2. PICK n \in Nat : n = Len(value)
    OBVIOUS
  <1>3. PICK m \in Nat : m = Len(s)
    OBVIOUS
  <1>4. \A i \in 0 .. n : o[i] \in Nat
    BY <1>2 DEF DecodesTo
  <1> DEFINE Odd == {i \in 0 .. n : v[o[i] + 1] # SubSeq(value, i + 1, n)}
  <1>5. Odd = {}
    <2> SUFFICES ASSUME Odd # {} PROVE FALSE
      OBVIOUS
    <2>1. PICK i \in Odd : \A y \in Odd : y <= i
      <3>1. Odd \in SUBSET (0 .. n)
        OBVIOUS
      <3> HIDE DEF Odd
      <3>2. QED
        BY <3>1, Greatest
    <2>2. i \in 0 .. n /\ v[o[i] + 1] # SubSeq(value, i + 1, n)
      BY <2>1
    <2>3. CASE i = n
      <3>1. o[i] = m
        BY <1>2, <1>3, <2>3 DEF DecodesTo
      <3>2. m + 1 \in 1 .. Len(s) + 3 /\ m + 1 > Len(s)
        BY <1>3, SMTT(30)
      <3>3. v[m + 1] = Piece(v, s, m + 1) /\ Piece(v, s, m + 1) = << >>
        BY <1>1, <3>2 DEF Piece
      <3>4. SubSeq(value, n + 1, n) = << >>
        BY <1>2
      <3>5. QED
        BY <2>2, <2>3, <3>1, <3>3, <3>4
    <2>4. CASE i # n
      <3>1. i + 1 \in 1 .. n /\ i + 1 \in 0 .. n /\ ~(i + 1 <= i) /\ (i + 1) - 1 = i
        BY <1>2, <2>2, <2>4
      <3>2. PICK j \in 1 .. n : j = i + 1 /\ j \in 0 .. n /\ ~(j <= i) /\ j - 1 = i
        BY <3>1
      <3>3. v[o[j] + 1] = SubSeq(value, j + 1, n)
        <4>1. j \notin Odd
          <5> HIDE DEF Odd
          <5>1. QED
            BY <2>1, <3>2, Zenon
        <4>2. QED
          BY <3>2, <4>1
      <3>4. PICK p \in Nat, q \in Nat : p = o[i] /\ q = o[j]
        BY <1>4, <2>2, <3>2
      <3>5. \/ q = p + 1 /\ q <= m /\ s[q] \notin {Percent, Plus} /\ value[j] = s[q]
            \/ q = p + 1 /\ q <= m /\ s[q] = Plus /\ value[j] = Space
            \/ /\ q = p + 3 /\ q <= m /\ s[q - 2] = Percent
               /\ value[j] = Octet(s[q - 1], s[q])
        <4>1. \/ /\ o[j] = o[j - 1] + 1 /\ o[j] <= Len(s) /\ s[o[j]] \notin {Percent, Plus}
                 /\ value[j] = s[o[j]]
              \/ o[j] = o[j - 1] + 1 /\ o[j] <= Len(s) /\ s[o[j]] = Plus /\ value[j] = Space
              \/ /\ o[j] = o[j - 1] + 3 /\ o[j] <= Len(s) /\ s[o[j] - 2] = Percent
                 /\ value[j] = Octet(s[o[j] - 1], s[o[j]])
          BY <1>2, <3>2, Zenon DEF DecodesTo
        <4>2. o[j - 1] = p /\ o[j] = q /\ Len(s) = m
          BY <1>3, <3>2, <3>4
        <4>3. QED
          BY <4>1, <4>2, Zenon
      <3>6. p + 1 \in 1 .. Len(s) + 3 /\ ~(p + 1 > Len(s))
        <4>1. p + 1 <= m
          <5>1. (q = p + 1 \/ q = p + 3) /\ q <= m
            BY <3>5, Zenon
          <5>2. QED
            BY <5>1
        <4>2. p + 1 \in 1 .. m + 3 /\ ~(p + 1 > m)
          BY <4>1
        <4>3. QED
          BY <1>3, <4>2, Zenon
      <3>7. v[p + 1] = Piece(v, s, p + 1)
        BY <1>1, <3>6
      <3>8. v[p + 1] = <<value[j]>> \o v[q + 1]
        <4>1. CASE q = p + 1 /\ q <= m /\ s[q] \notin {Percent, Plus} /\ value[j] = s[q]
          BY <3>6, <3>7, <4>1, Zenon DEF Piece
        <4>2. CASE q = p + 1 /\ q <= m /\ s[q] = Plus /\ value[j] = Space
          <5>1. Plus # Percent
            BY DEF Plus, Percent
          <5>2. QED
            BY <3>6, <3>7, <4>2, <5>1, Zenon DEF Piece
        <4>3. CASE /\ q = p + 3 /\ q <= m /\ s[q - 2] = Percent
                   /\ value[j] = Octet(s[q - 1], s[q])
          <5>1. p + 1 = q - 2 /\ (p + 1) + 1 = q - 1 /\ (p + 1) + 2 = q /\ (p + 1) + 3 = q + 1
            BY <4>3
          <5>2. At(s, q - 1) = s[q - 1] /\ At(s, q) = s[q]
            BY <1>3, <4>3 DEF At
          <5>3. Piece(v, s, p + 1) = <<Octet(At(s, (p + 1) + 1), At(s, (p + 1) + 2))>> \o v[(p + 1) + 3]
            <6>1. s[p + 1] = Percent
              BY <4>3, <5>1
            <6>2. QED
              BY <3>6, <6>1, Zenon DEF Piece
          <5>4. QED
            BY <3>7, <4>3, <5>1, <5>2, <5>3, Zenon
        <4>4. QED
          BY <3>5, <4>1, <4>2, <4>3
      <3>9. <<value[j]>> \o SubSeq(value, j + 1, n) = SubSeq(value, j, n)
        BY <1>2, Headed, Zenon
      <3>10. QED
        BY <2>2, <3>2, <3>3, <3>4, <3>8, <3>9, Zenon
    <2>5. QED
      BY <2>3, <2>4
  <1>6. v[1] = SubSeq(value, 1, n)
    <2>1. v[o[0] + 1] = SubSeq(value, 0 + 1, n)
      <3>1. 0 \in 0 .. n
        OBVIOUS
      <3>2. QED
        BY <1>5, <3>1, Zenon
    <2>2. o[0] = 0 /\ 0 + 1 = 1
      BY DEF DecodesTo
    <2>3. QED
      BY <2>1, <2>2
  <1>7. SubSeq(value, 1, n) = value
    BY <1>2
  <1>8. QED
    BY <1>1, <1>6, <1>7

-----------------------------------------------------------------------------
(* A browser's text for a value stands for it.                             *)
LEMMA OctetOf ==
  ASSUME NEW b \in 0 .. 255
  PROVE  /\ Hex(b \div 16) \in 48 .. 70 /\ Hex(b % 16) \in 48 .. 70
         /\ Octet(Hex(b \div 16), Hex(b % 16)) = b
  <1>1. PICK d \in 0 .. 15, e \in 0 .. 15 : d = b \div 16 /\ e = b % 16 /\ b = 16 * d + e
    <2>1. b \in Nat
      OBVIOUS
    <2>2. b % 16 = b - 16 * (b \div 16) /\ b % 16 \in 0 .. 15
      BY <2>1
    <2>3. b \div 16 \in 0 .. 15
      OBVIOUS
    <2>4. PICK d \in 0 .. 15, e \in 0 .. 15 : d = b \div 16 /\ e = b % 16 /\ e = b - 16 * d
      BY <2>2, <2>3, Zenon
    <2>5. b = 16 * d + e
      BY <2>1, <2>4
    <2>6. QED
      BY <2>4, <2>5
  <1>2. \A x \in 0 .. 15 : Hex(x) \in 48 .. 70 /\ ConfigHexDigit(Hex(x)) = x
    BY DEF Hex, ConfigHexDigit
  <1>3. Hex(d) \in 48 .. 70 /\ Hex(e) \in 48 .. 70 /\ Octet(Hex(d), Hex(e)) = (16 * d + e) % 256
    BY <1>2 DEF Octet
  <1>4. (16 * d + e) % 256 = b
    BY <1>1
  <1>5. QED
    BY <1>1, <1>3, <1>4, Zenon

LEMMA MarksAre ==
  /\ Space = 32 /\ Percent = 37 /\ Amp = 38 /\ Quote = 39 /\ Plus = 43 /\ Eq = 61
  /\ Json = 300 /\ HeadFlag = 301 /\ TailFlag = 302
  BY DEF Space, Percent, Amp, Quote, Plus, Eq, Json, HeadFlag, TailFlag

(* The text of one byte. *)
Mark(b) ==
  IF b \in Letter THEN <<b>>
  ELSE IF b = Space THEN <<Plus>>
  ELSE <<Percent, Hex(b \div 16), Hex(b % 16)>>

LEMMA MarkIs ==
  ASSUME NEW b \in Byte
  PROVE  /\ Mark(b) \in Seq(Nat) /\ \A k \in 1 .. Len(Mark(b)) : Mark(b)[k] # Amp
         /\ \/ Len(Mark(b)) = 1 /\ Mark(b)[1] = b /\ b \notin {Percent, Plus}
            \/ Len(Mark(b)) = 1 /\ Mark(b)[1] = Plus /\ b = Space
            \/ /\ Len(Mark(b)) = 3 /\ Mark(b)[1] = Percent
               /\ b = Octet(Mark(b)[2], Mark(b)[3])
  <1>1. CASE b \in Letter
    <2>1. Mark(b) = <<b>>
      BY <1>1 DEF Mark
    <2>2. b \in Nat /\ b # Amp /\ b \notin {Percent, Plus}
      BY <1>1, MarksAre DEF Letter
    <2>3. QED
      BY <2>1, <2>2
  <1>2. CASE b \notin Letter /\ b = Space
    <2>1. Mark(b) = <<Plus>>
      BY <1>2 DEF Mark
    <2>2. Plus \in Nat /\ Plus # Amp
      BY MarksAre
    <2>3. QED
      BY <1>2, <2>1, <2>2, SMTT(30)
  <1>3. CASE b \notin Letter /\ b # Space
    <2>1. b \in 0 .. 255
      <3>1. Json \in Letter
        BY DEF Letter
      <3>2. b \in 0 .. 255 \/ b = Json
        BY Zenon DEF Byte
      <3>3. QED
        BY <1>3, <3>1, <3>2, Zenon
    <2>2. PICK x \in 48 .. 70, y \in 48 .. 70 : x = Hex(b \div 16) /\ y = Hex(b % 16) /\ Octet(x, y) = b
      BY <2>1, OctetOf
    <2>3. Mark(b) = <<Percent, x, y>>
      BY <1>3, <2>2, Zenon DEF Mark
    <2>4. Percent = 37 /\ Amp = 38
      BY MarksAre
    <2>5. x \in Nat /\ y \in Nat /\ x # Amp /\ y # Amp /\ Percent \in Nat /\ Percent # Amp
      BY <2>2, <2>4
    <2>6. PICK t : t = <<Percent, x, y>>
      OBVIOUS
    <2>7. t \in Seq(Nat) /\ Len(t) = 3 /\ t[1] = Percent /\ t[2] = x /\ t[3] = y
      BY <2>5, <2>6
    <2>8. \A k \in 1 .. 3 : t[k] # Amp
      BY <2>5, <2>7
    <2>9. QED
      BY <2>2, <2>3, <2>6, <2>7, <2>8, Zenon
  <1>4. QED
    BY <1>1, <1>2, <1>3

(* Every byte is in a piece. *)
LEMMA InPiece ==
  ASSUME NEW seqs \in Seq(Seq(Nat)), NEW s \in Seq(Nat), NEW o, Layout(o, s, seqs),
         NEW k \in 1 .. Len(s)
  PROVE  \E i \in 1 .. Len(seqs) : \E j \in 1 .. Len(seqs[i]) : s[k] = seqs[i][j]
  <1>1. PICK n \in Nat : n = Len(seqs)
    OBVIOUS
  <1>2. PICK m \in Nat : m = Len(s) /\ k \in 1 .. m
    OBVIOUS
  <1>3. o \in [0 .. n -> Nat] /\ o[0] = 0 /\ o[n] = m
    BY <1>1, <1>2 DEF Layout
  <1> DEFINE D == {i \in 0 .. n : k <= o[i]}
  <1>4. n \in D
    BY <1>2, <1>3
  <1>5. PICK i \in D : \A y \in D : i <= y
    <2>1. D \in SUBSET Nat
      OBVIOUS
    <2> HIDE DEF D
    <2>2. D # {}
      BY <1>4
    <2>3. QED
      BY <2>1, <2>2, MinIsLeast
  <1>6. i \in 0 .. n /\ k <= o[i] /\ i # 0
    <2>1. i \in 0 .. n /\ k <= o[i]
      BY <1>5
    <2>2. ~(k <= 0)
      BY <1>2
    <2>3. QED
      BY <1>3, <2>1, <2>2
  <1>7. i \in 1 .. n /\ i - 1 \in 0 .. n /\ ~(i <= i - 1)
    BY <1>6
  <1>8. i - 1 \notin D
    <2> HIDE DEF D
    <2>1. QED
      BY <1>5, <1>7, Zenon
  <1>9. PICK p \in Nat, q \in Nat : p = o[i - 1] /\ q = o[i] /\ k <= q /\ ~(k <= p)
    <2>1. ~(k <= o[i - 1])
      BY <1>7, <1>8
    <2>2. o[i - 1] \in Nat /\ o[i] \in Nat
      BY <1>3, <1>6, <1>7
    <2>3. QED
      BY <1>6, <2>1, <2>2, Zenon
  <1>10. /\ o[i] = o[i - 1] + Len(seqs[i])
         /\ \A j \in 1 .. Len(seqs[i]) : s[o[i - 1] + j] = seqs[i][j]
    BY <1>1, <1>7, Zenon DEF Layout
  <1>11. PICK t \in Seq(Nat) : t = seqs[i] /\ q = p + Len(t) /\ \A j \in 1 .. Len(t) : s[p + j] = t[j]
    <2>1. seqs[i] \in Seq(Nat)
      BY <1>1, <1>7
    <2>2. QED
      BY <1>9, <1>10, <2>1, Zenon
  <1>12. k - p \in 1 .. Len(t) /\ p + (k - p) = k
    <2>1. k \in Nat /\ Len(t) \in Nat /\ k <= q /\ ~(k <= p) /\ q = p + Len(t)
      BY <1>2, <1>9, <1>11
    <2> HIDE DEF D
    <2>2. QED
      BY <2>1
  <1>13. PICK j \in 1 .. Len(t) : p + j = k
    BY <1>12
  <1>14. s[k] = t[j]
    BY <1>11, <1>13
  <1>15. QED
    BY <1>1, <1>7, <1>11, <1>14, Zenon

LEMMA EncodeIs ==
  ASSUME NEW value \in Seq(Byte)
  PROVE  /\ value \in Seq(Nat) /\ Encode(value) \in Seq(Nat)
         /\ \A k \in 1 .. Len(Encode(value)) : Encode(value)[k] # Amp
         /\ \E o : DecodesTo(Encode(value), value, o)
  <1> DEFINE seqs == [i \in DOMAIN value |-> Mark(value[i])]
  <1>1. value \in Seq(Nat)
    <2>1. \A b \in Byte : b \in Nat
      BY MarksAre DEF Byte
    <2>2. QED
      BY <2>1
  <1>2. PICK n \in Nat : n = Len(value) /\ DOMAIN value = 1 .. n
    OBVIOUS
  <1>3. \A i \in 1 .. n : value[i] \in Byte
    BY <1>2
  <1>4. seqs \in Seq(Seq(Nat)) /\ Len(seqs) = n /\ \A i \in 1 .. n : seqs[i] = Mark(value[i])
    <2>1. \A i \in 1 .. n : Mark(value[i]) \in Seq(Nat)
      BY <1>3, MarkIs
    <2>2. [i \in 1 .. n |-> Mark(value[i])] \in Seq(Seq(Nat))
      BY <2>1
    <2>3. QED
      BY <1>2, <2>2
  <1>5. Encode(value) = FlattenSeq(seqs)
    BY Zenon DEF Encode, Mark
  <1> HIDE DEF seqs
  <1>6. PICK s \in Seq(Nat) : s = Encode(value)
    BY <1>4, <1>5, LaidOut, Zenon
  <1>7. PICK o : s = Encode(value) /\ Layout(o, s, seqs)
    BY <1>6, <1>4, <1>5, LaidOut, Zenon
  <1>8. PICK m \in Nat : m = Len(s)
    OBVIOUS
  <1>9. \A k \in 1 .. Len(s) : s[k] # Amp
    <2> TAKE k \in 1 .. Len(s)
    <2>1. PICK i \in 1 .. Len(seqs) : \E j \in 1 .. Len(seqs[i]) : s[k] = seqs[i][j]
      BY <1>4, <1>7, InPiece
    <2>2. PICK j \in 1 .. Len(seqs[i]) : s[k] = seqs[i][j]
      BY <2>1
    <2>3. seqs[i] = Mark(value[i]) /\ value[i] \in Byte
      BY <1>3, <1>4
    <2>4. \A h \in 1 .. Len(Mark(value[i])) : Mark(value[i])[h] # Amp
      BY <2>3, MarkIs
    <2>5. QED
      BY <2>2, <2>3, <2>4, Zenon
  <1>10. o \in [0 .. n -> Nat] /\ o[0] = 0 /\ o[n] = m
    BY <1>4, <1>7, <1>8, Zenon DEF Layout
  <1>11. ASSUME NEW i \in 1 .. n
         PROVE  \/ /\ o[i] = o[i - 1] + 1 /\ o[i] <= m /\ s[o[i]] \notin {Percent, Plus}
                   /\ value[i] = s[o[i]]
                \/ o[i] = o[i - 1] + 1 /\ o[i] <= m /\ s[o[i]] = Plus /\ value[i] = Space
                \/ /\ o[i] = o[i - 1] + 3 /\ o[i] <= m /\ s[o[i] - 2] = Percent
                   /\ value[i] = Octet(s[o[i] - 1], s[o[i]])
    <2>1. PICK b \in Byte : b = value[i]
      BY <1>3
    <2>2. PICK t \in Seq(Nat) : t = Mark(b)
      BY MarkIs
    <2>3. \/ Len(t) = 1 /\ t[1] = b /\ b \notin {Percent, Plus}
          \/ Len(t) = 1 /\ t[1] = Plus /\ b = Space
          \/ Len(t) = 3 /\ t[1] = Percent /\ b = Octet(t[2], t[3])
      BY <2>2, MarkIs, Zenon
    <2>4. t = seqs[i]
      BY <1>4, <2>1, <2>2
    <2>5. PICK p \in Nat, q \in Nat : p = o[i - 1] /\ q = o[i]
      <3>1. i - 1 \in 0 .. n /\ i \in 0 .. n
        OBVIOUS
      <3>2. QED
        BY <1>10, <3>1
    <2>6. q = p + Len(t) /\ q <= m /\ \A k \in 1 .. Len(t) : s[p + k] = t[k]
      BY <1>4, <1>7, <1>8, <2>4, <2>5, Zenon DEF Layout
    <2>7. CASE Len(t) = 1 /\ t[1] = b /\ b \notin {Percent, Plus}
      <3>1. s[q] = b /\ q = p + 1
        BY <2>6, <2>7
      <3>2. QED
        BY <2>1, <2>5, <2>6, <2>7, <3>1, Zenon
    <2>8. CASE Len(t) = 1 /\ t[1] = Plus /\ b = Space
      <3>1. s[q] = Plus /\ q = p + 1
        BY <2>6, <2>8
      <3>2. QED
        BY <2>1, <2>5, <2>6, <2>8, <3>1, Zenon
    <2>9. CASE Len(t) = 3 /\ t[1] = Percent /\ b = Octet(t[2], t[3])
      <3>1. q = p + 3 /\ q - 2 = p + 1 /\ q - 1 = p + 2
        BY <2>6, <2>9
      <3>2. s[p + 1] = t[1] /\ s[p + 2] = t[2] /\ s[p + 3] = t[3]
        BY <2>6, <2>9
      <3>3. s[q - 2] = Percent /\ b = Octet(s[q - 1], s[q])
        BY <2>9, <3>1, <3>2, Zenon
      <3>4. QED
        BY <2>1, <2>5, <2>6, <3>1, <3>3, Zenon
    <2>10. QED
      BY <2>3, <2>7, <2>8, <2>9
  <1>12. DecodesTo(s, value, o)
    BY <1>2, <1>8, <1>10, <1>11, Zenon DEF DecodesTo
  <1>13. QED
    BY <1>1, <1>7, <1>9, <1>12, Zenon

(* What cgi2uci makes of a field: the option as it was typed. *)
LEMMA DecodeEncode ==
  ASSUME NEW value \in Seq(Byte)
  PROVE  cgi_string_convert(Encode(value)) = value
  BY EncodeIs, DecodeIs, Zenon

LEMMA DecodePlain ==
  ASSUME NEW name \in Seq(Plain)
  PROVE  name \in Seq(Nat) /\ cgi_string_convert(name) = name
  <1>1. \A b \in Plain : b \in Nat /\ b \notin {Percent, Plus}
    BY MarksAre DEF Plain, Byte
  <1>2. name \in Seq(Nat) /\ \A i \in 1 .. Len(name) : name[i] \notin {Percent, Plus}
    <2>1. \A i \in 1 .. Len(name) : name[i] \in Plain
      OBVIOUS
    <2>2. \A i \in 1 .. Len(name) : name[i] \notin {Percent, Plus}
      BY <1>1, <2>1, Zenon
    <2>3. name \in Seq(Nat)
      BY <1>1
    <2>4. QED
      BY <2>2, <2>3
  <1>3. PICK n \in Nat : n = Len(name)
    OBVIOUS
  <1>4. PICK o : o = [i \in 0 .. n |-> i]
    OBVIOUS
  <1>5. o \in [0 .. n -> Nat] /\ o[0] = 0 /\ o[n] = n /\ \A i \in 1 .. n : o[i] = i /\
            o[i] = o[i - 1] + 1 /\ o[i] <= n
    BY <1>4
  <1>6. DecodesTo(name, name, o)
    <2>1. ASSUME NEW i \in 1 .. n
          PROVE  /\ o[i] = o[i - 1] + 1 /\ o[i] <= n /\ name[o[i]] \notin {Percent, Plus}
                 /\ name[i] = name[o[i]]
      BY <1>2, <1>3, <1>5
    <2>2. QED
      BY <1>3, <1>5, <2>1, Zenon DEF DecodesTo
  <1>7. QED
    BY <1>2, <1>6, DecodeIs

Cut(s, a, b) ==
  /\ Len(s) = Len(a) + 1 + Len(b)
  /\ \A i \in 1 .. Len(a) : s[i] = a[i]
  /\ \A i \in 1 .. Len(b) : s[Len(a) + 1 + i] = b[i]

LEMMA SplitParts ==
  ASSUME NEW a \in Seq(Nat), NEW b \in Seq(Nat), NEW s \in Seq(Nat), Cut(s, a, b)
  PROVE  SubSeq(s, 1, Len(a)) = a /\ SubSeq(s, Len(a) + 2, Len(s)) = b
  <1>1. PICK l \in Nat, m \in Nat : l = Len(a) /\ m = Len(b)
    OBVIOUS
  <1>2. Len(s) = l + 1 + m
    BY <1>1 DEF Cut
  <1>3. \A i \in 1 .. l : s[i] = a[i]
    BY <1>1 DEF Cut
  <1>4. \A i \in 1 .. m : s[l + 1 + i] = b[i]
    BY <1>1 DEF Cut
  <1>5. PICK g \in Seq(Nat) : g = SubSeq(s, 1, l) /\ Len(g) = l - 1 + 1
                               /\ \A i \in 1 .. l - 1 + 1 : g[i] = s[1 + i - 1]
    <2>1. 1 \in 1 .. Len(s) + 1 /\ l \in 1 - 1 .. Len(s)
      BY <1>2
    <2>2. /\ SubSeq(s, 1, l) \in Seq(Nat) /\ Len(SubSeq(s, 1, l)) = l - 1 + 1
          /\ \A i \in 1 .. l - 1 + 1 : SubSeq(s, 1, l)[i] = s[1 + i - 1]
      BY <2>1, Sliced
    <2>3. QED
      BY <2>2, Zenon
  <1>6. g = a
    <2>1. Len(g) = Len(a) /\ \A i \in 1 .. Len(g) : g[i] = a[i]
      BY <1>1, <1>3, <1>5
    <2>2. QED
      BY <2>1, SameTexts
  <1>7. PICK n \in Nat : n = Len(s) /\ n = l + 1 + m
    BY <1>2
  <1>8. PICK h \in Seq(Nat) : h = SubSeq(s, l + 2, n) /\ Len(h) = n - (l + 2) + 1
                               /\ \A i \in 1 .. n - (l + 2) + 1 : h[i] = s[l + 2 + i - 1]
    <2>1. l + 2 \in 1 .. Len(s) + 1 /\ n \in l + 2 - 1 .. Len(s)
      BY <1>2, <1>7
    <2>2. PICK r \in 1 .. Len(s) + 1 : r = l + 2 /\ n \in r - 1 .. Len(s)
      BY <2>1
    <2>3. \E u \in Seq(Nat) : /\ u = SubSeq(s, r, n) /\ Len(u) = n - r + 1
                              /\ \A i \in 1 .. n - r + 1 : u[i] = s[r + i - 1]
      <3>1. n \in r - 1 .. Len(s)
        BY <2>2
      <3>2. /\ SubSeq(s, r, n) \in Seq(Nat) /\ Len(SubSeq(s, r, n)) = n - r + 1
            /\ \A i \in 1 .. n - r + 1 : SubSeq(s, r, n)[i] = s[r + i - 1]
        BY <3>1, Sliced
      <3>3. QED
        BY <3>2, Zenon
    <2>4. r = l + 2
      BY <2>2
    <2>5. QED
      BY <2>3, <2>4, Zenon
  <1>9. h = b
    <2>1. Len(h) = m
      BY <1>7, <1>8
    <2>2. ASSUME NEW i \in 1 .. Len(h) PROVE h[i] = b[i]
      <3>1. i \in 1 .. m /\ i \in 1 .. n - (l + 2) + 1 /\ l + 2 + i - 1 = l + 1 + i
        BY <1>7, <2>1
      <3>2. h[i] = s[l + 1 + i]
        BY <1>8, <3>1
      <3>3. QED
        BY <1>4, <3>1, <3>2
    <2>3. Len(h) = Len(b)
      BY <1>1, <2>1
    <2>4. QED
      BY <2>2, <2>3, SameTexts
  <1>10. QED
    BY <1>1, <1>5, <1>6, <1>7, <1>8, <1>9, Zenon

(* A text cut in two at a byte. *)
Split(s, a, c, b) ==
  /\ s = a \o <<c>> \o b /\ Cut(s, a, b) /\ s[Len(a) + 1] = c
  /\ SubSeq(s, 1, Len(a)) = a /\ SubSeq(s, Len(a) + 2, Len(s)) = b

LEMMA SplitAt ==
  ASSUME NEW a \in Seq(Nat), NEW c \in Nat, NEW b \in Seq(Nat)
  PROVE  \E s \in Seq(Nat) : Split(s, a, c, b)
  <1> SUFFICES ASSUME NEW s, s = a \o <<c>> \o b
               PROVE  /\ s \in Seq(Nat) /\ Cut(s, a, b) /\ s[Len(a) + 1] = c
                      /\ SubSeq(s, 1, Len(a)) = a /\ SubSeq(s, Len(a) + 2, Len(s)) = b
    BY DEF Split
  <1>1. PICK l \in Nat, m \in Nat : l = Len(a) /\ m = Len(b)
    OBVIOUS
  <1>2. PICK d \in Seq(Nat) : d = <<c>> /\ Len(d) = 1 /\ d[1] = c
    <2>1. <<c>> \in Seq(Nat) /\ Len(<<c>>) = 1 /\ <<c>>[1] = c
      OBVIOUS
    <2>2. QED
      BY <2>1, Zenon
  <1>3. PICK e \in Seq(Nat) : /\ e = a \o d /\ Len(e) = Len(a) + Len(d)
                              /\ \A i \in 1 .. Len(a) + Len(d) :
                                   e[i] = IF i <= Len(a) THEN a[i] ELSE d[i - Len(a)]
    <2>1. /\ a \o d \in Seq(Nat) /\ Len(a \o d) = Len(a) + Len(d)
          /\ \A i \in 1 .. Len(a) + Len(d) :
               (a \o d)[i] = IF i <= Len(a) THEN a[i] ELSE d[i - Len(a)]
      BY Joined, Zenon
    <2>2. QED
      BY <2>1, Zenon
  <1>4. s = e \o b
    BY <1>2, <1>3, Zenon
  <1>5. /\ s \in Seq(Nat) /\ Len(s) = Len(e) + Len(b)
        /\ \A i \in 1 .. Len(e) + Len(b) : s[i] = IF i <= Len(e) THEN e[i] ELSE b[i - Len(e)]
    <2>1. /\ e \o b \in Seq(Nat) /\ Len(e \o b) = Len(e) + Len(b)
          /\ \A i \in 1 .. Len(e) + Len(b) : (e \o b)[i] = IF i <= Len(e) THEN e[i] ELSE b[i - Len(e)]
      BY Joined, Zenon
    <2>2. QED
      BY <1>4, <2>1, Zenon
  <1>6. s \in Seq(Nat)
    BY <1>5
  <1>7. Len(e) = l + 1 /\ Len(s) = l + 1 + m
    BY <1>1, <1>2, <1>3, <1>5
  <1>8. s[l + 1] = c
    <2>1. l + 1 \in 1 .. Len(e) + Len(b) /\ l + 1 <= Len(e) /\ l + 1 \in 1 .. Len(a) + Len(d)
          /\ ~(l + 1 <= Len(a)) /\ l + 1 - Len(a) = 1
      BY <1>1, <1>2, <1>7
    <2>2. s[l + 1] = e[l + 1]
      BY <1>5, <2>1
    <2>3. e[l + 1] = d[l + 1 - Len(a)]
      BY <1>3, <2>1
    <2>4. QED
      BY <1>2, <2>1, <2>2, <2>3
  <1>9. \A i \in 1 .. l : s[i] = a[i]
    <2> TAKE i \in 1 .. l
    <2>1. i \in 1 .. Len(e) + Len(b) /\ i <= Len(e) /\ i \in 1 .. Len(a) + Len(d) /\ i <= Len(a)
      BY <1>1, <1>2, <1>7
    <2>2. s[i] = e[i]
      BY <1>5, <2>1
    <2>3. e[i] = a[i]
      BY <1>3, <2>1
    <2>4. QED
      BY <2>2, <2>3
  <1>10. \A i \in 1 .. m : s[l + 1 + i] = b[i]
    <2> TAKE i \in 1 .. m
    <2>1. l + 1 + i \in 1 .. Len(e) + Len(b) /\ ~(l + 1 + i <= Len(e)) /\ l + 1 + i - Len(e) = i
      BY <1>1, <1>7
    <2>2. PICK h \in 1 .. Len(e) + Len(b) : h = l + 1 + i /\ ~(h <= Len(e)) /\ h - Len(e) = i
      BY <2>1
    <2>3. s[h] = b[h - Len(e)]
      BY <1>5, <2>2
    <2>4. QED
      BY <2>2, <2>3
  <1>11. SubSeq(s, 1, Len(a)) = a /\ SubSeq(s, Len(a) + 2, Len(s)) = b
    <2>1. PICK z \in Seq(Nat) : z = s
      BY <1>6, Zenon
    <2>2. Len(z) = Len(a) + 1 + Len(b)
      BY <1>1, <1>7, <2>1
    <2>3. /\ \A i \in 1 .. Len(a) : z[i] = a[i]
          /\ \A i \in 1 .. Len(b) : z[Len(a) + 1 + i] = b[i]
      BY <1>1, <1>9, <1>10, <2>1, Zenon
    <2>4. SubSeq(z, 1, Len(a)) = a /\ SubSeq(z, Len(a) + 2, Len(z)) = b
      BY <2>2, <2>3, SplitParts, ZenonT(40) DEF Cut
    <2>5. QED
      BY <2>1, <2>4, Zenon
  <1>12. QED
    BY <1>1, <1>5, <1>7, <1>8, <1>9, <1>10, <1>11, Zenon DEF Cut

PlainField(f) == f[1] \in Seq(Plain) /\ f[2] \in Seq(Byte)

LEMMA FieldIs ==
  ASSUME NEW f, PlainField(f)
  PROVE  /\ Field(f) \in Seq(Nat) /\ Len(Field(f)) = Len(f[1]) + 1 + Len(Encode(f[2]))
         /\ \A k \in 1 .. Len(Field(f)) : Field(f)[k] # Amp
         /\ First(Field(f), 1, Eq) = Len(f[1]) + 1
         /\ SubSeq(Field(f), 1, Len(f[1])) = f[1]
         /\ SubSeq(Field(f), Len(f[1]) + 2, Len(Field(f))) = Encode(f[2])
  <1>1. PICK a \in Seq(Nat) : a = f[1] /\ \A k \in 1 .. Len(a) : a[k] # Amp /\ a[k] # Eq
    <2>1. f[1] \in Seq(Plain)
      BY DEF PlainField
    <2>2. PICK x \in Seq(Plain) : x = f[1]
      BY <2>1, Zenon
    <2>3. x \in Seq(Nat)
      BY DecodePlain
    <2>4. \A k \in 1 .. Len(x) : x[k] # Amp /\ x[k] # Eq
      <3>1. \A k \in 1 .. Len(x) : x[k] \in Plain
        OBVIOUS
      <3>2. \A y \in Plain : y # Amp /\ y # Eq
        BY DEF Plain
      <3>3. QED
        BY <3>1, <3>2, Zenon
    <2>5. QED
      BY <2>2, <2>3, <2>4, Zenon
  <1>2. PICK b \in Seq(Nat) : b = Encode(f[2]) /\ \A k \in 1 .. Len(b) : b[k] # Amp
    <2>1. f[2] \in Seq(Byte)
      BY DEF PlainField
    <2>2. QED
      BY <2>1, EncodeIs, Zenon
  <1>3. Eq \in Nat /\ Eq # Amp
    BY MarksAre
  <1>4. PICK t \in Seq(Nat) : Split(t, a, Eq, b)
    <2>1. Eq \in Nat
      BY <1>3
    <2>2. QED
      BY <2>1, SplitAt, Zenon
  <1>5. /\ t = a \o <<Eq>> \o b /\ Cut(t, a, b) /\ t[Len(a) + 1] = Eq
        /\ SubSeq(t, 1, Len(a)) = a /\ SubSeq(t, Len(a) + 2, Len(t)) = b
    BY <1>4, Zenon DEF Split
  <1>6. t = Field(f)
    BY <1>1, <1>2, <1>5, Zenon DEF Field
  <1>7. PICK l \in Nat, m \in Nat : l = Len(a) /\ m = Len(b)
    OBVIOUS
  <1>8. /\ Len(t) = l + 1 + m /\ t[l + 1] = Eq /\ \A i \in 1 .. l : t[i] = a[i]
        /\ \A i \in 1 .. m : t[l + 1 + i] = b[i]
    BY <1>5, <1>7 DEF Cut
  <1>9. \A k \in 1 .. Len(t) : t[k] # Amp
    <2> TAKE k \in 1 .. Len(t)
    <2>1. CASE k \in 1 .. l
      <3>1. t[k] = a[k] /\ a[k] # Amp
        BY <1>1, <1>7, <1>8, <2>1, Zenon
      <3>2. QED
        BY <3>1
    <2>2. CASE k = l + 1
      BY <1>3, <1>8, <2>2
    <2>3. CASE k \notin 1 .. l /\ k # l + 1
      <3>1. k - (l + 1) \in 1 .. m /\ l + 1 + (k - (l + 1)) = k
        BY <1>8, <2>3
      <3>2. PICK h \in 1 .. m : l + 1 + h = k
        BY <3>1
      <3>3. t[k] = b[h]
        BY <1>8, <3>2
      <3>4. b[h] # Amp
        BY <1>2, <1>7
      <3>5. QED
        BY <3>3, <3>4
    <2>4. QED
      BY <2>1, <2>2, <2>3
  <1>10. First(t, 1, Eq) = l + 1
    <2>1. PICK j \in 1 .. Len(t) : j = l + 1 /\ j - 1 = l
      BY <1>8
    <2>2. t[j] = Eq /\ \A i \in 1 .. j - 1 : t[i] # Eq
      <3>1. \A i \in 1 .. l : t[i] # Eq
        BY <1>1, <1>7, <1>8
      <3>2. t[j] = Eq
        BY <1>8, <2>1
      <3>3. QED
        BY <2>1, <3>1, <3>2
    <2>3. 1 \in 1 .. Len(t) + 1
      BY <1>8
    <2>4. First(t, 1, Eq) = j
      BY <2>2, <2>3, FirstAt
    <2>5. QED
      BY <2>1, <2>4
  <1>11. QED
    BY <1>1, <1>2, <1>5, <1>6, <1>7, <1>9, <1>10, Zenon DEF Cut

LEMMA Cgi2uciField ==
  ASSUME NEW f, PlainField(f)
  PROVE  cgi2uci(Field(f)) = UciSet(f)
  <1>1. PICK l \in Nat : l = Len(f[1])
    BY DEF PlainField
  <1>2. /\ First(Field(f), 1, Eq) = l + 1
        /\ SubSeq(Field(f), 1, l) = f[1] /\ SubSeq(Field(f), l + 2, Len(Field(f))) = Encode(f[2])
    BY <1>1, FieldIs, Zenon
  <1>3. l + 1 # 0 /\ (l + 1) - 1 = l /\ (l + 1) + 1 = l + 2
    OBVIOUS
  <1>4. cgi_string_convert(f[1]) = f[1] /\ cgi_string_convert(Encode(f[2])) = f[2]
    BY DecodePlain, DecodeEncode, Zenon DEF PlainField
  <1>5. cgi2uci(Field(f)) = cgi_string_convert(SubSeq(Field(f), 1, (l + 1) - 1)) \o <<Eq, Quote>>
             \o cgi_string_convert(SubSeq(Field(f), (l + 1) + 1, Len(Field(f)))) \o <<Quote>>
    BY <1>2, <1>3, Zenon DEF cgi2uci
  <1>6. QED
    BY <1>2, <1>3, <1>4, <1>5, Zenon DEF UciSet

-----------------------------------------------------------------------------
(* What is posted: where each field begins.                                *)
FormFields(fields) ==
  fields \in Seq(Seq(Plain) \X Seq(Byte)) /\ fields # << >>

(* Field k begins at h[k - 1]. *)
Marked(h, p, fields) ==
  /\ h \in [0 .. Len(fields) -> Nat \ {0}] /\ h[0] = 1 /\ h[Len(fields)] = Len(p) + 2
  /\ \A k \in 1 .. Len(fields) :
       /\ h[k] = h[k - 1] + Len(Field(fields[k])) + 1 /\ h[k] <= Len(p) + 2
       /\ \A j \in 1 .. Len(Field(fields[k])) : p[h[k - 1] + j - 1] = Field(fields[k])[j]
       /\ k # Len(fields) => p[h[k] - 1] = Amp

LEMMA FieldsTyped ==
  ASSUME NEW fields, FormFields(fields)
  PROVE  /\ Len(fields) \in Nat \ {0} /\ DOMAIN fields = 1 .. Len(fields)
         /\ \A k \in 1 .. Len(fields) : PlainField(fields[k])
  <1>1. PICK g \in Seq(Seq(Plain) \X Seq(Byte)) : g = fields /\ g # << >>
    BY Zenon DEF FormFields
  <1>2. Len(g) \in Nat \ {0} /\ DOMAIN g = 1 .. Len(g)
    BY <1>1
  <1>3. \A k \in 1 .. Len(g) : g[k] \in Seq(Plain) \X Seq(Byte)
    OBVIOUS
  <1>4. \A x \in Seq(Plain) \X Seq(Byte) : PlainField(x)
    BY DEF PlainField
  <1>5. QED
    BY <1>1, <1>2, <1>3, <1>4, Zenon

LEMMA PostedIs ==
  ASSUME NEW fields, FormFields(fields)
  PROVE  Posted(fields) \in Seq(Nat) /\ \E h : Marked(h, Posted(fields), fields)
  <1> DEFINE parts == [i \in DOMAIN fields |->
                         IF i = 1 THEN Field(fields[i]) ELSE <<Amp>> \o Field(fields[i])]
  <1>1. PICK n \in Nat \ {0} : n = Len(fields) /\ DOMAIN fields = 1 .. n
    BY FieldsTyped
  <1>2. \A k \in 1 .. n : Field(fields[k]) \in Seq(Nat)
    BY <1>1, FieldsTyped, FieldIs, Zenon
  <1>3. Amp \in Nat
    BY MarksAre
  <1>4. \A k \in 1 .. n :
          /\ <<Amp>> \o Field(fields[k]) \in Seq(Nat)
          /\ Len(<<Amp>> \o Field(fields[k])) = 1 + Len(Field(fields[k]))
          /\ (<<Amp>> \o Field(fields[k]))[1] = Amp
          /\ \A j \in 1 .. Len(Field(fields[k])) : (<<Amp>> \o Field(fields[k]))[1 + j] =
                 Field(fields[k])[j]
    <2> TAKE k \in 1 .. n
    <2>1. PICK t \in Seq(Nat) : t = Field(fields[k])
      BY <1>2
    <2>2. /\ <<Amp>> \o t \in Seq(Nat) /\ Len(<<Amp>> \o t) = 1 + Len(t)
          /\ (<<Amp>> \o t)[1] = Amp
          /\ \A j \in 1 .. Len(t) : (<<Amp>> \o t)[1 + j] = t[j]
      BY <1>3
    <2>3. QED
      BY <2>1, <2>2, Zenon
  <1>5. /\ parts \in Seq(Seq(Nat)) /\ Len(parts) = n
        /\ \A i \in 1 .. n : parts[i] = IF i = 1 THEN Field(fields[i]) ELSE <<Amp>> \o Field(fields[i])
    <2> DEFINE PartOf(i) == IF i = 1 THEN Field(fields[i]) ELSE <<Amp>> \o Field(fields[i])
    <2>1. \A i \in 1 .. n : PartOf(i) \in Seq(Nat)
      BY <1>2, <1>4
    <2>2. parts = [i \in 1 .. n |-> PartOf(i)]
      BY <1>1
    <2> HIDE DEF PartOf, parts
    <2>3. [i \in 1 .. n |-> PartOf(i)] \in Seq(Seq(Nat)) /\ Len([i \in 1 .. n |-> PartOf(i)]) = n
          /\ \A i \in 1 .. n : [j \in 1 .. n |-> PartOf(j)][i] = PartOf(i)
      BY <2>1
    <2>4. QED
      BY <2>2, <2>3, Zenon DEF PartOf
  <1>6. Posted(fields) = FlattenSeq(parts)
    BY Zenon DEF Posted
  <1> HIDE DEF parts
  <1>7. PICK p \in Seq(Nat) : p = Posted(fields)
    BY <1>5, <1>6, LaidOut, Zenon
  <1>8. PICK o : p = Posted(fields) /\ Layout(o, p, parts)
    BY <1>7, <1>5, <1>6, LaidOut, Zenon
  <1>9. PICK m \in Nat : m = Len(p)
    OBVIOUS
  <1>10. o \in [0 .. n -> Nat] /\ o[0] = 0 /\ o[n] = m
    BY <1>5, <1>8, <1>9, Zenon DEF Layout
  <1> DEFINE h == [k \in 0 .. n |-> IF k = 0 THEN 1 ELSE o[k] + 2]
  <1>11. h \in [0 .. n -> Nat \ {0}] /\ h[0] = 1 /\ h[n] = m + 2 /\ \A k \in 1 .. n : h[k] = o[k] + 2
    BY <1>1, <1>10
  <1> HIDE DEF h
  <1>12. ASSUME NEW k \in 1 .. n
         PROVE  /\ h[k] = h[k - 1] + Len(Field(fields[k])) + 1 /\ h[k] <= m + 2
                /\ \A j \in 1 .. Len(Field(fields[k])) : p[h[k - 1] + j - 1] = Field(fields[k])[j]
                /\ k # n => p[h[k] - 1] = Amp
    <2>1. PICK t \in Seq(Nat) : t = Field(fields[k])
      BY <1>2
    <2>2. PICK l \in Nat : l = Len(t)
      OBVIOUS
    <2>3. PICK a \in Nat, b \in Nat : a = o[k - 1] /\ b = o[k]
      <3>1. k - 1 \in 0 .. n /\ k \in 0 .. n
        OBVIOUS
      <3>2. QED
        BY <1>10, <3>1
    <2>4. b = a + Len(parts[k]) /\ b <= m /\ \A j \in 1 .. Len(parts[k]) : p[a + j] = parts[k][j]
      BY <1>5, <1>8, <1>9, <2>3, Zenon DEF Layout
    <2>5. h[k] = b + 2
      BY <1>11, <2>3
    <2>6. h[k] = h[k - 1] + l + 1 /\ \A j \in 1 .. l : p[h[k - 1] + j - 1] = t[j]
      <3>1. CASE k = 1
        <4>1. parts[k] = t /\ a = 0 /\ h[k - 1] = 1
          BY <1>5, <1>10, <1>11, <2>1, <2>3, <3>1
        <4>2. \A j \in 1 .. l : p[j] = t[j] /\ h[k - 1] + j - 1 = j
          <5> TAKE j \in 1 .. l
          <5>1. a + j = j /\ h[k - 1] + j - 1 = j
            BY <4>1
          <5>2. p[a + j] = t[j]
            BY <2>2, <2>4, <4>1, Zenon
          <5>3. QED
            BY <5>1, <5>2
        <4>3. h[k] = h[k - 1] + l + 1
          BY <2>2, <2>4, <2>5, <4>1
        <4>4. QED
          BY <4>2, <4>3, Zenon
      <3>2. CASE k # 1
        <4>1. parts[k] = <<Amp>> \o t /\ h[k - 1] = a + 2
          <5>1. k - 1 \in 1 .. n
            BY <3>2
          <5>2. QED
            BY <1>5, <1>11, <2>1, <2>3, <3>2, <5>1, Zenon
        <4>2. Len(parts[k]) = 1 + l /\ \A j \in 1 .. l : parts[k][1 + j] = t[j]
          BY <1>4, <2>1, <2>2, <4>1, Zenon
        <4>3. \A j \in 1 .. l : p[h[k - 1] + j - 1] = t[j]
          <5> TAKE j \in 1 .. l
          <5>1. 1 + j \in 1 .. 1 + l /\ a + (1 + j) = h[k - 1] + j - 1
            BY <4>1
          <5>2. PICK i \in 1 .. 1 + l : i = 1 + j /\ a + i = h[k - 1] + j - 1
            BY <5>1
          <5>3. p[a + i] = parts[k][i]
            BY <2>4, <4>2
          <5>4. QED
            BY <4>2, <5>2, <5>3
        <4>4. h[k] = h[k - 1] + l + 1
          <5>1. b = a + (1 + l)
            BY <2>4, <4>2, Zenon
          <5>2. h[k - 1] = a + 2
            BY <4>1, Zenon
          <5>3. QED
            BY <2>5, <5>1, <5>2
        <4>5. QED
          BY <4>3, <4>4
      <3>3. QED
        BY <3>1, <3>2
    <2>7. ASSUME k # n PROVE p[h[k] - 1] = Amp
      <3>1. k + 1 \in 1 .. n /\ k + 1 # 1 /\ (k + 1) - 1 = k
        BY <2>7
      <3>2. parts[k + 1] = <<Amp>> \o Field(fields[k + 1])
        BY <1>5, <3>1, Zenon
      <3>3. /\ Len(parts[k + 1]) = 1 + Len(Field(fields[k + 1])) /\ parts[k + 1][1] = Amp
            /\ Len(Field(fields[k + 1])) \in Nat
        <4>1. /\ Len(parts[k + 1]) = 1 + Len(Field(fields[k + 1])) /\ parts[k + 1][1] = Amp
              /\ Field(fields[k + 1]) \in Seq(Nat)
          BY <1>2, <1>4, <3>1, <3>2, Zenon
        <4>2. QED
          BY <4>1
      <3>4. 1 \in 1 .. Len(parts[k + 1])
        BY <3>3
      <3>5. p[b + 1] = parts[k + 1][1]
        <4>1. \A j \in 1 .. Len(parts[k + 1]) : p[o[(k + 1) - 1] + j] = parts[k + 1][j]
          BY <1>5, <1>8, <3>1, Zenon DEF Layout
        <4>2. QED
          BY <2>3, <3>1, <3>4, <4>1, Zenon
      <3>6. h[k] - 1 = b + 1
        BY <2>5
      <3>7. QED
        BY <3>3, <3>5, <3>6, Zenon
    <2>8. QED
      BY <2>1, <2>2, <2>4, <2>5, <2>6, <2>7
  <1>13. Marked(h, p, fields)
    BY <1>1, <1>9, <1>11, <1>12, Zenon DEF Marked
  <1>14. QED
    BY <1>8, <1>13, Zenon

(* The field f at a, when what arrived has it whole, and when it does not. *)
Reads(s, a, b, f) ==
  \/ b - 2 <= Len(s) /\ FieldAt(s, a) = Field(f) /\ FieldEnd(s, a) = b - 1
  \/ b - 2 > Len(s) /\ FieldEnd(s, a) = Len(s) + 1

LEMMA FieldAtIs ==
  ASSUME NEW fields, FormFields(fields), NEW p \in Seq(Nat), NEW h, Marked(h, p, fields),
         NEW s \in Seq(Nat), Len(s) <= Len(p), \A i \in 1 .. Len(s) : s[i] = p[i],
         NEW k \in 1 .. Len(fields), h[k - 1] <= Len(s)
  PROVE  Reads(s, h[k - 1], h[k], fields[k])
  <1>1. PICK n \in Nat \ {0} : n = Len(fields) /\ PlainField(fields[k])
    BY FieldsTyped
  <1>2. PICK m \in Nat, r \in Nat : m = Len(p) /\ r = Len(s) /\ r <= m /\ \A i \in 1 .. r : s[i] = p[i]
    <2>1. Len(p) \in Nat /\ Len(s) \in Nat
      OBVIOUS
    <2>2. QED
      BY <2>1, Zenon
  <1>3. PICK t \in Seq(Nat) : t = Field(fields[k]) /\ \A j \in 1 .. Len(t) : t[j] # Amp
    BY <1>1, FieldIs, Zenon
  <1>4. PICK l \in Nat : l = Len(t)
    OBVIOUS
  <1>5. PICK a \in Nat \ {0}, b \in Nat \ {0} : a = h[k - 1] /\ b = h[k]
    <2>1. k - 1 \in 0 .. n /\ k \in 0 .. n
      BY <1>1
    <2>2. h \in [0 .. n -> Nat \ {0}]
      BY <1>1, Zenon DEF Marked
    <2>3. QED
      BY <2>1, <2>2
  <1>6. /\ b = a + l + 1 /\ b <= m + 2 /\ \A j \in 1 .. l : p[a + j - 1] = t[j]
        /\ k # n => p[b - 1] = Amp
    BY <1>1, <1>2, <1>3, <1>4, <1>5, Zenon DEF Marked
  <1>7. k = n => b = m + 2
    BY <1>1, <1>2, <1>5, Zenon DEF Marked
  <1>8. a <= r
    BY <1>2, <1>5
  <1>9. \A i \in a .. a + l - 1 : i <= r => s[i] # Amp
    <2> TAKE i \in a .. a + l - 1
    <2> HAVE i <= r
    <2>1. i - a + 1 \in 1 .. l /\ a + (i - a + 1) - 1 = i /\ i \in 1 .. r
      BY <1>8
    <2>2. PICK j \in 1 .. l : a + j - 1 = i
      BY <2>1
    <2>3. s[i] = t[j]
      BY <1>2, <1>6, <2>1, <2>2
    <2>4. QED
      BY <1>3, <1>4, <2>2, <2>3
  <1>10. CASE b - 2 <= r
    <2>1. FieldEnd(s, a) = b - 1
      <3>1. CASE r = b - 2
        <4>1. \A i \in a .. Len(s) : s[i] # Amp
          <5>1. r = a + l - 1
            BY <1>6, <3>1
          <5>2. \A i \in a .. r : s[i] # Amp
            BY <1>9, <5>1
          <5>3. QED
            BY <1>2, <5>2
        <4>2. First(s, a, Amp) = 0
          <5>1. a \in 1 .. Len(s) + 1
            BY <1>2, <1>8
          <5>2. QED
            BY <4>1, <5>1, FirstNone, Zenon
        <4>3. FieldEnd(s, a) = Len(s) + 1
          BY <4>2, Zenon DEF FieldEnd
        <4>4. Len(s) + 1 = b - 1
          BY <1>2, <3>1
        <4>5. QED
          BY <4>3, <4>4, Zenon
      <3>2. CASE r # b - 2
        <4>1. b - 1 <= r /\ k # n
          BY <1>2, <1>7, <1>10, <3>2
        <4>2. PICK e \in a .. Len(s) : e = b - 1
          BY <1>2, <1>6, <4>1
        <4>3. s[e] = Amp
          BY <1>2, <1>6, <4>1, <4>2
        <4>4. \A i \in a .. e - 1 : s[i] # Amp
          <5>1. e - 1 = a + l - 1 /\ e - 1 <= r
            BY <1>2, <1>6, <4>2
          <5>2. \A i \in a .. e - 1 : i \in a .. a + l - 1 /\ i <= r
            BY <5>1
          <5>3. QED
            BY <1>9, <5>2, Zenon
        <4>5. a \in 1 .. Len(s) + 1
          BY <1>2, <1>8
        <4>6. First(s, a, Amp) = e
          BY <4>3, <4>4, <4>5, FirstAt, Zenon
        <4>7. e # 0
          BY <4>2
        <4>8. FieldEnd(s, a) = e
          BY <4>6, <4>7, Zenon DEF FieldEnd
        <4>9. QED
          BY <4>2, <4>8
      <3>3. QED
        BY <3>1, <3>2
    <2>2. FieldAt(s, a) = SubSeq(s, a, (b - 1) - 1)
      BY <2>1, Zenon DEF FieldAt
    <2>3. PICK e \in a - 1 .. Len(s) : e = (b - 1) - 1 /\ e - a + 1 = l
      BY <1>2, <1>6, <1>10
    <2>4. PICK x \in 1 .. Len(s) + 1 : x = a
      BY <1>2, <1>8
    <2>5. SubSeq(s, a, e) = t
      <3>1. e \in x - 1 .. Len(s)
        BY <2>3, <2>4
      <3>2. /\ SubSeq(s, x, e) \in Seq(Nat) /\ Len(SubSeq(s, x, e)) = e - x + 1
            /\ \A i \in 1 .. e - x + 1 : SubSeq(s, x, e)[i] = s[x + i - 1]
        BY <3>1, Sliced
      <3>3. PICK u \in Seq(Nat) : u = SubSeq(s, x, e) /\ Len(u) = e - x + 1
                                  /\ \A i \in 1 .. e - x + 1 : u[i] = s[x + i - 1]
        BY <3>2, Zenon
      <3>4. Len(u) = l
        BY <2>3, <2>4, <3>3
      <3>5. \A i \in 1 .. l : u[i] = t[i]
        <4> TAKE i \in 1 .. l
        <4>1. i \in 1 .. e - x + 1 /\ a + i - 1 \in 1 .. r
          BY <1>2, <2>3, <2>4
        <4>2. u[i] = s[a + i - 1]
          BY <2>4, <3>3, <4>1
        <4>3. s[a + i - 1] = p[a + i - 1]
          BY <1>2, <4>1
        <4>4. QED
          BY <1>6, <4>2, <4>3
      <3>6. Len(u) = Len(t) /\ \A i \in 1 .. Len(u) : u[i] = t[i]
        BY <1>4, <3>4, <3>5
      <3>7. u = t
        BY <3>6, SameTexts
      <3>8. QED
        BY <2>4, <3>3, <3>7, Zenon
    <2>6. FieldAt(s, a) = t
      BY <2>2, <2>3, <2>5, Zenon
    <2>7. QED
      BY <1>2, <1>3, <1>5, <1>10, <2>1, <2>6, Zenon DEF Reads
  <1>11. CASE ~(b - 2 <= r)
    <2>1. b - 2 > r
      BY <1>11
    <2>2. \A i \in a .. Len(s) : s[i] # Amp
      <3>1. r <= a + l - 1
        BY <1>6, <2>1
      <3>2. \A i \in a .. r : i \in a .. a + l - 1 /\ i <= r
        BY <3>1
      <3>3. \A i \in a .. r : s[i] # Amp
        BY <1>9, <3>2, Zenon
      <3>4. QED
        BY <1>2, <3>3, Zenon
    <2>3. a \in 1 .. Len(s) + 1
      BY <1>2, <1>8
    <2>4. First(s, a, Amp) = 0
      BY <2>2, <2>3, FirstNone, Zenon
    <2>5. FieldEnd(s, a) = Len(s) + 1
      BY <2>4, Zenon DEF FieldEnd
    <2>6. QED
      BY <1>2, <1>5, <2>1, <2>5, Zenon DEF Reads
  <1>12. QED
    BY <1>10, <1>11

-----------------------------------------------------------------------------
(* The commands of a form, one field after the other.                      *)
Said(c, k) ==
  IF k = 0 THEN << >>
  ELSE Append(c[k - 1],
         IF Len(Field(form.fields[k])) < OutSize THEN UciSet(form.fields[k])
         ELSE IF k = 1 THEN << >> ELSE Last(c[k - 1]))

SaidTo(c, n) == \A k \in 0 .. n : c[k] = Said(c, k)

LEMMA SaidExists ==
  ASSUME NEW m \in Nat
  PROVE  \E c : SaidTo(c, m)
  <1> DEFINE Odd == {n \in 0 .. m : ~ \E c : SaidTo(c, n)}
  <1>1. Odd = {}
    <2> SUFFICES ASSUME Odd # {} PROVE FALSE
      OBVIOUS
    <2>1. PICK n \in Odd : \A y \in Odd : n <= y
      <3>1. Odd \in SUBSET Nat
        OBVIOUS
      <3> HIDE DEF Odd
      <3>2. QED
        BY <3>1, MinIsLeast
    <2>2. n \in 0 .. m /\ n \in Nat /\ ~ \E c : SaidTo(c, n)
      BY <2>1
    <2>3. CASE n = 0
      <3>1. SaidTo([i \in {0} |-> << >>], 0)
        BY DEF SaidTo, Said
      <3>2. QED
        BY <2>2, <2>3, <3>1
    <2>4. CASE n # 0
      <3>1. n - 1 \in 0 .. m /\ ~(n <= n - 1)
        BY <2>2, <2>4
      <3>2. n - 1 \notin Odd
        <4> HIDE DEF Odd
        <4>1. QED
          BY <2>1, <3>1, Zenon
      <3>3. PICK c : SaidTo(c, n - 1)
        BY <3>1, <3>2
      <3> DEFINE d == [k \in 0 .. n |-> IF k = n THEN Said(c, n) ELSE c[k]]
      <3>4. d[n] = Said(c, n) /\ \A k \in 0 .. n - 1 : d[k] = c[k]
        BY <2>2
      <3> HIDE DEF d
      <3>5. ASSUME NEW k \in 0 .. n PROVE Said(d, k) = Said(c, k)
        <4>1. CASE k = 0
          BY <4>1 DEF Said
        <4>2. CASE k # 0
          <5>1. k - 1 \in 0 .. n - 1
            BY <2>2, <4>2
          <5>2. d[k - 1] = c[k - 1]
            BY <3>4, <5>1
          <5>3. QED
            BY <5>2, Zenon DEF Said
        <4>3. QED
          BY <4>1, <4>2
      <3>6. ASSUME NEW k \in 0 .. n PROVE d[k] = Said(c, k)
        <4>1. CASE k = n
          BY <3>4, <4>1
        <4>2. CASE k # n
          <5>1. k \in 0 .. n - 1
            BY <2>2, <4>2
          <5>2. d[k] = c[k] /\ c[k] = Said(c, k)
            BY <3>3, <3>4, <5>1 DEF SaidTo
          <5>3. QED
            BY <5>2
        <4>3. QED
          BY <4>1, <4>2
      <3>7. SaidTo(d, n)
        BY <3>5, <3>6, Zenon DEF SaidTo
      <3>8. QED
        BY <2>2, <3>7
    <2>5. QED
      BY <2>3, <2>4
  <1>2. m \in 0 .. m
    OBVIOUS
  <1>3. QED
    BY <1>1, <1>2

LEMMA CommandsRun ==
  ASSUME NEW m \in Nat, NEW c, SaidTo(c, m), NEW n \in 0 .. m
  PROVE  Commands(n) = c[n]
  <1> DEFINE v == CHOOSE f : f = [k \in 0 .. n |->
                    IF k = 0 THEN << >>
                    ELSE Append(f[k - 1],
                           IF Len(Field(form.fields[k])) < OutSize THEN UciSet(form.fields[k])
                           ELSE IF k = 1 THEN << >> ELSE Last(f[k - 1]))]
             w == [k \in 0 .. n |-> c[k]]
  <1>1. Commands(n) = v[n]
    BY Zenon DEF Commands
  <1>2. \A k \in 0 .. n : c[k] = Said(c, k) /\ k \in 0 .. m
    <2>1. \A k \in 0 .. n : k \in 0 .. m
      OBVIOUS
    <2>2. QED
      BY <2>1, Zenon DEF SaidTo
  <1>3. \A k \in 0 .. n : w[k] = c[k]
    OBVIOUS
  <1>4. w = [k \in 0 .. n |-> c[k]]
    OBVIOUS
  <1> HIDE DEF w
  <1>5. ASSUME NEW k \in 0 .. n PROVE Said(w, k) = Said(c, k)
    <2>1. CASE k = 0
      BY <2>1 DEF Said
    <2>2. CASE k # 0
      <3>1. k - 1 \in 0 .. n
        BY <2>2
      <3>2. w[k - 1] = c[k - 1]
        BY <1>3, <3>1
      <3>3. QED
        BY <3>2, Zenon DEF Said
    <2>3. QED
      BY <2>1, <2>2
  <1>6. w = [k \in 0 .. n |-> Said(w, k)]
    <2>1. [k \in 0 .. n |-> c[k]] = [k \in 0 .. n |-> Said(w, k)]
      BY <1>2, <1>5, Zenon
    <2>2. QED
      BY <1>4, <2>1, Zenon
  <1>7. v = [k \in 0 .. n |-> Said(v, k)]
    BY <1>6, Zenon DEF Said
  <1> HIDE DEF v
  <1>8. \A k \in 0 .. n : v[k] = Said(v, k)
    BY <1>7
  <1> DEFINE Odd == {k \in 0 .. n : v[k] # c[k]}
  <1>9. Odd = {}
    <2> SUFFICES ASSUME Odd # {} PROVE FALSE
      OBVIOUS
    <2>1. PICK k \in Odd : \A y \in Odd : k <= y
      <3>1. Odd \in SUBSET Nat
        OBVIOUS
      <3> HIDE DEF Odd
      <3>2. QED
        BY <3>1, MinIsLeast
    <2>2. k \in 0 .. n /\ k \in Nat /\ v[k] # c[k]
      BY <2>1
    <2>3. CASE k = 0
      <3>1. Said(v, k) = Said(c, k)
        BY <2>3 DEF Said
      <3>2. QED
        BY <1>2, <1>8, <2>2, <3>1, Zenon
    <2>4. CASE k # 0
      <3>1. k - 1 \in 0 .. n /\ ~(k <= k - 1)
        BY <2>2, <2>4
      <3>2. k - 1 \notin Odd
        <4> HIDE DEF Odd
        <4>1. QED
          BY <2>1, <3>1, Zenon
      <3>3. v[k - 1] = c[k - 1]
        BY <3>1, <3>2
      <3>4. Said(v, k) = Said(c, k)
        BY <3>3, Zenon DEF Said
      <3>5. QED
        BY <1>2, <1>8, <2>2, <3>4, Zenon
    <2>5. QED
      BY <2>3, <2>4
  <1>10. n \in 0 .. n
    OBVIOUS
  <1>11. QED
    BY <1>1, <1>9, <1>10

LEMMA CommandTyped ==
  ASSUME NEW f, PlainField(f)
  PROVE  UciSet(f) \in Seq(Nat)
  <1>1. f[1] \in Seq(Nat) /\ f[2] \in Seq(Nat)
    BY DecodePlain, EncodeIs, Zenon DEF PlainField
  <1>2. <<Eq, Quote>> \in Seq(Nat) /\ <<Quote>> \in Seq(Nat)
    BY MarksAre
  <1>3. QED
    BY <1>1, <1>2, Joined, Zenon DEF UciSet

(* Each field's command is put after those before it. *)
LEMMA CommandsAre ==
  ASSUME FormFields(form.fields)
  PROVE  /\ Commands(0) = << >>
         /\ \A k \in 0 .. Len(form.fields) : Commands(k) \in Seq(Seq(Nat)) /\ Len(Commands(k)) = k
         /\ \A k \in 1 .. Len(form.fields) :
              Commands(k) = Append(Commands(k - 1),
                IF Len(Field(form.fields[k])) < OutSize THEN UciSet(form.fields[k])
                ELSE IF k = 1 THEN << >> ELSE Last(Commands(k - 1)))
  <1>1. PICK m \in Nat \ {0} : m = Len(form.fields)
    BY FieldsTyped
  <1>2. PICK c : SaidTo(c, m)
    BY SaidExists
  <1>3. \A k \in 0 .. m : Commands(k) = c[k]
    BY <1>2, CommandsRun
  <1>4. \A k \in 0 .. m : c[k] = Said(c, k)
    BY <1>2, Zenon DEF SaidTo
  <1>5. ASSUME NEW k \in 1 .. m
        PROVE  /\ k - 1 \in 0 .. m /\ k \in 0 .. m
               /\ c[k] = Append(c[k - 1],
                    IF Len(Field(form.fields[k])) < OutSize THEN UciSet(form.fields[k])
                    ELSE IF k = 1 THEN << >> ELSE Last(c[k - 1]))
    <2>1. k - 1 \in 0 .. m /\ k \in 0 .. m /\ k # 0
      OBVIOUS
    <2>2. QED
      BY <1>4, <2>1, Zenon DEF Said
  <1>6. c[0] = << >>
    <2>1. 0 \in 0 .. m
      OBVIOUS
    <2>2. QED
      BY <1>4, <2>1, Zenon DEF Said
  <1> DEFINE Odd == {k \in 0 .. m : ~(c[k] \in Seq(Seq(Nat)) /\ Len(c[k]) = k)}
  <1>7. Odd = {}
    <2> SUFFICES ASSUME Odd # {} PROVE FALSE
      OBVIOUS
    <2>1. PICK k \in Odd : \A y \in Odd : k <= y
      <3>1. Odd \in SUBSET Nat
        OBVIOUS
      <3> HIDE DEF Odd
      <3>2. QED
        BY <3>1, MinIsLeast
    <2>2. k \in 0 .. m /\ k \in Nat /\ ~(c[k] \in Seq(Seq(Nat)) /\ Len(c[k]) = k)
      BY <2>1
    <2>3. CASE k = 0
      <3>1. << >> \in Seq(Seq(Nat)) /\ Len(<< >>) = 0
        OBVIOUS
      <3>2. QED
        BY <1>6, <2>2, <2>3, <3>1, Zenon
    <2>4. CASE k # 0
      <3>1. k - 1 \in 0 .. m /\ ~(k <= k - 1) /\ k \in 1 .. m
        BY <2>2, <2>4
      <3>2. k - 1 \notin Odd
        <4> HIDE DEF Odd
        <4>1. QED
          BY <2>1, <3>1, Zenon
      <3>3. c[k - 1] \in Seq(Seq(Nat)) /\ Len(c[k - 1]) = k - 1
        BY <3>1, <3>2
      <3>4. PICK b \in Seq(Seq(Nat)) : b = c[k - 1] /\ Len(b) = k - 1
        BY <3>3, Zenon
      <3>5. PICK x : x = IF Len(Field(form.fields[k])) < OutSize THEN UciSet(form.fields[k])
                         ELSE IF k = 1 THEN << >> ELSE Last(b)
        OBVIOUS
      <3>6. x \in Seq(Nat)
        <4>1. UciSet(form.fields[k]) \in Seq(Nat)
          BY <1>1, <3>1, FieldsTyped, CommandTyped, Zenon
        <4>2. << >> \in Seq(Nat)
          OBVIOUS
        <4>3. ASSUME k # 1 PROVE Last(b) \in Seq(Nat)
          <5>1. Len(b) \in 1 .. Len(b)
            BY <3>1, <3>4, <4>3
          <5>2. b[Len(b)] \in Seq(Nat)
            BY <5>1
          <5>3. QED
            BY <5>2 DEF Last
        <4>4. QED
          BY <3>5, <4>1, <4>2, <4>3, Zenon
      <3>7. c[k] = Append(b, x)
        BY <1>5, <3>1, <3>4, <3>5, Zenon
      <3>8. Append(b, x) \in Seq(Seq(Nat)) /\ Len(Append(b, x)) = k
        BY <2>2, <3>4, <3>6
      <3>9. QED
        BY <2>2, <3>7, <3>8
    <2>5. QED
      BY <2>3, <2>4
  <1>8. \A k \in 0 .. m : c[k] \in Seq(Seq(Nat)) /\ Len(c[k]) = k
    BY <1>7
  <1>9. \A k \in 1 .. m :
              Commands(k) = Append(Commands(k - 1),
                IF Len(Field(form.fields[k])) < OutSize THEN UciSet(form.fields[k])
                ELSE IF k = 1 THEN << >> ELSE Last(Commands(k - 1)))
    BY <1>3, <1>5, Zenon
  <1>10. 0 \in 0 .. m
    OBVIOUS
  <1>11. QED
    BY <1>1, <1>3, <1>6, <1>8, <1>9, <1>10, Zenon

-----------------------------------------------------------------------------
(* What is inductive.                                                      *)
LEMMA CommandsKept ==
  ASSUME form' = form, NEW k
  PROVE  Commands(k)' = Commands(k)
  BY Zenon DEF Commands

Arrived ==
  /\ input \in Seq(Nat) /\ Len(input) <= Len(Posted(form.fields))
  /\ \A i \in 1 .. Len(input) : input[i] = Posted(form.fields)[i]

(* k fields have been read. *)
UciTaken(h, k) ==
  hdr = h[k] /\ sets = Commands(k) /\ uci_buf = IF k = 0 THEN << >> ELSE Last(sets)

(* The last of them was cut off. *)
CutOff == hdr = Len(input) + 2 /\ Len(input) < Len(Posted(form.fields))
UciCut(k) == k # 0 /\ CutOff /\ Len(sets) = k /\ Front(sets) = Commands(k - 1)

UciSaved ==
  \E h : /\ Marked(h, Posted(form.fields), form.fields)
         /\ \E k \in 0 .. Len(form.fields) : UciTaken(h, k) \/ UciCut(k)

FileTaken(h, k) ==
  /\ hdr = h[k]
  /\ k # 0 /\ ~failed =>
       text = IF Len(Encode(form.fields[k][2])) < TextMax THEN form.fields[k][2] ELSE << >>

FileSaved ==
  \E h : /\ Marked(h, Posted(form.fields), form.fields)
         /\ \E k \in 0 .. Len(form.fields) : FileTaken(h, k) \/ CutOff

FormInv ==
  /\ form \in Forms /\ line \in Lines /\ Arrived
  /\ stage \in {"start", "uci", "file", "page", "failed", "done"}
  /\ stage = "failed" => Contains(input, Json) \/ form.target = "json"
  /\ form.target = "uci" /\ stage # "failed" => UciSaved
  /\ form.target = "file" /\ stage # "failed" => FileSaved
  /\ stage = "uci" => form.target = "uci"
  /\ stage = "file" => form.target = "file"
  /\ stage \in {"page", "done"} /\ form.target # "json" => hdr > Len(input)
  /\ PageShown

LEMMA FormTyped ==
  ASSUME NEW f \in Forms
  PROVE  f.target \in {"uci", "file", "json"} /\ FormFields(f.fields)
  BY WebFormAssumption DEF FormFields

(* What arrived is all of it, or it is shorter. *)
LEMMA WholeIs ==
  ASSUME form \in Forms, Arrived
  PROVE  /\ Posted(form.fields) \in Seq(Nat)
         /\ Complete <=> Len(input) = Len(Posted(form.fields))
  <1>1. PICK p \in Seq(Nat) : p = Posted(form.fields)
    BY FormTyped, PostedIs, Zenon
  <1>2. PICK s \in Seq(Nat) : s = input /\ Len(s) <= Len(p) /\ \A i \in 1 .. Len(s) : s[i] = p[i]
    BY <1>1, Zenon DEF Arrived
  <1>3. s = p <=> Len(s) = Len(p)
    <2>1. Len(s) = Len(p) => s = p
      BY <1>2, SameTexts
    <2>2. QED
      BY <2>1
  <1>4. QED
    BY <1>1, <1>2, <1>3, Zenon DEF Complete

LEMMA InitForm ==
  ASSUME FormInit
  PROVE  FormInv
  <1>1. /\ form \in Forms /\ line \in Lines
        /\ input \in {SubSeq(Posted(form.fields), 1, k) : k \in 0 .. Len(Posted(form.fields))}
        /\ stage = "start" /\ hdr = 1 /\ uci_buf = << >> /\ sets = << >>
    BY Zenon DEF FormInit
  <1>2. FormFields(form.fields)
    BY <1>1, FormTyped
  <1>3. PICK p \in Seq(Nat) : p = Posted(form.fields)
    BY <1>2, PostedIs, Zenon
  <1>4. PICK h : p = Posted(form.fields) /\ Marked(h, p, form.fields)
    BY <1>3, <1>2, PostedIs, Zenon
  <1>5. Arrived
    <2>1. PICK k \in 0 .. Len(p) : input = SubSeq(p, 1, k)
      BY <1>1, <1>4, Zenon
    <2>2. 1 \in 1 .. Len(p) + 1 /\ k \in 1 - 1 .. Len(p)
      OBVIOUS
    <2>3. /\ SubSeq(p, 1, k) \in Seq(Nat) /\ Len(SubSeq(p, 1, k)) = k - 1 + 1
          /\ \A i \in 1 .. k - 1 + 1 : SubSeq(p, 1, k)[i] = p[1 + i - 1]
      BY <2>2, Sliced
    <2>4. PICK u \in Seq(Nat) : u = SubSeq(p, 1, k) /\ Len(u) = k - 1 + 1
                                /\ \A i \in 1 .. k - 1 + 1 : u[i] = p[1 + i - 1]
      BY <2>3, Zenon
    <2>5. Len(u) <= Len(p) /\ \A i \in 1 .. Len(u) : u[i] = p[i]
      BY <2>4
    <2>6. QED
      BY <1>4, <2>1, <2>4, <2>5, Zenon DEF Arrived
  <1>6. h[0] = 1 /\ 0 \in 0 .. Len(form.fields)
    <2>1. Len(form.fields) \in Nat
      BY <1>2, FieldsTyped
    <2>2. QED
      BY <1>4, <2>1 DEF Marked
  <1>7. UciTaken(h, 0) /\ FileTaken(h, 0)
    <2>1. Commands(0) = << >>
      BY <1>2, CommandsAre, Zenon
    <2>2. QED
      BY <1>1, <1>6, <2>1, Zenon DEF UciTaken, FileTaken
  <1>8. UciSaved /\ FileSaved
    BY <1>4, <1>6, <1>7, Zenon DEF UciSaved, FileSaved
  <1>9. PageShown
    BY <1>1 DEF PageShown
  <1>10. QED
    BY <1>1, <1>5, <1>8, <1>9, Zenon DEF FormInv

LEMMA SavedKept ==
  ASSUME form' = form, input' = input, hdr' = hdr, sets' = sets, uci_buf' = uci_buf,
         text' = text, failed' = failed
  PROVE  (UciSaved => UciSaved') /\ (FileSaved => FileSaved')
  <1>1. \A k : Commands(k)' = Commands(k)
    BY CommandsKept
  <1>2. UciSaved => UciSaved'
    BY <1>1, Zenon DEF UciSaved, UciTaken, UciCut, CutOff
  <1>3. FileSaved => FileSaved'
    BY Zenon DEF FileSaved, FileTaken, CutOff
  <1>4. QED
    BY <1>2, <1>3

LEMMA ArrivedKept ==
  ASSUME form' = form, input' = input
  PROVE  (Arrived => Arrived') /\ (Contains(input, Json) => Contains(input, Json)')
  BY Zenon DEF Arrived, Contains

LEMMA PageKept ==
  ASSUME UNCHANGED formVars, PageShown
  PROVE  PageShown'
  <1>1. form' = form /\ line' = line /\ input' = input /\ stage' = stage /\ shown' = shown
    BY DEF formVars
  <1>2. \A x : Typed(x)' = Typed(x)
    BY <1>1, Zenon DEF Typed, SelectLastInSeq
  <1>3. \A x : Tags(x)' = Tags(x)
    BY <1>1, Zenon DEF Tags
  <1> DEFINE Shown(i) == IF line[i][1] = "tag" /\ Tags(i) <= InsteadSum THEN Typed(line[i][2])
                         ELSE Source(line[i])
  <1>4. \A i : Shown(i)' = Shown(i)
    BY <1>1, <1>2, <1>3, Zenon
  <1> HIDE DEF Shown
  <1>5. [i \in DOMAIN line |-> Shown(i)]' = [i \in DOMAIN line |-> Shown(i)]
    BY <1>1, <1>4, Zenon
  <1> USE DEF Shown
  <1>6. QED
    BY <1>1, <1>5, Zenon DEF PageShown, Complete

(* What the next field is, when there is one. *)
LEMMA NextIs ==
  ASSUME form \in Forms, Arrived, NEW h, Marked(h, Posted(form.fields), form.fields),
         NEW k \in 0 .. Len(form.fields), hdr = h[k], hdr <= Len(input)
  PROVE  /\ k + 1 \in 1 .. Len(form.fields)
         /\ \/ /\ FieldAt(input, hdr) = Field(form.fields[k + 1])
               /\ FieldEnd(input, hdr) + 1 = h[k + 1]
            \/ FieldEnd(input, hdr) + 1 = Len(input) + 2 /\ Len(input) < Len(Posted(form.fields))
  <1>1. PICK n \in Nat \ {0} : n = Len(form.fields) /\ FormFields(form.fields)
    BY FormTyped, FieldsTyped
  <1>2. PICK p \in Seq(Nat) : p = Posted(form.fields)
    BY <1>1, PostedIs, Zenon
  <1>3. PICK s \in Seq(Nat) : s = input /\ Len(s) <= Len(p) /\ \A i \in 1 .. Len(s) : s[i] = p[i]
    BY <1>2, Zenon DEF Arrived
  <1>4. h[n] = Len(p) + 2 /\ \A i \in 0 .. n : h[i] \in Nat \ {0}
    <2>1. h[n] = Len(p) + 2 /\ h \in [0 .. n -> Nat \ {0}]
      BY <1>1, <1>2, Zenon DEF Marked
    <2>2. QED
      BY <2>1
  <1>5. k # n
    <2>1. h[k] <= Len(s)
      BY <1>3
    <2>2. ~(Len(p) + 2 <= Len(s))
      BY <1>3
    <2>3. QED
      BY <1>4, <2>1, <2>2
  <1>6. k + 1 \in 1 .. n /\ (k + 1) - 1 = k /\ k + 1 \in 0 .. n /\ k \in 0 .. n
    BY <1>1, <1>5
  <1>7. PICK j \in 1 .. n : j = k + 1 /\ j - 1 = k /\ j \in 0 .. n /\ j \in 1 .. Len(form.fields)
    BY <1>1, <1>6
  <1>8. h[j - 1] <= Len(s) /\ Marked(h, p, form.fields)
    BY <1>2, <1>3, <1>7, Zenon
  <1>9. \/ /\ h[j] - 2 <= Len(s) /\ FieldAt(s, h[j - 1]) = Field(form.fields[j])
           /\ FieldEnd(s, h[j - 1]) = h[j] - 1
        \/ h[j] - 2 > Len(s) /\ FieldEnd(s, h[j - 1]) = Len(s) + 1
    <2>1. j \in 1 .. Len(form.fields)
      BY <1>7
    <2>2. Len(s) <= Len(p) /\ \A i \in 1 .. Len(s) : s[i] = p[i]
      BY <1>3
    <2>3. FormFields(form.fields)
      BY <1>1
    <2>4. Reads(s, h[j - 1], h[j], form.fields[j])
      BY <1>8, <2>1, <2>2, <2>3, FieldAtIs, Zenon
    <2>5. QED
      BY <2>4, Zenon DEF Reads
  <1>10. PICK b \in Nat \ {0} : b = h[j] /\ b <= Len(p) + 2
    <2>1. h[j] \in Nat \ {0}
      BY <1>4, <1>7
    <2>2. h[j] <= Len(p) + 2
      BY <1>7, <1>8, Zenon DEF Marked
    <2>3. QED
      BY <2>1, <2>2, Zenon
  <1>11. Len(s) \in Nat /\ Len(p) \in Nat
    OBVIOUS
  <1>12. \/ FieldAt(s, h[k]) = Field(form.fields[k + 1]) /\ FieldEnd(s, h[k]) + 1 = h[k + 1]
         \/ FieldEnd(s, h[k]) + 1 = Len(s) + 2 /\ Len(s) < Len(p)
    <2>1. CASE /\ h[j] - 2 <= Len(s) /\ FieldAt(s, h[j - 1]) = Field(form.fields[j])
               /\ FieldEnd(s, h[j - 1]) = h[j] - 1
      <3>1. (b - 1) + 1 = b
        OBVIOUS
      <3>2. FieldEnd(s, h[k]) + 1 = h[k + 1]
        BY <1>7, <1>10, <2>1, <3>1, Zenon
      <3>3. QED
        BY <1>7, <2>1, <3>2, Zenon
    <2>2. CASE h[j] - 2 > Len(s) /\ FieldEnd(s, h[j - 1]) = Len(s) + 1
      <3>1. (Len(s) + 1) + 1 = Len(s) + 2
        BY <1>11
      <3>2. Len(s) < Len(p)
        <4>1. b - 2 > Len(s)
          BY <1>10, <2>2, Zenon
        <4>2. QED
          BY <1>10, <1>11, <4>1
      <3>3. QED
        BY <1>7, <2>2, <3>1, <3>2, Zenon
    <2>3. QED
      BY <1>9, <2>1, <2>2
  <1>13. QED
    BY <1>1, <1>2, <1>3, <1>6, <1>12, Zenon

LEMMA Appended ==
  ASSUME NEW T, NEW s \in Seq(T), NEW x
  PROVE  /\ Len(Append(s, x)) = Len(s) + 1 /\ Last(Append(s, x)) = x /\ Front(Append(s, x)) = s
  <1>1. s \in Seq(T \cup {x}) /\ x \in T \cup {x}
    OBVIOUS
  <1>2. PICK Z : Z = T \cup {x}
    OBVIOUS
  <1>3. s \in Seq(Z) /\ x \in Z
    BY <1>1, <1>2, Zenon
  <1>4. PICK t : t = Append(s, x)
    OBVIOUS
  <1>5. t \in Seq(Z) /\ Len(t) = Len(s) + 1 /\ t[Len(s) + 1] = x /\ \A i \in 1 .. Len(s) : t[i] = s[i]
    BY <1>3, <1>4
  <1>6. Last(t) = x
    BY <1>3, <1>5 DEF Last
  <1>7. Front(t) = s
    <2>1. PICK n \in Nat : n = Len(s)
      OBVIOUS
    <2>2. Len(t) - 1 = n /\ 1 \in 1 .. Len(t) + 1 /\ n \in 1 - 1 .. Len(t)
      BY <1>5, <2>1
    <2>3. /\ SubSeq(t, 1, n) \in Seq(Z) /\ Len(SubSeq(t, 1, n)) = n - 1 + 1
          /\ \A i \in 1 .. n - 1 + 1 : SubSeq(t, 1, n)[i] = t[1 + i - 1]
      BY <1>5, <2>2, Sliced
    <2>4. PICK u \in Seq(Z) : u = SubSeq(t, 1, n) /\ Len(u) = n - 1 + 1
                              /\ \A i \in 1 .. n - 1 + 1 : u[i] = t[1 + i - 1]
      BY <2>3, Zenon
    <2>5. Len(u) = Len(s) /\ \A i \in 1 .. Len(u) : u[i] = s[i]
      BY <1>5, <2>1, <2>4
    <2>6. u = s
      BY <1>3, <2>5, SameTexts
    <2>7. QED
      BY <2>2, <2>4, <2>6, Zenon DEF Front
  <1>8. QED
    BY <1>4, <1>5, <1>6, <1>7, Zenon

LEMMA FormUci ==
  ASSUME FormInv, uci_httpd_convert
  PROVE  FormInv'
  <1>1. /\ stage = "uci" /\ hdr <= Len(input)
        /\ uci_buf' = IF Len(FieldAt(input, hdr)) < OutSize THEN cgi2uci(FieldAt(input, hdr))
               ELSE uci_buf
        /\ sets' = Append(sets, uci_buf') /\ hdr' = FieldEnd(input, hdr) + 1
        /\ UNCHANGED <<posted, stage, text, failed, shown>>
    BY Zenon DEF uci_httpd_convert, NextField
  <1>2. form' = form /\ line' = line /\ input' = input /\ stage' = stage
    BY <1>1 DEF posted
  <1>3. form \in Forms /\ line \in Lines /\ Arrived /\ form.target = "uci" /\ UciSaved
    BY <1>1 DEF FormInv
  <1>4. PICK n \in Nat \ {0} : n = Len(form.fields) /\ FormFields(form.fields)
    BY <1>3, FormTyped, FieldsTyped
  <1>5. PICK h : /\ Marked(h, Posted(form.fields), form.fields)
                 /\ \E k \in 0 .. Len(form.fields) : UciTaken(h, k) \/ UciCut(k)
    BY <1>3, Zenon DEF UciSaved
  <1>6. PICK k \in 0 .. n : Marked(h, Posted(form.fields), form.fields) /\ (UciTaken(h, k) \/ UciCut(k))
    BY <1>4, <1>5, Zenon
  <1>7. Len(input) \in Nat
    BY <1>3 DEF Arrived
  <1>8. UciTaken(h, k)
    <2>1. ~(Len(input) + 2 <= Len(input))
      BY <1>7
    <2>2. QED
      BY <1>1, <1>6, <2>1, Zenon DEF UciCut, CutOff
  <1>9. hdr = h[k] /\ sets = Commands(k) /\ uci_buf = IF k = 0 THEN << >> ELSE Last(sets)
    BY <1>8, Zenon DEF UciTaken
  <1>10. /\ k + 1 \in 1 .. n
        /\ \/ /\ FieldAt(input, hdr) = Field(form.fields[k + 1])
              /\ FieldEnd(input, hdr) + 1 = h[k + 1]
           \/ FieldEnd(input, hdr) + 1 = Len(input) + 2 /\ Len(input) < Len(Posted(form.fields))
    BY <1>1, <1>3, <1>4, <1>6, <1>9, NextIs, Zenon
  <1>11. PICK j \in 1 .. n : j = k + 1 /\ j - 1 = k /\ j \in 0 .. n /\ j # 0 /\ (j = 1 <=> k = 0)
    BY <1>10
  <1>12. Commands(k) \in Seq(Seq(Nat)) /\ Len(Commands(k)) = k
    BY <1>4, CommandsAre, Zenon
  <1>13. /\ Len(sets') = k + 1 /\ Last(sets') = uci_buf' /\ Front(sets') = Commands(k)
    BY <1>1, <1>9, <1>12, Appended, Zenon
  <1>14. \A i : Commands(i)' = Commands(i)
    BY <1>2, CommandsKept
  <1>15. ASSUME FieldAt(input, hdr) = Field(form.fields[j]) /\ FieldEnd(input, hdr) + 1 = h[j]
         PROVE  UciSaved'
    <2>1. cgi2uci(Field(form.fields[j])) = UciSet(form.fields[j])
      BY <1>4, FieldsTyped, Cgi2uciField, Zenon
    <2>2. Commands(j) = Append(Commands(j - 1),
                IF Len(Field(form.fields[j])) < OutSize THEN UciSet(form.fields[j])
                ELSE IF j = 1 THEN << >> ELSE Last(Commands(j - 1)))
      BY <1>4, CommandsAre, Zenon
    <2>3. uci_buf' = IF Len(Field(form.fields[j])) < OutSize THEN UciSet(form.fields[j])
                     ELSE IF j = 1 THEN << >> ELSE Last(Commands(j - 1))
      BY <1>1, <1>9, <1>11, <1>15, <2>1, Zenon
    <2>4. sets' = Commands(j)
      BY <1>1, <1>9, <1>11, <2>2, <2>3, Zenon
    <2>5. UciTaken(h, j)'
      BY <1>1, <1>11, <1>13, <1>14, <1>15, <2>4, Zenon DEF UciTaken
    <2>6. QED
      BY <1>2, <1>4, <1>6, <1>11, <2>5, Zenon DEF UciSaved
  <1>16. ASSUME FieldEnd(input, hdr) + 1 = Len(input) + 2 /\ Len(input) < Len(Posted(form.fields))
         PROVE  UciSaved'
    <2>1. UciCut(j)'
      BY <1>1, <1>2, <1>11, <1>13, <1>14, <1>16, Zenon DEF UciCut, CutOff
    <2>2. QED
      BY <1>2, <1>4, <1>6, <1>11, <2>1, Zenon DEF UciSaved
  <1>17. UciSaved'
    BY <1>10, <1>11, <1>15, <1>16, Zenon
  <1>18. Arrived'
    BY <1>2, <1>3, ArrivedKept
  <1>19. PageShown'
    BY <1>1, <1>2, Zenon DEF PageShown
  <1>20. QED
    BY <1>1, <1>2, <1>3, <1>17, <1>18, <1>19 DEF FormInv

LEMMA FormText ==
  ASSUME FormInv, textarea_transform
  PROVE  FormInv'
  <1>1. /\ stage = "file" /\ hdr <= Len(input) /\ hdr' = FieldEnd(input, hdr) + 1
        /\ UNCHANGED <<posted, stage, uci_buf, sets, shown>>
    BY Zenon DEF textarea_transform, NextField
  <1>2. form' = form /\ line' = line /\ input' = input /\ stage' = stage
    BY <1>1 DEF posted
  <1>3. form \in Forms /\ line \in Lines /\ Arrived /\ form.target = "file" /\ FileSaved
    BY <1>1 DEF FormInv
  <1>4. PICK n \in Nat \ {0} : n = Len(form.fields) /\ FormFields(form.fields)
    BY <1>3, FormTyped, FieldsTyped
  <1>5. PICK h : /\ Marked(h, Posted(form.fields), form.fields)
                 /\ \E k \in 0 .. Len(form.fields) : FileTaken(h, k) \/ CutOff
    BY <1>3, Zenon DEF FileSaved
  <1>6. PICK k \in 0 .. n : Marked(h, Posted(form.fields), form.fields) /\ (FileTaken(h, k) \/ CutOff)
    BY <1>4, <1>5, Zenon
  <1>7. Len(input) \in Nat
    BY <1>3 DEF Arrived
  <1>8. FileTaken(h, k) /\ hdr = h[k]
    <2>1. ~(Len(input) + 2 <= Len(input))
      BY <1>7
    <2>2. QED
      BY <1>1, <1>6, <2>1, Zenon DEF CutOff, FileTaken
  <1>9. /\ k + 1 \in 1 .. n
        /\ \/ /\ FieldAt(input, hdr) = Field(form.fields[k + 1])
              /\ FieldEnd(input, hdr) + 1 = h[k + 1]
           \/ FieldEnd(input, hdr) + 1 = Len(input) + 2 /\ Len(input) < Len(Posted(form.fields))
    BY <1>1, <1>3, <1>4, <1>6, <1>8, NextIs, Zenon
  <1>10. PICK j \in 1 .. n : j = k + 1 /\ j - 1 = k /\ j \in 0 .. n /\ j # 0
    BY <1>9
  <1>11. ASSUME FieldAt(input, hdr) = Field(form.fields[j]) /\ FieldEnd(input, hdr) + 1 = h[j]
         PROVE  FileSaved'
    <2>1. PICK f : f = form.fields[j] /\ PlainField(f)
      BY <1>4, FieldsTyped, Zenon
    <2>2. PICK l \in Nat : l = Len(f[1])
      BY <2>1 DEF PlainField
    <2>3. PICK field : field = Field(f)
      OBVIOUS
    <2>4. First(field, 1, Eq) = l + 1 /\ SubSeq(field, l + 2, Len(field)) = Encode(f[2])
      BY <2>1, <2>2, <2>3, FieldIs, Zenon
    <2>5. cgi_string_convert(Encode(f[2])) = f[2]
      BY <2>1, DecodeEncode, Zenon DEF PlainField
    <2>6. l + 1 # 0 /\ (l + 1) + 1 = l + 2
      OBVIOUS
    <2>7. field = FieldAt(input, hdr)
      BY <1>11, <2>1, <2>3, Zenon
    <2>8. \/ /\ failed' = failed
             /\ text' = IF Len(SubSeq(field, First(field, 1, Eq) + 1, Len(field))) < TextMax
                        THEN cgi_string_convert(SubSeq(field, First(field, 1, Eq) + 1, Len(field)))
                        ELSE << >>
          \/ failed' = TRUE
      BY <2>4, <2>6, <2>7, Zenon DEF textarea_transform
    <2>9. ~failed' => text' = IF Len(Encode(f[2])) < TextMax THEN f[2] ELSE << >>
      BY <2>4, <2>5, <2>6, <2>8, Zenon
    <2>10. FileTaken(h, j)'
      BY <1>1, <1>2, <1>11, <2>1, <2>9, Zenon DEF FileTaken
    <2>11. QED
      BY <1>2, <1>4, <1>6, <1>10, <2>10, Zenon DEF FileSaved
  <1>12. ASSUME FieldEnd(input, hdr) + 1 = Len(input) + 2 /\ Len(input) < Len(Posted(form.fields))
         PROVE  FileSaved'
    <2>1. CutOff'
      BY <1>1, <1>2, <1>12, Zenon DEF CutOff
    <2>2. QED
      BY <1>2, <1>4, <1>6, <1>10, <2>1, Zenon DEF FileSaved
  <1>13. FileSaved'
    BY <1>9, <1>10, <1>11, <1>12, Zenon
  <1>14. Arrived'
    BY <1>2, <1>3, ArrivedKept
  <1>15. PageShown'
    BY <1>1, <1>2, Zenon DEF PageShown
  <1>16. QED
    BY <1>1, <1>2, <1>3, <1>13, <1>14, <1>15 DEF FormInv

LEMMA FormBegin ==
  ASSUME FormInv, DecodeAndProcessData
  PROVE  FormInv'
  <1>1. /\ stage = "start" /\ UNCHANGED <<posted, hdr, uci_buf, sets, text, failed, shown>>
        /\ stage' = IF Contains(input, Json)
                    THEN (IF form.target = "json" THEN "page" ELSE "failed")
                    ELSE (IF form.target = "json" THEN "failed" ELSE form.target)
    BY Zenon DEF DecodeAndProcessData
  <1>2. /\ form' = form /\ line' = line /\ input' = input /\ hdr' = hdr /\ sets' = sets
        /\ uci_buf' = uci_buf /\ text' = text /\ failed' = failed
    BY <1>1 DEF posted
  <1>3. form \in Forms /\ line \in Lines /\ Arrived /\ form.target \in {"uci", "file", "json"}
    BY FormTyped DEF FormInv
  <1>4. (UciSaved => UciSaved') /\ (FileSaved => FileSaved')
    BY <1>2, SavedKept
  <1>5. Arrived' /\ (Contains(input, Json) => Contains(input, Json)')
    BY <1>2, <1>3, ArrivedKept
  <1>6. stage' # "done"
    BY <1>1, <1>3
  <1>7. PageShown'
    BY <1>6, Zenon DEF PageShown
  <1>8. \/ Contains(input, Json) /\ form.target = "json" /\ stage' = "page"
        \/ Contains(input, Json) /\ form.target # "json" /\ stage' = "failed"
        \/ form.target = "json" /\ stage' = "failed"
        \/ form.target # "json" /\ stage' = form.target
    BY <1>1, Zenon
  <1>9. (form.target = "uci" => UciSaved) /\ (form.target = "file" => FileSaved)
    BY <1>1 DEF FormInv
  <1>10. /\ stage' \in {"uci", "file", "page", "failed"}
         /\ stage' = "failed" => Contains(input, Json) \/ form.target = "json"
         /\ stage' = "uci" => form.target = "uci"
         /\ stage' = "file" => form.target = "file"
         /\ stage' = "page" => form.target = "json"
    BY <1>3, <1>8
  <1>11. QED
    BY <1>2, <1>3, <1>4, <1>5, <1>6, <1>7, <1>9, <1>10 DEF FormInv

LEMMA FormEnd ==
  ASSUME FormInv, EndOfForm
  PROVE  FormInv'
  <1>1. /\ stage \in {"uci", "file"} /\ hdr > Len(input) /\ stage' = "page"
        /\ UNCHANGED <<posted, hdr, uci_buf, sets, text, failed, shown>>
    BY Zenon DEF EndOfForm
  <1>2. /\ form' = form /\ line' = line /\ input' = input /\ hdr' = hdr /\ sets' = sets
        /\ uci_buf' = uci_buf /\ text' = text /\ failed' = failed
    BY <1>1 DEF posted
  <1>3. form \in Forms /\ line \in Lines /\ Arrived
    BY DEF FormInv
  <1>4. (UciSaved => UciSaved') /\ (FileSaved => FileSaved')
    BY <1>2, SavedKept
  <1>5. Arrived'
    BY <1>2, <1>3, ArrivedKept
  <1>6. PageShown'
    BY <1>1, Zenon DEF PageShown
  <1>7. (form.target = "uci" => UciSaved) /\ (form.target = "file" => FileSaved)
    BY <1>1 DEF FormInv
  <1>8. QED
    BY <1>1, <1>2, <1>3, <1>4, <1>5, <1>6, <1>7 DEF FormInv

(* At the end of a whole form all its fields have been read. *)
LEMMA AllRead ==
  ASSUME form \in Forms, Arrived, Complete, NEW h, Marked(h, Posted(form.fields), form.fields),
         NEW k \in 0 .. Len(form.fields), hdr = h[k], hdr > Len(input)
  PROVE  k = Len(form.fields)
  <1>1. PICK n \in Nat \ {0} : n = Len(form.fields) /\ FormFields(form.fields)
    BY FormTyped, FieldsTyped
  <1>2. PICK p \in Seq(Nat) : p = Posted(form.fields) /\ Len(p) = Len(input)
    BY WholeIs, Zenon
  <1>3. h \in [0 .. n -> Nat \ {0}] /\ Marked(h, p, form.fields)
    BY <1>1, <1>2, Zenon DEF Marked
  <1>4. ASSUME k # n PROVE FALSE
    <2>1. PICK j \in 1 .. n : j = k + 1 /\ j - 1 = k
      BY <1>1, <1>4
    <2>2. PICK a \in Nat, b \in Nat : a = h[k] /\ b = h[j]
      BY <1>1, <1>3
    <2>3. b = a + Len(Field(form.fields[j])) + 1 /\ b <= Len(p) + 2
      BY <1>1, <1>3, <2>1, <2>2, Zenon DEF Marked
    <2>4. Len(Field(form.fields[j])) \in Nat \ {0}
      <3>1. PlainField(form.fields[j])
        BY <1>1, FieldsTyped
      <3>2. PICK f : f = form.fields[j] /\ PlainField(f)
        BY <3>1, Zenon
      <3>3. Len(Field(f)) = Len(f[1]) + 1 + Len(Encode(f[2])) /\ Encode(f[2]) \in Seq(Nat)
        BY <3>2, FieldIs, EncodeIs, Zenon DEF PlainField
      <3>4. Len(f[1]) \in Nat /\ Len(Encode(f[2])) \in Nat
        <4>1. PICK x \in Seq(Plain), y \in Seq(Nat) : x = f[1] /\ y = Encode(f[2])
          BY <3>2, <3>3, Zenon DEF PlainField
        <4>2. Len(x) \in Nat /\ Len(y) \in Nat
          OBVIOUS
        <4>3. QED
          BY <4>1, <4>2, Zenon
      <3>5. PICK x \in Nat, y \in Nat : x = Len(f[1]) /\ y = Len(Encode(f[2])) /\
                     Len(Field(f)) = x + 1 + y
        BY <3>3, <3>4, Zenon
      <3>6. x + 1 + y \in Nat \ {0}
        OBVIOUS
      <3>7. Len(Field(f)) \in Nat \ {0}
        BY <3>5, <3>6, Zenon
      <3>8. QED
        BY <3>2, <3>7, Zenon
    <2>5. a > Len(p)
      BY <1>2, <2>2, Zenon
    <2>6. Len(p) \in Nat
      OBVIOUS
    <2>7. QED
      BY <2>3, <2>4, <2>5, <2>6
  <1>5. QED
    BY <1>1, <1>4

-----------------------------------------------------------------------------
(* What "uci get" answers after a whole form.                              *)
LEMMA MaxIs ==
  ASSUME NEW D \in SUBSET Int, NEW m \in D, \A y \in D : m >= y
  PROVE  Max(D) = m
  <1>1. \E x \in D : \A y \in D : x >= y
    BY Zenon
  <1>2. PICK x : x = Max(D)
    OBVIOUS
  <1>3. x \in D /\ \A y \in D : x >= y
    BY <1>1, <1>2, Zenon DEF Max
  <1>4. x >= m /\ m >= x /\ x \in Int /\ m \in Int
    BY <1>3
  <1>5. x = m
    BY <1>4
  <1>6. QED
    BY <1>2, <1>5

LEMMA PrefixIs ==
  ASSUME NEW s \in Seq(Nat), NEW t \in Seq(Nat)
  PROVE  IsPrefix(s, t) <=> Len(s) <= Len(t) /\ \A i \in 1 .. Len(s) : s[i] = t[i]
  <1>1. PICK l \in Nat : l = Len(s)
    OBVIOUS
  <1>2. SUFFICES ASSUME l <= Len(t)
                 PROVE  SubSeq(s, 1, l) = SubSeq(t, 1, l) <=> \A i \in 1 .. l : s[i] = t[i]
    BY <1>1 DEF IsPrefix
  <1>3. 1 \in 1 .. Len(s) + 1 /\ l \in 1 - 1 .. Len(s) /\ 1 \in 1 .. Len(t) + 1 /\ l \in 1 - 1 .. Len(t)
    BY <1>1, <1>2
  <1>4. /\ SubSeq(s, 1, l) \in Seq(Nat) /\ Len(SubSeq(s, 1, l)) = l - 1 + 1
        /\ \A i \in 1 .. l - 1 + 1 : SubSeq(s, 1, l)[i] = s[1 + i - 1]
    BY <1>3, Sliced
  <1>5. /\ SubSeq(t, 1, l) \in Seq(Nat) /\ Len(SubSeq(t, 1, l)) = l - 1 + 1
        /\ \A i \in 1 .. l - 1 + 1 : SubSeq(t, 1, l)[i] = t[1 + i - 1]
    BY <1>3, Sliced
  <1>6. PICK a \in Seq(Nat) : a = SubSeq(s, 1, l) /\ Len(a) = l - 1 + 1
                              /\ \A i \in 1 .. l - 1 + 1 : a[i] = s[1 + i - 1]
    BY <1>4, Zenon
  <1>7. PICK b \in Seq(Nat) : b = SubSeq(t, 1, l) /\ Len(b) = l - 1 + 1
                              /\ \A i \in 1 .. l - 1 + 1 : b[i] = t[1 + i - 1]
    BY <1>5, Zenon
  <1>8. Len(a) = l /\ Len(b) = l /\ \A i \in 1 .. l : a[i] = s[i] /\ b[i] = t[i]
    BY <1>6, <1>7
  <1>9. a = b <=> \A i \in 1 .. l : s[i] = t[i]
    <2>1. ASSUME \A i \in 1 .. l : s[i] = t[i] PROVE a = b
      <3>1. Len(a) = Len(b) /\ \A i \in 1 .. Len(a) : a[i] = b[i]
        BY <1>8, <2>1
      <3>2. QED
        BY <3>1, SameTexts
    <2>2. ASSUME a = b PROVE \A i \in 1 .. l : s[i] = t[i]
      BY <1>8, <2>2
    <2>3. QED
      BY <2>1, <2>2
  <1>10. QED
    BY <1>6, <1>7, <1>9, Zenon

(* An option's command, byte by byte. *)
Spelt(c, a, v) ==
  /\ Len(c) = Len(a) + 2 + Len(v) + 1
  /\ \A i \in 1 .. Len(a) : c[i] = a[i]
  /\ c[Len(a) + 1] = Eq /\ c[Len(a) + 2] = Quote
  /\ \A i \in 1 .. Len(v) : c[Len(a) + 2 + i] = v[i]

LEMMA StartIs ==
  ASSUME NEW a \in Seq(Nat)
  PROVE  \E s \in Seq(Nat) :
           /\ s = a \o <<Eq, Quote>> /\ Len(s) = Len(a) + 2
           /\ \A i \in 1 .. Len(a) : s[i] = a[i]
           /\ s[Len(a) + 1] = Eq /\ s[Len(a) + 2] = Quote
  <1>1. Eq \in Nat /\ Quote \in Nat
    BY MarksAre
  <1>2. <<Eq, Quote>> \in Seq(Nat) /\ Len(<<Eq, Quote>>) = 2 /\ <<Eq, Quote>>[1] = Eq /\
            <<Eq, Quote>>[2] = Quote
    BY <1>1
  <1>3. PICK d \in Seq(Nat) : d = <<Eq, Quote>> /\ Len(d) = 2 /\ d[1] = Eq /\ d[2] = Quote
    BY <1>2, Zenon
  <1>4. PICK e \in Seq(Nat) : Put(e, a, d)
    BY JoinedTo
  <1>5. PICK l \in Nat : l = Len(a)
    OBVIOUS
  <1>6. /\ e = a \o d /\ Len(e) = l + 2 /\ \A i \in 1 .. l : e[i] = a[i]
        /\ \A i \in 1 .. 2 : e[l + i] = d[i]
    BY <1>3, <1>4, <1>5, Zenon DEF Put
  <1>7. Len(e) = l + 2 /\ \A i \in 1 .. l : e[i] = a[i]
    BY <1>6
  <1>8. e[l + 1] = Eq /\ e[l + 2] = Quote
    <2>1. 1 \in 1 .. 2 /\ 2 \in 1 .. 2
      OBVIOUS
    <2>2. QED
      BY <1>3, <1>6, <2>1, Zenon
  <1>9. e = a \o <<Eq, Quote>>
    BY <1>3, <1>6, Zenon
  <1>10. QED
    BY <1>5, <1>7, <1>8, <1>9, Zenon

LEMMA CommandSpelt ==
  ASSUME NEW f, PlainField(f)
  PROVE  UciSet(f) \in Seq(Nat) /\ Spelt(UciSet(f), f[1], f[2])
  <1>1. PICK a \in Seq(Nat), v \in Seq(Nat) : a = f[1] /\ v = f[2]
    BY DecodePlain, EncodeIs, Zenon DEF PlainField
  <1>2. PICK s \in Seq(Nat) :
           /\ s = a \o <<Eq, Quote>> /\ Len(s) = Len(a) + 2
           /\ \A i \in 1 .. Len(a) : s[i] = a[i]
           /\ s[Len(a) + 1] = Eq /\ s[Len(a) + 2] = Quote
    BY StartIs
  <1>3. <<Quote>> \in Seq(Nat) /\ Len(<<Quote>>) = 1
    BY MarksAre
  <1>4. PICK q \in Seq(Nat) : q = <<Quote>> /\ Len(q) = 1
    BY <1>3, Zenon
  <1>5. PICK d \in Seq(Nat) : Put(d, s, v)
    BY JoinedTo
  <1>6. PICK c \in Seq(Nat) : Put(c, d, q)
    BY JoinedTo
  <1>7. c = UciSet(f)
    <2>1. d = s \o v /\ c = d \o q
      BY <1>5, <1>6 DEF Put
    <2>2. QED
      BY <1>1, <1>2, <1>4, <2>1, Zenon DEF UciSet
  <1>8. PICK l \in Nat, m \in Nat : l = Len(a) /\ m = Len(v)
    OBVIOUS
  <1>9. Len(s) = l + 2 /\ Len(d) = l + 2 + m /\ Len(c) = l + 2 + m + 1
    BY <1>2, <1>4, <1>5, <1>6, <1>8, Zenon DEF Put
  <1>10. \A i \in 1 .. l + 2 + m : c[i] = d[i]
    BY <1>6, <1>9, Zenon DEF Put
  <1>11. \A i \in 1 .. l + 2 : d[i] = s[i]
    BY <1>5, <1>9, Zenon DEF Put
  <1>12. \A i \in 1 .. l : c[i] = a[i]
    <2> TAKE i \in 1 .. l
    <2>1. i \in 1 .. l + 2 + m /\ i \in 1 .. l + 2
      OBVIOUS
    <2>2. QED
      BY <1>2, <1>8, <1>10, <1>11, <2>1
  <1>13. c[l + 1] = Eq /\ c[l + 2] = Quote
    <2>1. l + 1 \in 1 .. l + 2 + m /\ l + 1 \in 1 .. l + 2 /\ l + 2 \in 1 .. l + 2 + m /\
              l + 2 \in 1 .. l + 2
      OBVIOUS
    <2>2. QED
      BY <1>2, <1>8, <1>10, <1>11, <2>1
  <1>14. \A i \in 1 .. m : c[l + 2 + i] = v[i]
    <2>1. \A i \in 1 .. m : d[l + 2 + i] = v[i]
      BY <1>5, <1>8, <1>9, Zenon DEF Put
    <2>2. \A i \in 1 .. m : l + 2 + i \in 1 .. l + 2 + m
      OBVIOUS
    <2>3. QED
      BY <1>10, <2>1, <2>2, Zenon
  <1>15. Spelt(c, a, v)
    BY <1>8, <1>9, <1>12, <1>13, <1>14, Zenon DEF Spelt
  <1>16. QED
    BY <1>1, <1>7, <1>15, Zenon

(* A command is one of that name only if it begins with it.                *)
LEMMA NamedSo ==
  ASSUME NEW f, PlainField(f), NEW name \in Seq(Plain)
  PROVE  /\ IsPrefix(name \o <<Eq, Quote>>, UciSet(f)) <=> f[1] = name
         /\ f[1] = name =>
              SubSeq(UciSet(f), Len(name \o <<Eq, Quote>>) + 1, Len(UciSet(f)) - 1) = f[2]
         /\ ~IsPrefix(name \o <<Eq, Quote>>, << >>)
  <1>1. \A x \in Seq(Plain) : x \in Seq(Nat) /\ \A i \in 1 .. Len(x) : x[i] # Eq
    <2> TAKE x \in Seq(Plain)
    <2>1. x \in Seq(Nat)
      BY DecodePlain
    <2>2. \A i \in 1 .. Len(x) : x[i] \in Plain
      OBVIOUS
    <2>3. \A y \in Plain : y # Eq
      BY DEF Plain
    <2>4. QED
      BY <2>1, <2>2, <2>3, Zenon
  <1>2. PICK a \in Seq(Nat) : a = name /\ \A i \in 1 .. Len(a) : a[i] # Eq
    BY <1>1, Zenon
  <1>3. PICK b \in Seq(Nat) : b = f[1] /\ \A i \in 1 .. Len(b) : b[i] # Eq
    BY <1>1, Zenon DEF PlainField
  <1>4. PICK v \in Seq(Nat) : v = f[2]
    BY EncodeIs, Zenon DEF PlainField
  <1>5. PICK s \in Seq(Nat) :
           /\ s = a \o <<Eq, Quote>> /\ Len(s) = Len(a) + 2
           /\ \A i \in 1 .. Len(a) : s[i] = a[i]
           /\ s[Len(a) + 1] = Eq /\ s[Len(a) + 2] = Quote
    BY StartIs
  <1>6. PICK c \in Seq(Nat) : c = UciSet(f) /\ Spelt(c, b, v)
    BY <1>3, <1>4, CommandSpelt, Zenon
  <1>7. PICK l \in Nat, j \in Nat, m \in Nat : l = Len(a) /\ j = Len(b) /\ m = Len(v)
    OBVIOUS
  <1>8. /\ Len(s) = l + 2 /\ \A i \in 1 .. l : s[i] = a[i]
        /\ s[l + 1] = Eq /\ s[l + 2] = Quote
    BY <1>5, <1>7, Zenon
  <1>9. /\ Len(c) = j + 2 + m + 1 /\ \A i \in 1 .. j : c[i] = b[i]
        /\ c[j + 1] = Eq /\ c[j + 2] = Quote
        /\ \A i \in 1 .. m : c[j + 2 + i] = v[i]
    BY <1>6, <1>7, Zenon DEF Spelt
  <1>10. ASSUME IsPrefix(s, c) PROVE a = b
    <2>1. Len(s) <= Len(c) /\ \A i \in 1 .. Len(s) : s[i] = c[i]
      BY <1>10, PrefixIs
    <2>2. \A i \in 1 .. l + 2 : s[i] = c[i]
      BY <1>8, <2>1, Zenon
    <2>3. ~(l < j)
      <3>1. SUFFICES ASSUME l < j PROVE FALSE
        OBVIOUS
      <3>2. l + 1 \in 1 .. j /\ l + 1 \in 1 .. l + 2
        BY <3>1
      <3>3. b[l + 1] = Eq
        BY <1>8, <1>9, <2>2, <3>2
      <3>4. QED
        BY <1>3, <1>7, <3>2, <3>3
    <2>4. ~(j < l)
      <3>1. SUFFICES ASSUME j < l PROVE FALSE
        OBVIOUS
      <3>2. j + 1 \in 1 .. l /\ j + 1 \in 1 .. l + 2
        BY <3>1
      <3>3. a[j + 1] = Eq
        BY <1>8, <1>9, <2>2, <3>2
      <3>4. QED
        BY <1>2, <1>7, <3>2, <3>3
    <2>5. l = j
      BY <2>3, <2>4
    <2>6. \A i \in 1 .. l : a[i] = b[i]
      <3> TAKE i \in 1 .. l
      <3>1. i \in 1 .. l + 2 /\ i \in 1 .. j
        BY <2>5
      <3>2. QED
        BY <1>8, <1>9, <2>2, <3>1
    <2>7. Len(a) = Len(b) /\ \A i \in 1 .. Len(a) : a[i] = b[i]
      BY <1>7, <2>5, <2>6
    <2>8. QED
      BY <2>7, SameTexts
  <1>11. ASSUME a = b PROVE IsPrefix(s, c)
    <2>1. l = j
      BY <1>7, <1>11
    <2>2. Len(s) <= Len(c)
      BY <1>8, <1>9, <2>1
    <2>3. \A i \in 1 .. Len(s) : s[i] = c[i]
      <3> TAKE i \in 1 .. Len(s)
      <3>1. i \in 1 .. l + 2
        BY <1>8, Zenon
      <3>2. i \in 1 .. l \/ i = l + 1 \/ i = l + 2
        BY <3>1
      <3>3. CASE i \in 1 .. l
        <4>1. i \in 1 .. j
          BY <2>1, <3>3, Zenon
        <4>2. s[i] = a[i] /\ c[i] = b[i]
          BY <1>8, <1>9, <3>3, <4>1, Zenon
        <4>3. QED
          BY <1>11, <4>2, Zenon
      <3>4. CASE i = l + 1
        BY <1>8, <1>9, <2>1, <3>4
      <3>5. CASE i = l + 2
        BY <1>8, <1>9, <2>1, <3>5
      <3>6. QED
        BY <3>2, <3>3, <3>4, <3>5
    <2>4. QED
      BY <2>2, <2>3, PrefixIs
  <1>12. ASSUME a = b PROVE SubSeq(c, Len(s) + 1, Len(c) - 1) = v
    <2>1. l = j
      BY <1>7, <1>12
    <2>2. PICK x \in 1 .. Len(c) + 1, y \in Nat : x = Len(s) + 1 /\ x = j + 3 /\ y = Len(c) - 1 /\
                   y = j + 2 + m
      BY <1>8, <1>9, <2>1
    <2>3. y \in x - 1 .. Len(c)
      BY <1>9, <2>2
    <2>4. PICK u \in Seq(Nat) : Slice(u, c, x, y)
      BY <2>3, SlicedTo
    <2>5. Len(u) = m
      BY <2>2, <2>4 DEF Slice
    <2>6. \A i \in 1 .. m : u[i] = v[i]
      <3> TAKE i \in 1 .. m
      <3>1. i \in 1 .. y - x + 1 /\ x + i - 1 = j + 2 + i
        <4>1. x = j + 3 /\ y = j + 2 + m
          BY <2>2
        <4>2. QED
          BY <4>1
      <3>2. u[i] = c[x + i - 1]
        BY <2>4, <3>1, Zenon DEF Slice
      <3>3. QED
        BY <1>9, <3>1, <3>2, Zenon
    <2>7. Len(u) = Len(v) /\ \A i \in 1 .. Len(u) : u[i] = v[i]
      BY <1>7, <2>5, <2>6
    <2>8. u = v
      BY <2>7, SameTexts
    <2>9. SubSeq(c, x, y) = v
      BY <2>4, <2>8, Zenon DEF Slice
    <2>10. x = Len(s) + 1 /\ y = Len(c) - 1
      BY <2>2
    <2>11. QED
      BY <2>9, <2>10, Zenon
  <1>13. ~IsPrefix(s, << >>)
    <2>1. ~(Len(s) <= Len(<< >>))
      BY <1>8
    <2>2. QED
      BY <2>1, Zenon DEF IsPrefix
  <1>14. s = name \o <<Eq, Quote>>
    BY <1>2, <1>5, Zenon
  <1>15. QED
    BY <1>2, <1>3, <1>4, <1>6, <1>10, <1>11, <1>12, <1>13, <1>14, Zenon

(* What each command is, once all have been given. *)
Repeats(c, k) ==
  c[k] = IF Len(Field(form.fields[k])) < OutSize THEN UciSet(form.fields[k])
         ELSE IF k = 1 THEN << >> ELSE c[k - 1]

LEMMA CommandAt ==
  ASSUME FormFields(form.fields)
  PROVE  \E c \in Seq(Seq(Nat)) :
           /\ c = Commands(Len(form.fields)) /\ Len(c) = Len(form.fields)
           /\ \A k \in 1 .. Len(form.fields) : Repeats(c, k)
  <1>1. PICK n \in Nat \ {0} : n = Len(form.fields)
    BY FieldsTyped
  <1>2. \A k \in 0 .. n : Commands(k) \in Seq(Seq(Nat)) /\ Len(Commands(k)) = k
    BY <1>1, CommandsAre, Zenon
  <1>3. ASSUME NEW k \in 1 .. n
        PROVE  \E x : /\ Commands(k) = Append(Commands(k - 1), x)
                      /\ x = IF Len(Field(form.fields[k])) < OutSize THEN UciSet(form.fields[k])
                             ELSE IF k = 1 THEN << >> ELSE Last(Commands(k - 1))
    BY <1>1, CommandsAre, Zenon
  <1>4. ASSUME NEW k \in 1 .. n
        PROVE  /\ Commands(k)[k] = IF Len(Field(form.fields[k])) < OutSize THEN UciSet(form.fields[k])
                                   ELSE IF k = 1 THEN << >> ELSE Last(Commands(k - 1))
               /\ \A i \in 1 .. k - 1 : Commands(k)[i] = Commands(k - 1)[i]
    <2>1. k - 1 \in 0 .. n
      OBVIOUS
    <2>2. PICK b \in Seq(Seq(Nat)) : b = Commands(k - 1) /\ Len(b) = k - 1
      BY <1>2, <2>1, Zenon
    <2>3. PICK x : /\ Commands(k) = Append(Commands(k - 1), x)
                   /\ x = IF Len(Field(form.fields[k])) < OutSize THEN UciSet(form.fields[k])
                          ELSE IF k = 1 THEN << >> ELSE Last(Commands(k - 1))
      BY <1>3
    <2>4. Append(b, x)[k] = x /\ \A i \in 1 .. k - 1 : Append(b, x)[i] = b[i]
      <3>1. PICK Z : Z = Seq(Nat) \cup {x}
        OBVIOUS
      <3>2. b \in Seq(Z) /\ x \in Z
        BY <3>1
      <3>3. QED
        BY <2>2, <3>2
    <2>5. QED
      BY <2>2, <2>3, <2>4, Zenon
  <1> DEFINE Odd == {j \in 1 .. n : ~ \A i \in 1 .. j : Commands(j)[i] = Commands(i)[i]}
  <1>5. Odd = {}
    <2> SUFFICES ASSUME Odd # {} PROVE FALSE
      OBVIOUS
    <2>1. PICK j \in Odd : \A y \in Odd : j <= y
      <3>1. Odd \in SUBSET Nat
        OBVIOUS
      <3> HIDE DEF Odd
      <3>2. QED
        BY <3>1, MinIsLeast
    <2>2. j \in 1 .. n /\ ~ \A i \in 1 .. j : Commands(j)[i] = Commands(i)[i]
      BY <2>1
    <2>3. ~(j <= j - 1)
      BY <2>2
    <2>4. j - 1 \notin Odd
      <3> HIDE DEF Odd
      <3>1. QED
        BY <2>1, <2>3, Zenon
    <2>5. \A i \in 1 .. j : Commands(j)[i] = Commands(i)[i]
      <3> TAKE i \in 1 .. j
      <3>1. CASE i = j
        BY <3>1
      <3>2. CASE i # j
        <4>1. i \in 1 .. j - 1 /\ j - 1 \in 1 .. n
          BY <2>2, <3>2
        <4>2. Commands(j - 1)[i] = Commands(i)[i]
          BY <2>4, <4>1
        <4>3. Commands(j)[i] = Commands(j - 1)[i]
          BY <1>4, <2>2, <4>1, Zenon
        <4>4. QED
          BY <4>2, <4>3, Zenon
      <3>3. QED
        BY <3>1, <3>2
    <2>6. QED
      BY <2>2, <2>5, Zenon
  <1>6. \A i \in 1 .. n : Commands(n)[i] = Commands(i)[i]
    <2>1. n \in 1 .. n
      OBVIOUS
    <2>2. QED
      BY <1>5, <2>1
  <1>7. PICK c \in Seq(Seq(Nat)) : c = Commands(n) /\ Len(c) = n
    <2>1. n \in 0 .. n
      OBVIOUS
    <2>2. QED
      BY <1>2, <2>1, Zenon
  <1>8. ASSUME NEW k \in 1 .. n PROVE Repeats(c, k)
    <2>1. c[k] = IF Len(Field(form.fields[k])) < OutSize THEN UciSet(form.fields[k])
                 ELSE IF k = 1 THEN << >> ELSE Last(Commands(k - 1))
      BY <1>4, <1>6, <1>7, Zenon
    <2>2. ASSUME k # 1 PROVE Last(Commands(k - 1)) = c[k - 1]
      <3>1. PICK j \in 1 .. n : j = k - 1 /\ j \in 0 .. n
        BY <2>2
      <3>2. Len(Commands(j)) = j /\ c[j] = Commands(j)[j]
        BY <1>2, <1>6, <1>7, <3>1, Zenon
      <3>3. QED
        BY <3>1, <3>2, Zenon DEF Last
    <2>3. QED
      BY <2>1, <2>2, Zenon DEF Repeats
  <1>9. QED
    BY <1>1, <1>7, <1>8, Zenon

Short(k) == Len(Field(form.fields[k])) < OutSize

(* "uci get" after all commands answers the last value of that name.       *)
LEMMA GetIs ==
  ASSUME FormFields(form.fields), sets = Commands(Len(form.fields)), NEW name \in Seq(Plain)
  PROVE  UciGet(name) = Typed(name)
  <1>1. PICK n \in Nat \ {0} : n = Len(form.fields) /\ \A k \in 1 .. n : PlainField(form.fields[k])
    BY FieldsTyped, Zenon
  <1>2. PICK c \in Seq(Seq(Nat)) : c = sets /\ Len(c) = n /\ \A k \in 1 .. n : Repeats(c, k)
    BY <1>1, CommandAt, Zenon
  <1> DEFINE start == name \o <<Eq, Quote>>
             Hit == {i \in 1 .. n : IsPrefix(start, c[i])}
             Own == {i \in 1 .. n : form.fields[i][1] = name /\ Short(i)}
  <1>3. \A f : PlainField(f) =>
          /\ IsPrefix(start, UciSet(f)) <=> f[1] = name
          /\ f[1] = name => SubSeq(UciSet(f), Len(start) + 1, Len(UciSet(f)) - 1) = f[2]
    BY NamedSo, Zenon
  <1>4. ~IsPrefix(start, << >>)
    <2>1. PICK f : PlainField(f)
      <3>1. 1 \in 1 .. n
        OBVIOUS
      <3>2. QED
        BY <1>1, <3>1, Zenon
    <2>2. QED
      BY <2>1, NamedSo, Zenon
  <1> HIDE DEF start
  <1>5. ASSUME NEW i \in 1 .. n
        PROVE  /\ Short(i) => c[i] = UciSet(form.fields[i])
               /\ ~Short(i) /\ i = 1 => c[i] = << >>
               /\ ~Short(i) /\ i # 1 => c[i] = c[i - 1]
    BY <1>2, Zenon DEF Repeats, Short
  <1>6. \A i \in Own : i \in Hit
    <2> TAKE i \in Own
    <2>1. i \in 1 .. n /\ form.fields[i][1] = name /\ Short(i)
      OBVIOUS
    <2>2. IsPrefix(start, c[i])
      BY <1>1, <1>3, <1>5, <2>1, Zenon
    <2>3. QED
      BY <2>1, <2>2
  <1> DEFINE From(i, j) == j <= i /\ c[i] = c[j] /\ \A k \in j + 1 .. i : k \notin Own
             Odd == {i \in Hit : ~ \E j \in Own : From(i, j)}
  <1>7. Odd = {}
    <2> SUFFICES ASSUME Odd # {} PROVE FALSE
      OBVIOUS
    <2>1. PICK i \in Odd : \A y \in Odd : i <= y
      <3>1. Odd \in SUBSET Nat
        OBVIOUS
      <3> HIDE DEF Odd
      <3>2. QED
        BY <3>1, MinIsLeast
    <2>2. i \in 1 .. n /\ IsPrefix(start, c[i]) /\ ~ \E j \in Own : From(i, j)
      BY <2>1
    <2>3. CASE Short(i)
      <3>1. form.fields[i][1] = name
        BY <1>1, <1>3, <1>5, <2>2, <2>3, Zenon
      <3>2. i \in Own
        BY <2>2, <2>3, <3>1
      <3>3. From(i, i)
        BY <2>2
      <3>4. QED
        BY <2>2, <3>2, <3>3
    <2>4. CASE ~Short(i) /\ i = 1
      BY <1>4, <1>5, <2>2, <2>4, Zenon
    <2>5. CASE ~Short(i) /\ i # 1
      <3>1. i - 1 \in 1 .. n /\ ~(i <= i - 1) /\ c[i] = c[i - 1]
        BY <1>5, <2>2, <2>5
      <3>2. i - 1 \notin Odd
        <4> HIDE DEF Odd
        <4>1. QED
          BY <2>1, <3>1, Zenon
      <3>3. IsPrefix(start, c[i - 1])
        BY <2>2, <3>1, Zenon
      <3>4. i - 1 \in Hit
        BY <3>1, <3>3
      <3>5. PICK j \in Own : From(i - 1, j)
        BY <3>2, <3>4
      <3>6. i \notin Own
        BY <2>5
      <3> HIDE DEF Own
      <3>7. j \in 1 .. n
        BY DEF Own
      <3>8. From(i, j)
        <4>1. j <= i - 1 /\ c[i - 1] = c[j] /\ \A k \in j + 1 .. i - 1 : k \notin Own
          BY <3>5
        <4>2. j <= i
          BY <2>2, <3>7, <4>1
        <4>3. \A k \in j + 1 .. i : k \notin Own
          <5> TAKE k \in j + 1 .. i
          <5>1. k = i \/ k \in j + 1 .. i - 1
            BY <2>2, <3>7
          <5>2. QED
            BY <3>6, <4>1, <5>1
        <4>4. QED
          BY <3>1, <4>1, <4>2, <4>3, Zenon
      <3>9. QED
        BY <2>2, <3>8, Zenon
    <2>6. QED
      BY <2>3, <2>4, <2>5
  <1>8. Hit \in SUBSET (0 .. n) /\ Own \in SUBSET (0 .. n) /\ Hit \in SUBSET Int /\ Own \in SUBSET Int
    OBVIOUS
  <1>9. UciGet(name) = IF (IF Hit # {} THEN Max(Hit) ELSE 0) = 0 THEN << >>
                       ELSE SubSeq(c[IF Hit # {} THEN Max(Hit) ELSE 0], Len(start) + 1,
                              Len(c[IF Hit # {} THEN Max(Hit) ELSE 0]) - 1)
    BY <1>2, Zenon DEF UciGet, SelectLastInSeq, start
  <1>10. Typed(name) = IF (IF Own # {} THEN Max(Own) ELSE 0) = 0 THEN << >>
                       ELSE form.fields[IF Own # {} THEN Max(Own) ELSE 0][2]
    BY <1>1, Zenon DEF Typed, SelectLastInSeq, Short
  <1>11. CASE Hit = {}
    <2>1. Own = {}
      BY <1>6, <1>11
    <2> HIDE DEF Hit, Own
    <2>2. QED
      BY <1>9, <1>10, <1>11, <2>1, Zenon
  <1>12. CASE Hit # {}
    <2>1. PICK i \in Hit : \A y \in Hit : y <= i
      <3> HIDE DEF Hit
      <3>1. QED
        BY <1>8, <1>12, Greatest
    <2>2. PICK j \in Own : From(i, j)
      BY <1>7, <2>1
    <2>3. i \in 1 .. n /\ j \in 1 .. n /\ form.fields[j][1] = name /\ Short(j)
      BY <2>1
    <2>4. \A y \in Own : y <= j
      <3> TAKE y \in Own
      <3>1. y <= i /\ y \in 1 .. n
        BY <1>6, <2>1
      <3>2. \A k \in j + 1 .. i : k \notin Own
        BY <2>2
      <3>3. y \notin j + 1 .. i
        <4> HIDE DEF Own
        <4>1. QED
          BY <3>2, Zenon
      <3>4. QED
        BY <2>3, <3>1, <3>3
    <2>5. c[i] = c[j]
      BY <2>2
    <2> HIDE DEF Hit, Own
    <2>6. Max(Hit) = i
      <3>1. \A y \in Hit : i >= y
        BY <1>8, <2>1
      <3>2. QED
        BY <1>8, <3>1, MaxIs
    <2>7. Max(Own) = j
      <3>1. \A y \in Own : j >= y
        BY <1>8, <2>4
      <3>2. QED
        BY <1>8, <3>1, MaxIs
    <2>8. Own # {} /\ i # 0 /\ j # 0
      BY <2>2, <2>3
    <2>9. UciGet(name) = SubSeq(c[i], Len(start) + 1, Len(c[i]) - 1)
      BY <1>9, <1>12, <2>6, <2>8, Zenon
    <2>10. Typed(name) = form.fields[j][2]
      BY <1>10, <2>7, <2>8, Zenon
    <2>11. c[j] = UciSet(form.fields[j])
      BY <1>5, <2>3, Zenon
    <2>12. SubSeq(UciSet(form.fields[j]), Len(start) + 1, Len(UciSet(form.fields[j])) - 1) =
               form.fields[j][2]
      BY <1>1, <1>3, <2>3, Zenon
    <2>13. QED
      BY <2>5, <2>9, <2>10, <2>11, <2>12, Zenon
  <1>13. QED
    BY <1>11, <1>12

-----------------------------------------------------------------------------
(* What the page is from byte a on, n tags of it having been replaced.     *)
Turn(f, s, a, n) ==
  LET head == First(s, a, HeadFlag)
      tail == First(s, head, TailFlag)
  IN  IF n < InsteadSum /\ head # 0 /\ tail > head + 1
      THEN SubSeq(s, a, head - 1) \o UciGet(SubSeq(s, head + 1, tail - 1)) \o f[<<tail + 1, n + 1>>]
      ELSE SubSeq(s, a, Len(s))

(* A tag to be replaced. *)
Tagged(s, a, n, h, t) ==
  /\ n < InsteadSum /\ h \in a .. Len(s) /\ t \in h + 2 .. Len(s)
  /\ h = First(s, a, HeadFlag) /\ t = First(s, h, TailFlag)

Through(f, s, a, n, h, t) ==
  SubSeq(s, a, h - 1) \o UciGet(SubSeq(s, h + 1, t - 1)) \o f[<<t + 1, n + 1>>]

LEMMA TurnIs ==
  ASSUME NEW s \in Seq(Nat), NEW a \in 1 .. Len(s) + 1, NEW n
  PROVE  \/ \A f : Turn(f, s, a, n) = SubSeq(s, a, Len(s))
         \/ \E h, t : Tagged(s, a, n, h, t) /\ \A f : Turn(f, s, a, n) = Through(f, s, a, n, h, t)
  <1>1. PICK h : h = First(s, a, HeadFlag) /\ (h = 0 \/ h \in a .. Len(s))
    BY FirstIs, Zenon
  <1>2. PICK t : t = First(s, h, TailFlag)
    OBVIOUS
  <1>3. CASE n < InsteadSum /\ h # 0 /\ t > h + 1
    <2>1. h \in a .. Len(s) /\ h \in 1 .. Len(s) + 1
      BY <1>1, <1>3
    <2>2. t = 0 \/ t \in h .. Len(s)
      BY <1>2, <2>1, FirstIs, Zenon
    <2>3. t \in h + 2 .. Len(s)
      BY <1>3, <2>1, <2>2
    <2>4. Tagged(s, a, n, h, t)
      BY <1>1, <1>2, <1>3, <2>1, <2>3, Zenon DEF Tagged
    <2>5. \A f : Turn(f, s, a, n) = Through(f, s, a, n, h, t)
      BY <1>1, <1>2, <1>3, Zenon DEF Turn, Through
    <2>6. QED
      BY <2>4, <2>5, Zenon
  <1>4. CASE ~(n < InsteadSum /\ h # 0 /\ t > h + 1)
    <2>1. \A f : Turn(f, s, a, n) = SubSeq(s, a, Len(s))
      BY <1>1, <1>2, <1>4, Zenon DEF Turn
    <2>2. QED
      BY <2>1, Zenon
  <1>5. QED
    BY <1>3, <1>4

(* page is such a function of the place and the tags replaced. *)
Pages(f, s) ==
  \A a \in 1 .. Len(s) + 1, n \in 0 .. InsteadSum : f[<<a, n>>] = Turn(f, s, a, n)

(* Only one tag more is looked at. *)
LEMMA TurnSame ==
  ASSUME NEW s \in Seq(Nat), NEW a \in 1 .. Len(s) + 1, NEW n \in 0 .. InsteadSum, NEW f, NEW g,
         n < InsteadSum => \A b \in 1 .. Len(s) + 1 : f[<<b, n + 1>>] = g[<<b, n + 1>>]
  PROVE  Turn(f, s, a, n) = Turn(g, s, a, n)
  <1>1. CASE \A x : Turn(x, s, a, n) = SubSeq(s, a, Len(s))
    BY <1>1, Zenon
  <1>2. ASSUME NEW h, NEW t, Tagged(s, a, n, h, t), \A x : Turn(x, s, a, n) = Through(x, s, a, n, h, t)
        PROVE  Turn(f, s, a, n) = Turn(g, s, a, n)
    <2>1. n < InsteadSum /\ h \in a .. Len(s) /\ t \in h + 2 .. Len(s)
      BY <1>2, Zenon DEF Tagged
    <2>2. t + 1 \in 1 .. Len(s) + 1
      BY <2>1
    <2>3. f[<<t + 1, n + 1>>] = g[<<t + 1, n + 1>>]
      BY <2>1, <2>2, Zenon
    <2>4. QED
      BY <1>2, <2>3, Zenon DEF Through
  <1>3. QED
    BY <1>1, <1>2, TurnIs, Zenon

LEMMA PagesExist ==
  ASSUME NEW s \in Seq(Nat)
  PROVE  \E f : f = [p \in (1 .. Len(s) + 1) \X (0 .. InsteadSum) |-> Turn(f, s, p[1], p[2])]
  <1>1. InsteadSum \in Nat
    BY WebFormAssumption
  <1>2. PICK I \in Nat : I = InsteadSum
    BY <1>1
  <1>3. PICK l \in Nat : l = Len(s) + 1
    OBVIOUS
  <1> DEFINE D == (1 .. l) \X (0 .. I)
             Up(f, m) == \A a \in 1 .. l, n \in 0 .. I : n >= I - m => f[<<a, n>>] = Turn(f, s, a, n)
             Odd == {m \in 0 .. I : ~ \E f : Up(f, m)}
  <1>4. ASSUME NEW m \in 0 .. I, NEW g, m # 0 => Up(g, m - 1)
        PROVE  \E f : Up(f, m)
    <2> DEFINE f == [p \in D |-> IF p[2] > I - m THEN g[p] ELSE Turn(g, s, p[1], p[2])]
    <2>1. ASSUME NEW a \in 1 .. l, NEW n \in 0 .. I
          PROVE  f[<<a, n>>] = IF n > I - m THEN g[<<a, n>>] ELSE Turn(g, s, a, n)
      <3>1. <<a, n>> \in D /\ <<a, n>>[1] = a /\ <<a, n>>[2] = n
        OBVIOUS
      <3>2. QED
        BY <3>1, Zenon
    <2> HIDE DEF f, D
    <2>2. ASSUME NEW a \in 1 .. l, NEW n \in 0 .. I, n >= I - m
          PROVE  f[<<a, n>>] = Turn(f, s, a, n)
      <3>1. ASSUME n < I, NEW b \in 1 .. l PROVE f[<<b, n + 1>>] = g[<<b, n + 1>>]
        <4>1. n + 1 \in 0 .. I /\ n + 1 > I - m
          BY <2>2, <3>1
        <4>2. QED
          BY <2>1, <3>1, <4>1, Zenon
      <3>2. Turn(f, s, a, n) = Turn(g, s, a, n)
        <4>1. n < InsteadSum => \A b \in 1 .. Len(s) + 1 : f[<<b, n + 1>>] = g[<<b, n + 1>>]
          BY <1>2, <1>3, <3>1, Zenon
        <4>2. a \in 1 .. Len(s) + 1 /\ n \in 0 .. InsteadSum
          BY <1>2, <1>3, Zenon
        <4>3. QED
          BY <4>1, <4>2, TurnSame
      <3>3. CASE n > I - m
        <4>1. m # 0 /\ n >= I - (m - 1)
          BY <3>3
        <4>2. g[<<a, n>>] = Turn(g, s, a, n)
          BY <1>4, <4>1, Zenon
        <4>3. QED
          BY <2>1, <3>2, <3>3, <4>2, Zenon
      <3>4. CASE ~(n > I - m)
        BY <2>1, <3>2, <3>4, Zenon
      <3>5. QED
        BY <3>3, <3>4
    <2>3. Up(f, m)
      BY <2>2, Zenon
    <2>4. QED
      BY <2>3, Zenon
  <1>5. Odd = {}
    <2> SUFFICES ASSUME Odd # {} PROVE FALSE
      OBVIOUS
    <2>1. PICK m \in Odd : \A y \in Odd : m <= y
      <3>1. Odd \in SUBSET Nat
        OBVIOUS
      <3> HIDE DEF Odd
      <3>2. QED
        BY <3>1, MinIsLeast
    <2>2. m \in 0 .. I /\ ~ \E f : Up(f, m)
      BY <2>1
    <2>3. PICK k \in 0 .. I : k = m
      BY <2>2, Zenon
    <2>4. k # 0 => k - 1 \in 0 .. I /\ ~(k <= k - 1)
      <3> HIDE DEF Odd, Up
      <3>1. QED
        OBVIOUS
    <2>5. ASSUME m # 0 PROVE \E g : Up(g, m - 1)
      <3>1. m - 1 \in 0 .. I /\ ~(m <= m - 1)
        BY <2>5, <2>3, <2>4, Zenon
      <3>2. m - 1 \notin Odd
        BY <2>1, <3>1, Zenon
      <3>3. QED
        BY <3>1, <3>2
    <2>6. \E g : m # 0 => Up(g, m - 1)
      BY <2>5, Zenon
    <2> HIDE DEF Up
    <2>7. QED
      BY <1>4, <2>2, <2>6, Zenon
  <1>6. PICK g : Up(g, I)
    <2>1. I \in 0 .. I
      OBVIOUS
    <2> HIDE DEF Up
    <2>2. QED
      BY <1>5, <2>1
  <1> DEFINE f == [p \in D |-> Turn(g, s, p[1], p[2])]
  <1>7. ASSUME NEW a \in 1 .. l, NEW n \in 0 .. I
        PROVE  f[<<a, n>>] = Turn(g, s, a, n) /\ g[<<a, n>>] = Turn(g, s, a, n)
    <2>1. <<a, n>> \in D /\ <<a, n>>[1] = a /\ <<a, n>>[2] = n /\ n >= I - I
      OBVIOUS
    <2>2. QED
      BY <1>6, <2>1, Zenon
  <1>8. ASSUME NEW p \in D PROVE Turn(g, s, p[1], p[2]) = Turn(f, s, p[1], p[2])
    <2>1. p[1] \in 1 .. l /\ p[2] \in 0 .. I
      OBVIOUS
    <2>2. PICK a \in 1 .. l : a = p[1]
      BY <2>1
    <2>3. PICK n \in 0 .. I : n = p[2]
      BY <2>1
    <2> HIDE DEF f, D
    <2>4. ASSUME n < I, NEW b \in 1 .. l PROVE g[<<b, n + 1>>] = f[<<b, n + 1>>]
      <3>1. n + 1 \in 0 .. I
        BY <2>4
      <3>2. QED
        BY <1>7, <2>4, <3>1, Zenon
    <2>5. n < InsteadSum => \A b \in 1 .. Len(s) + 1 : g[<<b, n + 1>>] = f[<<b, n + 1>>]
      BY <1>2, <1>3, <2>4, Zenon
    <2>6. a \in 1 .. Len(s) + 1 /\ n \in 0 .. InsteadSum
      BY <1>2, <1>3, Zenon
    <2>7. Turn(g, s, a, n) = Turn(f, s, a, n)
      BY <2>5, <2>6, TurnSame
    <2>8. QED
      BY <2>2, <2>3, <2>7, Zenon
  <1>9. f = [p \in D |-> Turn(f, s, p[1], p[2])]
    BY <1>8, Zenon
  <1> HIDE DEF f
  <1>10. QED
    BY <1>2, <1>3, <1>9

LEMMA PagesRun ==
  ASSUME NEW s \in Seq(Nat)
  PROVE  \E f : Pages(f, s) /\ Rendered(s) = f[<<1, 0>>]
  <1> DEFINE D == (1 .. Len(s) + 1) \X (0 .. InsteadSum)
             v == CHOOSE f : f = [p \in D |->
                    LET from == p[1]
                        n    == p[2]
                        head == First(s, from, HeadFlag)
                        tail == First(s, head, TailFlag)
                    IN  IF n < InsteadSum /\ head # 0 /\ tail > head + 1
                        THEN SubSeq(s, from, head - 1) \o UciGet(SubSeq(s, head + 1, tail - 1))
                               \o f[<<tail + 1, n + 1>>]
                        ELSE SubSeq(s, from, Len(s))]
             w == CHOOSE f : f = [p \in D |-> Turn(f, s, p[1], p[2])]
  <1>1. Rendered(s) = v[<<1, 0>>]
    BY Zenon DEF Rendered
  <1>2. v = w
    BY DEF Turn
  <1>3. w = [p \in D |-> Turn(w, s, p[1], p[2])]
    BY PagesExist, Zenon
  <1> HIDE DEF v, w
  <1>4. ASSUME NEW a \in 1 .. Len(s) + 1, NEW n \in 0 .. InsteadSum PROVE w[<<a, n>>] = Turn(w, s, a, n)
    <2>1. <<a, n>> \in D /\ <<a, n>>[1] = a /\ <<a, n>>[2] = n
      OBVIOUS
    <2>2. QED
      BY <1>3, <2>1, Zenon
  <1>5. Pages(w, s)
    BY <1>4, Zenon DEF Pages
  <1>6. QED
    BY <1>1, <1>2, <1>5, Zenon

Grouped(x, y, z) == (x \o y) \o z = x \o (y \o z)
GroupedAll(x, y, z, u) == ((x \o y) \o z) \o u = x \o ((y \o z) \o u)

LEMMA Regroup ==
  ASSUME NEW x \in Seq(Nat), NEW y \in Seq(Nat), NEW z \in Seq(Nat)
  PROVE  Grouped(x, y, z)
  <1>1. (x \o y) \o z = x \o (y \o z)
    OBVIOUS
  <1>2. QED
    BY <1>1, Zenon DEF Grouped

LEMMA RegroupAll ==
  ASSUME NEW x \in Seq(Nat), NEW y \in Seq(Nat), NEW z \in Seq(Nat), NEW u \in Seq(Nat)
  PROVE  GroupedAll(x, y, z, u)
  <1>1. PICK d \in Seq(Nat) : d = y \o z
    BY Joined, Zenon
  <1>2. Grouped(x, y, z) /\ Grouped(x, d, u)
    BY Regroup, Zenon
  <1>3. (x \o y) \o z = x \o (y \o z) /\ (x \o d) \o u = x \o (d \o u)
    BY <1>2, Zenon DEF Grouped
  <1>4. QED
    BY <1>1, <1>3, Zenon DEF GroupedAll

LEMMA Glued ==
  ASSUME NEW T, NEW s \in Seq(T), NEW a \in 1 .. Len(s) + 1, NEW b \in a - 1 .. Len(s),
         NEW c \in b .. Len(s)
  PROVE  SubSeq(s, a, c) = SubSeq(s, a, b) \o SubSeq(s, b + 1, c)
  <1>1. PICK d \in 1 .. Len(s) + 1 : d = b + 1 /\ c \in d - 1 .. Len(s) /\ c \in a - 1 .. Len(s)
    OBVIOUS
  <1>2. PICK u \in Seq(T) : Slice(u, s, a, c)
    BY <1>1, SlicedTo
  <1>3. PICK v \in Seq(T) : Slice(v, s, a, b)
    BY SlicedTo
  <1>4. PICK w \in Seq(T) : Slice(w, s, d, c)
    BY <1>1, SlicedTo
  <1>5. PICK x \in Seq(T) : Put(x, v, w)
    BY JoinedTo
  <1>6. PICK k \in Nat, l \in Nat : k = Len(v) /\ l = Len(w)
    OBVIOUS
  <1>7. k = b - a + 1 /\ l = c - b
    BY <1>1, <1>3, <1>4, <1>6 DEF Slice
  <1>8. Len(u) = k + l /\ Len(x) = k + l
    <2>1. Len(u) = c - a + 1
      BY <1>2 DEF Slice
    <2>2. Len(x) = k + l
      BY <1>5, <1>6, Zenon DEF Put
    <2>3. c - a + 1 = k + l
      BY <1>7
    <2>4. QED
      BY <2>1, <2>2, <2>3
  <1>9. \A i \in 1 .. k + l : u[i] = x[i]
    <2> TAKE i \in 1 .. k + l
    <2>1. i \in 1 .. c - a + 1
      BY <1>7
    <2>2. u[i] = s[a + i - 1]
      BY <1>2, <2>1, Zenon DEF Slice
    <2>3. CASE i <= k
      <3>1. i \in 1 .. k /\ i \in 1 .. b - a + 1
        BY <1>7, <2>3
      <3>2. v[i] = s[a + i - 1]
        BY <1>3, <3>1, Zenon DEF Slice
      <3>3. x[i] = v[i]
        BY <1>5, <1>6, <3>1, Zenon DEF Put
      <3>4. QED
        BY <2>2, <3>2, <3>3, Zenon
    <2>4. CASE ~(i <= k)
      <3>1. PICK j \in 1 .. l : k + j = i /\ d + j - 1 = a + i - 1 /\ j \in 1 .. c - d + 1
        BY <1>1, <1>7, <2>4
      <3>2. w[j] = s[d + j - 1]
        BY <1>4, <3>1, Zenon DEF Slice
      <3>3. x[k + j] = w[j]
        BY <1>5, <1>6, Zenon DEF Put
      <3>4. QED
        BY <2>2, <3>1, <3>2, <3>3, Zenon
    <2>5. QED
      BY <2>3, <2>4
  <1>10. u = x
    <2>1. Len(u) = Len(x) /\ \A i \in 1 .. Len(u) : u[i] = x[i]
      BY <1>8, <1>9
    <2>2. QED
      BY <2>1, SameTexts
  <1>11. u = SubSeq(s, a, c) /\ x = SubSeq(s, a, b) \o SubSeq(s, b + 1, c)
    BY <1>1, <1>2, <1>3, <1>4, <1>5, Zenon DEF Slice, Put
  <1>12. QED
    BY <1>10, <1>11, Zenon

LEMMA GetTyped ==
  ASSUME sets \in Seq(Seq(Nat)), NEW name \in Seq(Nat)
  PROVE  UciGet(name) \in Seq(Nat)
  <1>1. PICK start \in Seq(Nat) : start = name \o <<Eq, Quote>>
    BY StartIs, Zenon
  <1>2. PICK c \in Seq(Seq(Nat)) : c = sets
    OBVIOUS
  <1> DEFINE Hit == {i \in 1 .. Len(c) : IsPrefix(start, c[i])}
  <1>3. UciGet(name) = IF (IF Hit # {} THEN Max(Hit) ELSE 0) = 0 THEN << >>
                       ELSE SubSeq(c[IF Hit # {} THEN Max(Hit) ELSE 0], Len(start) + 1,
                              Len(c[IF Hit # {} THEN Max(Hit) ELSE 0]) - 1)
    BY <1>1, <1>2, Zenon DEF UciGet, SelectLastInSeq
  <1>4. << >> \in Seq(Nat)
    OBVIOUS
  <1>5. CASE Hit = {}
    <2> HIDE DEF Hit
    <2>1. QED
      BY <1>3, <1>4, <1>5, Zenon
  <1>6. CASE Hit # {}
    <2>1. PICK i \in Hit : \A y \in Hit : y <= i
      <3>1. Hit \in SUBSET (0 .. Len(c)) /\ Len(c) \in Nat
        OBVIOUS
      <3> HIDE DEF Hit
      <3>2. QED
        BY <1>6, <3>1, Greatest
    <2>2. i \in 1 .. Len(c) /\ IsPrefix(start, c[i])
      BY <2>1
    <2>3. Hit \in SUBSET Int
      OBVIOUS
    <2> HIDE DEF Hit
    <2>4. Max(Hit) = i
      <3>1. \A y \in Hit : i >= y
        BY <2>1, <2>3
      <3>2. QED
        BY <2>1, <2>3, <3>1, MaxIs
    <2>5. PICK d \in Seq(Nat) : d = c[i]
      BY <2>2
    <2>6. Len(start) <= Len(d)
      BY <2>2, <2>5, PrefixIs, Zenon
    <2>7. SubSeq(d, Len(start) + 1, Len(d) - 1) \in Seq(Nat)
      <3>1. PICK j \in Nat, k \in Nat : j = Len(start) /\ k = Len(d)
        OBVIOUS
      <3>2. j <= k
        BY <2>6, <3>1, Zenon
      <3>3. CASE Len(start) < Len(d)
        <4>1. j < k
          BY <3>3, <3>1, Zenon
        <4>2. j + 1 \in 1 .. k + 1 /\ k - 1 \in (j + 1) - 1 .. k
          BY <4>1
        <4>3. QED
          BY <3>1, <4>2, Sliced, Zenon
      <3>4. CASE ~(Len(start) < Len(d))
        <4>1. ~(j < k)
          BY <3>4, <3>1, Zenon
        <4>2. j + 1 > k - 1
          BY <4>1
        <4>3. SubSeq(d, j + 1, k - 1) = << >>
          <5>1. j + 1 \in Int /\ k - 1 \in Int /\ k - 1 < j + 1
            BY <4>2
          <5>2. QED
            BY <5>1, SubSeqEmpty
        <4>4. QED
          BY <3>1, <4>3
      <3>5. QED
        BY <3>3, <3>4
    <2>8. i # 0
      BY <2>2
    <2>9. QED
      BY <1>3, <1>6, <2>4, <2>5, <2>7, <2>8, Zenon
  <1>7. QED
    BY <1>5, <1>6

LEMMA PagesTyped ==
  ASSUME NEW s \in Seq(Nat), sets \in Seq(Seq(Nat)), NEW f, Pages(f, s)
  PROVE  \A a \in 1 .. Len(s) + 1, n \in 0 .. InsteadSum : f[<<a, n>>] \in Seq(Nat)
  <1>1. PICK I \in Nat : I = InsteadSum
    BY WebFormAssumption
  <1>2. PICK l \in Nat : l = Len(s) + 1
    OBVIOUS
  <1> DEFINE Odd == {m \in 0 .. I : \E a \in 1 .. l : f[<<a, I - m>>] \notin Seq(Nat)}
  <1>3. Odd = {}
    <2> SUFFICES ASSUME Odd # {} PROVE FALSE
      OBVIOUS
    <2>1. PICK m \in Odd : \A y \in Odd : m <= y
      <3>1. Odd \in SUBSET Nat
        OBVIOUS
      <3> HIDE DEF Odd
      <3>2. QED
        BY <3>1, MinIsLeast
    <2>2. PICK a \in 1 .. l : f[<<a, I - m>>] \notin Seq(Nat)
      BY <2>1
    <2>3. m \in 0 .. I
      BY <2>1
    <2>4. PICK n \in 0 .. I : n = I - m
      BY <2>3
    <2>5. ASSUME n < I, NEW b \in 1 .. l PROVE f[<<b, n + 1>>] \in Seq(Nat)
      <3>1. m - 1 \in 0 .. I /\ ~(m <= m - 1) /\ I - (m - 1) = n + 1
        BY <2>3, <2>4, <2>5
      <3>2. m - 1 \notin Odd
        <4> HIDE DEF Odd
        <4>1. QED
          BY <2>1, <3>1, Zenon
      <3>3. QED
        BY <3>1, <3>2
    <2> HIDE DEF Odd
    <2>6. a \in 1 .. Len(s) + 1 /\ n \in 0 .. InsteadSum
      BY <1>1, <1>2, Zenon
    <2>7. f[<<a, n>>] = Turn(f, s, a, n)
      BY <2>6, Zenon DEF Pages
    <2>8. ASSUME \A x : Turn(x, s, a, n) = SubSeq(s, a, Len(s))
          PROVE  Turn(f, s, a, n) \in Seq(Nat)
      <3>1. Len(s) \in a - 1 .. Len(s)
        BY <1>2
      <3>2. SubSeq(s, a, Len(s)) \in Seq(Nat)
        BY <2>6, <3>1, Sliced
      <3>3. QED
        BY <2>8, <3>2, Zenon
    <2>9. ASSUME NEW h, NEW t, Tagged(s, a, n, h, t), \A x : Turn(x, s, a, n) =
                     Through(x, s, a, n, h, t)
          PROVE  Turn(f, s, a, n) \in Seq(Nat)
      <3>1. n < I /\ h \in a .. Len(s) /\ t \in h + 2 .. Len(s)
        BY <1>1, <2>9, Zenon DEF Tagged
      <3>2. t + 1 \in 1 .. l /\ h - 1 \in a - 1 .. Len(s) /\ t - 1 \in (h + 1) - 1 .. Len(s) /\
                h + 1 \in 1 .. Len(s) + 1
        BY <1>2, <3>1
      <3>3. PICK x \in Seq(Nat) : x = SubSeq(s, a, h - 1)
        BY <2>6, <3>2, Sliced
      <3>4. PICK y \in Seq(Nat) : y = SubSeq(s, h + 1, t - 1)
        BY <3>2, Sliced
      <3>5. PICK z \in Seq(Nat) : z = UciGet(y)
        BY GetTyped
      <3>6. PICK u \in Seq(Nat) : u = f[<<t + 1, n + 1>>]
        BY <2>5, <3>1, <3>2, Zenon
      <3>7. (x \o z) \o u \in Seq(Nat)
        BY Joined, Zenon
      <3>8. QED
        BY <2>9, <3>3, <3>4, <3>5, <3>6, <3>7, Zenon DEF Through
    <2>10. Turn(f, s, a, n) \in Seq(Nat)
      BY <2>6, <2>8, <2>9, TurnIs, Zenon
    <2>11. QED
      BY <2>2, <2>4, <2>7, <2>10, Zenon
  <1>4. ASSUME NEW a \in 1 .. l, NEW n \in 0 .. I PROVE f[<<a, n>>] \in Seq(Nat)
    <2>1. I - n \in 0 .. I /\ I - (I - n) = n
      OBVIOUS
    <2>2. QED
      BY <1>3, <2>1
  <1>5. QED
    BY <1>1, <1>2, <1>4, Zenon

(* What holds no tag to be replaced is left as it is. *)
LEMMA LeftAsItIs ==
  ASSUME NEW s \in Seq(Nat), sets \in Seq(Seq(Nat)), NEW f, Pages(f, s),
         NEW a \in 1 .. Len(s) + 1, NEW b \in a - 1 .. Len(s), NEW n \in 0 .. InsteadSum,
         n = InsteadSum \/ \A i \in a .. b : s[i] # HeadFlag
  PROVE  f[<<a, n>>] = SubSeq(s, a, b) \o f[<<b + 1, n>>]
  <1>1. PICK c \in 1 .. Len(s) + 1 : c = b + 1 /\ Len(s) \in b .. Len(s) /\ a <= c
    OBVIOUS
  <1>2. f[<<a, n>>] = Turn(f, s, a, n) /\ f[<<c, n>>] = Turn(f, s, c, n)
    BY Zenon DEF Pages
  <1>3. SubSeq(s, a, Len(s)) = SubSeq(s, a, b) \o SubSeq(s, c, Len(s))
    BY <1>1, Glued
  <1>4. CASE n = InsteadSum
    <2>1. ~(n < InsteadSum)
      <3>1. InsteadSum \in Nat
        BY WebFormAssumption
      <3>2. QED
        BY <1>4, <3>1
    <2>2. \A d : Turn(f, s, d, n) = SubSeq(s, d, Len(s))
      BY <2>1, Zenon DEF Turn
    <2>3. QED
      BY <1>1, <1>2, <1>3, <2>2, Zenon
  <1>5. CASE \A i \in a .. b : s[i] # HeadFlag
    <2>1. PICK h : h = First(s, c, HeadFlag)
      OBVIOUS
    <2>2. \/ h = 0 /\ \A i \in c .. Len(s) : s[i] # HeadFlag
          \/ h \in c .. Len(s) /\ s[h] = HeadFlag /\ \A i \in c .. h - 1 : s[i] # HeadFlag
      <3>1. \/ First(s, c, HeadFlag) = 0 /\ \A i \in c .. Len(s) : s[i] # HeadFlag
            \/ /\ First(s, c, HeadFlag) \in c .. Len(s) /\ s[First(s, c, HeadFlag)] = HeadFlag
               /\ \A i \in c .. First(s, c, HeadFlag) - 1 : s[i] # HeadFlag
        BY FirstIs
      <3>2. QED
        BY <2>1, <3>1, Zenon
    <2>3. First(s, a, HeadFlag) = h
      <3>1. CASE h = 0 /\ \A i \in c .. Len(s) : s[i] # HeadFlag
        <4>1. \A i \in a .. Len(s) : s[i] # HeadFlag
          <5> TAKE i \in a .. Len(s)
          <5>1. i \in a .. b \/ i \in c .. Len(s)
            BY <1>1
          <5>2. QED
            BY <1>5, <3>1, <5>1
        <4>2. QED
          BY <3>1, <4>1, FirstNone
      <3>2. CASE h \in c .. Len(s) /\ s[h] = HeadFlag /\ \A i \in c .. h - 1 : s[i] # HeadFlag
        <4>1. h \in a .. Len(s)
          BY <1>1, <3>2
        <4>2. \A i \in a .. h - 1 : s[i] # HeadFlag
          <5> TAKE i \in a .. h - 1
          <5>1. i \in a .. b \/ i \in c .. h - 1
            BY <1>1, <3>2
          <5>2. QED
            BY <1>5, <3>2, <5>1
        <4>3. QED
          BY <3>2, <4>1, <4>2, FirstAt
      <3>3. QED
        BY <2>2, <3>1, <3>2
    <2>4. PICK t : t = First(s, h, TailFlag)
      OBVIOUS
    <2>5. CASE n < InsteadSum /\ h # 0 /\ t > h + 1
      <3>1. h \in c .. Len(s)
        BY <2>2, <2>5
      <3>2. t \in h + 2 .. Len(s)
        <4>1. h \in 1 .. Len(s) + 1
          BY <1>1, <3>1
        <4>2. t = 0 \/ t \in h .. Len(s)
          BY <2>4, <4>1, FirstIs, Zenon
        <4>3. QED
          BY <2>5, <3>1, <4>2
      <3>3. /\ Turn(f, s, a, n) = SubSeq(s, a, h - 1) \o UciGet(SubSeq(s, h + 1, t - 1)) \o
                   f[<<t + 1, n + 1>>]
            /\ Turn(f, s, c, n) = SubSeq(s, c, h - 1) \o UciGet(SubSeq(s, h + 1, t - 1)) \o
                   f[<<t + 1, n + 1>>]
        BY <2>1, <2>3, <2>4, <2>5, Zenon DEF Turn
      <3>4. /\ h - 1 \in b .. Len(s) /\ b \in a - 1 .. Len(s) /\ h - 1 \in c - 1 .. Len(s)
            /\ t - 1 \in (h + 1) - 1 .. Len(s) /\ h + 1 \in 1 .. Len(s) + 1
            /\ t + 1 \in 1 .. Len(s) + 1 /\ n + 1 \in 0 .. InsteadSum
        <4>1. InsteadSum \in Nat
          BY WebFormAssumption
        <4>2. n + 1 \in 0 .. InsteadSum
          BY <2>5, <4>1
        <4>3. QED
          BY <1>1, <3>1, <3>2, <4>2
      <3>5. PICK x \in Seq(Nat) : x = SubSeq(s, a, b)
        BY Sliced
      <3>6. PICK y \in Seq(Nat) : y = SubSeq(s, c, h - 1)
        BY <3>4, Sliced
      <3>7. PICK z \in Seq(Nat) : z = UciGet(SubSeq(s, h + 1, t - 1))
        <4>1. SubSeq(s, h + 1, t - 1) \in Seq(Nat)
          BY <3>4, Sliced
        <4>2. QED
          BY <4>1, GetTyped
      <3>8. PICK u \in Seq(Nat) : u = f[<<t + 1, n + 1>>]
        BY <3>4, PagesTyped, Zenon
      <3>9. SubSeq(s, a, h - 1) = x \o y
        <4>1. SubSeq(s, a, h - 1) = SubSeq(s, a, b) \o SubSeq(s, b + 1, h - 1)
          BY <3>4, Glued
        <4>2. QED
          BY <1>1, <3>5, <3>6, <4>1, Zenon
      <3>10. ((x \o y) \o z) \o u = x \o ((y \o z) \o u)
        <4>1. GroupedAll(x, y, z, u)
          BY RegroupAll, Zenon
        <4>2. QED
          BY <4>1, Zenon DEF GroupedAll
      <3>11. QED
        BY <1>1, <1>2, <3>3, <3>5, <3>6, <3>7, <3>8, <3>9, <3>10, Zenon
    <2>6. CASE ~(n < InsteadSum /\ h # 0 /\ t > h + 1)
      <3>1. Turn(f, s, a, n) = SubSeq(s, a, Len(s)) /\ Turn(f, s, c, n) = SubSeq(s, c, Len(s))
        BY <2>1, <2>3, <2>4, <2>6, Zenon DEF Turn
      <3>2. QED
        BY <1>1, <1>2, <1>3, <3>1, Zenon
    <2>7. QED
      BY <2>5, <2>6
  <1>6. QED
    BY <1>4, <1>5

(* A piece of the page: bytes a + 1 to b. *)
Lies(s, a, b, x) ==
  b = a + Len(x) /\ b <= Len(s) /\ \A k \in 1 .. Len(x) : s[a + k] = x[k]

CutFrom(s, a, b, x) ==
  /\ a + 1 \in 1 .. Len(s) + 1 /\ b \in (a + 1) - 1 .. Len(s)
  /\ SubSeq(s, a + 1, b) = x
  /\ \A y : (\A k \in 1 .. Len(x) : x[k] # y) => \A i \in a + 1 .. b : s[i] # y

LEMMA LiesIs ==
  ASSUME NEW s \in Seq(Nat), NEW x \in Seq(Nat), NEW a \in Nat, NEW b, Lies(s, a, b, x)
  PROVE  CutFrom(s, a, b, x)
  <1>1. PICK k \in Nat, l \in Nat : k = Len(x) /\ l = Len(s)
    OBVIOUS
  <1>2. b = a + k /\ b <= l /\ \A i \in 1 .. k : s[a + i] = x[i]
    BY <1>1, Zenon DEF Lies
  <1>3. PICK c \in 1 .. l + 1 : c = a + 1 /\ b \in c - 1 .. l /\ b - c + 1 = k
    BY <1>2
  <1>4. PICK u \in Seq(Nat) : Slice(u, s, c, b)
    BY <1>1, <1>3, SlicedTo, Zenon
  <1>5. Len(u) = k
    BY <1>3, <1>4 DEF Slice
  <1>6. \A i \in 1 .. k : u[i] = x[i]
    <2> TAKE i \in 1 .. k
    <2>1. c + i - 1 = a + i /\ i \in 1 .. b - c + 1
      BY <1>3
    <2>2. u[i] = s[c + i - 1]
      BY <1>4, <2>1, Zenon DEF Slice
    <2>3. QED
      BY <1>2, <2>1, <2>2, Zenon
  <1>7. u = x
    <2>1. Len(u) = Len(x) /\ \A i \in 1 .. Len(u) : u[i] = x[i]
      BY <1>1, <1>5, <1>6
    <2>2. QED
      BY <2>1, SameTexts
  <1>8. SubSeq(s, a + 1, b) = x
    BY <1>3, <1>4, <1>7, Zenon DEF Slice
  <1>9. ASSUME NEW y, \A i \in 1 .. k : x[i] # y, NEW i \in a + 1 .. b PROVE s[i] # y
    <2>1. i - a \in 1 .. k /\ a + (i - a) = i
      BY <1>2
    <2>2. QED
      BY <1>2, <1>9, <2>1
  <1>10. a + 1 \in 1 .. Len(s) + 1 /\ b \in (a + 1) - 1 .. Len(s)
    BY <1>1, <1>3, Zenon
  <1>11. QED
    BY <1>1, <1>8, <1>9, <1>10, Zenon DEF CutFrom

(* Put after what the page is from b on. *)
Leads(f, a, n, x, b, k) == f[<<a, n>>] = x \o f[<<b, k>>]

LEMMA PieceKept ==
  ASSUME NEW s \in Seq(Nat), sets \in Seq(Seq(Nat)), NEW f, Pages(f, s), NEW x \in Seq(Nat),
         NEW a \in Nat, NEW b, Lies(s, a, b, x), NEW n \in 0 .. InsteadSum,
         n = InsteadSum \/ \A k \in 1 .. Len(x) : x[k] # HeadFlag
  PROVE  Leads(f, a + 1, n, x, b + 1, n)
  <1>1. CutFrom(s, a, b, x)
    BY LiesIs, Zenon
  <1>2. PICK c \in 1 .. Len(s) + 1 : c = a + 1 /\ b \in c - 1 .. Len(s)
    BY <1>1, Zenon DEF CutFrom
  <1>3. SubSeq(s, c, b) = x
    BY <1>2, <1>1, Zenon DEF CutFrom
  <1>4. n = InsteadSum \/ \A i \in c .. b : s[i] # HeadFlag
    BY <1>2, <1>1, Zenon DEF CutFrom
  <1>5. f[<<c, n>>] = SubSeq(s, c, b) \o f[<<b + 1, n>>]
    BY <1>2, <1>4, LeftAsItIs, ZenonT(40)
  <1>6. QED
    BY <1>2, <1>3, <1>5, Zenon DEF Leads

(* The mark of a tag, its name, and the mark that ends it. *)
Marks(x, name) ==
  /\ Len(x) = Len(name) + 2 /\ x[1] = HeadFlag /\ x[Len(name) + 2] = TailFlag
  /\ \A k \in 1 .. Len(name) : x[k + 1] = name[k]

LEMMA TagReplaced ==
  ASSUME NEW s \in Seq(Nat), sets \in Seq(Seq(Nat)), NEW f, Pages(f, s), NEW x \in Seq(Nat),
         NEW a \in Nat, NEW b, Lies(s, a, b, x), NEW n \in 0 .. InsteadSum, n < InsteadSum,
         NEW name \in Seq(Plain), name # << >>, Marks(x, name)
  PROVE  Leads(f, a + 1, n, UciGet(name), b + 1, n + 1)
  <1>1. PICK t \in Seq(Nat) : t = name
    BY DecodePlain, Zenon
  <1>2. PICK l \in Nat : l = Len(t) /\ l # 0
    BY <1>1
  <1>3. PICK k \in Nat : k = Len(s)
    OBVIOUS
  <1>4. /\ Len(x) = l + 2 /\ x[1] = HeadFlag /\ x[l + 2] = TailFlag
        /\ \A i \in 1 .. l : x[i + 1] = t[i]
    BY <1>1, <1>2, Zenon DEF Marks
  <1>5. b = a + (l + 2) /\ b <= k /\ \A i \in 1 .. l + 2 : s[a + i] = x[i]
    BY <1>3, <1>4, Zenon DEF Lies
  <1>6. PICK c \in 1 .. k + 1 : c = a + 1 /\ c \in c .. k /\ b \in c .. k /\ b > c + 1 /\ c + l + 1 = b
    BY <1>2, <1>5
  <1>7. s[c] = HeadFlag /\ s[b] = TailFlag
    <2>1. 1 \in 1 .. l + 2 /\ l + 2 \in 1 .. l + 2
      OBVIOUS
    <2>2. QED
      BY <1>4, <1>5, <1>6, <2>1, Zenon
  <1>8. \A i \in 1 .. l : s[c + i] = t[i]
    <2> TAKE i \in 1 .. l
    <2>1. i + 1 \in 1 .. l + 2 /\ a + (i + 1) = c + i
      BY <1>6
    <2>2. s[a + (i + 1)] = x[i + 1]
      BY <1>5, <2>1, Zenon
    <2>3. x[i + 1] = t[i]
      BY <1>4, Zenon
    <2>4. QED
      BY <2>1, <2>2, <2>3, Zenon
  <1>9. \A i \in c .. b - 1 : s[i] # TailFlag
    <2> TAKE i \in c .. b - 1
    <2>1. i = c \/ (i - c \in 1 .. l /\ c + (i - c) = i)
      BY <1>6
    <2>2. HeadFlag # TailFlag /\ \A y \in Plain : y # TailFlag
      <3>1. TailFlag \notin Plain
        BY DEF Plain, Byte, TailFlag, Json
      <3>2. HeadFlag # TailFlag
        BY DEF HeadFlag, TailFlag
      <3>3. QED
        BY <3>1, <3>2
    <2>3. \A y \in 1 .. l : t[y] \in Plain
      BY <1>1, <1>2
    <2>4. CASE i = c
      BY <1>7, <2>2, <2>4, Zenon
    <2>5. CASE i - c \in 1 .. l /\ c + (i - c) = i
      BY <1>8, <2>2, <2>3, <2>5, Zenon
    <2>6. QED
      BY <2>1, <2>4, <2>5
  <1>10. First(s, c, HeadFlag) = c
    <2>1. \A i \in c .. c - 1 : s[i] # HeadFlag
      OBVIOUS
    <2>2. QED
      BY <1>3, <1>6, <1>7, <2>1, FirstAt
  <1>11. First(s, c, TailFlag) = b
    BY <1>3, <1>6, <1>7, <1>9, FirstAt
  <1>12. SubSeq(s, c + 1, b - 1) = t
    <2>1. c + 1 \in 1 .. Len(s) + 1 /\ b - 1 \in (c + 1) - 1 .. Len(s)
      BY <1>3, <1>6
    <2>2. PICK u \in Seq(Nat) : Slice(u, s, c + 1, b - 1)
      BY <2>1, SlicedTo, Zenon
    <2>3. (b - 1) - (c + 1) + 1 = l
      BY <1>6
    <2>4. Len(u) = l
      BY <2>2, <2>3, Zenon DEF Slice
    <2>5. \A i \in 1 .. l : u[i] = t[i]
      <3> TAKE i \in 1 .. l
      <3>1. (c + 1) + i - 1 = c + i
        OBVIOUS
      <3>2. u[i] = s[(c + 1) + i - 1]
        BY <2>2, <2>3, Zenon DEF Slice
      <3>3. QED
        BY <1>8, <3>1, <3>2, Zenon
    <2>6. u = t
      <3>1. Len(u) = Len(t) /\ \A i \in 1 .. Len(u) : u[i] = t[i]
        BY <1>2, <2>4, <2>5
      <3>2. QED
        BY <3>1, SameTexts
    <2>7. QED
      BY <2>2, <2>6, Zenon DEF Slice
  <1>13. SubSeq(s, c, c - 1) = << >>
    <2>1. c \in Int /\ c - 1 \in Int /\ c - 1 < c
      OBVIOUS
    <2>2. QED
      BY <2>1, SubSeqEmpty
  <1>14. Turn(f, s, c, n) = SubSeq(s, c, c - 1) \o UciGet(SubSeq(s, c + 1, b - 1)) \o
             f[<<b + 1, n + 1>>]
    <2>1. c # 0
      BY <1>6
    <2>2. b > c + 1
      BY <1>6
    <2>3. QED
      BY <1>10, <1>11, <2>1, <2>2, Zenon DEF Turn
  <1>15. PICK z \in Seq(Nat) : z = UciGet(t)
    BY GetTyped
  <1>16. << >> \o z = z
    BY NoneJoined
  <1>17. f[<<c, n>>] = Turn(f, s, c, n)
    BY <1>3, <1>6, Zenon DEF Pages
  <1>18. QED
    BY <1>1, <1>6, <1>12, <1>13, <1>14, <1>15, <1>16, <1>17, Zenon DEF Leads

-----------------------------------------------------------------------------
(* A line of a page, item by item. *)
TextItem(x) == x[1] = "text" /\ x[2] \in Seq(Nat) /\ \A k \in 1 .. Len(x[2]) : x[2][k] # HeadFlag
TagItem(x) == x[1] = "tag" /\ x[2] \in Seq(Plain) /\ x[2] # << >>

LEMMA LineIs ==
  ASSUME line \in Lines
  PROVE  /\ Len(line) \in Nat /\ DOMAIN line = 1 .. Len(line)
         /\ \A i \in 1 .. Len(line) : TextItem(line[i]) \/ TagItem(line[i])
  <1> DEFINE Items == {"text"} \X Seq(Nat \ {HeadFlag, TailFlag}) \cup {"tag"} \X (Seq(Plain) \ {<< >>})
  <1>1. line \in Seq(Items)
    BY WebFormAssumption
  <1>2. ASSUME NEW x \in Items PROVE TextItem(x) \/ TagItem(x)
    <2>1. CASE x \in {"text"} \X Seq(Nat \ {HeadFlag, TailFlag})
      <3>1. x[1] = "text" /\ x[2] \in Seq(Nat \ {HeadFlag, TailFlag})
        BY <2>1
      <3>2. PICK y \in Seq(Nat \ {HeadFlag, TailFlag}) : y = x[2]
        BY <3>1
      <3>3. y \in Seq(Nat) /\ \A k \in 1 .. Len(y) : y[k] # HeadFlag
        OBVIOUS
      <3>4. QED
        BY <3>1, <3>2, <3>3, Zenon DEF TextItem
    <2>2. CASE x \in {"tag"} \X (Seq(Plain) \ {<< >>})
      BY <2>2 DEF TagItem
    <2>3. QED
      BY <2>1, <2>2
  <1> HIDE DEF Items
  <1>3. Len(line) \in Nat /\ DOMAIN line = 1 .. Len(line) /\ \A i \in 1 .. Len(line) : line[i] \in Items
    BY <1>1
  <1>4. QED
    BY <1>2, <1>3, Zenon

(* How many tags the first k items have. *)
LEMMA TagsAre ==
  ASSUME line \in Lines
  PROVE  /\ Tags(0) = 0
         /\ \A k \in 1 .. Len(line) :
              /\ Tags(k - 1) \in Nat
              /\ Tags(k) = IF line[k][1] = "tag" THEN Tags(k - 1) + 1 ELSE Tags(k - 1)
  <1> DEFINE Is(k) == {i \in 1 .. k : line[i][1] = "tag"}
  <1>1. Is(0) = {}
    OBVIOUS
  <1>2. Tags(0) = 0
    BY <1>1, FS_EmptySet DEF Tags
  <1>3. ASSUME NEW k \in Nat PROVE IsFiniteSet(Is(k)) /\ Cardinality(Is(k)) \in Nat
    <2>1. IsFiniteSet(1 .. k)
      BY FS_Interval
    <2>2. Is(k) \subseteq 1 .. k
      OBVIOUS
    <2> HIDE DEF Is
    <2>3. IsFiniteSet(Is(k))
      BY <2>1, <2>2, FS_Subset
    <2>4. QED
      BY <2>3, FS_CardinalityType
  <1>4. ASSUME NEW k \in 1 .. Len(line)
        PROVE  /\ Tags(k - 1) \in Nat
               /\ Tags(k) = IF line[k][1] = "tag" THEN Tags(k - 1) + 1 ELSE Tags(k - 1)
    <2>1. PICK j \in Nat : j = k - 1 /\ k = j + 1
      <3>1. Len(line) \in Nat
        BY LineIs
      <3>2. QED
        BY <3>1
    <2>2. k \notin Is(j)
      BY <2>1
    <2>3. Is(k) = IF line[k][1] = "tag" THEN Is(j) \cup {k} ELSE Is(j)
      <3>1. \A i : i \in 1 .. k <=> i \in 1 .. j \/ i = k
        BY <2>1
      <3>2. QED
        BY <3>1
    <2>4. Tags(k) = Cardinality(Is(k)) /\ Tags(j) = Cardinality(Is(j))
      BY Zenon DEF Tags
    <2> HIDE DEF Is
    <2>5. IsFiniteSet(Is(j)) /\ Cardinality(Is(j)) \in Nat
      BY <1>3
    <2>6. Cardinality(Is(j) \cup {k}) = Cardinality(Is(j)) + 1
      BY <2>2, <2>5, FS_AddElement
    <2>7. QED
      BY <2>1, <2>3, <2>4, <2>5, <2>6
  <1>5. QED
    BY <1>2, <1>4

(* What an item is in the page, and what is shown for it. *)
Given(i) == Source(line[i])
Shown(i) == IF line[i][1] = "tag" /\ Tags(i) <= InsteadSum THEN Typed(line[i][2]) ELSE Source(line[i])

LEMMA SourceIs ==
  ASSUME NEW x
  PROVE  /\ TextItem(x) => /\ Source(x) \in Seq(Nat)
                           /\ \A k \in 1 .. Len(Source(x)) : Source(x)[k] # HeadFlag
         /\ TagItem(x) => Source(x) \in Seq(Nat) /\ Marks(Source(x), x[2])
  <1>1. ASSUME TextItem(x)
        PROVE  Source(x) \in Seq(Nat) /\ \A k \in 1 .. Len(Source(x)) : Source(x)[k] # HeadFlag
    <2>1. Source(x) = x[2]
      BY <1>1, Zenon DEF TextItem, Source
    <2>2. QED
      BY <1>1, <2>1, Zenon DEF TextItem
  <1>2. ASSUME TagItem(x) PROVE Source(x) \in Seq(Nat) /\ Marks(Source(x), x[2])
    <2>1. Source(x) = <<HeadFlag>> \o x[2] \o <<TailFlag>>
      <3>1. "tag" # "text"
        OBVIOUS
      <3>2. QED
        BY <1>2, <3>1, Zenon DEF TagItem, Source
    <2>2. PICK t \in Seq(Nat) : t = x[2]
      BY <1>2, DecodePlain, Zenon DEF TagItem
    <2>3. HeadFlag \in Nat /\ TailFlag \in Nat
      BY MarksAre
    <2>4. PICK h \in Seq(Nat) : h = <<HeadFlag>> /\ Len(h) = 1 /\ h[1] = HeadFlag
      <3>1. <<HeadFlag>> \in Seq(Nat) /\ Len(<<HeadFlag>>) = 1 /\ <<HeadFlag>>[1] = HeadFlag
        BY <2>3
      <3>2. QED
        BY <3>1, Zenon
    <2>5. PICK e \in Seq(Nat) : e = <<TailFlag>> /\ Len(e) = 1 /\ e[1] = TailFlag
      <3>1. <<TailFlag>> \in Seq(Nat) /\ Len(<<TailFlag>>) = 1 /\ <<TailFlag>>[1] = TailFlag
        BY <2>3
      <3>2. QED
        BY <3>1, Zenon
    <2>6. PICK u \in Seq(Nat) : Put(u, h, t)
      BY JoinedTo
    <2>7. PICK v \in Seq(Nat) : Put(v, u, e)
      BY JoinedTo
    <2>8. PICK l \in Nat : l = Len(t)
      OBVIOUS
    <2>9. Len(u) = 1 + l /\ Len(v) = 1 + l + 1
      BY <2>5, <2>4, <2>6, <2>7, <2>8, Zenon DEF Put
    <2>10. u[1] = HeadFlag /\ \A i \in 1 .. l : u[1 + i] = t[i]
      <3>1. 1 \in 1 .. 1
        OBVIOUS
      <3>2. QED
        BY <2>4, <2>6, <2>8, <3>1, Zenon DEF Put
    <2>11. v[1 + l + 1] = TailFlag /\ \A i \in 1 .. 1 + l : v[i] = u[i]
      <3>1. 1 \in 1 .. 1
        OBVIOUS
      <3>2. QED
        BY <2>5, <2>7, <2>9, <3>1, Zenon DEF Put
    <2>12. v[1] = HeadFlag /\ v[l + 2] = TailFlag /\ Len(v) = l + 2
      BY <2>9, <2>10, <2>11
    <2>13. \A i \in 1 .. l : v[i + 1] = t[i]
      BY <2>10, <2>11
    <2>14. Marks(v, t)
      BY <2>8, <2>12, <2>13, Zenon DEF Marks
    <2>15. v = Source(x)
      BY <2>1, <2>2, <2>5, <2>4, <2>6, <2>7, Zenon DEF Put
    <2>16. QED
      BY <2>2, <2>14, <2>15, Zenon
  <1>3. QED
    BY <1>1, <1>2

(* The tags replaced in the first k items. *)
Replaced(k) == IF Tags(k) < InsteadSum THEN Tags(k) ELSE InsteadSum

LEMMA ItemTurned ==
  ASSUME line \in Lines, sets \in Seq(Seq(Nat)), \A name \in Seq(Plain) : UciGet(name) = Typed(name),
         NEW s \in Seq(Nat), NEW f, Pages(f, s), NEW i \in 1 .. Len(line),
         NEW a \in Nat, NEW b, Lies(s, a, b, Given(i))
  PROVE  Shown(i) \in Seq(Nat) /\ Leads(f, a + 1, Replaced(i - 1), Shown(i), b + 1, Replaced(i))
  <1>1. PICK I \in Nat \ {0} : I = InsteadSum
    BY WebFormAssumption
  <1>2. PICK x : x = line[i] /\ (TextItem(x) \/ TagItem(x))
    BY LineIs, Zenon
  <1>3. PICK k \in Nat : k = Tags(i - 1) /\ Tags(i) = IF x[1] = "tag" THEN k + 1 ELSE k
    BY <1>2, TagsAre, Zenon
  <1>4. PICK y \in Seq(Nat) : y = Source(x)
    BY <1>2, SourceIs, Zenon
  <1>5. Lies(s, a, b, y)
    BY <1>2, <1>4, Zenon DEF Given
  <1>6. CASE TextItem(x)
    <2>1. x[1] = "text" /\ x[1] # "tag"
      BY <1>6 DEF TextItem
    <2>2. Shown(i) = y /\ Tags(i) = k
      BY <1>2, <1>3, <1>4, <2>1, Zenon DEF Shown
    <2>3. PICK n \in 0 .. I : n = IF k < I THEN k ELSE I
      OBVIOUS
    <2>4. Replaced(i - 1) = n /\ Replaced(i) = n
      BY <1>1, <1>3, <2>2, <2>3, Zenon DEF Replaced
    <2>5. \A j \in 1 .. Len(y) : y[j] # HeadFlag
      BY <1>4, <1>6, SourceIs, Zenon
    <2>6. Leads(f, a + 1, n, y, b + 1, n)
      BY <1>1, <1>5, <2>5, PieceKept, Zenon
    <2>7. QED
      BY <2>2, <2>4, <2>6, Zenon
  <1>7. CASE TagItem(x)
    <2>1. x[1] = "tag" /\ x[2] \in Seq(Plain) /\ x[2] # << >>
      BY <1>7, Zenon DEF TagItem
    <2>2. Tags(i) = k + 1
      BY <1>3, <2>1, Zenon
    <2>3. CASE k < I
      <3>1. k \in 0 .. I /\ k + 1 <= I
        BY <2>3
      <3>2. Replaced(i - 1) = k /\ Replaced(i) = k + 1
        <4>1. k + 1 < I \/ k + 1 = I
          BY <3>1
        <4>2. QED
          BY <1>1, <1>3, <2>2, <2>3, <4>1, Zenon DEF Replaced
      <3>3. PICK name \in Seq(Plain) : name = x[2] /\ name # << >>
        BY <2>1
      <3>4. Marks(y, name)
        BY <1>4, <1>7, <3>3, SourceIs, Zenon
      <3>5. Leads(f, a + 1, k, UciGet(name), b + 1, k + 1)
        BY <1>1, <1>5, <2>3, <3>1, <3>3, <3>4, TagReplaced, Zenon
      <3>6. Shown(i) = Typed(name)
        BY <1>1, <1>2, <2>1, <2>2, <3>1, <3>3, Zenon DEF Shown
      <3>7. UciGet(name) \in Seq(Nat) /\ UciGet(name) = Typed(name)
        BY DecodePlain, GetTyped, Zenon
      <3>8. QED
        BY <3>2, <3>5, <3>6, <3>7, Zenon
    <2>4. CASE ~(k < I)
      <3>1. ~(k + 1 <= I) /\ ~(k + 1 < I) /\ I \in 0 .. I
        BY <2>4
      <3>2. Replaced(i - 1) = I /\ Replaced(i) = I
        BY <1>1, <1>3, <2>2, <2>4, <3>1, Zenon DEF Replaced
      <3>3. Shown(i) = y
        BY <1>1, <1>2, <1>4, <2>2, <3>1, ZenonT(40) DEF Shown
      <3>4. Leads(f, a + 1, I, y, b + 1, I)
        BY <1>1, <1>5, <3>1, PieceKept, Zenon
      <3>5. QED
        BY <3>2, <3>3, <3>4, Zenon
    <2>5. QED
      BY <2>3, <2>4
  <1>8. QED
    BY <1>2, <1>6, <1>7

LEMMA PageIs ==
  ASSUME line \in Lines, sets \in Seq(Seq(Nat)), \A name \in Seq(Plain) : UciGet(name) = Typed(name)
  PROVE  Rendered(FlattenSeq([i \in DOMAIN line |-> Given(i)])) =
             FlattenSeq([i \in DOMAIN line |-> Shown(i)])
  <1>1. PICK m \in Nat : m = Len(line) /\ DOMAIN line = 1 .. m
    BY LineIs
  <1>2. \A i \in 1 .. m : Given(i) \in Seq(Nat)
    BY <1>1, LineIs, SourceIs, Zenon DEF Given
  <1>3. PICK src \in Seq(Seq(Nat)) :
           src = [i \in DOMAIN line |-> Given(i)] /\ Len(src) = m /\ \A i \in 1 .. m : src[i] = Given(i)
    <2>1. [i \in 1 .. m |-> Given(i)] \in [1 .. m -> Seq(Nat)]
      BY <1>2, Zenon
    <2>2. \A q \in [1 .. m -> Seq(Nat)] : q \in Seq(Seq(Nat)) /\ Len(q) = m
      OBVIOUS
    <2>3. \A i \in 1 .. m : [j \in 1 .. m |-> Given(j)][i] = Given(i)
      BY Zenon
    <2>4. QED
      BY <1>1, <2>1, <2>2, <2>3, Zenon
  <1>4. PICK s \in Seq(Nat) : s = FlattenSeq(src)
    BY LaidOut, Zenon
  <1>5. PICK o : Layout(o, s, src)
    BY <1>4, LaidOut, Zenon
  <1>6. PICK f : Pages(f, s) /\ Rendered(s) = f[<<1, 0>>]
    BY PagesRun
  <1>7. \A i \in 0 .. m : o[i] \in Nat
    <2>1. o \in [0 .. m -> Nat]
      BY <1>3, <1>5, Zenon DEF Layout
    <2>2. QED
      BY <2>1
  <1>8. ASSUME NEW i \in 1 .. m
        PROVE  /\ Shown(i) \in Seq(Nat)
               /\ Leads(f, o[i - 1] + 1, Replaced(i - 1), Shown(i), o[i] + 1, Replaced(i))
    <2>1. Lies(s, o[i - 1], o[i], Given(i))
      <3>1. Len(src) = m /\ src[i] = Given(i)
        BY <1>3, Zenon
      <3>2. Lies(s, o[i - 1], o[i], src[i])
        BY <1>5, <3>1, Zenon DEF Layout, Lies
      <3>3. QED
        BY <3>1, <3>2, Zenon
    <2>2. i - 1 \in 0 .. m
      OBVIOUS
    <2>3. PICK a \in Nat : a = o[i - 1]
      BY <1>7, <2>2, Zenon
    <2>4. Lies(s, a, o[i], Given(i)) /\ i \in 1 .. Len(line)
      BY <1>1, <2>1, <2>3, Zenon
    <2>5. Shown(i) \in Seq(Nat) /\ Leads(f, a + 1, Replaced(i - 1), Shown(i), o[i] + 1, Replaced(i))
      BY <1>6, <2>4, ItemTurned, Zenon
    <2>6. QED
      BY <2>3, <2>5, Zenon
  <1>9. PICK rep \in Seq(Seq(Nat)) :
           rep = [i \in DOMAIN line |-> Shown(i)] /\ Len(rep) = m /\ \A i \in 1 .. m : rep[i] = Shown(i)
    <2>1. [i \in 1 .. m |-> Shown(i)] \in [1 .. m -> Seq(Nat)]
      BY <1>8, Zenon
    <2>2. \A q \in [1 .. m -> Seq(Nat)] : q \in Seq(Seq(Nat)) /\ Len(q) = m
      OBVIOUS
    <2>3. \A i \in 1 .. m : [j \in 1 .. m |-> Shown(j)][i] = Shown(i)
      BY Zenon
    <2>4. QED
      BY <1>1, <2>1, <2>2, <2>3, Zenon
  <1>10. PICK fl : Flat(fl, rep) /\ FlattenSeq(rep) = fl[m]
    BY <1>9, FlatRuns, Zenon
  <1>11. /\ \A i \in 0 .. m : fl[i] \in Seq(Nat)
         /\ fl[0] = << >> /\ \A i \in 1 .. m : fl[i] = fl[i - 1] \o Shown(i)
    BY <1>9, <1>10, Zenon DEF Flat
  <1>12. \A i \in 0 .. m : Replaced(i) \in 0 .. InsteadSum
    <2>1. InsteadSum \in Nat
      BY WebFormAssumption
    <2>2. ASSUME NEW i \in 0 .. m PROVE Tags(i) \in Nat
      <3>1. CASE i = 0
        BY <3>1, TagsAre
      <3>2. CASE i # 0
        <4>1. i \in 1 .. m
          BY <3>2
        <4>2. PICK k \in Nat : k = Tags(i - 1) /\ Tags(i) = IF line[i][1] = "tag" THEN k + 1 ELSE k
          BY <1>1, <4>1, TagsAre, Zenon
        <4>3. k \in Nat /\ k + 1 \in Nat
          OBVIOUS
        <4>4. QED
          BY <4>2, <4>3, Zenon
      <3>3. QED
        BY <3>1, <3>2
    <2>3. QED
      BY <2>1, <2>2 DEF Replaced
  <1>13. ASSUME NEW i \in 0 .. m PROVE f[<<o[i] + 1, Replaced(i)>>] \in Seq(Nat)
    <2>1. o[i] <= Len(s)
      <3>1. CASE i = 0
        <4>1. o[0] = 0
          BY <1>5, Zenon DEF Layout
        <4>2. QED
          BY <3>1, <4>1
      <3>2. CASE i # 0
        <4>1. i \in 1 .. m
          BY <3>2
        <4>2. QED
          BY <1>3, <1>5, <4>1, Zenon DEF Layout
      <3>3. QED
        BY <3>1, <3>2
    <2>2. o[i] + 1 \in 1 .. Len(s) + 1
      <3>1. PICK a \in Nat, l \in Nat : a = o[i] /\ l = Len(s) /\ a <= l
        BY <1>7, <2>1
      <3>2. a + 1 \in 1 .. l + 1
        BY <3>1
      <3>3. QED
        BY <3>1, <3>2, Zenon
    <2>3. QED
      BY <1>6, <1>12, <2>2, PagesTyped, Zenon
  <1> DEFINE Odd == {i \in 0 .. m : f[<<1, 0>>] # fl[i] \o f[<<o[i] + 1, Replaced(i)>>]}
  <1>14. Odd = {}
    <2> SUFFICES ASSUME Odd # {} PROVE FALSE
      OBVIOUS
    <2>1. PICK i \in Odd : \A y \in Odd : i <= y
      <3>1. \A i \in Odd : i \in 0 .. m
        BY Zenon
      <3>2. Odd \in SUBSET Nat
        <4> HIDE DEF Odd
        <4>1. QED
          BY <3>1
      <3> HIDE DEF Odd
      <3>3. QED
        BY <3>2, MinIsLeast
    <2>2. i \in 0 .. m /\ f[<<1, 0>>] # fl[i] \o f[<<o[i] + 1, Replaced(i)>>]
      BY <2>1
    <2>3. CASE i = 0
      <3>1. o[0] + 1 = 1
        BY <1>5 DEF Layout
      <3>2. Replaced(0) = 0
        <4>1. Tags(0) = 0
          BY TagsAre
        <4>2. 0 < InsteadSum
          BY WebFormAssumption
        <4>3. QED
          BY <4>1, <4>2, Zenon DEF Replaced
      <3>3. PICK x \in Seq(Nat) : x = f[<<1, 0>>]
        BY <1>13, <2>2, <2>3, <3>1, <3>2, Zenon
      <3>4. << >> \o x = x
        BY NoneJoined
      <3>5. QED
        BY <1>11, <2>2, <2>3, <3>1, <3>2, <3>3, <3>4, Zenon
    <2>4. CASE i # 0
      <3>1. PICK j \in 0 .. m : j = i - 1 /\ ~(i <= j) /\ i \in 1 .. m
        BY <2>2, <2>4
      <3>2. j \notin Odd
        <4> HIDE DEF Odd
        <4>1. QED
          BY <2>1, <3>1, Zenon
      <3>3. f[<<1, 0>>] = fl[j] \o f[<<o[j] + 1, Replaced(j)>>]
        BY <3>2
      <3>4. f[<<o[j] + 1, Replaced(j)>>] = Shown(i) \o f[<<o[i] + 1, Replaced(i)>>]
        BY <1>8, <3>1, Zenon DEF Leads
      <3>5. PICK x \in Seq(Nat) : x = fl[j]
        BY <1>11, Zenon
      <3>6. PICK y \in Seq(Nat) : y = Shown(i)
        BY <1>8, <3>1, Zenon
      <3>7. PICK z \in Seq(Nat) : z = f[<<o[i] + 1, Replaced(i)>>]
        BY <1>13, <2>2, Zenon
      <3>8. (x \o y) \o z = x \o (y \o z)
        <4>1. Grouped(x, y, z)
          BY Regroup, Zenon
        <4>2. QED
          BY <4>1, Zenon DEF Grouped
      <3>9. fl[i] = x \o y
        BY <1>11, <3>1, <3>5, <3>6, Zenon
      <3>10. QED
        BY <2>2, <3>3, <3>4, <3>5, <3>6, <3>7, <3>8, <3>9, Zenon
    <2>5. QED
      BY <2>3, <2>4
  <1>15. f[<<1, 0>>] = fl[m] \o f[<<o[m] + 1, Replaced(m)>>]
    <2>1. m \in 0 .. m
      OBVIOUS
    <2>2. QED
      BY <1>14, <2>1
  <1>16. f[<<o[m] + 1, Replaced(m)>>] = << >>
    <2>1. m \in 0 .. m /\ o[m] = Len(s)
      BY <1>3, <1>5 DEF Layout
    <2>2. PICK l \in Nat : l = Len(s) /\ l + 1 \in 1 .. Len(s) + 1 /\ l + 1 \in Int /\ l \in Int /\
                   l < l + 1
      OBVIOUS
    <2>3. PICK n \in 0 .. InsteadSum : n = Replaced(m)
      BY <1>12, <2>1, Zenon
    <2>4. f[<<l + 1, n>>] = Turn(f, s, l + 1, n)
      BY <1>6, <2>2, Zenon DEF Pages
    <2>5. First(s, l + 1, HeadFlag) = 0
      <3>1. \A i \in l + 1 .. Len(s) : s[i] # HeadFlag
        BY <2>2
      <3>2. QED
        BY <2>2, <3>1, FirstNone
    <2>6. Turn(f, s, l + 1, n) = SubSeq(s, l + 1, l)
      BY <2>2, <2>5, Zenon DEF Turn
    <2>7. SubSeq(s, l + 1, l) = << >>
      BY <2>2, SubSeqEmpty
    <2>8. QED
      BY <2>1, <2>2, <2>3, <2>4, <2>6, <2>7, Zenon
  <1>17. PICK x \in Seq(Nat) : x = fl[m]
    <2>1. m \in 0 .. m
      OBVIOUS
    <2>2. QED
      BY <1>11, <2>1, Zenon
  <1>18. x \o << >> = x
    BY NoneJoined
  <1>19. f[<<1, 0>>] = fl[m]
    BY <1>15, <1>16, <1>17, <1>18, ZenonT(40)
  <1>20. QED
    BY <1>3, <1>4, <1>6, <1>9, <1>10, <1>19, Zenon

-----------------------------------------------------------------------------
(* What has been saved when the form is over. *)
LEMMA SetsAre ==
  ASSUME FormInv, stage \in {"page", "done"}, form.target = "uci", Complete
  PROVE  sets = Commands(Len(form.fields))
  <1>1. form \in Forms /\ Arrived /\ hdr > Len(input) /\ UciSaved
    BY DEF FormInv
  <1>2. PICK h : /\ Marked(h, Posted(form.fields), form.fields)
                 /\ \E k \in 0 .. Len(form.fields) : UciTaken(h, k) \/ UciCut(k)
    BY <1>1, Zenon DEF UciSaved
  <1>3. PICK k \in 0 .. Len(form.fields) : UciTaken(h, k) \/ UciCut(k)
    BY <1>2, Zenon
  <1>4. ~CutOff
    <2>1. Len(input) = Len(Posted(form.fields)) /\ Posted(form.fields) \in Seq(Nat)
      BY <1>1, WholeIs
    <2>2. ~(Len(input) < Len(Posted(form.fields)))
      BY <2>1
    <2>3. QED
      BY <2>2, Zenon DEF CutOff
  <1>5. hdr = h[k] /\ sets = Commands(k)
    BY <1>3, <1>4, Zenon DEF UciTaken, UciCut
  <1>6. k = Len(form.fields)
    BY <1>1, <1>2, <1>5, AllRead, Zenon
  <1>7. QED
    BY <1>5, <1>6, Zenon

LEMMA OptionsHold ==
  ASSUME FormInv
  PROVE  OptionsSaved
  <1>1. SUFFICES ASSUME stage = "done", form.target = "uci"
                 PROVE  /\ Complete => sets = Commands(Len(form.fields))
                        /\ Len(sets) <= Len(form.fields)
                        /\ sets # << >> => Front(sets) = Commands(Len(sets) - 1)
    BY Zenon DEF OptionsSaved
  <1>2. form \in Forms /\ UciSaved
    BY <1>1 DEF FormInv
  <1>3. PICK n \in Nat \ {0} : n = Len(form.fields) /\ FormFields(form.fields)
    BY <1>2, FormTyped, FieldsTyped
  <1>4. PICK k \in 0 .. n : (sets = Commands(k) \/
                 (k # 0 /\ Len(sets) = k /\ Front(sets) = Commands(k - 1)))
    BY <1>2, <1>3, Zenon DEF UciSaved, UciTaken, UciCut
  <1>5. Complete => sets = Commands(Len(form.fields))
    BY <1>1, SetsAre, Zenon
  <1>6. CASE sets = Commands(k)
    <2>1. Len(sets) = k
      BY <1>3, <1>6, CommandsAre, Zenon
    <2>2. ASSUME sets # << >> PROVE Front(sets) = Commands(k - 1)
      <3>1. k # 0
        BY <1>3, <1>6, <2>2, CommandsAre, Zenon
      <3>2. k \in 1 .. n /\ k - 1 \in 0 .. n
        BY <3>1
      <3>3. PICK b \in Seq(Seq(Nat)) : b = Commands(k - 1)
        BY <1>3, <3>2, CommandsAre, Zenon
      <3>4. \E x : Commands(k) = Append(Commands(k - 1), x)
        BY <1>3, <3>2, CommandsAre, Zenon
      <3>5. PICK x : Commands(k) = Append(Commands(k - 1), x)
        BY <3>4
      <3>6. Front(Append(b, x)) = b
        BY Appended
      <3>7. QED
        BY <1>6, <3>3, <3>5, <3>6, Zenon
    <2>3. k <= n
      OBVIOUS
    <2>4. QED
      BY <1>3, <1>5, <2>1, <2>2, <2>3, Zenon
  <1>7. CASE k # 0 /\ Len(sets) = k /\ Front(sets) = Commands(k - 1)
    <2>1. k <= n
      OBVIOUS
    <2>2. QED
      BY <1>3, <1>5, <1>7, <2>1, Zenon
  <1>8. QED
    BY <1>4, <1>6, <1>7

LEMMA TextHolds ==
  ASSUME FormInv
  PROVE  TextSaved
  <1>1. SUFFICES ASSUME stage = "done", form.target = "file", Complete, ~failed
                 PROVE  text = IF Len(Encode(Last(form.fields)[2])) < TextMax
                               THEN Last(form.fields)[2] ELSE << >>
    BY Zenon DEF TextSaved
  <1>2. form \in Forms /\ Arrived /\ hdr > Len(input) /\ FileSaved
    BY <1>1 DEF FormInv
  <1>3. PICK n \in Nat \ {0} : n = Len(form.fields)
    BY <1>2, FormTyped, FieldsTyped
  <1>4. PICK h : /\ Marked(h, Posted(form.fields), form.fields)
                 /\ \E k \in 0 .. Len(form.fields) : FileTaken(h, k) \/ CutOff
    BY <1>2, Zenon DEF FileSaved
  <1>5. ~CutOff
    <2>1. Len(input) = Len(Posted(form.fields)) /\ Posted(form.fields) \in Seq(Nat)
      BY <1>1, <1>2, WholeIs
    <2>2. ~(Len(input) < Len(Posted(form.fields)))
      BY <2>1
    <2>3. QED
      BY <2>2, Zenon DEF CutOff
  <1>6. PICK k \in 0 .. Len(form.fields) : FileTaken(h, k)
    BY <1>4, <1>5, Zenon
  <1>7. k = n
    <2>1. hdr = h[k]
      BY <1>6, Zenon DEF FileTaken
    <2>2. QED
      BY <1>1, <1>2, <1>3, <1>4, <2>1, AllRead, Zenon
  <1>8. text = IF Len(Encode(form.fields[n][2])) < TextMax THEN form.fields[n][2] ELSE << >>
    <2>1. n # 0
      OBVIOUS
    <2>2. QED
      BY <1>1, <1>6, <1>7, <2>1, Zenon DEF FileTaken
  <1>9. Last(form.fields) = form.fields[n]
    BY <1>3, Zenon DEF Last
  <1>10. QED
    BY <1>8, <1>9, Zenon

(* The page shows what was saved. *)
LEMMA FormPage ==
  ASSUME FormInv, GetHtmlWithSSI
  PROVE  FormInv'
  <1>1. /\ stage = "page" /\ stage' = "done"
        /\ shown' = Rendered(FlattenSeq([i \in DOMAIN line |-> Source(line[i])]))
        /\ UNCHANGED <<posted, hdr, uci_buf, sets, text, failed>>
    BY Zenon DEF GetHtmlWithSSI
  <1>2. /\ form' = form /\ line' = line /\ input' = input /\ hdr' = hdr /\ sets' = sets
        /\ uci_buf' = uci_buf /\ text' = text /\ failed' = failed
    BY <1>1 DEF posted
  <1>3. form \in Forms /\ line \in Lines /\ Arrived
    BY DEF FormInv
  <1>4. (UciSaved => UciSaved') /\ (FileSaved => FileSaved')
    BY <1>2, SavedKept
  <1>5. Arrived'
    BY <1>2, <1>3, ArrivedKept
  <1>6. /\ form.target = "uci" => UciSaved
        /\ form.target = "file" => FileSaved
        /\ form.target # "json" => hdr > Len(input)
    BY <1>1 DEF FormInv
  <1>7. ASSUME form.target = "uci", Complete
        PROVE  shown' = FlattenSeq([i \in DOMAIN line |-> Shown(i)])
    <2>1. FormFields(form.fields)
      BY <1>3, FormTyped
    <2>2. sets = Commands(Len(form.fields))
      BY <1>1, <1>7, SetsAre
    <2>3. \A name \in Seq(Plain) : UciGet(name) = Typed(name)
      BY <2>1, <2>2, GetIs, Zenon
    <2>4. sets \in Seq(Seq(Nat))
      <3>1. Len(form.fields) \in 0 .. Len(form.fields)
        <4>1. Len(form.fields) \in Nat
          BY <2>1, FieldsTyped
        <4>2. QED
          BY <4>1
      <3>2. QED
        BY <2>1, <2>2, <3>1, CommandsAre, Zenon
    <2>5. Rendered(FlattenSeq([i \in DOMAIN line |-> Given(i)])) =
              FlattenSeq([i \in DOMAIN line |-> Shown(i)])
      BY <1>3, <2>3, <2>4, PageIs, Zenon
    <2>6. QED
      BY <1>1, <2>5, Zenon DEF Given
  <1>8. PageShown'
    <2>1. \A x : Typed(x)' = Typed(x)
      BY <1>2, Zenon DEF Typed, SelectLastInSeq
    <2>2. \A x : Tags(x)' = Tags(x)
      BY <1>2, Zenon DEF Tags
    <2>3. \A i : Shown(i)' = Shown(i)
      BY <1>2, <2>1, <2>2, Zenon DEF Shown
    <2>4. [i \in DOMAIN line |-> Shown(i)]' = [i \in DOMAIN line |-> Shown(i)]
      BY <1>2, <2>3, Zenon
    <2>5. Complete' = Complete
      BY <1>2, Zenon DEF Complete
    <2>6. form'.target = "uci" /\ Complete' => shown' = FlattenSeq([i \in DOMAIN line |-> Shown(i)])
      BY <1>2, <1>7, <2>5, Zenon
    <2>7. form'.target = "uci" /\ Complete' => shown' = FlattenSeq([i \in DOMAIN line |-> Shown(i)]')
      BY <2>6, <2>4, Zenon
    <2>8. QED
      BY <2>7, Zenon DEF PageShown, Shown
  <1>9. stage' = "done"
    BY <1>1
  <1>10. QED
    BY <1>2, <1>3, <1>4, <1>5, <1>6, <1>8, <1>9 DEF FormInv

(* No step breaks what holds of the form. *)
LEMMA FormStep ==
  ASSUME FormInv, [FormNext]_formVars
  PROVE  FormInv'
  <1>1. CASE DecodeAndProcessData
    BY <1>1, FormBegin
  <1>2. CASE uci_httpd_convert
    BY <1>2, FormUci
  <1>3. CASE textarea_transform
    BY <1>3, FormText
  <1>4. CASE EndOfForm
    BY <1>4, FormEnd
  <1>5. CASE GetHtmlWithSSI
    BY <1>5, FormPage
  <1>6. CASE UNCHANGED formVars
    <2>1. /\ form' = form /\ line' = line /\ input' = input /\ hdr' = hdr /\ sets' = sets
          /\ uci_buf' = uci_buf /\ text' = text /\ failed' = failed /\ stage' = stage
      BY <1>6 DEF formVars
    <2>2. (UciSaved => UciSaved') /\ (FileSaved => FileSaved')
      BY <2>1, SavedKept
    <2>3. (Arrived => Arrived') /\ (Contains(input, Json) => Contains(input, Json)')
      BY <2>1, ArrivedKept
    <2>4. PageShown => PageShown'
      BY <1>6, PageKept
    <2>5. QED
      BY <2>1, <2>2, <2>3, <2>4 DEF FormInv
  <1>7. QED
    BY <1>1, <1>2, <1>3, <1>4, <1>5, <1>6 DEF FormNext

(* A posted form arrives in "uci set", or in the file, as it was typed, as *)
(* far as it arrived and fits, and the page that answers shows it at its   *)
(* tags; a form that mentions ".json" is not saved (httpd_cgi.c 191, 241,  *)
(* 272, 294, 402, 457, 552).  For any forms, pages and sizes of buffers.   *)
THEOREM FormIsSaved == FormSpec => []FormSaved
  <1>1. FormInit => FormInv
    BY InitForm
  <1>2. FormInv /\ [FormNext]_formVars => FormInv'
    BY FormStep
  <1>3. FormInv => FormSaved
    <2>1. ASSUME FormInv PROVE FormSaved
      <3>1. OptionsSaved /\ TextSaved
        BY <2>1, OptionsHold, TextHolds
      <3>2. PageShown /\ (stage = "failed" => Contains(input, Json) \/ form.target = "json")
        BY <2>1 DEF FormInv
      <3>3. QED
        BY <3>1, <3>2 DEF FormSaved
    <2>2. QED
      BY <2>1
  <1>4. QED
    BY <1>1, <1>2, <1>3, PTL DEF FormSpec

-----------------------------------------------------------------------------
(* The remote manager and the firmware page. *)
USE ManagerAssumption, FirmwareAssumption, WebAssumption

Buffer == Text \cup {<<>>}
Places == {"out", "clear", "format", "run", "fill", "respond", "copy"}
Labels == {"off", "resolve", "connect", "select", "dispatch", "send", "download", "check"}

(* What of the types the invariants below need, and that a thread is in    *)
(* the interpreter exactly when it is at its dispatch.                     *)
DispatchTypes ==
  /\ pc \in [Thread -> Labels]
  /\ place \in [Thread -> Places]
  /\ \A t \in Thread : Inside(t) <=> pc[t] = "dispatch"
  /\ todo \in [Thread -> Seq(Command)]
  /\ \A t \in Thread : place[t] \in {"format", "run", "fill", "respond"} => todo[t] # <<>>
  /\ \A t \in Thread : place[t] = "copy" => todo[t] = <<>>
  /\ g_InnerRspBuf \in Seq(Buffer) /\ cmd_para_buf \in Buffer
  /\ overlap \in [Thread -> BOOLEAN] /\ foreign \in [Thread -> BOOLEAN]

Types ==
  /\ DispatchTypes
  /\ asked \in Seq(Command)
  /\ heartpkt_cnt \in 0 .. HeartIntvl /\ quiet \in Nat
  /\ open \in Int /\ unanswered \in Nat /\ faults \in Nat

LEMMA InitTypes == Init => Types
  BY DEF Init, ManagerInit, Types, DispatchTypes, Inside, Buffer, Places, Labels, M, U, Thread

LEMMA ManagerSteps == [Next]_vars => UNCHANGED managerVars \/ ManagerNext
  BY DEF Next, Manager, Web, vars

(* A step that leaves the interpreter alone, and one that enters it. *)
LEMMA MoveTypes ==
  ASSUME DispatchTypes, UNCHANGED dispatchVars,
         NEW t \in Thread, NEW where \in Labels \ {"dispatch"}, pc[t] # "dispatch", Goto(t, where)
  PROVE  DispatchTypes'
  BY DEF DispatchTypes, Inside, dispatchVars, Goto

LEMMA StillTypes == DispatchTypes /\ UNCHANGED <<pc, dispatchVars>> => DispatchTypes'
  BY DEF DispatchTypes, Inside, dispatchVars

LEMMA EnterTypes ==
  ASSUME DispatchTypes,
         NEW t \in Thread, NEW commands \in Seq(Command), StartDispatch(t, commands)
  PROVE  DispatchTypes'
  <1> USE DEF DispatchTypes
  <1>1. overlap' \in [Thread -> BOOLEAN] /\ foreign' \in [Thread -> BOOLEAN]
    BY DEF StartDispatch
  <1>2. todo' \in [Thread -> Seq(Command)] /\ \A o \in Thread \ {t} : todo'[o] = todo[o]
    BY DEF StartDispatch
  <1>3. /\ pc' \in [Thread -> Labels] /\ place' \in [Thread -> Places]
        /\ pc'[t] = "dispatch" /\ place'[t] = "clear"
        /\ \A o \in Thread \ {t} : pc'[o] = pc[o] /\ place'[o] = place[o]
    BY DEF StartDispatch, Goto, Labels, Places
  <1>4. UNCHANGED <<g_InnerRspBuf, cmd_para_buf>>
    BY DEF StartDispatch
  <1>5. QED
    BY <1>1, <1>2, <1>3, <1>4 DEF Inside

LEMMA InterpreterTypes ==
  ASSUME DispatchTypes, NEW t \in Thread, Dispatch(t)
  PROVE  DispatchTypes'
  <1> USE DEF DispatchTypes, Inside, Step, FirstStep, Places
  <1>1. UNCHANGED overlap
    BY DEF Dispatch
  <1>2. CASE Clear(t) /\ UNCHANGED pc
    BY <1>1, <1>2 DEF Clear
  <1>3. CASE Format(t) /\ UNCHANGED pc
    <2>1. Head(todo[t]) \in Command
      BY <1>3 DEF Format
    <2>2. cmd_para_buf' \in Buffer
      BY <1>3, <2>1 DEF Format, Buffer, Text
    <2>3. QED
      BY <1>1, <1>3, <2>2 DEF Format
  <1>4. CASE Run(t) /\ UNCHANGED pc
    <2>1. foreign' \in [Thread -> BOOLEAN]
      BY <1>4 DEF Run
    <2>2. QED
      BY <1>1, <1>4, <2>1 DEF Run
  <1>5. CASE Fill(t) /\ UNCHANGED pc
    <2>1. Head(todo[t]) \in Command
      BY <1>5 DEF Fill
    <2>2. cmd_para_buf' \in Buffer
      BY <1>5, <2>1 DEF Fill, Buffer, Text
    <2>3. QED
      BY <1>1, <1>5, <2>2 DEF Fill
  <1>6. CASE Respond(t) /\ UNCHANGED pc
    <2>1. Tail(todo[t]) \in Seq(Command)
      BY <1>6 DEF Respond
    <2>2. g_InnerRspBuf' \in Seq(Buffer)
      BY <1>6 DEF Respond
    <2>3. /\ todo' \in [Thread -> Seq(Command)] /\ todo'[t] = Tail(todo[t])
          /\ \A o \in Thread \ {t} : todo'[o] = todo[o]
      BY <1>6, <2>1 DEF Respond
    <2>4. PICK next : place' = [place EXCEPT ![t] = next] /\ next = FirstStep(todo'[t])
      BY <1>6, <2>3 DEF Respond
    <2>5. /\ next \in Places \ {"out"}
          /\ next \in {"format", "run", "fill", "respond"} => todo'[t] # <<>>
          /\ next = "copy" => todo'[t] = <<>>
      BY <2>4
    <2>6. /\ place' \in [Thread -> Places] /\ place'[t] = next
          /\ \A o \in Thread \ {t} : place'[o] = place[o]
      BY <2>4, <2>5
    <2>7. place[t] # "out"
      BY <1>6 DEF Respond
    <2>8. QED
      BY <1>1, <1>6, <2>2, <2>3, <2>5, <2>6, <2>7, SMTT(30) DEF Respond
  <1>7. CASE Copy(t)
    BY <1>1, <1>7 DEF Copy, Goto, Labels
  <1>8. QED
    BY <1>2, <1>3, <1>4, <1>5, <1>6, <1>7 DEF Dispatch

LEMMA StepDispatchTypes == DispatchTypes /\ [Next]_vars => DispatchTypes'
  <1> SUFFICES ASSUME DispatchTypes, UNCHANGED managerVars \/ ManagerNext PROVE DispatchTypes'
    BY ManagerSteps
  <1>1. CASE UNCHANGED managerVars
    BY <1>1, StillTypes DEF managerVars
  <1>2. ASSUME NEW t \in Thread, Dispatch(t) PROVE DispatchTypes'
    BY <1>2, InterpreterTypes
  <1>3. ASSUME NEW t \in Thread, Resolve(t) \/ NoSocket(t) PROVE DispatchTypes'
    BY <1>3, MoveTypes, StillTypes DEF Resolve, NoSocket, Labels
  <1> USE DEF Thread, Labels, MonitorAt, UpdateAt, Report
  <1>4. CASE Connect
    BY <1>4, MoveTypes, EnterTypes DEF Connect
  <1>5. CASE Send
    BY <1>5, MoveTypes DEF Send
  <1>6. CASE PeerCloses
    BY <1>6, MoveTypes DEF PeerCloses
  <1>7. CASE MonitorRecv
    BY <1>7, StillTypes, EnterTypes DEF MonitorRecv
  <1>8. CASE MonitorSecond
    BY <1>8, StillTypes, MoveTypes, EnterTypes DEF MonitorSecond
  <1>9. CASE Bind
    BY <1>9, MoveTypes DEF Bind
  <1>10. CASE UpdateSecond
    BY <1>10, StillTypes DEF UpdateSecond
  <1>11. CASE UpgradeIgnore
    BY <1>11, EnterTypes DEF UpgradeIgnore
  <1>12. CASE UpgradeNeed
    BY <1>12, MoveTypes DEF UpgradeNeed
  <1>13. CASE Download
    BY <1>13, MoveTypes DEF Download
  <1>14. CASE Check
    BY <1>14, MoveTypes DEF Check
  <1>15. QED
    BY <1>1, <1>2, <1>3, <1>4, <1>5, <1>6, <1>7, <1>8, <1>9, <1>10, <1>11, <1>12, <1>13, <1>14
       DEF ManagerNext

LEMMA StepTypes == Types /\ [Next]_vars => Types'
  <1> SUFFICES ASSUME Types, UNCHANGED managerVars \/ ManagerNext, DispatchTypes' PROVE Types'
    BY ManagerSteps, StepDispatchTypes DEF Types
  <1> USE DEF Types, monitorVars, counterVars, boundVars, Fault, Loss, Message, Report
  <1>1. CASE UNCHANGED managerVars
    BY <1>1 DEF managerVars
  <1>2. ASSUME NEW t \in Thread, Dispatch(t) \/ Resolve(t) \/ NoSocket(t) PROVE Types'
    BY <1>2 DEF Dispatch, Resolve, NoSocket
  <1>3. CASE Connect
    BY <1>3 DEF Connect
  <1>4. CASE Send
    <2>1. open' \in Int /\ quiet' \in Nat
      BY <1>4 DEF Send
    <2>2. unanswered' \in Nat
      BY <1>4 DEF Send
    <2>3. faults' \in Nat
      BY <1>4 DEF Send
    <2>4. QED
      BY <1>4, <2>1, <2>2, <2>3 DEF Send
  <1>5. CASE PeerCloses
    BY <1>5 DEF PeerCloses
  <1>6. CASE MonitorRecv
    BY <1>6 DEF MonitorRecv
  <1>7. CASE MonitorSecond
    <2>1. heartpkt_cnt' \in 0 .. HeartIntvl
      BY <1>7 DEF MonitorSecond
    <2>2. quiet' \in Nat
      BY <1>7 DEF MonitorSecond
    <2>3. open' \in Int
      BY <1>7 DEF MonitorSecond
    <2>4. faults' \in Nat
      BY <1>7, SMTT(30) DEF MonitorSecond
    <2>5. asked' \in Seq(Command) /\ UNCHANGED unanswered
      BY <1>7 DEF MonitorSecond
    <2>6. QED
      BY <2>1, <2>2, <2>3, <2>4, <2>5
  <1>8. CASE Bind
    BY <1>8 DEF Bind
  <1>9. CASE UpdateSecond
    BY <1>9 DEF UpdateSecond
  <1>10. CASE UpgradeIgnore
    BY <1>10 DEF UpgradeIgnore
  <1>11. CASE UpgradeNeed \/ Download \/ Check
    BY <1>11 DEF UpgradeNeed, Download, Check
  <1>12. QED
    BY <1>1, <1>2, <1>3, <1>4, <1>5, <1>6, <1>7, <1>8, <1>9, <1>10, <1>11 DEF ManagerNext

-----------------------------------------------------------------------------
(* Heartbeats: the count since the last of them is at least the silence.   *)
HeartInv == faults = 0 /\ pc[M] = "select" => quiet <= heartpkt_cnt

LEMMA StepHeartInv == Types /\ HeartInv /\ [Next]_vars => HeartInv'
  <1> SUFFICES ASSUME Types, HeartInv, UNCHANGED managerVars \/ ManagerNext PROVE HeartInv'
    BY ManagerSteps
  <1> USE DEF Types, DispatchTypes, HeartInv, Goto, M, U, Thread, dispatchVars, monitorVars, counterVars, boundVars,
              Fault, Loss, Message, MonitorAt, UpdateAt
  <1>1. CASE UNCHANGED managerVars
    BY <1>1 DEF managerVars
  <1>2. ASSUME NEW t \in Thread, NEW commands, StartDispatch(t, commands)
        PROVE  pc'[t] = "dispatch" /\ \A o \in Thread \ {t} : pc'[o] = pc[o]
    BY <1>2 DEF StartDispatch
  <1>3. ASSUME NEW t \in Thread, Dispatch(t) \/ Resolve(t) \/ NoSocket(t) PROVE HeartInv'
    BY <1>3, SMTT(30) DEF Dispatch, Copy, Resolve, NoSocket
  <1>4. CASE Connect
    BY <1>2, <1>4 DEF Connect, Report
  <1>5. CASE Send
    BY <1>5, SMTT(30) DEF Send
  <1>6. CASE PeerCloses
    BY <1>6 DEF PeerCloses
  <1>7. CASE MonitorRecv
    BY <1>2, <1>7 DEF MonitorRecv, Report
  <1>8. CASE MonitorSecond
    BY <1>2, <1>8 DEF MonitorSecond, Report
  <1>9. CASE UpgradeIgnore
    BY <1>2, <1>9 DEF UpgradeIgnore
  <1>10. CASE Bind \/ UpdateSecond \/ UpgradeNeed \/ Download \/ Check
    BY <1>10, SMTT(30) DEF Bind, UpdateSecond, UpgradeNeed, Download, Check
  <1>11. QED
    BY <1>1, <1>3, <1>4, <1>5, <1>6, <1>7, <1>8, <1>9, <1>10 DEF ManagerNext

(* As long as there is memory, the server never waits longer than the      *)
(* heartbeat interval in a connection, although the counters are shared by *)
(* reports and heartbeats and survive reconnects (remotemanager.c 654).    *)
THEOREM ServerHears == Spec => []HeardInTime
  <1>1. Init => Types /\ HeartInv
    BY InitTypes DEF Init, ManagerInit, HeartInv, M, Thread
  <1>2. Types /\ HeartInv /\ [Next]_vars => (Types /\ HeartInv)'
    BY StepTypes, StepHeartInv
  <1>3. Types /\ HeartInv => HeardInTime
    BY DEF Types, HeartInv, HeardInTime
  <1>4. QED
    BY <1>1, <1>2, <1>3, PTL DEF Spec

-----------------------------------------------------------------------------
(* Sockets. *)
Used(t) == IF pc[t] \notin {"off", "resolve", "connect"} THEN 1 ELSE 0

SocketInv == open = Used(M) + Used(U) + unanswered

LEMMA StepSocketInv == Types /\ SocketInv /\ [Next]_vars => SocketInv'
  <1> SUFFICES ASSUME Types, SocketInv, UNCHANGED managerVars \/ ManagerNext PROVE SocketInv'
    BY ManagerSteps
  <1> USE DEF Types, DispatchTypes, Goto, monitorVars, counterVars, MonitorAt, UpdateAt
  <1>1. ASSUME Used(M)' = Used(M), Used(U)' = Used(U), UNCHANGED <<open, unanswered>>
        PROVE  SocketInv'
    BY <1>1 DEF SocketInv
  <1>2. ASSUME NEW t \in Thread, NEW where, pc[t] \notin {"off", "resolve", "connect"},
               where \in Labels \ {"off", "resolve", "connect"}, Goto(t, where)
        PROVE  Used(M)' = Used(M) /\ Used(U)' = Used(U)
    BY <1>2 DEF Used, Thread
  <1>3. ASSUME NEW t \in Thread, NEW commands, pc[t] = "select", StartDispatch(t, commands)
        PROVE  Used(M)' = Used(M) /\ Used(U)' = Used(U)
    BY <1>2, <1>3 DEF StartDispatch, Labels
  <1>4. UNCHANGED pc => Used(M)' = Used(M) /\ Used(U)' = Used(U)
    BY DEF Used
  <1>5. CASE UNCHANGED managerVars
    BY <1>1, <1>4, <1>5 DEF managerVars
  <1>6. ASSUME NEW t \in Thread, Dispatch(t) PROVE SocketInv'
    <2>1. UNCHANGED <<open, unanswered>>
      BY <1>6 DEF Dispatch
    <2>2. CASE UNCHANGED pc
      BY <1>1, <1>4, <2>1, <2>2
    <2>3. CASE Copy(t)
      <3>1. pc[t] = "dispatch"
        BY <2>3 DEF Copy, Step, Inside
      <3>2. QED
        BY <1>1, <1>2, <2>1, <2>3, <3>1 DEF Copy, Labels
    <2>4. QED
      BY <1>6, <2>2, <2>3 DEF Dispatch
  <1>7. ASSUME NEW t \in Thread, Resolve(t) \/ NoSocket(t) PROVE SocketInv'
    <2>1. \A o \in Thread : pc'[o] = pc[o] \/ {pc'[o], pc[o]} \subseteq {"resolve", "connect"}
      BY <1>7 DEF Resolve, NoSocket
    <2>2. Used(M)' = Used(M) /\ Used(U)' = Used(U)
      BY <2>1 DEF Used, Thread
    <2>3. QED
      BY <1>1, <1>7, <2>2 DEF Resolve, NoSocket
  <1>8. ASSUME pc[M] \in {"off", "resolve", "connect"},
               pc'[M] \notin {"off", "resolve", "connect"}, pc'[U] = pc[U],
               open' = open + 1, UNCHANGED unanswered
        PROVE  SocketInv'
    BY <1>8 DEF SocketInv, Used
  <1>9. CASE Connect
    <2>1. pc[M] = "connect" /\ open' = open + 1 /\ UNCHANGED unanswered
      BY <1>9 DEF Connect
    <2>2. Goto(M, "dispatch") \/ Goto(M, "select")
      BY <1>9 DEF Connect, Report, StartDispatch
    <2>3. pc'[M] \in {"dispatch", "select"} /\ pc'[U] = pc[U]
      BY <2>2 DEF M, U, Thread
    <2>4. QED
      BY <1>8, <2>1, <2>3
  <1>10. CASE Send
    <2>1. CASE Goto(M, "select") /\ UNCHANGED <<open, unanswered>>
      BY <1>1, <1>2, <1>10, <2>1 DEF Send, Thread, Labels
    <2>2. CASE Goto(M, "resolve")
      <3>1. Used(M) = 1 /\ Used(M)' = 0 /\ Used(U)' = Used(U)
        BY <1>10, <2>2 DEF Send, Used, M, U, Thread
      <3>2. ~Goto(M, "select")
        BY <2>2 DEF Thread
      <3>3. \/ unanswered' = unanswered + 1 /\ UNCHANGED open
            \/ open' = open - 1 /\ UNCHANGED unanswered
        BY <1>10, <3>2 DEF Send
      <3>4. Used(U) \in {0, 1}
        BY DEF Used
      <3>5. CASE unanswered' = unanswered + 1 /\ UNCHANGED open
        <4>1. open \in Int /\ unanswered \in Nat
          OBVIOUS
        <4> HIDE DEF Types, DispatchTypes
        <4>2. QED
          BY <3>1, <3>4, <3>5, <4>1 DEF SocketInv
      <3>6. CASE open' = open - 1 /\ UNCHANGED unanswered
        BY <3>1, <3>4, <3>6, SMTT(30) DEF SocketInv
      <3>7. QED
        BY <3>3, <3>5, <3>6
    <2>3. QED
      BY <1>10, <2>1, <2>2 DEF Send
  <1>11. ASSUME pc[M] = "select", Goto(M, "resolve"), open' = open - 1, UNCHANGED unanswered
         PROVE  SocketInv'
    <2>1. Used(M) = 1 /\ Used(M)' = 0 /\ Used(U)' = Used(U)
      BY <1>11 DEF Used, M, U, Thread
    <2>2. Used(U) \in {0, 1}
      BY DEF Used
    <2>3. QED
      BY <1>11, <2>1, <2>2, SMTT(30) DEF SocketInv
  <1>12. CASE PeerCloses
    BY <1>11, <1>12 DEF PeerCloses
  <1>13. CASE MonitorRecv
    BY <1>1, <1>3, <1>4, <1>13 DEF MonitorRecv, Report, Thread
  <1>14. CASE MonitorSecond
    BY <1>1, <1>3, <1>4, <1>11, <1>14 DEF MonitorSecond, Report, Thread
  <1>15. CASE Bind
    <2>1. Used(U) = 0 /\ Used(U)' = 1 /\ Used(M)' = Used(M)
      BY <1>15 DEF Bind, Used, M, U, Thread
    <2>2. Used(M) \in {0, 1}
      BY DEF Used
    <2>3. QED
      BY <1>15, <2>1, <2>2, SMTT(30) DEF Bind, SocketInv
  <1>16. CASE UpgradeIgnore
    BY <1>1, <1>3, <1>16 DEF UpgradeIgnore, Thread
  <1>17. CASE UpdateSecond
    BY <1>1, <1>4, <1>17 DEF UpdateSecond
  <1>18. CASE UpgradeNeed \/ Download \/ Check
    <2>1. Used(M)' = Used(M) /\ Used(U)' = Used(U)
      BY <1>2, <1>18 DEF UpgradeNeed, Download, Check, Thread, Labels
    <2>2. QED
      BY <1>1, <1>18, <2>1 DEF UpgradeNeed, Download, Check
  <1>19. QED
    BY <1>5, <1>6, <1>7, <1>9, <1>10, <1>12, <1>13, <1>14, <1>15, <1>16, <1>17, <1>18 DEF ManagerNext

(* The manager has as many descriptors as it has connections, but for one  *)
(* more for each query whose answer it could not send: every other way out *)
(* of a connection closes it (remotemanager.c 635).                        *)
THEOREM OnlyQueriesLeak == Spec => []SocketsAccounted
  <1>1. Init => Types /\ SocketInv
    <2> SUFFICES ASSUME Init PROVE SocketInv
      BY InitTypes
    <2>1. pc[M] \in {"off", "resolve"} /\ pc[U] \in {"off", "resolve"}
      BY DEF Init, ManagerInit, Thread
    <2>2. QED
      BY <2>1 DEF Init, ManagerInit, SocketInv, Used
  <1>2. Types /\ SocketInv /\ [Next]_vars => (Types /\ SocketInv)'
    BY StepTypes, StepSocketInv
  <1>3. SocketInv => SocketsAccounted
    BY DEF SocketInv, Used, SocketsAccounted
  <1>4. QED
    BY <1>1, <1>2, <1>3, PTL DEF Spec

-----------------------------------------------------------------------------
(* The file that the update thread fetches. *)
UpgradeInv ==
  /\ pc[U] \in {"off", "resolve", "connect", "select", "dispatch", "download", "check"}
  /\ pc[U] = "download" => wanted = NoFile \/ ftp_filepath = wanted
  /\ pc[U] = "check" =>
       vmlinux = None \/ vmlinux = Whole(wanted) \/ ~fetched \/ wanted = NoFile \/ touched

UpgradeStep ==
  upgrade' # upgrade => upgrade' = Whole(wanted) \/ ~fetched \/ wanted = NoFile \/ touched

(* The monitor thread and the web page leave the update thread where it    *)
(* is; the page says so when it changes the file.                          *)
LEMMA OtherSteps ==
  UpgradeInv /\ UNCHANGED <<pc[U], wanted, ftp_filepath, fetched>>
    /\ (touched => touched') /\ (UNCHANGED vmlinux \/ touched') => UpgradeInv'
  BY DEF UpgradeInv

LEMMA StepUpgrade == UpgradeInv /\ DispatchTypes /\ [Next]_vars => UpgradeInv' /\ (UpgradeStep \/ UNCHANGED vars)
  <1> SUFFICES ASSUME UpgradeInv, DispatchTypes, Next PROVE UpgradeInv' /\ UpgradeStep
    BY DEF vars, managerVars, upgradeVars, UpgradeInv
  <1> USE DEF DispatchTypes, updateVars, upgradeVars, Goto, Thread, M, U
  <1>1. CASE Web
    <2>1. UNCHANGED <<pc, wanted, ftp_filepath, fetched, upgrade>>
      BY <1>1 DEF Web, managerVars
    <2>2. (touched => touched') /\ (UNCHANGED vmlinux \/ touched')
      BY <1>1, Zenon DEF Web
    <2>3. QED
      BY <2>1, <2>2, OtherSteps DEF UpgradeStep
  <1>2. CASE Manager
    <2>1. ASSUME UNCHANGED <<vmlinux, upgrade, wanted, ftp_filepath, fetched>>,
                 \/ pc'[U] = pc[U]
                 \/ pc'[U] \in {"resolve", "connect", "select", "dispatch"}
          PROVE  UpgradeInv' /\ UpgradeStep
      BY <1>2, <2>1 DEF Manager, UpgradeInv, UpgradeStep
    <2>2. ASSUME NEW t \in Thread, Dispatch(t) PROVE UpgradeInv' /\ UpgradeStep
      BY <2>1, <2>2 DEF Dispatch, Copy
    <2>3. ASSUME NEW t \in Thread, Resolve(t) \/ NoSocket(t) PROVE UpgradeInv' /\ UpgradeStep
      BY <2>1, <2>3 DEF Resolve, NoSocket
    <2>4. ASSUME NEW t \in Thread, NEW commands, StartDispatch(t, commands)
          PROVE  pc'[U] = pc[U] \/ pc'[U] = "dispatch"
      BY <2>4 DEF StartDispatch
    <2>5. CASE Connect \/ MonitorRecv \/ MonitorSecond
      <3>1. pc'[U] = pc[U] \/ pc'[U] = "dispatch"
        BY <2>4, <2>5 DEF Connect, MonitorRecv, MonitorSecond, Report
      <3>2. QED
        BY <2>1, <2>5, <3>1 DEF Connect, MonitorRecv, MonitorSecond
    <2>6. CASE Send \/ PeerCloses
      BY <2>1, <2>6 DEF Send, PeerCloses
    <2>7. CASE Bind \/ UpdateSecond
      BY <2>1, <2>7 DEF Bind, UpdateSecond
    <2>8. CASE UpgradeIgnore
      BY <2>1, <2>4, <2>8 DEF UpgradeIgnore
    <2>9. CASE UpgradeNeed
      BY <2>9 DEF UpgradeNeed, UpgradeInv, UpgradeStep
    <2>10. CASE Download
      BY <1>2, <2>10 DEF Download, UpdateAt, Manager, UpgradeInv, UpgradeStep, Whole
    <2>11. CASE Check
      BY <2>11 DEF Check, UpdateAt, UpgradeInv, UpgradeStep
    <2>12. QED
      BY <1>2, <2>2, <2>3, <2>5, <2>6, <2>7, <2>8, <2>9, <2>10, <2>11 DEF Manager, ManagerNext
  <1>3. QED
    BY <1>1, <1>2 DEF Next

(* Firmware that was not asked for, or a part of it, is started only after *)
(* a download that failed, a request without a file, or when the web page  *)
(* changed the file after the download (remotemanager.c 324-347).          *)
THEOREM UpgradesAsAsked == Spec => UpgradeAsAsked
  <1>1. Init => Types /\ UpgradeInv
    BY InitTypes DEF Init, ManagerInit, UpgradeInv, Thread
  <1>2. Types /\ UpgradeInv /\ [Next]_vars => (Types /\ UpgradeInv)'
    BY StepTypes, StepUpgrade DEF Types
  <1>3. Types /\ UpgradeInv /\ [Next]_vars =>
          [upgrade' # upgrade =>
             upgrade' = Whole(wanted) \/ ~fetched \/ wanted = NoFile \/ touched]_vars
    BY StepUpgrade DEF Types, UpgradeStep
  <1>4. QED
    BY <1>1, <1>2, <1>3, PTL DEF Spec, UpgradeAsAsked

-----------------------------------------------------------------------------
(* The interpreter that the threads share. *)
Exclusive == Inside(M) /\ Inside(U) => overlap[M] /\ overlap[U]

(* A thread that was alone finds in the handlers' buffer what it put there *)
OwnBuffer(t) ==
  ~overlap[t] =>
    /\ ~foreign[t]
    /\ place[t] = "run" => cmd_para_buf = <<"command", Head(todo[t])>>
    /\ place[t] = "respond" => cmd_para_buf = <<"answer", Head(todo[t])>>

(* ... what the monitor has left to run is the end of what it asked ...    *)
LeftToRun ==
  ~overlap[M] /\ Inside(M) =>
    /\ Len(todo[M]) <= Len(asked)
    /\ \A i \in 1 .. Len(todo[M]) : todo[M][i] = asked[Len(asked) - Len(todo[M]) + i]
    /\ place[M] = "clear" => todo[M] = asked

(* ... and the response buffer has the answers to the rest.                *)
Answered ==
  ~overlap[M] /\ Inside(M) /\ place[M] # "clear" =>
    /\ Len(g_InnerRspBuf) = Len(asked) - Len(todo[M])
    /\ \A i \in 1 .. Len(g_InnerRspBuf) : g_InnerRspBuf[i] = <<"answer", asked[i]>>

Sent == pc[M] = "send" /\ ~overlap[M] => reply = Answers(asked)

AnswerInv ==
  Exclusive /\ (\A t \in Thread : OwnBuffer(t)) /\ LeftToRun /\ Answered /\ Sent

LEMMA StillAnswers ==
  ASSUME AnswerInv, UNCHANGED <<dispatchVars, asked, reply>>, pc'[M] = "send" => pc[M] = "send"
  PROVE  AnswerInv'
  BY DEF AnswerInv, Exclusive, OwnBuffer, LeftToRun, Answered, Sent, dispatchVars, Inside

(* Entering: both threads are told if the other one is in.                 *)
LEMMA EnterAnswers ==
  ASSUME DispatchTypes, AnswerInv, asked \in Seq(Command),
         NEW t \in Thread, NEW commands \in Seq(Command), StartDispatch(t, commands), ~Inside(t),
         asked' = IF t = M THEN commands ELSE asked, UNCHANGED reply
  PROVE  AnswerInv'
  <1> USE DEF DispatchTypes, Inside
  <1>1. /\ place'[t] = "clear" /\ todo'[t] = commands /\ ~foreign'[t] /\ pc'[t] = "dispatch"
        /\ \A o \in Thread \ {t} : place'[o] = place[o] /\ todo'[o] = todo[o] /\ foreign'[o] = foreign[o]
                                    /\ pc'[o] = pc[o]
        /\ UNCHANGED <<g_InnerRspBuf, cmd_para_buf>>
    BY DEF StartDispatch, Goto
  <1>2. \A o \in Thread \ {t} : /\ overlap'[t] <=> Inside(o)
                                /\ overlap'[o] <=> overlap[o] \/ Inside(o)
    BY DEF StartDispatch, Thread, M, U
  <1>3. Exclusive'
    BY <1>1, <1>2 DEF Exclusive, M, U, Thread
  <1>4. \A o \in Thread : OwnBuffer(o)'
    BY <1>1, <1>2 DEF AnswerInv, OwnBuffer
  <1>5. CASE t = M
    <2>1. LeftToRun'
      <3>1. todo'[M] = asked'
        BY <1>1, <1>5
      <3>2. QED
        BY <3>1 DEF LeftToRun
    <2>2. Answered' /\ Sent'
      BY <1>1, <1>5 DEF Answered, Sent
    <2>3. QED
      BY <1>3, <1>4, <2>1, <2>2 DEF AnswerInv
  <1>6. CASE t = U
    <2>1. /\ place'[M] = place[M] /\ todo'[M] = todo[M] /\ pc'[M] = pc[M] /\ asked' = asked
          /\ overlap[M] => overlap'[M]
      BY <1>1, <1>2, <1>6 DEF Thread, M, U
    <2>2. LeftToRun'
      BY <2>1 DEF AnswerInv, LeftToRun
    <2>3. Answered'
      BY <1>1, <2>1 DEF AnswerInv, Answered
    <2>4. Sent'
      BY <2>1 DEF AnswerInv, Sent, Answers
    <2>5. QED
      BY <1>3, <1>4, <2>2, <2>3, <2>4 DEF AnswerInv
  <1>7. QED
    BY <1>5, <1>6 DEF Thread

(* Inside: what one thread does there, the other one, if it was alone, does *)
(* not see, because it is out.                                             *)
LEMMA OtherAnswers ==
  ASSUME DispatchTypes, AnswerInv, NEW t \in Thread, Dispatch(t)
  PROVE  /\ Exclusive'
         /\ \A o \in Thread \ {t} : OwnBuffer(o)'
         /\ t = U => LeftToRun' /\ Answered' /\ Sent'
  <1> USE DEF DispatchTypes, Inside
  <1>1. /\ UNCHANGED <<overlap, asked>> /\ place[t] # "out"
        /\ \A o \in Thread \ {t} : /\ place'[o] = place[o] /\ todo'[o] = todo[o]
                                    /\ foreign'[o] = foreign[o] /\ pc'[o] = pc[o]
        /\ t = U => UNCHANGED reply
    BY DEF Dispatch, Clear, Format, Run, Fill, Respond, Copy, Step, Goto, M, U
  <1>2. \A o \in Thread \ {t} : ~overlap[o] => place[o] = "out"
    BY <1>1 DEF AnswerInv, Exclusive, Thread
  <1>3. Exclusive'
    BY <1>1 DEF AnswerInv, Exclusive, Thread, M, U
  <1>4. \A o \in Thread \ {t} : OwnBuffer(o)'
    BY <1>1, <1>2 DEF AnswerInv, OwnBuffer
  <1>5. CASE t = U
    <2>1. /\ place'[M] = place[M] /\ todo'[M] = todo[M] /\ pc'[M] = pc[M] /\ reply' = reply
          /\ ~overlap[M] => place[M] = "out"
      BY <1>1, <1>2, <1>5 DEF Thread, M, U
    <2>2. QED
      BY <1>1, <1>3, <1>4, <2>1 DEF AnswerInv, LeftToRun, Answered, Sent, Answers
  <1>6. QED
    BY <1>3, <1>4, <1>5

LEMMA OwnSteps ==
  ASSUME DispatchTypes, AnswerInv, asked \in Seq(Command), NEW t \in Thread, Dispatch(t),
         ~overlap[t]
  PROVE  /\ OwnBuffer(t)'
         /\ t = M => LeftToRun' /\ Answered' /\ Sent'
  <1> USE DEF DispatchTypes, Inside, Step
  <1>1. UNCHANGED <<overlap, asked>>
    BY DEF Dispatch
  <1>2. OwnBuffer(t)
    BY DEF AnswerInv
  <1>3. t = M => LeftToRun /\ Answered
    BY DEF AnswerInv
  <1>4. CASE Clear(t) /\ UNCHANGED <<pc, reply>>
    <2>1. /\ place[t] = "clear" /\ place'[t] = FirstStep(todo[t]) /\ g_InnerRspBuf' = <<>>
          /\ UNCHANGED <<todo, foreign, cmd_para_buf>>
      BY <1>4 DEF Clear
    <2>2. place'[t] \in {"copy", "format", "fill"}
      BY <2>1 DEF FirstStep
    <2>3. OwnBuffer(t)'
      BY <1>1, <1>2, <2>1, <2>2 DEF OwnBuffer
    <2>4. ASSUME t = M PROVE LeftToRun'
      BY <1>1, <1>3, <2>1, <2>4 DEF LeftToRun
    <2>5. ASSUME t = M PROVE Answered'
      <3>1. Len(todo[M]) = Len(asked)
        BY <1>3, <2>1, <2>5 DEF LeftToRun
      <3>2. QED
        BY <1>1, <2>1, <2>5, <3>1 DEF Answered
    <2>6. ASSUME t = M PROVE Sent'
      BY <1>4, <2>1, <2>6 DEF Sent
    <2>7. QED
      BY <2>3, <2>4, <2>5, <2>6
  <1>5. ASSUME UNCHANGED <<pc, reply, todo, g_InnerRspBuf>>, place[t] \notin {"out", "clear"}, place'[t] \notin {"out", "clear"}
        PROVE  t = M => LeftToRun' /\ Answered' /\ Sent'
    <2>1. ASSUME t = M PROVE LeftToRun'
      BY <1>1, <1>3, <1>5, <2>1 DEF LeftToRun
    <2>2. ASSUME t = M PROVE Answered'
      BY <1>1, <1>3, <1>5, <2>2 DEF Answered
    <2>3. ASSUME t = M PROVE Sent'
      BY <1>5, <2>3 DEF Sent
    <2>4. QED
      BY <2>1, <2>2, <2>3
  <1>6. CASE Format(t) /\ UNCHANGED <<pc, reply>>
    <2>1. place[t] = "format" /\ place'[t] = "run"
      BY <1>6 DEF Format
    <2>2. OwnBuffer(t)'
      BY <1>1, <1>2, <1>6, <2>1 DEF Format, OwnBuffer
    <2>3. QED
      BY <1>5, <1>6, <2>1, <2>2 DEF Format
  <1>7. CASE Run(t) /\ UNCHANGED <<pc, reply>>
    <2>1. place[t] = "run" /\ place'[t] = "fill" /\ ~foreign'[t]
      BY <1>2, <1>7 DEF Run, OwnBuffer
    <2>2. OwnBuffer(t)'
      BY <1>1, <2>1 DEF OwnBuffer
    <2>3. QED
      BY <1>5, <1>7, <2>1, <2>2 DEF Run
  <1>8. CASE Fill(t) /\ UNCHANGED <<pc, reply>>
    <2>1. place[t] = "fill" /\ place'[t] = "respond"
      BY <1>8 DEF Fill
    <2>2. OwnBuffer(t)'
      BY <1>1, <1>2, <1>8, <2>1 DEF Fill, OwnBuffer
    <2>3. QED
      BY <1>5, <1>8, <2>1, <2>2 DEF Fill
  <1>9. CASE Respond(t) /\ UNCHANGED <<pc, reply>>
    <2>1. /\ place[t] = "respond" /\ todo[t] # <<>> /\ todo[t] \in Seq(Command)
          /\ g_InnerRspBuf' = Append(g_InnerRspBuf, cmd_para_buf)
          /\ todo'[t] = Tail(todo[t]) /\ UNCHANGED foreign
      BY <1>9 DEF Respond
    <2>2. place'[t] = FirstStep(Tail(todo[t]))
      BY <1>9 DEF Respond
    <2>3. place'[t] \in {"copy", "format", "fill"}
      BY <2>2 DEF FirstStep
    <2>4. OwnBuffer(t)'
      BY <1>1, <1>2, <2>1, <2>3 DEF OwnBuffer
    <2>5. cmd_para_buf = <<"answer", Head(todo[t])>>
      BY <1>2, <2>1 DEF OwnBuffer
    <2>6. ASSUME t = M PROVE LeftToRun' /\ Answered' /\ Sent'
      <3> DEFINE rest == Len(todo[M])
                 done == Len(g_InnerRspBuf)
      <3>1. /\ rest \in Nat \ {0} /\ Len(asked) \in Nat /\ rest <= Len(asked)
            /\ \A i \in 1 .. rest : todo[M][i] = asked[Len(asked) - rest + i]
        BY <1>3, <2>1, <2>6 DEF LeftToRun
      <3>2. /\ done = Len(asked) - rest
            /\ \A i \in 1 .. done : g_InnerRspBuf[i] = <<"answer", asked[i]>>
        BY <1>3, <2>1, <2>6 DEF Answered
      <3>3. /\ Len(todo'[M]) = rest - 1
            /\ \A i \in 1 .. rest - 1 : todo'[M][i] = todo[M][i + 1]
        <4>1. todo'[M] = Tail(todo[M]) /\ todo[M] # <<>> /\ todo[M] \in Seq(Command)
          BY <2>1, <2>6
        <4>2. QED
          BY <4>1
      <3>4. \A i \in 1 .. rest - 1 : todo'[M][i] = asked[Len(asked) - (rest - 1) + i]
        <4> TAKE i \in 1 .. rest - 1
        <4>1. i + 1 \in 1 .. rest
          BY <3>1
        <4>2. todo[M][i + 1] = asked[Len(asked) - rest + (i + 1)]
          BY <3>1, <4>1
        <4>3. Len(asked) - rest + (i + 1) = Len(asked) - (rest - 1) + i
          BY <3>1
        <4>4. QED
          BY <3>3, <4>2, <4>3
      <3>5. LeftToRun'
        <4>1. Len(todo'[M]) <= Len(asked')
          BY <1>1, <3>1, <3>3
        <4>2. \A i \in 1 .. Len(todo'[M]) : todo'[M][i] = asked'[Len(asked') - Len(todo'[M]) + i]
          BY <1>1, <3>3, <3>4
        <4>3. QED
          BY <2>3, <2>6, <4>1, <4>2 DEF LeftToRun
      <3>6. /\ Len(g_InnerRspBuf') = done + 1
            /\ g_InnerRspBuf'[done + 1] = cmd_para_buf
            /\ \A i \in 1 .. done : g_InnerRspBuf'[i] = g_InnerRspBuf[i]
        BY <2>1
      <3>7. cmd_para_buf = <<"answer", asked[done + 1]>>
        <4>1. Head(todo[M]) = todo[M][1]
          BY <2>1, <2>6
        <4>2. QED
          <5>1. done + 1 = Len(asked) - rest + 1 /\ 1 \in 1 .. rest
            BY <3>1, <3>2
          <5>2. todo[M][1] = asked[done + 1]
            BY <3>1, <5>1
          <5>3. QED
            BY <2>5, <2>6, <4>1, <5>2
      <3>8. \A i \in 1 .. done + 1 : g_InnerRspBuf'[i] = <<"answer", asked[i]>>
        <4> TAKE i \in 1 .. done + 1
        <4>1. CASE i = done + 1
          BY <3>6, <3>7, <4>1
        <4>2. CASE i # done + 1
          <5>1. i \in 1 .. done
            <6>1. done \in Nat /\ i \in 1 .. done + 1
              BY <3>1, <3>2
            <6> HIDE DEF done
            <6>2. QED
              BY <4>2, <6>1
          <5>2. QED
            BY <3>2, <3>6, <5>1
        <4>3. QED
          BY <4>1, <4>2
      <3>9. Answered'
        BY <1>1, <3>1, <3>2, <3>3, <3>6, <3>8, SMTT(30) DEF Answered
      <3>10. Sent'
        BY <1>9, <2>1, <2>6 DEF Sent
      <3>11. QED
        BY <3>5, <3>9, <3>10
    <2>7. QED
      BY <2>4, <2>6
  <1>10. CASE Copy(t)
    <2>1. place[t] = "copy" /\ todo[t] = <<>> /\ place'[t] = "out" /\ UNCHANGED <<foreign, g_InnerRspBuf>>
      BY <1>10 DEF Copy
    <2>2. OwnBuffer(t)'
      BY <1>1, <1>2, <2>1 DEF OwnBuffer
    <2>3. ASSUME t = M PROVE LeftToRun' /\ Answered' /\ Sent'
      <3>1. /\ Len(g_InnerRspBuf) = Len(asked) - Len(todo[M])
            /\ \A i \in 1 .. Len(g_InnerRspBuf) : g_InnerRspBuf[i] = <<"answer", asked[i]>>
        BY <1>3, <2>1, <2>3 DEF Answered
      <3>2. Len(g_InnerRspBuf) = Len(asked)
        BY <2>1, <2>3, <3>1
      <3>3. g_InnerRspBuf = [i \in 1 .. Len(asked) |-> g_InnerRspBuf[i]]
        BY <3>2
      <3>4. g_InnerRspBuf = [i \in 1 .. Len(asked) |-> <<"answer", asked[i]>>]
        BY <3>1, <3>2, <3>3
      <3>5. DOMAIN asked = 1 .. Len(asked)
        OBVIOUS
      <3>6. g_InnerRspBuf = Answers(asked)
        BY <3>4, <3>5 DEF Answers
      <3>7. reply' = Answers(asked')
        BY <1>1, <1>10, <2>3, <3>6 DEF Copy
      <3>8. QED
        BY <2>1, <2>3, <3>7 DEF LeftToRun, Answered, Sent
    <2>4. QED
      BY <2>2, <2>3
  <1>11. QED
    BY <1>4, <1>6, <1>7, <1>8, <1>9, <1>10 DEF Dispatch

LEMMA StepAnswers == Types /\ AnswerInv /\ [Next]_vars => AnswerInv'
  <1> SUFFICES ASSUME Types, AnswerInv, UNCHANGED managerVars \/ ManagerNext PROVE AnswerInv'
    BY ManagerSteps
  <1>1. DispatchTypes /\ asked \in Seq(Command)
    BY DEF Types
  <1>2. CASE UNCHANGED managerVars
    BY <1>2, StillAnswers DEF managerVars, monitorVars
  <1>3. ASSUME NEW t \in Thread, Dispatch(t) PROVE AnswerInv'
    <2>1. place[t] # "out" /\ UNCHANGED overlap
      BY <1>3 DEF Dispatch, Clear, Format, Run, Fill, Respond, Copy, Step
    <2>2. CASE ~overlap[t]
      BY <1>1, <1>3, <2>2, OtherAnswers, OwnSteps DEF AnswerInv, Thread
    <2>3. CASE overlap[t]
      <3>1. OwnBuffer(t)' /\ (t = M => LeftToRun' /\ Answered' /\ Sent')
        BY <2>1, <2>3 DEF OwnBuffer, LeftToRun, Answered, Sent
      <3>2. QED
        BY <1>1, <1>3, <3>1, OtherAnswers DEF AnswerInv, Thread
    <2>4. QED
      BY <2>2, <2>3
  <1>4. ASSUME NEW t \in Thread, Resolve(t) \/ NoSocket(t) PROVE AnswerInv'
    <2>1. pc'[M] = "send" => pc[M] = "send"
      BY <1>1, <1>4 DEF Resolve, NoSocket, Goto, DispatchTypes, Thread
    <2>2. QED
      BY <1>4, <2>1, StillAnswers DEF Resolve, NoSocket, monitorVars
  <1>5. ASSUME NEW t \in Thread, NEW where \in Labels \ {"send"}, Goto(t, where)
        PROVE  pc'[M] = "send" => pc[M] = "send"
    BY <1>1, <1>5 DEF Goto, DispatchTypes, Thread
  <1>6. ASSUME UNCHANGED <<dispatchVars, asked, reply>>,
               \/ UNCHANGED pc
               \/ \E t \in Thread, where \in Labels \ {"send"} : Goto(t, where)
        PROVE  AnswerInv'
    BY <1>5, <1>6, StillAnswers
  <1>7. ASSUME NEW commands \in Seq(Command), NEW why, Report(why, commands), pc[M] # "dispatch",
               UNCHANGED reply
        PROVE  AnswerInv'
    BY <1>1, <1>7, EnterAnswers DEF Report, DispatchTypes, Thread
  <1> USE DEF Thread, Labels, MonitorAt, UpdateAt, monitorVars
  <1>8. CASE Connect
    BY <1>6, <1>7, <1>8 DEF Connect
  <1>9. CASE Send
    BY <1>6, <1>9 DEF Send
  <1>10. CASE PeerCloses
    BY <1>6, <1>10 DEF PeerCloses
  <1>11. CASE MonitorRecv
    BY <1>6, <1>7, <1>11 DEF MonitorRecv
  <1>12. CASE MonitorSecond
    BY <1>6, <1>7, <1>12 DEF MonitorSecond
  <1>13. CASE Bind
    BY <1>6, <1>13 DEF Bind
  <1>14. CASE UpdateSecond
    BY <1>6, <1>14 DEF UpdateSecond
  <1>15. CASE UpgradeIgnore
    <2>1. PICK commands \in Content : StartDispatch(U, commands)
      BY <1>15 DEF UpgradeIgnore
    <2>2. ~Inside(U)
      BY <1>1, <1>15 DEF UpgradeIgnore, DispatchTypes
    <2>3. UNCHANGED <<asked, reply>> /\ U # M
      BY <1>15 DEF UpgradeIgnore, U, M
    <2>4. QED
      BY <1>1, <2>1, <2>2, <2>3, EnterAnswers
  <1>16. CASE UpgradeNeed
    BY <1>6, <1>16 DEF UpgradeNeed
  <1>17. CASE Download
    BY <1>6, <1>17 DEF Download
  <1>18. CASE Check
    BY <1>6, <1>18 DEF Check
  <1>19. QED
    BY <1>2, <1>3, <1>4, <1>8, <1>9, <1>10, <1>11, <1>12, <1>13, <1>14, <1>15, <1>16, <1>17, <1>18
       DEF ManagerNext

(* What the monitor sends are the answers to what it asked, in order, and  *)
(* what a thread runs is its own, unless the other thread was in the       *)
(* interpreter in the same time (remotemanager.c 374, 562, 622).           *)
THEOREM AnswersOwned == Spec => []OwnAnswers
  <1>1. Init => Types /\ AnswerInv
    <2> SUFFICES ASSUME Init PROVE AnswerInv
      BY InitTypes
    <2>1. \A t \in Thread : place[t] = "out" /\ ~foreign[t] /\ pc[t] \in {"off", "resolve"}
      BY DEF Init, ManagerInit
    <2>2. QED
      BY <2>1 DEF AnswerInv, Exclusive, OwnBuffer, LeftToRun, Answered, Sent, Inside, Thread
  <1>2. Types /\ AnswerInv /\ [Next]_vars => (Types /\ AnswerInv)'
    BY StepTypes, StepAnswers
  <1>3. AnswerInv => OwnAnswers
    BY DEF AnswerInv, OwnBuffer, Sent, OwnAnswers
  <1>4. QED
    BY <1>1, <1>2, <1>3, PTL DEF Spec

-----------------------------------------------------------------------------
(* What is checked of the run is proved of its parts: a behaviour of       *)
(* MCUpgrades is one of Upgrades and one of WebForm.                       *)
THEOREM PartsOfWeb == MCSpec => Spec /\ FormSpec
  <1>1. MCInit => Init /\ FormInit
    BY DEF MCInit
  <1>2. [MCNext]_<<side, vars, formVars>> => [Next]_vars
    BY DEF MCNext, UpgradesSide, FormSide
  <1>3. [MCNext]_<<side, vars, formVars>> => [FormNext]_formVars
    BY DEF MCNext, UpgradesSide, FormSide
  <1>4. QED
    BY <1>1, <1>2, <1>3, PTL DEF MCSpec, Spec, FormSpec
=============================================================================
