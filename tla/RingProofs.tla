------------------------- MODULE RingProofs --------------------------------
(***************************************************************************)
(* Proofs about the ring buffer: the calls of one caller (RingApi.tla, as   *)
(* the side Api of MCRing.tla), then two threads (RingThreads.tla).         *)
(***************************************************************************)
EXTENDS MCRing, FiniteSetTheorems, SequenceTheorems, TLAPS

(* How far the write index is ahead of the read index.                     *)
Apart(w, r) == IF w >= r THEN w - r ELSE ApiSize - (r - w)

(* The remainder of UpdateIndex is one subtraction at most. *)
LEMMA IndexWraps ==
  ASSUME NEW i \in Api!Index, NEW n \in 0 .. ApiSize
  PROVE  /\ Api!UpdateIndex(i, n) = Api!Wrap(i + n)
         /\ Api!UpdateIndex(i, n) \in Api!Index
  BY ApiAssumption DEF Api!Index, Api!UpdateIndex, Api!Wrap

LEMMA UsedIs ==
  ASSUME NEW d \in Api!Ring
  PROVE  /\ Api!RingBufUsed(d) \in 0 .. ApiSize - 1
         /\ d.r \in Api!Index /\ d.w \in Api!Index /\ d.buf \in [Api!Index -> Byte]
         /\ Api!RingBufUsed(d) = Apart(d.w, d.r)
  <1>1. d.r \in Api!Index /\ d.w \in Api!Index /\ d.buf \in [Api!Index -> Byte]
    BY DEF Api!Ring
  <1>2. QED
    BY <1>1, ApiAssumption DEF Api!Index, Api!RingBufUsed, Apart

(* The waiting bytes, one by one. *)
LEMMA ContentsIs ==
  ASSUME NEW d \in Api!Ring
  PROVE  /\ Api!Contents(d) \in Seq(Byte) /\ Len(Api!Contents(d)) = Api!RingBufUsed(d)
         /\ \A k \in 1 .. Api!RingBufUsed(d) : Api!Contents(d)[k] = d.buf[Api!UpdateIndex(d.r, k - 1)]
  <1>1. PICK u \in 0 .. ApiSize - 1 : u = Api!RingBufUsed(d)
    BY UsedIs
  <1>2. u \in Nat /\ \A k \in 1 .. u : k - 1 \in 0 .. ApiSize
    BY ApiAssumption
  <1>3. \A k \in 1 .. u : d.buf[Api!UpdateIndex(d.r, k - 1)] \in Byte
    BY <1>2, UsedIs, IndexWraps
  <1>4. Api!Contents(d) = [k \in 1 .. u |-> d.buf[Api!UpdateIndex(d.r, k - 1)]]
    BY <1>1 DEF Api!Contents, Api!BytesRead
  <1>5. QED
    BY <1>1, <1>2, <1>3, <1>4

(* The n bytes of s from the write index on, and nothing else, are new. *)
Overwritten(d, e, s, n) ==
  /\ \A p \in 0 .. n - 1 : e.buf[Api!UpdateIndex(d.w, p)] = s[p + 1]
  /\ \A p \in n .. ApiSize - 1 : e.buf[Api!UpdateIndex(d.w, p)] = d.buf[Api!UpdateIndex(d.w, p)]

LEMMA SameBytes ==
  ASSUME NEW T, NEW s \in Seq(T), NEW t \in Seq(T), Len(s) = Len(t),
         \A k \in 1 .. Len(s) : s[k] = t[k]
  PROVE  s = t
  OBVIOUS

LEMMA Joined ==
  ASSUME NEW T, NEW s \in Seq(T), NEW t \in Seq(T)
  PROVE  /\ s \o t \in Seq(T) /\ Len(s \o t) = Len(s) + Len(t)
         /\ \A i \in 1 .. Len(s) + Len(t) :
              (s \o t)[i] = IF i <= Len(s) THEN s[i] ELSE t[i - Len(s)]
  OBVIOUS

LEMMA Sliced ==
  ASSUME NEW T, NEW s \in Seq(T), NEW m \in Nat, NEW n \in Nat, m <= n, n <= Len(s)
  PROVE  /\ SubSeq(s, m + 1, n) \in Seq(T) /\ Len(SubSeq(s, m + 1, n)) = n - m
         /\ \A i \in 1 .. n - m : SubSeq(s, m + 1, n)[i] = s[m + i]
  OBVIOUS

(* Where the bytes of a ring lie, counted from its write index: the ones   *)
(* that wait just before it.                                               *)
LEMMA OldPlace ==
  ASSUME NEW r \in Api!Index, NEW w \in Api!Index, NEW u \in 0 .. ApiSize - 1, NEW k \in 1 .. u,
         u = Apart(w, r)
  PROVE  /\ k - 1 \in 0 .. ApiSize /\ ApiSize - 1 - u + k \in 0 .. ApiSize - 1
         /\ Api!UpdateIndex(r, k - 1) = Api!UpdateIndex(w, ApiSize - 1 - u + k)
  <1>1. /\ k - 1 \in 0 .. ApiSize /\ ApiSize - 1 - u + k \in 0 .. ApiSize - 1
        /\ 0 .. ApiSize - 1 \subseteq 0 .. ApiSize
    BY ApiAssumption
  <1>2. Api!UpdateIndex(r, k - 1) = Api!Wrap(r + (k - 1))
    BY <1>1, IndexWraps
  <1>3. PICK q \in 0 .. ApiSize : q = ApiSize - 1 - u + k
    BY <1>1
  <1>4. Api!UpdateIndex(w, q) = Api!Wrap(w + q)
    BY IndexWraps
  <1>5. QED
    BY <1>1, <1>2, <1>3, <1>4, ApiAssumption DEF Api!Index, Api!Wrap, Apart

(* Two moves of an index are one. *)
LEMMA Moves ==
  ASSUME NEW w \in Api!Index, NEW n \in 0 .. ApiSize, NEW k \in 0 .. ApiSize - 1
  PROVE  /\ Api!Wrap(n + k) \in 0 .. ApiSize - 1
         /\ Api!UpdateIndex(Api!UpdateIndex(w, n), k) = Api!UpdateIndex(w, Api!Wrap(n + k))
  <1>1. PICK q \in 0 .. ApiSize - 1 : q = Api!Wrap(n + k)
    <2>1. CASE n + k >= ApiSize
      BY <2>1, ApiAssumption DEF Api!Wrap
    <2>2. CASE ~(n + k >= ApiSize)
      BY <2>2, ApiAssumption DEF Api!Wrap
    <2>3. QED
      BY <2>1, <2>2
  <1>2. q \in 0 .. ApiSize /\ k \in 0 .. ApiSize
    BY ApiAssumption
  <1>3. PICK v \in Api!Index : v = Api!UpdateIndex(w, n) /\ v = Api!Wrap(w + n)
    BY IndexWraps
  <1>4. /\ Api!UpdateIndex(v, k) = Api!Wrap(v + k)
        /\ Api!UpdateIndex(w, q) = Api!Wrap(w + q)
    BY <1>2, IndexWraps
  <1>5. Api!UpdateIndex(v, k) = Api!UpdateIndex(w, q)
    BY <1>1, <1>3, <1>4, ApiAssumption DEF Api!Index, Api!Wrap
  <1>6. QED
    BY <1>1, <1>3, <1>5

(* The arithmetic of an addition that fits. *)
LEMMA UsedGrows ==
  ASSUME NEW r \in 0 .. ApiSize - 1, NEW w \in 0 .. ApiSize - 1, NEW n \in 0 .. ApiSize,
         Apart(w, r) + n <= ApiSize - 1
  PROVE  Apart(w, r) + n = Apart(Api!Wrap(w + n), r)
  BY ApiAssumption DEF Api!Wrap, Apart

LEMMA SamePlace ==
  ASSUME NEW r \in 0 .. ApiSize - 1, NEW w \in 0 .. ApiSize - 1, NEW k \in 0 .. ApiSize,
         Apart(w, r) + k <= ApiSize
  PROVE  Api!Wrap(w + k) = Api!Wrap(r + (Apart(w, r) + k))
  BY ApiAssumption DEF Api!Wrap, Apart

(* A ring that took n bytes it had room for: they come last.               *)
LEMMA AddedFits ==
  ASSUME NEW d \in Api!Ring, NEW e \in Api!Ring, NEW s \in Seq(Byte), NEW n \in 0 .. ApiSize, n = Len(s),
         Overwritten(d, e, s, n), n <= Api!RingBufFree(d),
         e.w = Api!UpdateIndex(d.w, n), e.r = d.r
  PROVE  Api!Contents(e) = Api!Contents(d) \o s /\ Api!RingBufUsed(e) = Api!RingBufUsed(d) + n
  <1>1. PICK u \in 0 .. ApiSize - 1 : u = Api!RingBufUsed(d) /\ u + n <= ApiSize - 1
    BY UsedIs, ApiAssumption DEF Api!RingBufFree
  <1>2. PICK r \in Api!Index, w \in Api!Index, v \in Api!Index :
          /\ r = d.r /\ w = d.w /\ v = e.w /\ r = e.r
          /\ u = Apart(w, r)
          /\ v = Api!UpdateIndex(w, n) /\ v = Api!Wrap(w + n)
    BY <1>1, UsedIs, IndexWraps
  <1>3. PICK x \in 0 .. ApiSize - 1 : x = Api!RingBufUsed(e) /\ x = Apart(v, r)
    BY <1>2, UsedIs
  <1>4. /\ x = u + n
        /\ \A k \in 0 .. n - 1 : Api!Wrap(w + k) = Api!Wrap(r + (u + k))
    <2>1. r \in 0 .. ApiSize - 1 /\ w \in 0 .. ApiSize - 1 /\ v \in 0 .. ApiSize - 1
      BY DEF Api!Index
    <2>2. u + n = Apart(v, r)
      BY <1>1, <1>2, <2>1, UsedGrows
    <2>3. ASSUME NEW k \in 0 .. n - 1 PROVE Api!Wrap(w + k) = Api!Wrap(r + (u + k))
      <3>1. k \in 0 .. ApiSize /\ u + k <= ApiSize
        BY <1>1, ApiAssumption
      <3>2. QED
        BY <1>2, <2>1, <3>1, SamePlace, SMTT(30)
    <2>4. QED
      BY <1>3, <2>2, <2>3, Zenon
  <1>5. PICK c \in Seq(Byte) : /\ c = Api!Contents(d) /\ Len(c) = u
                               /\ \A k \in 1 .. u : c[k] = d.buf[Api!UpdateIndex(r, k - 1)]
    <2>1. /\ Api!Contents(d) \in Seq(Byte) /\ Len(Api!Contents(d)) = Api!RingBufUsed(d)
          /\ \A k \in 1 .. Api!RingBufUsed(d) : Api!Contents(d)[k] = d.buf[Api!UpdateIndex(d.r, k - 1)]
      BY ContentsIs, Zenon
    <2>2. QED
      BY <1>1, <1>2, <2>1, Zenon
  <1>6. PICK b \in Seq(Byte) : /\ b = Api!Contents(e) /\ Len(b) = u + n
                               /\ \A k \in 1 .. u + n : b[k] = e.buf[Api!UpdateIndex(r, k - 1)]
    <2>1. /\ Api!Contents(e) \in Seq(Byte) /\ Len(Api!Contents(e)) = Api!RingBufUsed(e)
          /\ \A k \in 1 .. Api!RingBufUsed(e) : Api!Contents(e)[k] = e.buf[Api!UpdateIndex(e.r, k - 1)]
      BY ContentsIs, Zenon
    <2>2. Api!RingBufUsed(e) = u + n /\ e.r = r
      BY <1>2, <1>3, <1>4
    <2>3. QED
      BY <2>1, <2>2, Zenon
  <1>7. ASSUME NEW k \in 1 .. u PROVE b[k] = c[k]
    <2>1. /\ Api!UpdateIndex(r, k - 1) = Api!UpdateIndex(w, ApiSize - 1 - u + k)
      BY <1>2, OldPlace
    <2>2. ApiSize - 1 - u + k \in n .. ApiSize - 1 /\ k \in 1 .. u + n
      BY <1>1, ApiAssumption
    <2>3. e.buf[Api!UpdateIndex(w, ApiSize - 1 - u + k)] = d.buf[Api!UpdateIndex(w, ApiSize - 1 - u + k)]
      BY <1>2, <2>2 DEF Overwritten
    <2>4. QED
      BY <1>5, <1>6, <2>1, <2>2, <2>3
  <1>8. ASSUME NEW k \in 1 .. n PROVE b[u + k] = s[k]
    <2>1. PICK p \in 0 .. n - 1 : p = k - 1
      OBVIOUS
    <2>2. p \in 0 .. ApiSize /\ u + p \in 0 .. ApiSize
      BY <1>1, ApiAssumption
    <2>3. /\ Api!UpdateIndex(w, p) = Api!Wrap(w + p)
          /\ Api!UpdateIndex(r, u + p) = Api!Wrap(r + (u + p))
      BY <2>2, IndexWraps
    <2>4. Api!UpdateIndex(w, p) = Api!UpdateIndex(r, u + p)
      BY <1>4, <2>1, <2>3, Zenon
    <2>5. e.buf[Api!UpdateIndex(w, p)] = s[p + 1]
      BY <1>2 DEF Overwritten
    <2>6. b[u + k] = e.buf[Api!UpdateIndex(r, u + k - 1)]
      BY <1>1, <1>6, SMTT(30)
    <2>7. u + k - 1 = u + p /\ p + 1 = k
      BY <1>1, <2>1
    <2>8. QED
      BY <2>4, <2>5, <2>6, <2>7
  <1>9. b = c \o s
    <2>1. PICK t \in Seq(Byte) : /\ t = c \o s /\ Len(t) = u + n
                                 /\ \A i \in 1 .. u + n : t[i] = IF i <= u THEN c[i] ELSE s[i - u]
      <3>1. /\ c \o s \in Seq(Byte) /\ Len(c \o s) = Len(c) + Len(s)
            /\ \A i \in 1 .. Len(c) + Len(s) : (c \o s)[i] = IF i <= Len(c) THEN c[i] ELSE s[i - Len(c)]
        BY Joined, Zenon
      <3>2. Len(c) = u /\ Len(s) = n
        BY <1>5
      <3>3. QED
        BY <3>1, <3>2, Zenon
    <2>2. ASSUME NEW i \in 1 .. u + n PROVE b[i] = t[i]
      <3>1. CASE i <= u
        <4>1. i \in 1 .. u
          BY <1>1, <3>1
        <4>2. QED
          BY <1>7, <2>1, <3>1, <4>1
      <3>2. CASE ~(i <= u)
        <4>0. i - u \in 1 .. n /\ i = u + (i - u)
          BY <1>1, <3>2
        <4>1. PICK k \in 1 .. n : k = i - u /\ i = u + k
          BY <4>0
        <4>2. QED
          BY <1>8, <2>1, <3>2, <4>1
      <3>3. QED
        BY <3>1, <3>2
    <2>3. b = t
      BY <1>6, <2>1, <2>2, SameBytes
    <2>4. QED
      BY <2>1, <2>3
  <1>10. QED
    BY <1>1, <1>3, <1>4, <1>5, <1>6, <1>9

(* A ring that took more than it had room for keeps one cell free, and the *)
(* newest bytes of all.                                                    *)
LEMMA FullAgain ==
  ASSUME NEW v \in 0 .. ApiSize - 1
  PROVE  Apart(v, Api!Wrap(v + 1)) = ApiSize - 1
  BY ApiAssumption DEF Api!Wrap, Apart

LEMMA AddedOver ==
  ASSUME NEW d \in Api!Ring, NEW e \in Api!Ring, NEW s \in Seq(Byte), NEW n \in 0 .. ApiSize, n = Len(s),
         Overwritten(d, e, s, n), n > Api!RingBufFree(d),
         e.w = Api!UpdateIndex(d.w, n), e.r = Api!UpdateIndex(e.w, 1)
  PROVE  /\ Api!Contents(e) = Api!Queue!Newest(Api!Contents(d) \o s, ApiSize - 1)
         /\ Api!RingBufUsed(e) = ApiSize - 1
  <1>1. PICK u \in 0 .. ApiSize - 1 : u = Api!RingBufUsed(d) /\ u + n > ApiSize - 1
    BY UsedIs, ApiAssumption DEF Api!RingBufFree
  <1>2. PICK r \in Api!Index, w \in Api!Index, v \in Api!Index, q \in Api!Index :
          /\ r = d.r /\ w = d.w /\ v = e.w /\ q = e.r
          /\ u = Apart(w, r) /\ v = Api!UpdateIndex(w, n) /\ q = Api!UpdateIndex(v, 1)
    BY <1>1, UsedIs
  <1>3. Api!RingBufUsed(e) = ApiSize - 1
    <2>1. v \in 0 .. ApiSize - 1 /\ 1 \in 0 .. ApiSize
      BY ApiAssumption DEF Api!Index
    <2>2. q = Api!Wrap(v + 1)
      BY <1>2, <2>1, IndexWraps
    <2>3. Api!RingBufUsed(e) = Apart(v, q)
      BY <1>2, UsedIs
    <2>4. QED
      BY <2>1, <2>2, <2>3, FullAgain
  <1>4. PICK size \in Nat : size = ApiSize - 1
    BY ApiAssumption
  <1>a. u \in Nat /\ n \in Nat /\ u + n > size /\ u <= size /\ n <= size + 1 /\ ApiSize = size + 1
    <2>1. ApiSize = size + 1
      BY <1>4, ApiAssumption
    <2>2. n \in Nat /\ n <= ApiSize
      BY ApiAssumption
    <2>3. u \in Nat /\ u <= ApiSize - 1 /\ u + n > ApiSize - 1
      BY <1>1, ApiAssumption
    <2>4. QED
      BY <2>1, <2>2, <2>3
  <1>5. PICK c \in Seq(Byte) : /\ c = Api!Contents(d) /\ Len(c) = u
                               /\ \A k \in 1 .. u : c[k] = d.buf[Api!UpdateIndex(r, k - 1)]
    <2>1. /\ Api!Contents(d) \in Seq(Byte) /\ Len(Api!Contents(d)) = Api!RingBufUsed(d)
          /\ \A k \in 1 .. Api!RingBufUsed(d) : Api!Contents(d)[k] = d.buf[Api!UpdateIndex(d.r, k - 1)]
      BY ContentsIs, Zenon
    <2>2. QED
      BY <1>1, <1>2, <2>1, Zenon
  <1>6. PICK b \in Seq(Byte) : /\ b = Api!Contents(e) /\ Len(b) = size
                               /\ \A k \in 1 .. size : b[k] = e.buf[Api!UpdateIndex(q, k - 1)]
    <2>1. /\ Api!Contents(e) \in Seq(Byte) /\ Len(Api!Contents(e)) = Api!RingBufUsed(e)
          /\ \A k \in 1 .. Api!RingBufUsed(e) : Api!Contents(e)[k] = e.buf[Api!UpdateIndex(e.r, k - 1)]
      BY ContentsIs, Zenon
    <2>2. Api!RingBufUsed(e) = size /\ e.r = q
      BY <1>2, <1>3, <1>4
    <2>3. QED
      BY <2>1, <2>2, Zenon
  <1>7. ASSUME NEW k \in 1 .. size
        PROVE  b[k] = e.buf[Api!UpdateIndex(w, Api!Wrap(n + k))]
    <2>1. k \in 0 .. ApiSize - 1 /\ k \in 1 .. ApiSize - 1 /\ ApiSize - 1 \in 0 .. ApiSize - 1
      BY <1>4, ApiAssumption
    <2>2. Apart(v, q) = ApiSize - 1
      BY <1>2, <1>3, UsedIs
    <2>3. Api!UpdateIndex(q, k - 1) = Api!UpdateIndex(v, ApiSize - 1 - (ApiSize - 1) + k)
      BY <2>1, <2>2, OldPlace
    <2>4. ApiSize - 1 - (ApiSize - 1) + k = k
      BY <2>1, ApiAssumption
    <2>a. Api!UpdateIndex(Api!UpdateIndex(w, n), k) = Api!UpdateIndex(w, Api!Wrap(n + k))
      BY <2>1, Moves
    <2>5. Api!UpdateIndex(v, k) = Api!UpdateIndex(w, Api!Wrap(n + k))
      BY <1>2, <2>a
    <2>6. QED
      BY <1>6, <2>3, <2>4, <2>5
  <1>8. PICK t \in Seq(Byte) : /\ t = c \o s /\ Len(t) = u + n
                               /\ \A i \in 1 .. u + n : t[i] = IF i <= u THEN c[i] ELSE s[i - u]
    <2>1. /\ c \o s \in Seq(Byte) /\ Len(c \o s) = Len(c) + Len(s)
          /\ \A i \in 1 .. Len(c) + Len(s) : (c \o s)[i] = IF i <= Len(c) THEN c[i] ELSE s[i - Len(c)]
      BY Joined, Zenon
    <2>2. Len(c) = u /\ Len(s) = n
      BY <1>5
    <2>3. QED
      BY <2>1, <2>2, Zenon
  <1>9. PICK m \in Nat : m = u + n - size /\ m > 0 /\ m <= u + n /\ u + n - m = size
    <2>1. u + n - size \in Nat /\ u + n - size > 0 /\ u + n - size <= u + n /\ u + n - (u + n - size) = size
      BY <1>a
    <2>2. QED
      BY <2>1
  <1>10. ASSUME NEW k \in 1 .. size PROVE b[k] = t[m + k]
    <2>1. m + k \in 1 .. u + n /\ k \in 0 .. ApiSize - 1
      BY <1>9, <1>a
    <2>2. CASE n + k >= ApiSize
      <3>1. Api!Wrap(n + k) = n + k - ApiSize /\ n + k - ApiSize \in 0 .. n - 1
        BY <1>a, <2>2 DEF Api!Wrap
      <3>2. e.buf[Api!UpdateIndex(w, n + k - ApiSize)] = s[n + k - ApiSize + 1]
        BY <1>2, <3>1 DEF Overwritten
      <3>3. ~(m + k <= u) /\ m + k - u = n + k - ApiSize + 1
        BY <1>9, <1>a, <2>2
      <3>4. t[m + k] = s[n + k - ApiSize + 1]
        BY <1>8, <2>1, <3>3
      <3>5. b[k] = e.buf[Api!UpdateIndex(w, n + k - ApiSize)]
        BY <1>7, <3>1
      <3>6. QED
        BY <3>2, <3>4, <3>5
    <2>3. CASE ~(n + k >= ApiSize)
      <3>1. Api!Wrap(n + k) = n + k /\ n + k \in n .. ApiSize - 1
        BY <1>a, <2>3 DEF Api!Wrap
      <3>2. e.buf[Api!UpdateIndex(w, n + k)] = d.buf[Api!UpdateIndex(w, n + k)]
        BY <1>2, <3>1 DEF Overwritten
      <3>3. PICK j \in 1 .. u : j = m + k
        <4>1. m + k \in 1 .. u
          BY <1>9, <1>a, <2>3
        <4>2. QED
          BY <4>1
      <3>4. ApiSize - 1 - u + j = n + k
        BY <1>9, <1>a, <3>3
      <3>5. Api!UpdateIndex(r, j - 1) = Api!UpdateIndex(w, ApiSize - 1 - u + j)
        BY <1>2, OldPlace
      <3>6. c[j] = d.buf[Api!UpdateIndex(w, n + k)]
        BY <1>5, <3>4, <3>5
      <3>7. t[j] = c[j]
        BY <1>8, <2>1, <3>3
      <3>8. QED
        BY <1>7, <3>1, <3>2, <3>3, <3>6, <3>7
    <2>4. QED
      BY <2>2, <2>3
  <1>11. b = SubSeq(t, m + 1, u + n)
    <2>1. PICK x \in Seq(Byte) : /\ x = SubSeq(t, m + 1, u + n) /\ Len(x) = size
                                 /\ \A i \in 1 .. size : x[i] = t[m + i]
      <3>1. u + n \in Nat /\ m <= u + n /\ u + n <= Len(t) /\ u + n - m = size
        BY <1>8, <1>9, <1>a
      <3>2. PICK z \in Nat : z = u + n /\ m <= z /\ z <= Len(t) /\ z - m = size
        BY <3>1
      <3>3. /\ SubSeq(t, m + 1, z) \in Seq(Byte) /\ Len(SubSeq(t, m + 1, z)) = z - m
            /\ \A i \in 1 .. z - m : SubSeq(t, m + 1, z)[i] = t[m + i]
        <4>1. m <= z /\ z <= Len(t)
          BY <3>2
        <4>2. QED
          BY <4>1, Sliced
      <3>4. QED
        BY <3>2, <3>3, Zenon
    <2>2. Len(b) = Len(x) /\ \A k \in 1 .. Len(b) : b[k] = x[k]
      BY <1>6, <1>10, <2>1
    <2>a. b = x
      BY <2>2, SameBytes
    <2>3. QED
      BY <2>1, <2>a
  <1>12. Api!Queue!Newest(t, ApiSize - 1) = SubSeq(t, m + 1, u + n)
    <2>1. ~(Len(t) <= ApiSize - 1) /\ Len(t) - (ApiSize - 1) + 1 = m + 1
      BY <1>8, <1>9, <1>a
    <2>2. Len(t) = u + n
      BY <1>8
    <2>3. QED
      BY <2>1, <2>2, Zenon DEF Api!Queue!Newest
  <1>13. QED
    BY <1>3, <1>5, <1>6, <1>8, <1>11, <1>12, Zenon

-----------------------------------------------------------------------------
(* Different places before the wrap are different cells. *)
LEMMA PlaceOnce ==
  ASSUME NEW w \in Api!Index, NEW p \in 0 .. ApiSize - 1, NEW q \in 0 .. ApiSize - 1,
         Api!UpdateIndex(w, p) = Api!UpdateIndex(w, q)
  PROVE  p = q
  <1>1. p \in 0 .. ApiSize /\ q \in 0 .. ApiSize
    BY ApiAssumption
  <1>2. Api!UpdateIndex(w, p) = Api!Wrap(w + p) /\ Api!UpdateIndex(w, q) = Api!Wrap(w + q)
    BY <1>1, IndexWraps
  <1>3. w \in 0 .. ApiSize - 1
    BY DEF Api!Index
  <1>4. Api!Wrap(w + p) = Api!Wrap(w + q)
    BY <1>2
  <1>5. QED
    BY <1>3, <1>4, ApiAssumption DEF Api!Wrap

(* One place further. *)
LEMMA NextPlace ==
  ASSUME NEW w \in Api!Index, NEW j \in 0 .. ApiSize - 1
  PROVE  Api!UpdateIndex(Api!UpdateIndex(w, j), 1) = Api!UpdateIndex(w, j + 1)
  <1>1. j \in 0 .. ApiSize /\ j + 1 \in 0 .. ApiSize /\ 1 \in 0 .. ApiSize
    BY ApiAssumption
  <1>2. PICK v \in Api!Index : v = Api!UpdateIndex(w, j) /\ v = Api!Wrap(w + j)
    BY <1>1, IndexWraps
  <1>3. Api!UpdateIndex(v, 1) = Api!Wrap(v + 1) /\ Api!UpdateIndex(w, j + 1) = Api!Wrap(w + (j + 1))
    BY <1>1, IndexWraps
  <1>4. w \in 0 .. ApiSize - 1
    BY DEF Api!Index
  <1>5. Api!Wrap(v + 1) = Api!Wrap(w + (j + 1))
    BY <1>2, <1>4, ApiAssumption DEF Api!Wrap
  <1>6. QED
    BY <1>2, <1>3, <1>5

(* One byte more is written. *)
LEMMA WriteOneIs ==
  ASSUME NEW f \in Api!Ring, NEW b \in Byte
  PROVE  LET e == Api!RingBufWriteOne(f, b)
         IN  /\ e \in Api!Ring /\ e.r = f.r /\ e.w = Api!UpdateIndex(f.w, 1) /\ e.buf[f.w] = b
             /\ \A i \in Api!Index \ {f.w} : e.buf[i] = f.buf[i]
  <1>1. f.w \in Api!Index /\ f.r \in Api!Index /\ f.buf \in [Api!Index -> Byte] /\ 1 \in 0 .. ApiSize
    BY ApiAssumption DEF Api!Ring
  <1>2. Api!UpdateIndex(f.w, 1) \in Api!Index
    BY <1>1, IndexWraps
  <1>3. PICK x \in Api!Index : x = Api!UpdateIndex(f.w, 1)
    BY <1>2
  <1>4. Api!RingBufWriteOne(f, b) = [f EXCEPT !.buf[f.w] = b, !.w = x]
    BY <1>3 DEF Api!RingBufWriteOne
  <1>5. PICK r \in Api!Index, v \in Api!Index, g \in [Api!Index -> Byte] : f = [buf |-> g, r |-> r, w |-> v]
    BY DEF Api!Ring
  <1>6. Api!RingBufWriteOne(f, b) = [buf |-> [g EXCEPT ![v] = b], r |-> r, w |-> x]
    BY <1>4, <1>5
  <1>7. QED
    BY <1>3, <1>5, <1>6 DEF Api!Ring

LEMMA OneMore ==
  ASSUME NEW d \in Api!Ring, NEW f \in Api!Ring, NEW s \in Seq(Byte), NEW j \in 0 .. ApiSize - 1,
         j + 1 <= Len(s), Overwritten(d, f, s, j), f.w = Api!UpdateIndex(d.w, j)
  PROVE  LET e == Api!RingBufWriteOne(f, s[j + 1])
         IN  /\ e \in Api!Ring /\ e.r = f.r /\ e.w = Api!UpdateIndex(d.w, j + 1)
             /\ Overwritten(d, e, s, j + 1)
  <1>0. PICK b \in Byte : b = s[j + 1]
    BY ApiAssumption
  <1>1. PICK e \in Api!Ring : /\ e = Api!RingBufWriteOne(f, b)
                              /\ e.r = f.r /\ e.w = Api!UpdateIndex(f.w, 1) /\ e.buf[f.w] = b
                              /\ \A i \in Api!Index \ {f.w} : e.buf[i] = f.buf[i]
    BY WriteOneIs
  <1>2. PICK w \in Api!Index : w = d.w
    BY UsedIs
  <1>3. e.w = Api!UpdateIndex(d.w, j + 1)
    BY <1>1, <1>2, NextPlace
  <1>4. ASSUME NEW p \in 0 .. ApiSize - 1, p # j
        PROVE  e.buf[Api!UpdateIndex(w, p)] = f.buf[Api!UpdateIndex(w, p)]
    <2>1. Api!UpdateIndex(w, p) # Api!UpdateIndex(w, j)
      BY <1>4, PlaceOnce
    <2>2. p \in 0 .. ApiSize
      BY ApiAssumption
    <2>3. Api!UpdateIndex(w, p) \in Api!Index
      BY <2>2, IndexWraps
    <2>4. QED
      BY <1>1, <1>2, <2>1, <2>3
  <1>5. ASSUME NEW p \in 0 .. (j + 1) - 1 PROVE e.buf[Api!UpdateIndex(w, p)] = s[p + 1]
    <2>1. CASE p = j
      BY <1>0, <1>1, <1>2, <2>1
    <2>2. CASE p # j
      <3>1. p \in 0 .. j - 1 /\ p \in 0 .. ApiSize - 1
        BY <2>2, ApiAssumption
      <3>2. f.buf[Api!UpdateIndex(w, p)] = s[p + 1]
        BY <1>2, <3>1 DEF Overwritten
      <3>3. QED
        BY <1>4, <2>2, <3>1, <3>2
    <2>3. QED
      BY <2>1, <2>2
  <1>6. ASSUME NEW p \in j + 1 .. ApiSize - 1
        PROVE  e.buf[Api!UpdateIndex(w, p)] = d.buf[Api!UpdateIndex(w, p)]
    <2>1. p \in j .. ApiSize - 1 /\ p \in 0 .. ApiSize - 1 /\ p # j
      BY ApiAssumption
    <2>2. f.buf[Api!UpdateIndex(w, p)] = d.buf[Api!UpdateIndex(w, p)]
      BY <1>2, <2>1 DEF Overwritten
    <2>3. QED
      BY <1>4, <2>1, <2>2
  <1>7. Overwritten(d, e, s, j + 1)
    BY <1>2, <1>5, <1>6 DEF Overwritten
  <1>8. QED
    BY <1>0, <1>1, <1>3, <1>7

-----------------------------------------------------------------------------
(* A set of numbers has its least. *)
LEMMA MinIsLeast ==
  ASSUME NEW D \in SUBSET Nat, D # {}
  PROVE  Api!Min(D) \in D /\ \A y \in D : Api!Min(D) <= y
  <1> DEFINE T == {0 .. x : x \in D}
  <1>1. T \subseteq FiniteSubsetsOf(Nat)
    <2>1. ASSUME NEW x \in D PROVE 0 .. x \subseteq Nat /\ IsFiniteSet(0 .. x)
      BY FS_Interval
    <2>2. QED
      BY <2>1 DEF FiniteSubsetsOf
  <1>2. IsWellFoundedOn(StrictSubsetOrdering(Nat), FiniteSubsetsOf(Nat))
    BY FS_StrictSubsetOrderingWellFounded
  <1>3. T # {}
    OBVIOUS
  <1>4. PICK m \in T : \A t \in T : <<t, m>> \notin StrictSubsetOrdering(Nat)
    <2> HIDE DEF T
    <2>1. QED
      BY <1>1, <1>2, <1>3, WFMin
  <1>5. PICK x \in D : m = 0 .. x
    BY <1>4
  <1>6. ASSUME NEW y \in D PROVE x <= y
    <2>1. SUFFICES ASSUME y < x PROVE FALSE
      OBVIOUS
    <2>2. 0 .. y \subseteq 0 .. x /\ x \in 0 .. x /\ x \notin 0 .. y
      BY <2>1
    <2>3. <<0 .. y, m>> \in StrictSubsetOrdering(Nat)
      BY <1>5, <2>2 DEF StrictSubsetOrdering
    <2>4. QED
      BY <1>4, <2>3
  <1>7. QED
    BY <1>5, <1>6 DEF Api!Min


LEMMA MaxOfLast ==
  ASSUME NEW b \in Nat, NEW D \in SUBSET (1 .. b), b \in D
  PROVE  Api!Max(D) = b
  <1>1. \A y \in D : b >= y
    OBVIOUS
  <1>2. \A x \in D : (\A y \in D : x >= y) => x = b
    OBVIOUS
  <1>3. QED
    BY <1>1, <1>2 DEF Api!Max

(* Api!RingBufWrite calls Api!RingBufWriteOne byte by byte: the function its fold  *)
(* chooses exists.                                                         *)
WritesTo(g, d, s, n) ==
  \A D \in SUBSET (1 .. n) :
    g[D] = IF D = {} THEN d ELSE Api!RingBufWriteOne(g[D \ {Api!Max(D)}], s[Api!Max(D)])

LEMMA WritesExist ==
  ASSUME NEW d, NEW s
  PROVE  \A n \in Nat : \E g : WritesTo(g, d, s, n)
  <1> DEFINE Odd == {n \in Nat : ~ \E g : WritesTo(g, d, s, n)}
  <1> SUFFICES ASSUME Odd # {} PROVE FALSE
    OBVIOUS
  <1>1. PICK n \in Odd : \A y \in Odd : n <= y
    <2>1. Odd \in SUBSET Nat
      OBVIOUS
    <2> HIDE DEF Odd
    <2>2. QED
      BY <2>1, MinIsLeast
  <1>2. n \in Nat /\ ~ \E g : WritesTo(g, d, s, n)
    BY <1>1
  <1>3. CASE n = 0
    <2>1. 1 .. n = {}
      BY <1>3
    <2>2. WritesTo([D \in {{}} |-> d], d, s, n)
      BY <2>1 DEF WritesTo
    <2>3. QED
      BY <1>2, <2>2
  <1>4. CASE n # 0
    <2>1. n - 1 \in Nat /\ n - 1 \notin Odd
      BY <1>1, <1>2, <1>4
    <2>2. PICK g : WritesTo(g, d, s, n - 1)
      BY <2>1
    <2> DEFINE h == [D \in SUBSET (1 .. n) |->
                       IF n \in D THEN Api!RingBufWriteOne(g[D \ {n}], s[n]) ELSE g[D]]
    <2>3. ASSUME NEW D \in SUBSET (1 .. n)
          PROVE  h[D] = IF D = {} THEN d ELSE Api!RingBufWriteOne(h[D \ {Api!Max(D)}], s[Api!Max(D)])
      <3>1. CASE n \in D
        <4>1. Api!Max(D) = n /\ D # {}
          BY <1>2, <3>1, MaxOfLast
        <4>2. h[D] = Api!RingBufWriteOne(g[D \ {n}], s[n]) /\ h[D \ {n}] = g[D \ {n}]
          BY <3>1
        <4> HIDE DEF h
        <4>3. QED
          BY <4>1, <4>2
      <3>2. CASE n \notin D
        <4>1. D \in SUBSET (1 .. n - 1)
          BY <1>2, <3>2
        <4>2. h[D] = g[D] /\ h[D \ {Api!Max(D)}] = g[D \ {Api!Max(D)}]
          BY <3>2
        <4> HIDE DEF h
        <4>3. QED
          BY <2>2, <4>1, <4>2 DEF WritesTo
      <3>3. QED
        BY <3>1, <3>2
    <2> HIDE DEF h
    <2>4. WritesTo(h, d, s, n)
      BY <2>3 DEF WritesTo
    <2>5. QED
      BY <1>2, <2>4
  <1>5. QED
    BY <1>3, <1>4

(* Api!RingBufWrite, one byte after the other. *)
LEMMA WriteRuns ==
  ASSUME NEW d, NEW s \in Seq(Byte)
  PROVE  \E c : /\ c[0] = d /\ Api!RingBufWrite(d, s) = c[Len(s)]
                /\ \A j \in 1 .. Len(s) : c[j] = Api!RingBufWriteOne(c[j - 1], s[j])
  <1> DEFINE v == CHOOSE g : g = [D \in SUBSET (DOMAIN s) |->
                    IF D = {} THEN d ELSE Api!RingBufWriteOne(g[D \ {Api!Max(D)}], s[Api!Max(D)])]
  <1>1. Api!RingBufWrite(d, s) = v[DOMAIN s]
    BY DEF Api!RingBufWrite, Api!FoldLeft, Api!MapThenFoldSet
  <1>2. PICK g : WritesTo(g, d, s, Len(s))
    <2>1. Len(s) \in Nat
      OBVIOUS
    <2>2. QED
      BY <2>1, WritesExist
  <1>3. DOMAIN s = 1 .. Len(s) /\ Len(s) \in Nat
    OBVIOUS
  <1> DEFINE w == [D \in SUBSET (DOMAIN s) |-> g[D]]
  <1>4. \A D \in SUBSET (DOMAIN s) :
          w[D] = IF D = {} THEN d ELSE Api!RingBufWriteOne(w[D \ {Api!Max(D)}], s[Api!Max(D)])
    <2> TAKE D \in SUBSET (DOMAIN s)
    <2>1. w[D] = g[D] /\ w[D \ {Api!Max(D)}] = g[D \ {Api!Max(D)}]
      OBVIOUS
    <2>2. D \in SUBSET (1 .. Len(s))
      BY <1>3
    <2> HIDE DEF w
    <2>3. QED
      BY <1>2, <2>1, <2>2 DEF WritesTo
  <1>5. w = [D \in SUBSET (DOMAIN s) |->
              IF D = {} THEN d ELSE Api!RingBufWriteOne(w[D \ {Api!Max(D)}], s[Api!Max(D)])]
    BY <1>4
  <1> HIDE DEF w
  <1>6. v = [D \in SUBSET (DOMAIN s) |->
              IF D = {} THEN d ELSE Api!RingBufWriteOne(v[D \ {Api!Max(D)}], s[Api!Max(D)])]
    BY <1>5
  <1> HIDE DEF v
  <1> DEFINE c == [j \in 0 .. Len(s) |-> v[1 .. j]]
  <1>7. c[0] = d
    <2>1. v[{}] = d
      BY <1>6
    <2>2. 1 .. 0 = {} /\ 0 \in 0 .. Len(s)
      BY <1>3
    <2>3. QED
      BY <2>1, <2>2
  <1>8. ASSUME NEW j \in 1 .. Len(s) PROVE c[j] = Api!RingBufWriteOne(c[j - 1], s[j])
    <2>1. Api!Max(1 .. j) = j
      BY <1>3, MaxOfLast
    <2>2. (1 .. j) \ {j} = 1 .. j - 1 /\ 1 .. j # {} /\ 1 .. j \in SUBSET (DOMAIN s)
      <3>1. j \in Nat /\ j # 0 /\ j <= Len(s)
        BY <1>3
      <3>2. (1 .. j) \ {j} = 1 .. j - 1
        BY <3>1
      <3>3. 1 .. j \subseteq 1 .. Len(s) /\ j \in 1 .. j
        BY <1>3, <3>1
      <3>4. QED
        BY <1>3, <3>2, <3>3
    <2>3. v[1 .. j] = Api!RingBufWriteOne(v[1 .. j - 1], s[j])
      BY <1>6, <2>1, <2>2
    <2>4. j \in 0 .. Len(s) /\ j - 1 \in 0 .. Len(s)
      BY <1>3
    <2>5. QED
      BY <2>3, <2>4
  <1>9. Api!RingBufWrite(d, s) = c[Len(s)]
    BY <1>1, <1>3 DEF c
  <1> HIDE DEF c
  <1>10. QED
    BY <1>7, <1>8, <1>9

(* What RingBufWrite leaves: the bytes of s from the write index on.       *)
LEMMA Writes ==
  ASSUME NEW d \in Api!Ring, NEW s \in Seq(Byte), Len(s) <= ApiSize
  PROVE  LET e == Api!RingBufWrite(d, s)
         IN  /\ e \in Api!Ring /\ e.r = d.r /\ e.w = Api!UpdateIndex(d.w, Len(s))
             /\ Overwritten(d, e, s, Len(s))
  <1>1. PICK c : /\ c[0] = d /\ Api!RingBufWrite(d, s) = c[Len(s)]
                 /\ \A j \in 1 .. Len(s) : c[j] = Api!RingBufWriteOne(c[j - 1], s[j])
    BY WriteRuns
  <1>2. PICK n \in Nat : n = Len(s)
    OBVIOUS
  <1> DEFINE Done(j) == /\ c[j] \in Api!Ring /\ c[j].r = d.r /\ c[j].w = Api!UpdateIndex(d.w, j)
                        /\ Overwritten(d, c[j], s, j)
             Odd == {j \in 0 .. n : ~Done(j)}
  <1>3. Done(0)
    <2>1. d.w \in 0 .. ApiSize - 1 /\ 0 \in 0 .. ApiSize
      BY UsedIs, ApiAssumption DEF Api!Index
    <2>2. Api!UpdateIndex(d.w, 0) = Api!Wrap(d.w + 0)
      BY <2>1, IndexWraps DEF Api!Index
    <2>3. Api!UpdateIndex(d.w, 0) = d.w
      BY <2>1, <2>2, ApiAssumption DEF Api!Wrap
    <2>4. 0 .. 0 - 1 = {}
      OBVIOUS
    <2>5. Overwritten(d, d, s, 0)
      BY <2>4 DEF Overwritten
    <2>6. QED
      BY <1>1, <2>3, <2>5
  <1>4. ASSUME NEW j \in 0 .. n - 1, Done(j) PROVE Done(j + 1)
    <2>1. j \in 0 .. ApiSize - 1 /\ j + 1 <= Len(s) /\ j + 1 \in 1 .. Len(s) /\ j + 1 - 1 = j
      BY <1>2, ApiAssumption
    <2>2. c[j + 1] = Api!RingBufWriteOne(c[j], s[j + 1])
      BY <1>1, <2>1
    <2>3. PICK f \in Api!Ring :
            /\ f = c[j] /\ f.r = d.r /\ f.w = Api!UpdateIndex(d.w, j)
            /\ Overwritten(d, f, s, j)
      BY <1>4
    <2> HIDE DEF Done
    <2>4. LET e == Api!RingBufWriteOne(f, s[j + 1])
          IN  /\ e \in Api!Ring /\ e.r = f.r /\ e.w = Api!UpdateIndex(d.w, j + 1)
              /\ Overwritten(d, e, s, j + 1)
      BY <2>1, <2>3, OneMore
    <2>5. QED
      BY <2>2, <2>3, <2>4 DEF Done
  <1>5. Odd = {}
    <2> SUFFICES ASSUME Odd # {} PROVE FALSE
      OBVIOUS
    <2>1. PICK j \in Odd : \A y \in Odd : j <= y
      <3>1. Odd \in SUBSET Nat
        OBVIOUS
      <3> HIDE DEF Odd
      <3>2. QED
        BY <3>1, MinIsLeast
    <2> HIDE DEF Done
    <2>2. j \in 0 .. n /\ ~Done(j)
      BY <2>1
    <2>3. j # 0
      BY <1>3, <2>2
    <2>4. j - 1 \in 0 .. n - 1 /\ j - 1 \in 0 .. n /\ (j - 1) + 1 = j /\ ~(j <= j - 1)
      BY <1>2, <2>2, <2>3
    <2>5. Done(j - 1)
      BY <2>1, <2>4
    <2>6. PICK i \in 0 .. n - 1 : i = j - 1 /\ i + 1 = j
      BY <2>4
    <2>7. QED
      BY <1>4, <2>2, <2>5, <2>6
  <1>6. Done(n)
    <2> HIDE DEF Done
    <2>1. QED
      BY <1>2, <1>5
  <1>7. QED
    BY <1>1, <1>2, <1>6

-----------------------------------------------------------------------------
(* The cells the caller of Api!RingBufAdvanceWrite has filled itself. *)
LEMMA Filled ==
  ASSUME rb \in Api!Ring, NEW s \in Seq(Byte), Len(s) <= ApiSize
  PROVE  LET f == Api!FillCells(s)
         IN  /\ f \in Api!Ring /\ f.r = rb.r /\ f.w = rb.w
             /\ Overwritten(rb, f, s, Len(s))
  <1>1. PICK r \in Api!Index, w \in Api!Index, g \in [Api!Index -> Byte] :
          rb = [buf |-> g, r |-> r, w |-> w] /\ r = rb.r /\ w = rb.w /\ g = rb.buf
    BY DEF Api!Ring
  <1>2. PICK n \in Nat : n = Len(s) /\ n <= ApiSize
    OBVIOUS
  <1> DEFINE Here(i, k) == Api!UpdateIndex(w, k - 1) = i
             h == [i \in Api!Index |-> IF \E k \in 1 .. n : Here(i, k)
                                   THEN s[CHOOSE k \in 1 .. n : Here(i, k)]
                                   ELSE g[i]]
  <1>3. Api!FillCells(s) = [buf |-> h, r |-> r, w |-> w]
    BY <1>1, <1>2, SMTT(30) DEF Api!FillCells
  <1>4. ASSUME NEW i \in Api!Index, NEW k \in 1 .. n, Here(i, k) PROVE h[i] = s[k]
    <2>1. PICK j \in 1 .. n : j = CHOOSE y \in 1 .. n : Here(i, y)
      BY <1>4
    <2>2. Here(i, j)
      BY <1>4, <2>1
    <2>3. k - 1 \in 0 .. ApiSize - 1 /\ j - 1 \in 0 .. ApiSize - 1
      BY <1>2, ApiAssumption
    <2>4. k - 1 = j - 1
      BY <1>4, <2>2, <2>3, PlaceOnce
    <2>5. h[i] = s[j]
      BY <1>4, <2>1
    <2> HIDE DEF h, Here
    <2>6. QED
      BY <2>4, <2>5
  <1>5. \A i \in Api!Index : (~ \E k \in 1 .. n : Here(i, k)) => h[i] = g[i]
    OBVIOUS
  <1>6. \A i \in Api!Index : h[i] \in Byte
    <2> SUFFICES ASSUME NEW i \in Api!Index PROVE h[i] \in Byte
      OBVIOUS
    <2>1. CASE \E k \in 1 .. n : Here(i, k)
      <3>1. PICK k \in 1 .. n : Here(i, k)
        BY <2>1
      <3>2. h[i] = s[k]
        BY <1>4, <3>1
      <3> HIDE DEF h, Here
      <3>3. QED
        BY <1>2, <3>2
    <2>2. CASE ~ \E k \in 1 .. n : Here(i, k)
      BY <1>1, <2>2
    <2>3. QED
      BY <2>1, <2>2
  <1>7. h \in [Api!Index -> Byte]
    BY <1>6
  <1>8. ASSUME NEW p \in 0 .. n - 1 PROVE h[Api!UpdateIndex(w, p)] = s[p + 1]
    <2>1. p \in 0 .. ApiSize /\ p + 1 \in 1 .. n /\ p + 1 - 1 = p
      BY <1>2, ApiAssumption
    <2>2. Api!UpdateIndex(w, p) \in Api!Index
      BY <2>1, IndexWraps
    <2>3. Here(Api!UpdateIndex(w, p), p + 1)
      BY <2>1
    <2> HIDE DEF h, Here
    <2>4. QED
      BY <1>4, <2>1, <2>2, <2>3
  <1>9. ASSUME NEW p \in n .. ApiSize - 1 PROVE h[Api!UpdateIndex(w, p)] = g[Api!UpdateIndex(w, p)]
    <2>1. p \in 0 .. ApiSize /\ p \in 0 .. ApiSize - 1
      BY <1>2, ApiAssumption
    <2>2. Api!UpdateIndex(w, p) \in Api!Index
      BY <2>1, IndexWraps
    <2>3. ASSUME NEW k \in 1 .. n, Here(Api!UpdateIndex(w, p), k) PROVE FALSE
      <3>1. k - 1 \in 0 .. ApiSize - 1 /\ k - 1 # p
        BY <1>2, ApiAssumption
      <3>2. QED
        BY <2>1, <2>3, <3>1, PlaceOnce
    <2> HIDE DEF h, Here
    <2>4. QED
      BY <1>5, <2>2, <2>3
  <1> HIDE DEF h, Here
  <1>10. PICK f : f = Api!FillCells(s)
    OBVIOUS
  <1>11. f \in Api!Ring /\ f.r = rb.r /\ f.w = rb.w /\ f.buf = h
    BY <1>1, <1>3, <1>7, <1>10 DEF Api!Ring
  <1>12. Overwritten(rb, f, s, Len(s))
    BY <1>1, <1>2, <1>8, <1>9, <1>11 DEF Overwritten
  <1>13. QED
    BY <1>10, <1>11, <1>12

(* What Api!RingBufAdvanceWrite makes of them. *)
LEMMA Advanced ==
  ASSUME NEW d \in Api!Ring, NEW n \in 0 .. ApiSize
  PROVE  LET e == Api!RingBufAdvanceWrite(d, n)
         IN  /\ e \in Api!Ring /\ e.buf = d.buf /\ e.w = Api!UpdateIndex(d.w, n)
             /\ Api!RingBufFree(d) < n => e.r = Api!UpdateIndex(e.w, 1)
             /\ ~(Api!RingBufFree(d) < n) => e.r = d.r
  <1>1. PICK r \in Api!Index, w \in Api!Index, g \in [Api!Index -> Byte] : d = [buf |-> g, r |-> r, w |-> w]
    BY DEF Api!Ring
  <1>2. PICK v \in Api!Index : v = Api!Wrap(w + n) /\ v = Api!UpdateIndex(w, n)
    BY IndexWraps
  <1>3. PICK q \in Api!Index : q = Api!Wrap(v + 1) /\ q = Api!UpdateIndex(v, 1)
    <2>1. 1 \in 0 .. ApiSize
      BY ApiAssumption
    <2>2. QED
      BY <2>1, IndexWraps
  <1>4. PICK x : x = Api!RingBufFree(d)
    OBVIOUS
  <1>5. d.r = r /\ d.w = w /\ d.buf = g
    BY <1>1
  <1>6. CASE x < n
    <2>1. Api!RingBufAdvanceWrite(d, n) = [d EXCEPT !.w = v, !.r = q]
      BY <1>2, <1>3, <1>4, <1>5, <1>6 DEF Api!RingBufAdvanceWrite
    <2>2. Api!RingBufAdvanceWrite(d, n) = [buf |-> g, r |-> q, w |-> v]
      BY <1>1, <2>1
    <2>3. QED
      BY <1>2, <1>3, <1>4, <1>5, <1>6, <2>2 DEF Api!Ring
  <1>7. CASE ~(x < n)
    <2>1. Api!RingBufAdvanceWrite(d, n) = [d EXCEPT !.w = v, !.r = r]
      BY <1>2, <1>3, <1>4, <1>5, <1>7 DEF Api!RingBufAdvanceWrite
    <2>2. Api!RingBufAdvanceWrite(d, n) = [buf |-> g, r |-> r, w |-> v]
      BY <1>1, <2>1
    <2>3. QED
      BY <1>2, <1>3, <1>4, <1>5, <1>7, <2>2 DEF Api!Ring
  <1>8. QED
    BY <1>6, <1>7

(* What a call takes copied are the oldest bytes. *)
LEMMA Taken ==
  ASSUME NEW d \in Api!Ring, NEW n \in Nat, n <= Api!RingBufUsed(d)
  PROVE  LET e == Api!RingBufRead(d, n)
         IN  /\ e \in Api!Ring
             /\ Api!Contents(e) = SubSeq(Api!Contents(d), n + 1, Api!RingBufUsed(d))
             /\ Api!BytesRead(d, n) = SubSeq(Api!Contents(d), 1, n)
  <1>1. PICK u \in 0 .. ApiSize - 1 : u = Api!RingBufUsed(d) /\ n <= u
    BY UsedIs
  <1>2. PICK r \in Api!Index, w \in Api!Index, g \in [Api!Index -> Byte] :
          d = [buf |-> g, r |-> r, w |-> w] /\ d.r = r /\ d.w = w /\ d.buf = g
    BY DEF Api!Ring
  <1>3. n \in 0 .. ApiSize /\ u \in 0 .. ApiSize - 1 /\ u \in Nat
    BY <1>1, ApiAssumption
  <1>4. PICK q \in Api!Index : q = Api!UpdateIndex(r, n) /\ q = Api!Wrap(r + n)
    BY <1>3, IndexWraps
  <1>5. PICK e \in Api!Ring : /\ e = Api!RingBufRead(d, n)
                              /\ e = [buf |-> g, r |-> q, w |-> w] /\ e.r = q /\ e.w = w /\ e.buf = g
    <2>1. Api!RingBufRead(d, n) = [d EXCEPT !.r = q]
      BY <1>2, <1>4 DEF Api!RingBufRead
    <2>2. Api!RingBufRead(d, n) = [buf |-> g, r |-> q, w |-> w]
      BY <1>2, <2>1
    <2>3. QED
      BY <2>2 DEF Api!Ring
  <1>6. Api!RingBufUsed(e) = u - n
    <2>1. u = Apart(w, r) /\ Api!RingBufUsed(e) = Apart(w, q)
      BY <1>1, <1>2, <1>5, UsedIs
    <2>2. w \in 0 .. ApiSize - 1 /\ r \in 0 .. ApiSize - 1
      BY DEF Api!Index
    <2>3. QED
      BY <1>1, <1>4, <2>1, <2>2, ApiAssumption DEF Api!Wrap, Apart
  <1>7. PICK m \in Nat : m = u - n /\ m <= u /\ n + m = u
    BY <1>1, <1>3
  <1>8. PICK c \in Seq(Byte) : /\ c = Api!Contents(d) /\ Len(c) = u
                               /\ \A k \in 1 .. u : c[k] = g[Api!UpdateIndex(r, k - 1)]
    <2>1. /\ Api!Contents(d) \in Seq(Byte) /\ Len(Api!Contents(d)) = Api!RingBufUsed(d)
          /\ \A k \in 1 .. Api!RingBufUsed(d) : Api!Contents(d)[k] = d.buf[Api!UpdateIndex(d.r, k - 1)]
      BY ContentsIs, Zenon
    <2>2. QED
      BY <1>1, <1>2, <2>1, Zenon
  <1>9. PICK b \in Seq(Byte) : /\ b = Api!Contents(e) /\ Len(b) = m
                               /\ \A k \in 1 .. m : b[k] = g[Api!UpdateIndex(q, k - 1)]
    <2>1. /\ Api!Contents(e) \in Seq(Byte) /\ Len(Api!Contents(e)) = Api!RingBufUsed(e)
          /\ \A k \in 1 .. Api!RingBufUsed(e) : Api!Contents(e)[k] = e.buf[Api!UpdateIndex(e.r, k - 1)]
      BY ContentsIs, Zenon
    <2>2. Api!RingBufUsed(e) = m
      BY <1>6, <1>7
    <2>3. QED
      BY <1>5, <2>1, <2>2, Zenon
  <1>10. ASSUME NEW k \in 1 .. m PROVE b[k] = c[n + k]
    <2>1. /\ k - 1 \in 0 .. ApiSize - 1 /\ n + k \in 1 .. u
          /\ n + (k - 1) = n + k - 1 /\ n + k - 1 \in 0 .. ApiSize - 1
      BY <1>3, <1>7, ApiAssumption
    <2>2. Api!UpdateIndex(Api!UpdateIndex(r, n), k - 1) = Api!UpdateIndex(r, Api!Wrap(n + (k - 1)))
      BY <1>3, <2>1, Moves
    <2>3. Api!Wrap(n + (k - 1)) = n + k - 1
      BY <2>1, ApiAssumption DEF Api!Wrap
    <2>4. b[k] = g[Api!UpdateIndex(r, n + k - 1)]
      BY <1>4, <1>9, <2>2, <2>1, <2>3, Zenon
    <2>5. c[n + k] = g[Api!UpdateIndex(r, n + k - 1)]
      BY <1>8, <2>1
    <2>6. QED
      BY <2>4, <2>5
  <1>11. PICK x \in Seq(Byte) : /\ x = SubSeq(c, n + 1, u) /\ Len(x) = m
                                /\ \A k \in 1 .. m : x[k] = c[n + k]
    <2>1. n <= u /\ u <= Len(c)
      BY <1>1, <1>8
    <2>2. /\ SubSeq(c, n + 1, u) \in Seq(Byte) /\ Len(SubSeq(c, n + 1, u)) = u - n
          /\ \A k \in 1 .. u - n : SubSeq(c, n + 1, u)[k] = c[n + k]
      BY <1>3, <2>1, Sliced
    <2>3. QED
      BY <1>7, <2>2, Zenon
  <1>12. b = x
    <2>1. Len(b) = Len(x) /\ \A k \in 1 .. Len(b) : b[k] = x[k]
      BY <1>9, <1>10, <1>11
    <2>2. QED
      BY <2>1, SameBytes
  <1>13. Api!BytesRead(d, n) = SubSeq(c, 1, n)
    <2>1. Api!BytesRead(d, n) = [k \in 1 .. n |-> g[Api!UpdateIndex(r, k - 1)]]
      BY <1>2 DEF Api!BytesRead
    <2>2. ASSUME NEW k \in 1 .. n PROVE g[Api!UpdateIndex(r, k - 1)] = c[k]
      BY <1>1, <1>3, <1>8
    <2>3. SubSeq(c, 1, n) = [k \in 1 .. n |-> c[k]]
      BY <1>1, <1>3, <1>8
    <2>4. QED
      BY <2>1, <2>2, <2>3, Zenon
  <1>14. QED
    BY <1>1, <1>5, <1>8, <1>9, <1>11, <1>12, <1>13, Zenon

(* The queries are right in every ring. *)
LEMMA QueriesRight ==
  ASSUME rb \in Api!Ring
  PROVE  Api!QueriesAgree
  <1>1. PICK r \in 0 .. ApiSize - 1, w \in 0 .. ApiSize - 1 : r = rb.r /\ w = rb.w
    BY DEF Api!Ring, Api!Index
  <1>2. Api!RingBufContigUsed(rb) = Api!MinOf(Api!RingBufUsed(rb), ApiSize - rb.r)
    BY <1>1, ApiAssumption DEF Api!RingBufContigUsed, Api!RingBufUsed, Api!MinOf
  <1>3. Api!RingBufContigFree(rb) = Api!MinOf(Api!RingBufFree(rb), ApiSize - rb.w)
    BY <1>1, ApiAssumption DEF Api!RingBufContigFree, Api!RingBufFree, Api!RingBufUsed, Api!MinOf
  <1>4. Api!RingBufFull(rb) <=> Api!RingBufFree(rb) = 0
    BY <1>1, ApiAssumption DEF Api!RingBufFull, Api!RingBufFree, Api!RingBufUsed
  <1>5. Api!RingBufEmpty(rb) <=> Api!RingBufUsed(rb) = 0
    BY <1>1, ApiAssumption DEF Api!RingBufEmpty, Api!RingBufUsed
  <1>6. QED
    BY <1>2, <1>3, <1>4, <1>5 DEF Api!QueriesAgree

-----------------------------------------------------------------------------
LEMMA ChunkIs ==
  ASSUME NEW s \in Api!Chunk
  PROVE  s \in Seq(Byte) /\ Len(s) \in 0 .. ApiSize /\ s \in Api!Queue!Chunks
  <1>1. PICK n \in 1 .. ApiSize : s \in [1 .. n -> Api!Payload]
    BY DEF Api!Chunk
  <1>2. n \in 0 .. ApiSize - 1 + 1 /\ n \in Nat /\ n \in 0 .. ApiSize
    BY ApiAssumption
  <1>3. s \in Api!Queue!Chunks
    BY <1>1, <1>2 DEF Api!Queue!Chunks
  <1>4. s \in Seq(Byte) /\ Len(s) = n
    BY <1>1, <1>2 DEF Api!Payload
  <1>5. QED
    BY <1>2, <1>3, <1>4

(* The newest of what fits are all of it. *)
LEMMA NewestAll ==
  ASSUME NEW t \in Seq(Byte), Len(t) <= ApiSize - 1
  PROVE  Api!Queue!Newest(t, ApiSize - 1) = t
  BY DEF Api!Queue!Newest

LEMMA NoneWait ==
  ASSUME NEW d \in Api!Ring, Api!RingBufUsed(d) = 0
  PROVE  Api!Contents(d) = << >>
  <1>1. Api!Contents(d) \in Seq(Byte) /\ Len(Api!Contents(d)) = 0
    BY ContentsIs
  <1>2. QED
    BY <1>1

LEMMA StartsEmpty ==
  ASSUME NEW d \in Api!Ring
  PROVE  Api!RingBufFlush(d) \in Api!Ring /\ Api!Contents(Api!RingBufFlush(d)) = << >>
  <1>1. 0 \in Api!Index
    BY ApiAssumption DEF Api!Index
  <1>2. PICK g \in [Api!Index -> Byte], r \in Api!Index, w \in Api!Index : d = [buf |-> g, r |-> r, w |-> w]
    BY DEF Api!Ring
  <1>3. PICK e \in Api!Ring : e = Api!RingBufFlush(d) /\ e.r = 0 /\ e.w = 0
    <2>1. Api!RingBufFlush(d) = [d EXCEPT !.r = 0, !.w = 0]
      BY DEF Api!RingBufFlush
    <2>2. Api!RingBufFlush(d) = [buf |-> g, r |-> 0, w |-> 0]
      BY <1>2, <2>1
    <2>3. QED
      BY <1>1, <2>2 DEF Api!Ring
  <1>4. Api!RingBufUsed(e) = 0
    BY <1>3 DEF Api!RingBufUsed
  <1>5. QED
    BY <1>3, <1>4, NoneWait

(* Each call is one of the queue's. *)
LEMMA InitCalls == Api!Init => rb \in Api!Ring /\ Api!Queue!QInit
  <1> SUFFICES ASSUME Api!Init PROVE rb \in Api!Ring /\ Api!Queue!QInit
    OBVIOUS
  <1>1. rb = [buf |-> [i \in Api!Index |-> NoByte], r |-> 0, w |-> 0] /\ copied = << >>
    BY DEF Api!Init, Api!RingBufInit
  <1>2. 0 \in Api!Index
    BY ApiAssumption DEF Api!Index
  <1>3. rb \in Api!Ring /\ rb.r = 0 /\ rb.w = 0
    BY <1>1, <1>2, ApiAssumption DEF Api!Ring
  <1>4. Api!RingBufUsed(rb) = 0
    BY <1>3 DEF Api!RingBufUsed
  <1>5. Api!Contents(rb) = << >>
    BY <1>3, <1>4, NoneWait
  <1>6. QED
    BY <1>1, <1>3, <1>5 DEF Api!Queue!QInit

LEMMA CallWrite ==
  ASSUME rb \in Api!Ring, NEW s \in Api!Chunk, Api!Write(s)
  PROVE  rb' \in Api!Ring /\ Api!Queue!Put(s)
  <1>1. s \in Seq(Byte) /\ Len(s) \in 0 .. ApiSize /\ Len(s) <= ApiSize
    BY ChunkIs, ApiAssumption
  <1>2. Len(s) <= Api!RingBufFree(rb) /\ rb' = Api!RingBufWrite(rb, s) /\ copied' = copied
    BY DEF Api!Write, Api!WriteContract
  <1>3. PICK e \in Api!Ring :
          /\ e = Api!RingBufWrite(rb, s) /\ e.r = rb.r /\ e.w = Api!UpdateIndex(rb.w, Len(s))
          /\ Overwritten(rb, e, s, Len(s))
    BY <1>1, Writes
  <1>4. Api!Contents(e) = Api!Contents(rb) \o s
    BY <1>1, <1>2, <1>3, AddedFits
  <1>5. Len(Api!Contents(rb)) = Api!RingBufUsed(rb) /\ Api!RingBufUsed(rb) \in 0 .. ApiSize - 1
    BY ContentsIs, UsedIs
  <1>6. Len(Api!Contents(rb)) + Len(s) <= ApiSize - 1
    BY <1>1, <1>2, <1>5, ApiAssumption DEF Api!RingBufFree
  <1>7. rb' = e
    BY <1>2, <1>3
  <1>8. Api!Contents(rb)' = Api!Contents(rb) \o s
    BY <1>4, <1>7
  <1>9. QED
    BY <1>2, <1>3, <1>6, <1>7, <1>8, Zenon DEF Api!Queue!Put

LEMMA CallAdvanceWrite ==
  ASSUME rb \in Api!Ring, NEW s \in Api!Chunk, Api!AdvanceWrite(s)
  PROVE  rb' \in Api!Ring /\ Api!Queue!PutDiscarding(s)
  <1>1. s \in Seq(Byte) /\ Len(s) \in 0 .. ApiSize /\ Len(s) <= ApiSize
    BY ChunkIs, ApiAssumption
  <1>2. rb' = Api!RingBufAdvanceWrite(Api!FillCells(s), Len(s)) /\ copied' = copied
    BY DEF Api!AdvanceWrite
  <1>3. PICK f \in Api!Ring :
          /\ f = Api!FillCells(s) /\ f.r = rb.r /\ f.w = rb.w
          /\ Overwritten(rb, f, s, Len(s))
    BY <1>1, Filled
  <1>4. Api!RingBufFree(f) = Api!RingBufFree(rb)
    BY <1>3 DEF Api!RingBufFree, Api!RingBufUsed
  <1>5. PICK e \in Api!Ring : /\ e = Api!RingBufAdvanceWrite(f, Len(s)) /\ e.buf = f.buf
                              /\ e.w = Api!UpdateIndex(f.w, Len(s))
                              /\ Api!RingBufFree(f) < Len(s) => e.r = Api!UpdateIndex(e.w, 1)
                              /\ ~(Api!RingBufFree(f) < Len(s)) => e.r = f.r
    BY <1>1, Advanced
  <1>6. Overwritten(rb, e, s, Len(s))
    BY <1>3, <1>5 DEF Overwritten
  <1>7. /\ Api!RingBufFree(rb) \in 0 .. ApiSize - 1 /\ Len(s) \in Nat
        /\ Len(Api!Contents(rb)) = ApiSize - 1 - Api!RingBufFree(rb)
    BY <1>1, ContentsIs, UsedIs, ApiAssumption DEF Api!RingBufFree
  <1>8. Api!Contents(e) = Api!Queue!Newest(Api!Contents(rb) \o s, ApiSize - 1)
    <2>1. CASE Api!RingBufFree(rb) < Len(s)
      <3>1. /\ Len(s) > Api!RingBufFree(rb) /\ e.r = Api!UpdateIndex(e.w, 1)
            /\ e.w = Api!UpdateIndex(rb.w, Len(s))
        BY <1>3, <1>4, <1>5, <1>7, <2>1
      <3>2. QED
        BY <1>1, <1>6, <3>1, AddedOver
    <2>2. CASE ~(Api!RingBufFree(rb) < Len(s))
      <3>1. Len(s) <= Api!RingBufFree(rb) /\ e.r = rb.r /\ e.w = Api!UpdateIndex(rb.w, Len(s))
        BY <1>3, <1>4, <1>5, <1>7, <2>2
      <3>2. Api!Contents(e) = Api!Contents(rb) \o s
        BY <1>1, <1>6, <3>1, AddedFits
      <3>3. PICK t \in Seq(Byte) : t = Api!Contents(rb) \o s /\ Len(t) = Len(Api!Contents(rb)) + Len(s)
        BY <1>1, ContentsIs, Joined
      <3>4. Len(t) <= ApiSize - 1
        BY <1>7, <3>1, <3>3, ApiAssumption
      <3>5. QED
        BY <3>2, <3>3, <3>4, NewestAll
    <2>3. QED
      BY <2>1, <2>2
  <1>9. rb' = e
    BY <1>2, <1>3, <1>5
  <1>10. QED
    BY <1>2, <1>8, <1>9 DEF Api!Queue!PutDiscarding

LEMMA CallRead ==
  ASSUME rb \in Api!Ring, NEW n \in 1 .. ApiSize, Api!Read(n)
  PROVE  rb' \in Api!Ring /\ Api!Queue!Get(n)
  <1>1. /\ n <= Api!RingBufUsed(rb) /\ n \in Nat
        /\ rb' = Api!RingBufRead(rb, n) /\ copied' = Api!BytesRead(rb, n)
    BY DEF Api!Read, Api!ReadContract
  <1>2. PICK e \in Api!Ring : /\ e = Api!RingBufRead(rb, n)
                              /\ Api!Contents(e) = SubSeq(Api!Contents(rb), n + 1, Api!RingBufUsed(rb))
                              /\ Api!BytesRead(rb, n) = SubSeq(Api!Contents(rb), 1, n)
    BY <1>1, Taken
  <1>3. Len(Api!Contents(rb)) = Api!RingBufUsed(rb)
    BY ContentsIs
  <1>4. rb' = e
    BY <1>1, <1>2
  <1>5. QED
    BY <1>1, <1>2, <1>3, <1>4, Zenon DEF Api!Queue!Get

LEMMA CallAdvanceRead ==
  ASSUME rb \in Api!Ring, NEW n \in 1 .. ApiSize, Api!AdvanceRead(n)
  PROVE  rb' \in Api!Ring /\ Api!Queue!Drop(n)
  <1>1. PICK u \in 0 .. ApiSize - 1 : u = Api!RingBufUsed(rb)
    BY UsedIs
  <1>2. PICK m \in Nat : m = (IF u < n THEN u ELSE n) /\ m <= u
    <2>1. CASE u < n
      BY <2>1
    <2>2. CASE ~(u < n)
      BY <2>2
    <2>3. QED
      BY <2>1, <2>2
  <1>3. rb' = Api!RingBufRead(rb, m) /\ copied' = copied
    BY <1>1, <1>2 DEF Api!AdvanceRead, Api!RingBufAdvanceRead, Api!RingBufRead
  <1>4. PICK e \in Api!Ring : /\ e = Api!RingBufRead(rb, m)
                              /\ Api!Contents(e) = SubSeq(Api!Contents(rb), m + 1, u)
    BY <1>1, <1>2, Taken
  <1>5. PICK c \in Seq(Byte) : c = Api!Contents(rb) /\ Len(c) = u
    BY <1>1, ContentsIs
  <1>6. Api!Contents(e) = IF n >= u THEN << >> ELSE SubSeq(c, n + 1, u)
    <2>1. CASE n >= u
      <3>1. m = u
        BY <1>2, <2>1
      <3>2. SubSeq(c, u + 1, u) = << >>
        OBVIOUS
      <3>3. QED
        BY <1>4, <1>5, <2>1, <3>1, <3>2
    <2>2. CASE ~(n >= u)
      <3>1. m = n
        BY <1>2, <2>2
      <3>2. QED
        BY <1>4, <1>5, <2>2, <3>1, Zenon
    <2>3. QED
      BY <2>1, <2>2
  <1>7. rb' = e
    BY <1>3, <1>4
  <1>8. QED
    BY <1>3, <1>5, <1>6, <1>7, Zenon DEF Api!Queue!Drop

LEMMA NextCalls ==
  ASSUME rb \in Api!Ring, [Api!Next]_Api!vars
  PROVE  rb' \in Api!Ring /\ [Api!Queue!QNext]_<<Api!Contents(rb), copied>>
  <1>1. ASSUME NEW s \in Api!Chunk, Api!Write(s) PROVE rb' \in Api!Ring /\ Api!Queue!QNext
    <2>1. s \in Api!Queue!Chunks
      BY ChunkIs
    <2>2. QED
      BY <1>1, <2>1, CallWrite DEF Api!Queue!QNext
  <1>2. ASSUME NEW s \in Api!Chunk, Api!AdvanceWrite(s) PROVE rb' \in Api!Ring /\ Api!Queue!QNext
    <2>1. s \in Api!Queue!Chunks
      BY ChunkIs
    <2>2. QED
      BY <1>2, <2>1, CallAdvanceWrite DEF Api!Queue!QNext
  <1>3. ASSUME NEW n \in 1 .. ApiSize, Api!Read(n) \/ Api!AdvanceRead(n)
        PROVE  rb' \in Api!Ring /\ Api!Queue!QNext
    <2>1. n \in 0 .. ApiSize - 1 + 1
      BY ApiAssumption
    <2>2. CASE Api!Read(n)
      BY <2>1, <2>2, CallRead DEF Api!Queue!QNext
    <2>3. CASE Api!AdvanceRead(n)
      BY <2>1, <2>3, CallAdvanceRead DEF Api!Queue!QNext
    <2>4. QED
      BY <1>3, <2>2, <2>3
  <1>4. CASE Api!Flush
    <2>1. PICK e \in Api!Ring : e = Api!RingBufFlush(rb) /\ Api!Contents(e) = << >>
      BY StartsEmpty
    <2>2. rb' = e /\ copied' = copied
      BY <1>4, <2>1 DEF Api!Flush
    <2>3. rb' \in Api!Ring /\ Api!Queue!Clear
      BY <2>1, <2>2 DEF Api!Queue!Clear
    <2>4. QED
      BY <2>3 DEF Api!Queue!QNext
  <1>5. CASE UNCHANGED Api!vars
    BY <1>5 DEF Api!vars, Api!Contents, Api!BytesRead, Api!RingBufUsed
  <1>6. QED
    BY <1>1, <1>2, <1>3, <1>4, <1>5 DEF Api!Next

(* The calls of one caller, within their contracts, are those of a bounded *)
(* first-in first-out queue, for every size: nothing is lost, duplicated   *)
(* or reordered by the wrap of an index, RingBufAdvanceWrite keeps the     *)
(* newest bytes, and the queries answer what may be copied (ringbuf.c      *)
(* 220-590).                                                               *)
THEOREM CallsAreFifo == Api!Spec => CallsAreQueue
  <1>1. Api!Init => rb \in Api!Ring /\ Api!Queue!QInit
    BY InitCalls
  <1>2. rb \in Api!Ring /\ [Api!Next]_Api!vars
          => (rb \in Api!Ring)' /\ [Api!Queue!QNext]_<<Api!Contents(rb), copied>>
    BY NextCalls
  <1>3. rb \in Api!Ring => Api!QueriesAgree
    BY QueriesRight
  <1>4. QED
    BY <1>1, <1>2, <1>3, PTL DEF Api!Spec, CallsAreQueue, Api!FIFO, Api!Queue!QSpec

(* What the modules run side by side prove of themselves holds of the      *)
(* composed run, of the threads as built and of the calls.                 *)
THEOREM PartsOfRing == MCSpec => Spec /\ Api!Spec
  <1>1. MCInit => Init /\ Api!Init
    BY DEF MCInit
  <1>2. [MCNext]_<<side, vars, contractVars, apiVars>> => [Next]_vars /\ [Api!Next]_Api!vars
    BY DEF MCNext, BuiltNext, ContractNext, ApiNext, apiVars, Api!vars
  <1>3. QED
    BY <1>1, <1>2, PTL DEF MCSpec, Spec, Api!Spec

-----------------------------------------------------------------------------
(***************************************************************************)
(* The ring shared by two threads.                                         *)
(***************************************************************************)

USE SizeAssumption, WordAssumption, BoundAssumption, ModeAssumption

(* The labels between the loads and stores of an index update. *)
Updating == {"access", "update", "load", "store", "while", "subload", "substore"}

(* Why an access stays in the buffer: the loop of UpdateIndexAtomic ends    *)
(* only on a small index, and between two updates only a flush stores to    *)
(* the index, which makes it smaller still.                                 *)
Settling(t) ==
  /\ pc[t] \in {"idle", "used", "access", "update", "load", "flush"} => idx[t] \in Index
  /\ pc[t] = "store" => tmp[t] \in Index
  /\ pc[t] \in Updating => todo[t] > 0

Settledness == \A t \in Threads : Settling(t)

Inv == TypeOK /\ Settledness

LEMMA MinusType == \A a, b \in Uint : Minus(a, b) \in Uint
  BY DEF Uint, Minus

LEMMA UsedType == \A w, r \in Uint : UsedOf(w, r) \in Uint
  BY DEF Uint, Minus, UsedOf

LEMMA InitInv == Init => Inv
  BY DEF Init, Inv, TypeOK, Settledness, Settling, Index, Uint, Labels, Updating, Threads

LEMMA NextInv == Inv /\ [Next]_vars => Inv'
  <1> SUFFICES ASSUME Inv, [Next]_vars PROVE Inv'
    OBVIOUS
  <1> USE DEF TypeOK, Settledness, Settling, Index, Uint, Labels, Updating, Threads, Goto
  <1>0. TypeOK /\ Settledness
    BY DEF Inv
  <1>1. ASSUME NEW n \in 1 .. MaxChunk, BeginWrite(n) PROVE Inv'
    <2>1. TypeOK'
      BY <1>0, <1>1, SMTT(30) DEF BeginWrite
    <2>2. Settledness'
      BY <1>0, <1>1 DEF BeginWrite
    <2>3. QED
      BY <2>1, <2>2 DEF Inv
  <1>2. CASE UsedLoadWrite
    <2>1. TypeOK'
      BY <1>0, <1>2 DEF UsedLoadWrite
    <2>2. Settledness'
      BY <1>0, <1>2 DEF UsedLoadWrite
    <2>3. QED
      BY <2>1, <2>2 DEF Inv
  <1>3. CASE UsedLoadRead
    <2> DEFINE n == UsedOf(tmp["reader"], idx["reader"])
    <2>1. n \in Nat
      BY <1>0, UsedType
    <2>2. /\ todo' = [todo EXCEPT !["reader"] = n]
          /\ pc' = [pc EXCEPT !["reader"] = IF n = 0 THEN "idle" ELSE "access"]
          /\ UNCHANGED <<buf, idx, tmp, got, written, out, flushes>>
          /\ pc["reader"] = "used"
      BY <1>3 DEF UsedLoadRead
    <2> HIDE DEF n
    <2>3. TypeOK'
      BY <1>0, <2>1, <2>2
    <2>4. Settledness'
      BY <1>0, <2>1, <2>2
    <2>5. QED
      BY <2>3, <2>4 DEF Inv
  <1>4. ASSUME NEW t \in Threads, Access(t) PROVE Inv'
    <2>1. pc[t] = "access" /\ idx[t] \in Index
      BY <1>0, <1>4 DEF Access
    <2>2. CASE t = "writer"
      <3>1. /\ buf' = [buf EXCEPT ![idx[t]] = written + 1]
            /\ written' = written + 1
            /\ got' = got
        BY <1>4, <2>2 DEF Access
      <3>2. buf' \in [Index -> Nat] /\ got' \in Nat /\ written' \in Nat
        BY <1>0, <2>1, <3>1
      <3>3. QED
        BY <1>0, <1>4, <3>2 DEF Access, Inv
    <2>3. CASE t = "reader"
      <3>1. buf' = buf /\ written' = written /\ got' = buf[idx[t]]
        BY <1>4, <2>3 DEF Access
      <3>2. buf' \in [Index -> Nat] /\ got' \in Nat /\ written' \in Nat
        BY <1>0, <2>1, <3>1
      <3>3. QED
        BY <1>0, <1>4, <3>2 DEF Access, Inv
    <2>4. QED
      BY <2>2, <2>3
  <1>5. ASSUME NEW t \in Threads, Update(t) PROVE Inv'
    <2>1. todo[t] \in Nat /\ todo[t] > 0
      BY <1>0, <1>5 DEF Update
    <2>2. /\ todo' = [todo EXCEPT ![t] = @ - 1]
          /\ pc' = [pc EXCEPT ![t] = IF todo[t] = 1 THEN "idle" ELSE "access"]
          /\ out' = IF t = "reader" THEN <<got>> ELSE out
      BY <1>5 DEF Update, FinishOne
    <2>3. todo' \in [Threads -> Nat]
      BY <1>0, <2>1, <2>2, SMTT(30)
    <2>4. out' \in Seq(Nat)
      BY <1>0, <2>2
    <2>5. todo[t] # 1 => todo'[t] > 0
      BY <1>0, <2>1, <2>2
    <2>6. idx[t] \in Index
      BY <1>0, <1>5 DEF Update
    <2>7. /\ idx' = [idx EXCEPT ![t] = IF @ + 1 = Size THEN 0 ELSE @ + 1]
          /\ UNCHANGED <<buf, tmp, got, written, flushes>>
      BY <1>5 DEF Update
    <2> DEFINE next == IF idx[t] + 1 = Size THEN 0 ELSE idx[t] + 1
    <2>8. idx' \in [Threads -> Uint] /\ idx'[t] \in Index
      <3>1. next \in Index /\ next \in Uint
        BY <2>6
      <3>2. idx' = [idx EXCEPT ![t] = next]
        BY <2>7
      <3> HIDE DEF next
      <3>3. QED
        BY <1>0, <3>1, <3>2
    <2>9. TypeOK'
      BY <1>0, <2>2, <2>3, <2>4, <2>7, <2>8
    <2>10. Settledness'
      <3>1. /\ pc'[t] \in {"idle", "access"}
            /\ pc'[t] = "access" => todo'[t] > 0
        BY <1>0, <2>2, <2>5
      <3>2. \A u \in Threads \ {t} :
              pc'[u] = pc[u] /\ idx'[u] = idx[u] /\ tmp'[u] = tmp[u] /\ todo'[u] = todo[u]
        BY <1>0, <2>2, <2>7
      <3>3. Settling(t)'
        BY <2>8, <3>1
      <3>4. \A u \in Threads \ {t} : Settling(u)'
        BY <1>0, <3>2
      <3>5. QED
        BY <3>3, <3>4
    <2>11. QED
      BY <2>9, <2>10 DEF Inv
  <1>6. ASSUME NEW t \in Threads, AddLoad(t) PROVE Inv'
    <2>1. TypeOK'
      BY <1>0, <1>6 DEF AddLoad
    <2>2. Settledness'
      BY <1>0, <1>6 DEF AddLoad
    <2>3. QED
      BY <2>1, <2>2 DEF Inv
  <1>7. ASSUME NEW t \in Threads, AddStore(t) PROVE Inv'
    <2>1. TypeOK'
      BY <1>0, <1>7, SMTT(30) DEF AddStore
    <2>2. Settledness'
      BY <1>0, <1>7 DEF AddStore
    <2>3. QED
      BY <2>1, <2>2 DEF Inv
  <1>8. ASSUME NEW t \in Threads, WhileTest(t) PROVE Inv'
    <2>1. CASE idx[t] >= Size
      <3>1. /\ pc' = [pc EXCEPT ![t] = "subload"]
            /\ pc[t] = "while"
            /\ UNCHANGED <<buf, idx, tmp, todo, got, written, out, flushes>>
        BY <1>0, <1>8, <2>1 DEF WhileTest
      <3>2. QED
        BY <1>0, <3>1 DEF Inv
    <2>2. CASE idx[t] < Size
      <3>1. WhileTest(t) /\ FinishOne(t) /\ idx[t] \in Index
        BY <1>0, <1>8, <2>2 DEF WhileTest
      <3>2. todo[t] \in Nat /\ todo[t] > 0
        BY <1>0, <3>1 DEF WhileTest
      <3>3. /\ todo' = [todo EXCEPT ![t] = @ - 1]
            /\ pc' = [pc EXCEPT ![t] = IF todo[t] = 1 THEN "idle" ELSE "access"]
            /\ out' = IF t = "reader" THEN <<got>> ELSE out
        BY <3>1 DEF WhileTest, FinishOne
      <3>4. todo' \in [Threads -> Nat]
        BY <1>0, <3>2, <3>3
      <3>5. out' \in Seq(Nat)
        BY <1>0, <3>3
      <3>6. todo[t] # 1 => todo'[t] > 0
        BY <1>0, <3>2, <3>3
      <3>7. UNCHANGED <<buf, idx, tmp, got, written, flushes>>
        BY <1>8 DEF WhileTest
      <3>8. TypeOK'
        BY <1>0, <3>3, <3>4, <3>5, <3>7
      <3>9. Settledness'
        BY <1>0, <3>1, <3>3, <3>4, <3>6, <3>7
      <3>10. QED
        BY <3>8, <3>9 DEF Inv
    <2>3. QED
      BY <1>0, <2>1, <2>2
  <1>9. ASSUME NEW t \in Threads, SubLoad(t) PROVE Inv'
    <2>1. TypeOK'
      BY <1>0, <1>9 DEF SubLoad
    <2>2. Settledness'
      BY <1>0, <1>9 DEF SubLoad
    <2>3. QED
      BY <2>1, <2>2 DEF Inv
  <1>10. ASSUME NEW t \in Threads, SubStore(t) PROVE Inv'
    <2>1. tmp[t] \in Uint /\ Size \in Uint
      BY <1>0
    <2> DEFINE d == Minus(tmp[t], Size)
    <2>2. d \in Uint
      BY <2>1, MinusType
    <2>3. /\ idx' = [idx EXCEPT ![t] = d]
          /\ pc' = [pc EXCEPT ![t] = "while"]
          /\ pc[t] = "substore"
          /\ UNCHANGED <<buf, tmp, todo, got, written, out, flushes>>
      BY <1>10 DEF SubStore
    <2> HIDE DEF d
    <2>4. TypeOK'
      BY <1>0, <2>2, <2>3
    <2>5. Settledness'
      BY <1>0, <2>2, <2>3
    <2>6. QED
      BY <2>4, <2>5 DEF Inv
  <1>11. ASSUME NEW t \in Threads, FlushWrite(t) PROVE Inv'
    <2>1. /\ idx' \in [Threads -> Uint]
          /\ \A u \in Threads : idx'[u] = idx[u] \/ idx'[u] = 0
          /\ UNCHANGED <<buf, tmp, todo, got, written, out>>
      BY <1>0, <1>11, SMTT(30) DEF FlushWrite
    <2>2. /\ pc' \in [Threads -> Labels]
          /\ \A u \in Threads : pc'[u] = pc[u] \/ (u = t /\ pc'[u] = "flush")
          /\ flushes' \in Nat
          /\ pc[t] = "idle"
      BY <1>0, <1>11 DEF FlushWrite
    <2>3. TypeOK'
      BY <1>0, <2>1, <2>2
    <2>4. Settledness'
      <3> SUFFICES ASSUME NEW u \in Threads PROVE Settling(u)'
        OBVIOUS
      <3>1. Settling(u) /\ Settling(t)
        BY <1>0
      <3>2. CASE u = t
        BY <2>1, <2>2, <3>1, <3>2
      <3>3. CASE u # t
        BY <2>1, <2>2, <3>1, <3>3
      <3>4. QED
        BY <3>2, <3>3
    <2>5. QED
      BY <2>3, <2>4 DEF Inv
  <1>12. ASSUME NEW t \in Threads, FlushRead(t) PROVE Inv'
    <2>1. TypeOK'
      BY <1>0, <1>12 DEF FlushRead
    <2>2. Settledness'
      BY <1>0, <1>12 DEF FlushRead
    <2>3. QED
      BY <2>1, <2>2 DEF Inv
  <1>13. CASE UNCHANGED vars
    <2>1. TypeOK'
      BY <1>0, <1>13 DEF vars
    <2>2. Settledness'
      BY <1>0, <1>13 DEF vars
    <2>3. QED
      BY <2>1, <2>2 DEF Inv
  <1>14. QED
    BY <1>1, <1>2, <1>3, <1>4, <1>5, <1>6, <1>7, <1>8, <1>9, <1>10, <1>11,
       <1>12, <1>13 DEF Next

(* In every build and for every size of buffer and word, the threads' ring  *)
(* accesses stay inside pui8Buf, although neither the threads nor the       *)
(* interrupted index updates exclude each other.                            *)
THEOREM MemorySafe == Spec => [](TypeOK /\ AccessInBounds)
  <1>1. Inv => TypeOK /\ AccessInBounds
    BY DEF Inv, Settledness, Settling, AccessInBounds
  <1>2. QED
    BY InitInv, NextInv, <1>1, PTL DEF Spec

-----------------------------------------------------------------------------
(***************************************************************************)
(* The queue two threads share when index updates are not interrupted,     *)
(* callers keep to the contract and nobody flushes.                        *)
(***************************************************************************)
Contracted == ~Interruptible /\ CallerChecks /\ Flushers = {}

Succ(i) == IF i + 1 = Size THEN 0 ELSE i + 1

LEMMA UsedRange == \A w, r \in Index : UsedOf(w, r) \in 0 .. Size - 1
  BY DEF Index, UsedOf, Minus

LEMMA FreeIsRest == \A w, r \in Index : FreeOf(w, r) = Size - 1 - UsedOf(w, r)
  BY DEF Index, UsedOf, FreeOf, Minus

LEMMA CellRange ==
  \A w, r \in Index : \A k \in 1 .. UsedOf(w, r) : Settled(r + k - 1) \in Index \ {w}
  BY DEF Index, UsedOf, Minus, Settled

LEMMA GrowUsed ==
  ASSUME NEW w \in Index, NEW r \in Index, UsedOf(w, r) < Size - 1
  PROVE  /\ UsedOf(Succ(w), r) = UsedOf(w, r) + 1
         /\ Settled(r + UsedOf(w, r)) = w
         /\ Succ(w) \in Index
  BY DEF Index, UsedOf, Minus, Settled, Succ

LEMMA ShrinkUsed ==
  ASSUME NEW w \in Index, NEW r \in Index, UsedOf(w, r) > 0
  PROVE  /\ UsedOf(w, Succ(r)) = UsedOf(w, r) - 1
         /\ \A k \in 1 .. UsedOf(w, r) - 1 : Settled(Succ(r) + k - 1) = Settled(r + k)
         /\ Settled(r) = r
         /\ Succ(r) \in Index
  BY DEF Index, UsedOf, Minus, Settled, Succ

WriterInv ==
  /\ pc["writer"] \in {"idle", "access", "update"}
  /\ pc["writer"] # "idle" => todo["writer"] \in 1 .. Size - 1 - Unread
  /\ pc["writer"] = "access" => written + todo["writer"] <= MaxBytes
  /\ pc["writer"] = "update" =>
       /\ written + todo["writer"] <= MaxBytes + 1
       /\ buf[idx["writer"]] \in 1 .. MaxBytes
  /\ written \in 0 .. MaxBytes

ReaderInv ==
  /\ pc["reader"] \in {"idle", "used", "access", "update"}
  /\ pc["reader"] = "used" =>
       tmp["reader"] \in Index /\ UsedOf(tmp["reader"], idx["reader"]) <= Unread
  /\ pc["reader"] \in {"access", "update"} => todo["reader"] \in 1 .. Unread
  /\ pc["reader"] = "update" => got = buf[idx["reader"]]

FifoInv ==
  /\ idx["writer"] \in Index /\ idx["reader"] \in Index
  /\ WriterInv
  /\ ReaderInv
  /\ \A k \in 1 .. Unread : buf[Cell(k)] \in 1 .. MaxBytes

(* The queue is a sequence; a write appends to it and a read takes its head. *)
LEMMA WaitingSeq ==
  ASSUME FifoInv
  PROVE  /\ Unread \in 0 .. Size - 1
         /\ Waiting \in Seq(1 .. MaxBytes)
         /\ Len(Waiting) = Unread
         /\ \A k \in 1 .. Unread : Waiting[k] = buf[Cell(k)]
  <1>1. Unread \in 0 .. Size - 1
    BY UsedRange DEF FifoInv, Unread
  <1>2. \A k \in 1 .. Unread : buf[Cell(k)] \in 1 .. MaxBytes
    BY DEF FifoInv
  <1>3. Waiting \in [1 .. Unread -> 1 .. MaxBytes]
    BY <1>2 DEF Waiting
  <1>4. QED
    BY <1>1, <1>3 DEF Waiting

LEMMA QuietStep ==
  ASSUME FifoInv, UNCHANGED idx, UNCHANGED out,
         \A k \in 1 .. Unread : buf'[Cell(k)] = buf[Cell(k)]
  PROVE  UNCHANGED <<Waiting, out>>
  BY DEF Waiting, Unread, Cell, Settled

LEMMA InitFifo == Init => FifoInv /\ Queue!QInit
  <1> SUFFICES ASSUME Init PROVE FifoInv /\ Queue!QInit
    OBVIOUS
  <1>1. idx["writer"] = 0 /\ idx["reader"] = 0
    BY DEF Init, Threads
  <1>2. Unread = 0
    BY <1>1 DEF Unread, UsedOf
  <1>3. FifoInv
    BY <1>1, <1>2 DEF Init, FifoInv, WriterInv, ReaderInv, Threads, Index
  <1>4. Waiting = << >>
    BY <1>2 DEF Waiting
  <1>5. QED
    BY <1>3, <1>4 DEF Init, Queue!QInit

LEMMA WriterUpdate ==
  ASSUME Inv, FifoInv, Update("writer")
  PROVE  FifoInv' /\ Queue!QNext
  <1> DEFINE w == idx["writer"]  r == idx["reader"]  b == buf[idx["writer"]]
  <1>1. /\ idx' = [idx EXCEPT !["writer"] = Succ(w)]
        /\ todo' = [todo EXCEPT !["writer"] = @ - 1]
        /\ pc' = [pc EXCEPT !["writer"] = IF todo["writer"] = 1 THEN "idle" ELSE "access"]
        /\ UNCHANGED <<buf, tmp, got, written, out>>
        /\ pc["writer"] = "update"
    BY DEF Inv, TypeOK, Threads, Update, FinishOne, Goto, Succ
  <1>2. /\ w \in Index /\ r \in Index
        /\ todo["writer"] \in 1 .. Size - 1 - Unread
        /\ b \in 1 .. MaxBytes
    BY <1>1 DEF FifoInv, WriterInv
  <1>3. Unread \in 0 .. Size - 1 /\ Unread < Size - 1
    BY <1>2, WaitingSeq
  <1>4. /\ Unread' = Unread + 1
        /\ Cell(Unread + 1) = w
        /\ idx'["writer"] \in Index
        /\ idx'["reader"] = r
    <2>1. UsedOf(w, r) < Size - 1 /\ Unread = UsedOf(w, r)
      BY <1>3 DEF Unread
    <2>2. idx'["writer"] = Succ(w) /\ idx'["reader"] = r
      BY <1>1 DEF Inv, TypeOK, Threads
    <2>3. Unread' = UsedOf(Succ(w), r)
      BY <2>2 DEF Unread
    <2>4. r + (Unread + 1) - 1 = r + Unread
      BY <1>2, <1>3 DEF Index
    <2>5. QED
      BY <1>2, <2>1, <2>2, <2>3, <2>4, GrowUsed DEF Cell
  <1>5. \A k \in 1 .. Unread + 1 : buf'[Cell(k)'] = IF k <= Unread THEN buf[Cell(k)] ELSE b
    BY <1>1, <1>3, <1>4 DEF Cell
  <1>6. FifoInv'
    <2>1. /\ pc'["writer"] = (IF todo["writer"] = 1 THEN "idle" ELSE "access")
          /\ pc'["reader"] = pc["reader"]
          /\ todo'["writer"] = todo["writer"] - 1
          /\ todo'["reader"] = todo["reader"]
      BY <1>1 DEF Inv, TypeOK, Threads
    <2>2. \A k \in 1 .. Unread' : buf'[Cell(k)'] \in 1 .. MaxBytes
      BY <1>2, <1>3, <1>4, <1>5 DEF FifoInv
    <2>3. WriterInv'
      BY <1>1, <1>2, <1>3, <1>4, <2>1 DEF FifoInv, WriterInv
    <2>4. ReaderInv'
      <3>1. pc["reader"] = "used" => UsedOf(tmp["reader"], r) \in Int
        BY <1>2, UsedRange DEF FifoInv, ReaderInv
      <3>2. QED
        BY <1>1, <1>2, <1>3, <1>4, <2>1, <3>1 DEF FifoInv, ReaderInv
    <2>5. QED
      BY <1>4, <1>2, <2>2, <2>3, <2>4 DEF FifoInv
  <1>7. Queue!Put(<<b>>)
    <2>1. /\ Waiting \in Seq(1 .. MaxBytes) /\ Len(Waiting) = Unread
          /\ \A k \in 1 .. Unread : Waiting[k] = buf[Cell(k)]
      BY WaitingSeq
    <2>2. Waiting' = [k \in 1 .. Unread + 1 |-> IF k <= Unread THEN buf[Cell(k)] ELSE b]
      BY <1>4, <1>5 DEF Waiting
    <2>3. Waiting' = Waiting \o <<b>>
      BY <1>2, <1>3, <2>1, <2>2
    <2>4. QED
      BY <1>1, <1>3, <2>1, <2>3 DEF Queue!Put
  <1>8. <<b>> \in Queue!Chunks
    BY <1>2 DEF Queue!Chunks
  <1>9. QED
    BY <1>6, <1>7, <1>8 DEF Queue!QNext

LEMMA ReaderUpdate ==
  ASSUME Inv, FifoInv, Update("reader")
  PROVE  FifoInv' /\ Queue!QNext
  <1> DEFINE w == idx["writer"]  r == idx["reader"]
  <1>1. /\ idx' = [idx EXCEPT !["reader"] = Succ(r)]
        /\ todo' = [todo EXCEPT !["reader"] = @ - 1]
        /\ pc' = [pc EXCEPT !["reader"] = IF todo["reader"] = 1 THEN "idle" ELSE "access"]
        /\ out' = <<got>>
        /\ UNCHANGED <<buf, tmp, got, written>>
        /\ pc["reader"] = "update"
    BY DEF Inv, TypeOK, Threads, Update, FinishOne, Goto, Succ
  <1>2. /\ w \in Index /\ r \in Index
        /\ todo["reader"] \in 1 .. Unread
        /\ got = buf[r]
    BY <1>1 DEF FifoInv, ReaderInv
  <1>3. Unread \in 1 .. Size - 1
    BY <1>2, WaitingSeq
  <1>4. /\ Unread' = Unread - 1
        /\ idx'["reader"] = Succ(r) /\ Succ(r) \in Index
        /\ idx'["writer"] = w
        /\ Settled(r) = r
        /\ \A k \in 1 .. Unread - 1 : Settled(Succ(r) + k - 1) = Settled(r + k)
    <2>1. UsedOf(w, r) > 0 /\ Unread = UsedOf(w, r)
      BY <1>3 DEF Unread
    <2>2. idx'["reader"] = Succ(r) /\ idx'["writer"] = w
      BY <1>1 DEF Inv, TypeOK, Threads
    <2>3. Unread' = UsedOf(w, Succ(r))
      BY <2>2 DEF Unread
    <2>4. QED
      BY <1>2, <2>1, <2>2, <2>3, ShrinkUsed
  <1>5. \A k \in 1 .. Unread - 1 : Cell(k)' = Cell(k + 1)
    BY <1>2, <1>3, <1>4 DEF Cell, Index
  <1>6. FifoInv'
    <2>1. /\ pc'["reader"] = (IF todo["reader"] = 1 THEN "idle" ELSE "access")
          /\ pc'["writer"] = pc["writer"]
          /\ todo'["reader"] = todo["reader"] - 1
          /\ todo'["writer"] = todo["writer"]
      BY <1>1 DEF Inv, TypeOK, Threads
    <2>2. \A k \in 1 .. Unread' : buf'[Cell(k)'] \in 1 .. MaxBytes
      BY <1>1, <1>3, <1>4, <1>5 DEF FifoInv
    <2>3. WriterInv'
      BY <1>1, <1>2, <1>3, <1>4, <2>1 DEF FifoInv, WriterInv
    <2>4. ReaderInv'
      BY <1>1, <1>2, <1>3, <1>4, <2>1 DEF FifoInv, ReaderInv
    <2>5. QED
      BY <1>2, <1>4, <2>2, <2>3, <2>4 DEF FifoInv
  <1>7. Queue!Get(1)
    <2>1. /\ Waiting \in Seq(1 .. MaxBytes) /\ Len(Waiting) = Unread
          /\ \A k \in 1 .. Unread : Waiting[k] = buf[Cell(k)]
      BY WaitingSeq
    <2>2. Waiting[1] = buf[r]
      BY <1>2, <1>3, <1>4, <2>1 DEF Cell, Index
    <2>3. SubSeq(Waiting, 1, 1) = <<got>>
      <3>1. 1 \in 1 .. Len(Waiting) /\ 1 \in 1 .. 1
        BY <1>3, <2>1
      <3>2. SubSeq(Waiting, 1, 1) = <<Waiting[1]>> \o SubSeq(Waiting, 1 + 1, 1)
        BY <2>1, <3>1, SubSeqRecursiveFirst
      <3>3. SubSeq(Waiting, 1 + 1, 1) = << >>
        BY SubSeqEmpty
      <3>4. <<Waiting[1]>> \in Seq({Waiting[1]})
        OBVIOUS
      <3>5. QED
        BY <1>2, <2>2, <3>2, <3>3, <3>4, ConcatEmptySeq
    <2>4. Waiting' = [k \in 1 .. Unread - 1 |-> buf[Cell(k + 1)]]
      BY <1>1, <1>4, <1>5 DEF Waiting
    <2>5. \A k \in 1 .. Unread - 1 : Waiting[k + 1] = buf[Cell(k + 1)] /\ Waiting[k + 1] \in 1 .. MaxBytes
      <3>1. \A k \in 1 .. Unread - 1 : k + 1 \in 1 .. Unread
        BY <1>3
      <3>2. QED
        BY <2>1, <3>1
    <2>6. /\ Waiting' \in Seq(1 .. MaxBytes)
          /\ Len(Waiting') = Unread - 1
          /\ \A k \in 1 .. Unread - 1 : Waiting'[k] = Waiting[k + 1]
      <3>1. Unread - 1 \in Nat
        BY <1>3
      <3>2. Waiting' \in [1 .. Unread - 1 -> 1 .. MaxBytes]
        BY <2>4, <2>5
      <3>3. QED
        BY <2>4, <2>5, <3>1, <3>2, SMTT(30)
    <2> DEFINE rest == SubSeq(Waiting, 1 + 1, Len(Waiting))
    <2>7. Waiting' = rest
      <3>1. \A i \in 2 .. Unread : Waiting[i] \in 1 .. MaxBytes
        BY <1>3, <2>1
      <3>2. /\ rest \in Seq(1 .. MaxBytes)
            /\ Len(rest) = IF 2 <= Unread THEN Unread - 2 + 1 ELSE 0
            /\ \A i \in 1 .. Unread - 2 + 1 : rest[i] = Waiting[2 + i - 1]
        BY <1>3, <2>1, <3>1, SubSeqProperties
      <3>3. Len(rest) = Unread - 1 /\ \A i \in 1 .. Unread - 1 : rest[i] = Waiting[i + 1]
        BY <1>3, <3>2
      <3> HIDE DEF rest
      <3>4. QED
        BY <2>6, <3>2, <3>3, SeqEqual
    <2>8. 1 <= Len(Waiting)
      BY <1>3, <2>1
    <2>9. out' = SubSeq(Waiting, 1, 1)
      BY <1>1, <2>3
    <2>10. QED
      BY <2>7, <2>8, <2>9, Zenon DEF Queue!Get
  <1>8. 1 \in 0 .. (Size - 1) + 1
    OBVIOUS
  <1>9. QED
    BY <1>6, <1>7, <1>8 DEF Queue!QNext

LEMMA WriterAccess ==
  ASSUME Inv, FifoInv, Access("writer"), Contracted
  PROVE  FifoInv' /\ UNCHANGED <<Waiting, out>>
  <1> DEFINE w == idx["writer"]  r == idx["reader"]
  <1>1. /\ pc["writer"] = "access"
        /\ buf' = [buf EXCEPT ![w] = written + 1]
        /\ written' = written + 1
        /\ pc' = [pc EXCEPT !["writer"] = "update"]
        /\ UNCHANGED <<idx, tmp, todo, got, out, flushes>>
    BY DEF Access, Goto, Contracted
  <1>2. /\ w \in Index /\ r \in Index
        /\ todo["writer"] \in 1 .. Size - 1 - Unread
        /\ written + todo["writer"] <= MaxBytes
        /\ written \in 0 .. MaxBytes
    BY <1>1 DEF FifoInv, WriterInv
  <1>3. Unread \in 0 .. Size - 1 /\ Unread' = Unread
    BY <1>1, WaitingSeq DEF Unread
  <1>4. \A k \in 1 .. Unread : Cell(k) \in Index \ {w}
    BY <1>2, CellRange DEF Unread, Cell
  <1>5. /\ buf'[w] = written + 1
        /\ \A i \in Index \ {w} : buf'[i] = buf[i]
    BY <1>1, <1>2 DEF Inv, TypeOK
  <1>6. \A k \in 1 .. Unread : buf'[Cell(k)] = buf[Cell(k)]
    BY <1>4, <1>5
  <1>7. pc["reader"] = "update" => r # w
    <2> SUFFICES ASSUME pc["reader"] = "update" PROVE r # w
      OBVIOUS
    <2>1. UsedOf(w, r) > 0
      BY <1>2, UsedRange DEF FifoInv, ReaderInv, Unread
    <2>2. QED
      BY <1>2, <2>1 DEF UsedOf, Index
  <1>8. pc'["writer"] = "update" /\ pc'["reader"] = pc["reader"]
    BY <1>1 DEF Inv, TypeOK, Threads
  <1>9. WriterInv'
    BY <1>1, <1>2, <1>3, <1>5, <1>8 DEF WriterInv
  <1>10. ReaderInv'
    BY <1>1, <1>2, <1>3, <1>5, <1>7, <1>8 DEF FifoInv, ReaderInv
  <1>11. \A k \in 1 .. Unread' : buf'[Cell(k)'] \in 1 .. MaxBytes
    BY <1>1, <1>3, <1>6 DEF FifoInv, Cell
  <1>12. QED
    BY <1>1, <1>2, <1>6, <1>9, <1>10, <1>11, QuietStep DEF FifoInv

LEMMA ReaderAccess ==
  ASSUME Inv, FifoInv, Access("reader"), Contracted
  PROVE  FifoInv' /\ UNCHANGED <<Waiting, out>>
  <1>1. /\ pc["reader"] = "access"
        /\ got' = buf[idx["reader"]]
        /\ pc' = [pc EXCEPT !["reader"] = "update"]
        /\ UNCHANGED <<buf, idx, tmp, todo, written, out>>
    BY DEF Access, Goto, Contracted
  <1>2. pc'["reader"] = "update" /\ pc'["writer"] = pc["writer"] /\ Unread' = Unread
    BY <1>1 DEF Inv, TypeOK, Threads, Unread
  <1>3. WriterInv'
    BY <1>1, <1>2 DEF FifoInv, WriterInv
  <1>4. ReaderInv'
    BY <1>1, <1>2 DEF FifoInv, ReaderInv
  <1>5. QED
    BY <1>1, <1>2, <1>3, <1>4, QuietStep DEF FifoInv, Cell

LEMMA FifoBeginWrite ==
  ASSUME Inv, FifoInv, Contracted, NEW n \in 1 .. MaxChunk, BeginWrite(n)
  PROVE  FifoInv' /\ UNCHANGED <<Waiting, out>>
  <1>1. /\ written + n <= MaxBytes
        /\ n <= FreeOf(idx["writer"], idx["reader"])
        /\ todo' = [todo EXCEPT !["writer"] = n]
        /\ pc' = [pc EXCEPT !["writer"] = "access"]
        /\ UNCHANGED <<buf, idx, tmp, got, written, out>>
    BY DEF BeginWrite, Goto, Contracted
  <1>2. /\ pc'["writer"] = "access" /\ pc'["reader"] = pc["reader"]
        /\ todo'["writer"] = n /\ todo'["reader"] = todo["reader"]
        /\ Unread' = Unread
    BY <1>1 DEF Inv, TypeOK, Threads, Unread
  <1>3. n \in 1 .. Size - 1 - Unread
    BY <1>1, FreeIsRest, UsedRange DEF FifoInv, Unread
  <1>4. WriterInv'
    BY <1>1, <1>2, <1>3 DEF FifoInv, WriterInv
  <1>5. ReaderInv'
    BY <1>1, <1>2 DEF FifoInv, ReaderInv
  <1>6. QED
    BY <1>1, <1>2, <1>4, <1>5, QuietStep DEF FifoInv, Cell

LEMMA FifoUsed ==
  ASSUME Inv, FifoInv, UsedLoadWrite \/ UsedLoadRead
  PROVE  FifoInv' /\ UNCHANGED <<Waiting, out>>
  <1> USE DEF Inv, TypeOK, Threads, Unread
  <1>1. CASE UsedLoadWrite
    <2>1. /\ tmp'["reader"] = idx["writer"]
          /\ pc'["reader"] = "used" /\ pc'["writer"] = pc["writer"]
          /\ UNCHANGED <<buf, idx, todo, got, written, out>>
      BY <1>1 DEF UsedLoadWrite, Goto
    <2>2. WriterInv' /\ ReaderInv'
      BY <2>1, UsedRange DEF FifoInv, WriterInv, ReaderInv
    <2>3. QED
      BY <2>1, <2>2, QuietStep DEF FifoInv, Cell
  <1>2. CASE UsedLoadRead
    <2> DEFINE n == UsedOf(tmp["reader"], idx["reader"])
    <2>1. n \in 0 .. Unread /\ Unread \in Nat
      BY <1>2, UsedRange, SMTT(30) DEF UsedLoadRead, FifoInv, ReaderInv, Index
    <2>2. /\ todo'["reader"] = n /\ todo'["writer"] = todo["writer"]
          /\ pc'["reader"] = (IF n = 0 THEN "idle" ELSE "access")
          /\ pc'["writer"] = pc["writer"]
          /\ UNCHANGED <<buf, idx, tmp, got, written, out>>
      BY <1>2 DEF UsedLoadRead, Goto
    <2> HIDE DEF n
    <2>3. WriterInv'
      BY <2>2 DEF FifoInv, WriterInv
    <2>4. ReaderInv'
      BY <2>1, <2>2 DEF FifoInv, ReaderInv
    <2>5. QED
      BY <2>2, <2>3, <2>4, QuietStep DEF FifoInv, Cell
  <1>3. QED
    BY <1>1, <1>2

LEMMA NextFifo ==
  ASSUME Contracted, Inv, FifoInv, [Next]_vars
  PROVE  FifoInv' /\ [Queue!QNext]_<<Waiting, out>>
  <1> DEFINE Goal == FifoInv' /\ [Queue!QNext]_<<Waiting, out>>
  <1>1. ASSUME NEW n \in 1 .. MaxChunk, BeginWrite(n) PROVE Goal
    BY <1>1, FifoBeginWrite
  <1>2. CASE UsedLoadWrite \/ UsedLoadRead
    BY <1>2, FifoUsed
  <1>3. ASSUME NEW t \in Threads, Access(t) PROVE Goal
    BY <1>3, WriterAccess, ReaderAccess DEF Threads
  <1>4. ASSUME NEW t \in Threads, Update(t) PROVE Goal
    BY <1>4, WriterUpdate, ReaderUpdate DEF Threads
  <1>5. ASSUME NEW t \in Threads,
               AddLoad(t) \/ AddStore(t) \/ WhileTest(t) \/ SubLoad(t) \/ SubStore(t)
                 \/ FlushRead(t)
        PROVE  FALSE
    BY <1>5 DEF FifoInv, WriterInv, ReaderInv, Threads, AddLoad, AddStore, WhileTest,
                SubLoad, SubStore, FlushRead
  <1>6. ASSUME NEW t \in Threads, FlushWrite(t) PROVE FALSE
    BY <1>6 DEF FlushWrite, Contracted
  <1>7. CASE UNCHANGED vars
    <2>1. UNCHANGED <<Waiting, out>>
      BY <1>7 DEF vars, Waiting, Unread, Cell
    <2>2. FifoInv'
      BY <1>7 DEF vars, FifoInv, WriterInv, ReaderInv, Unread, Cell
    <2>3. QED
      BY <2>1, <2>2
  <1>8. QED
    BY <1>1, <1>2, <1>3, <1>4, <1>5, <1>6, <1>7 DEF Next

(* For every size, chunk and interleaving: two threads that honour the      *)
(* contract and whose index updates are not interrupted (the comment of     *)
(* UpdateIndexAtomic) communicate through a bounded first-in first-out      *)
(* queue.  The run ring checks it too, and what the build does instead.     *)
THEOREM RingIsQueue == Contracted => (Spec => FIFO)
  <1>1. Contracted /\ Inv /\ FifoInv /\ [Next]_vars
           => FifoInv' /\ [Queue!QNext]_<<Waiting, out>>
    BY NextFifo
  <1>2. SUFFICES ASSUME Contracted PROVE Spec => FIFO
    OBVIOUS
  <1>3. Inv /\ FifoInv /\ [Next]_vars => FifoInv' /\ [Queue!QNext]_<<Waiting, out>>
    BY <1>1, <1>2
  <1>4. QED
    BY <1>3, InitInv, NextInv, InitFifo, PTL DEF Spec, FIFO, Queue!QSpec
=============================================================================
