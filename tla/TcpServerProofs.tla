-------------------------- MODULE TcpServerProofs --------------------------
(***************************************************************************)
(* Proofs about the TCP server (TcpServer), for any number of slots, any   *)
(* packet length and any bound on bytes and connections.                   *)
(***************************************************************************)
EXTENDS TcpServer, FiniteSetTheorems, TLAPS

USE SlotAssumption, BoundAssumption

-----------------------------------------------------------------------------
(* A set of naturals has a least element: of the intervals 0 .. x, x in    *)
(* the set, one has none of the others strictly inside.                    *)
LEMMA MinIsLeast ==
  ASSUME NEW S \in SUBSET Nat, S # {}
  PROVE  Min(S) \in S /\ \A y \in S : Min(S) <= y
  <1> DEFINE T == {0 .. x : x \in S}
  <1>1. T \subseteq FiniteSubsetsOf(Nat)
    <2>1. ASSUME NEW x \in S PROVE 0 .. x \subseteq Nat /\ IsFiniteSet(0 .. x)
      BY FS_Interval
    <2>2. QED
      BY <2>1 DEF FiniteSubsetsOf
  <1>2. IsWellFoundedOn(StrictSubsetOrdering(Nat), FiniteSubsetsOf(Nat))
    BY FS_StrictSubsetOrderingWellFounded
  <1>3. T # {}
    OBVIOUS
  <1>4. PICK m \in T : \A t \in T : <<t, m>> \notin StrictSubsetOrdering(Nat)
    <2> HIDE DEF T
    <2>1. QED
      BY <1>1, <1>2, <1>3, WFMin
  <1>5. PICK x \in S : m = 0 .. x
    BY <1>4
  <1>6. ASSUME NEW y \in S PROVE x <= y
    <2>1. SUFFICES ASSUME y < x PROVE FALSE
      OBVIOUS
    <2>2. 0 .. y \subseteq 0 .. x /\ x \in 0 .. x /\ x \notin 0 .. y
      BY <2>1
    <2>3. <<0 .. y, m>> \in StrictSubsetOrdering(Nat)
      BY <1>5, <2>2 DEF StrictSubsetOrdering
    <2>4. QED
      BY <1>4, <2>3
  <1>7. QED
    BY <1>5, <1>6 DEF Min

-----------------------------------------------------------------------------
Types ==
  /\ pc \in {"select", "accept", "recv", "send"}
  /\ client_fd \in [Slot -> Fds \cup {Free}] /\ client_num \in Int
  /\ {commbuffer, valid, timer, acceptable, swallowed, slighted, orphaned} \subseteq BOOLEAN
  /\ used \in Nat /\ pending \in Int
  /\ status \in {"connect", "disconnect"}

TableInv == Types /\ TableConsistent

LEMMA FdsFinite == IsFiniteSet(Fds) /\ Cardinality(Fds) = Slots + 1 /\ Free \notin Fds
  <1>1. 1 \in Int /\ Slots + 1 \in Int
    OBVIOUS
  <1>2. /\ IsFiniteSet(1 .. Slots + 1)
        /\ Cardinality(1 .. Slots + 1) = IF 1 > Slots + 1 THEN 0 ELSE (Slots + 1) - 1 + 1
    BY <1>1, FS_Interval, Zenon
  <1>3. (IF 1 > Slots + 1 THEN 0 ELSE (Slots + 1) - 1 + 1) = Slots + 1
    OBVIOUS
  <1>4. 0 \notin 1 .. Slots + 1
    OBVIOUS
  <1>5. QED
    BY <1>2, <1>3, <1>4 DEF Fds, Free

LEMMA ConnectedFinite ==
  Types => Connected \subseteq Fds /\ IsFiniteSet(Connected) /\ Cardinality(Connected) \in Nat
  <1> SUFFICES ASSUME Types PROVE Connected \subseteq Fds
    BY FdsFinite, FS_Subset, FS_CardinalityType
  <1>1. QED
    BY DEF Types, Connected

(* There is a free slot as long as client_num is less than their number. *)
LEMMA FreeSlot ==
  ASSUME TableInv, client_num < Slots
  PROVE  \E k \in Slot : client_fd[k] = Free
  <1> SUFFICES ASSUME \A k \in Slot : client_fd[k] # Free PROVE FALSE
    OBVIOUS
  <1>1. client_fd \in Injection(Slot, Connected)
    BY DEF TableInv, Types, TableConsistent, Connected, Injection, IsInjective
  <1>2. Cardinality(Slot) <= Cardinality(Connected)
    BY <1>1, ConnectedFinite, FS_Injection DEF TableInv
  <1>3. Cardinality(Slot) = Slots
    <2>1. Slots - 1 \in Int /\ ~(0 > Slots - 1) /\ (Slots - 1) - 0 + 1 = Slots
      OBVIOUS
    <2>2. QED
      BY <2>1, FS_Interval DEF Slot
  <1>4. Cardinality(Connected) = client_num /\ client_num \in Int
    BY DEF TableInv, TableConsistent, Types
  <1>5. QED
    BY <1>2, <1>3, <1>4

(* ... and a free number for the descriptor. *)
LEMMA FreeFd ==
  ASSUME TableInv, client_num < Slots
  PROVE  Fds \ open # {}
  <1> SUFFICES ASSUME Fds \subseteq open PROVE FALSE
    OBVIOUS
  <1>1. Cardinality(Fds) <= Cardinality(Connected)
    BY FdsFinite, ConnectedFinite, FS_Subset DEF TableInv, TableConsistent
  <1>2. Cardinality(Connected) = client_num /\ client_num \in Int
    BY DEF TableInv, TableConsistent, Types
  <1>3. QED
    BY <1>1, <1>2, FdsFinite

(* A client takes a free slot and a new descriptor. *)
LEMMA AdmitKeepsTable ==
  ASSUME TableInv, client_num < Slots, Admit(Min(Fds \ open))
  PROVE  TableConsistent' /\ client_fd' \in [Slot -> Fds \cup {Free}] /\ client_num' \in Int
  <1> DEFINE i == Min({k \in Slot : client_fd[k] = Free})
             fd == Min(Fds \ open)
  <1>1. i \in Slot /\ client_fd[i] = Free
    <2>1. {k \in Slot : client_fd[k] = Free} \in SUBSET Nat
      BY DEF Slot
    <2>2. QED
      BY <2>1, FreeSlot, MinIsLeast
  <1>2. fd \in Fds \ open
    <2>1. Fds \ open \in SUBSET Nat
      BY DEF Fds
    <2>2. QED
      BY <2>1, FreeFd, MinIsLeast
  <1>3. /\ client_fd' = [client_fd EXCEPT ![i] = fd] /\ client_num' = client_num + 1
        /\ socketSet' = socketSet \cup {fd} /\ open' = open \cup {fd} /\ status' = "connect"
    BY DEF Admit
  <1> HIDE DEF i, fd
  <1>4. client_fd' \in [Slot -> Fds \cup {Free}]
    BY <1>1, <1>2, <1>3 DEF TableInv, Types
  <1>5. \A k \in Slot : client_fd'[k] = IF k = i THEN fd ELSE client_fd[k]
    BY <1>1, <1>3 DEF TableInv, Types
  <1>6. fd # Free
    BY <1>2, FdsFinite
  <1>7. Connected' = Connected \cup {fd}
    BY <1>1, <1>5, <1>6 DEF Connected
  <1>8. fd \notin Connected
    BY <1>2 DEF TableInv, TableConsistent
  <1>9. Cardinality(Connected') = client_num + 1
    BY <1>7, <1>8, ConnectedFinite, FS_AddElement DEF TableInv, TableConsistent
  <1>10. \A j, k \in Slot : j # k /\ client_fd'[j] = client_fd'[k] => client_fd'[j] = Free
    <2>1. \A k \in Slot : client_fd[k] # Free => client_fd[k] \in Connected
      BY DEF Connected
    <2>2. QED
      BY <1>5, <1>6, <1>8, <2>1 DEF TableInv, TableConsistent
  <1>11. socketSet' = Connected' /\ open' = Connected'
    BY <1>3, <1>7 DEF TableInv, TableConsistent
  <1>12. QED
    BY <1>3, <1>4, <1>6, <1>7, <1>9, <1>10, <1>11 DEF TableInv, Types, TableConsistent

(* The clients that have closed leave every place at once. *)
LEMMA RecvKeepsTable ==
  ASSUME TableInv, Recv
  PROVE  TableConsistent' /\ client_fd' \in [Slot -> Fds \cup {Free}] /\ client_num' \in Int
  <1> DEFINE gone == Connected \cap readset
  <1>1. /\ client_fd' = [i \in Slot |-> IF client_fd[i] \in gone THEN Free ELSE client_fd[i]]
        /\ client_num' = client_num - Cardinality(gone)
        /\ socketSet' = socketSet \ gone /\ open' = open \ gone
        /\ status' = IF gone # {} /\ client_num' = 0 THEN "disconnect" ELSE status
    BY DEF Recv
  <1>2. gone \subseteq Connected
    OBVIOUS
  <1> HIDE DEF gone
  <1>3. client_fd' \in [Slot -> Fds \cup {Free}]
    BY <1>1 DEF TableInv, Types
  <1>4. Connected' = Connected \ gone
    BY <1>1, <1>2 DEF Connected
  <1>5. /\ IsFiniteSet(gone) /\ Cardinality(gone) \in Nat
        /\ Connected \cap gone = gone
    BY <1>2, ConnectedFinite, FS_Subset, FS_CardinalityType DEF TableInv
  <1>6. Cardinality(Connected') = client_num'
    BY <1>1, <1>4, <1>5, ConnectedFinite, FS_Difference DEF TableInv, TableConsistent
  <1>7. client_num' = 0 <=> Connected' = {}
    <2>1. IsFiniteSet(Connected')
      BY <1>4, ConnectedFinite, FS_Difference DEF TableInv
    <2>2. QED
      BY <1>6, <2>1, FS_EmptySet
  <1>8. status' = "connect" <=> Connected' # {}
    <2>1. CASE gone = {}
      BY <1>1, <1>4, <2>1 DEF TableInv, TableConsistent
    <2>2. CASE gone # {}
      BY <1>1, <1>2, <1>7, <2>2 DEF TableInv, TableConsistent
    <2>3. QED
      BY <2>1, <2>2
  <1>9. \A j, k \in Slot : j # k /\ client_fd'[j] = client_fd'[k] => client_fd'[j] = Free
    BY <1>1 DEF TableInv, TableConsistent
  <1>10. socketSet' = Connected' /\ open' = Connected'
    BY <1>1, <1>4 DEF TableInv, TableConsistent
  <1>11. QED
    BY <1>1, <1>3, <1>5, <1>6, <1>8, <1>9, <1>10 DEF TableInv, Types, TableConsistent

LEMMA StillTable ==
  TableInv /\ UNCHANGED <<table, open>>
    => TableConsistent' /\ client_fd' \in [Slot -> Fds \cup {Free}] /\ client_num' \in Int
  BY DEF TableInv, Types, TableConsistent, table, Connected

LEMMA StepTable == TableInv /\ [Next]_vars => TableInv'
  <1> SUFFICES ASSUME TableInv, [Next]_vars PROVE TableInv'
    OBVIOUS
  <1>1. TableConsistent' /\ client_fd' \in [Slot -> Fds \cup {Free}] /\ client_num' \in Int
    <2>1. CASE Accept
      BY <2>1, StillTable, AdmitKeepsTable DEF Accept
    <2>2. CASE Recv
      BY <2>2, RecvKeepsTable
    <2>3. QED
      BY <2>1, <2>2, StillTable
         DEF Next, Round, SelectFails, Select, NoAccept, Send, NoSend, Serial, Alarm,
             PeerConnects, PeerCloses, vars
  <1>2. pc' \in {"select", "accept", "recv", "send"}
    BY DEF TableInv, Types, Next, Round, SelectFails, Select, Accept, NoAccept, Recv, Send, NoSend,
           Serial, Alarm, PeerConnects, PeerCloses, vars
  <1>3. used' \in Nat
    BY DEF TableInv, Types, Next, Round, SelectFails, Select, Accept, Admit, NoAccept, Recv, Send, NoSend,
           Serial, Alarm, PeerConnects, PeerCloses, vars, serialVars
  <1>4. status' \in {"connect", "disconnect"}
    BY DEF TableInv, Types, Next, Round, SelectFails, Select, Accept, Admit, NoAccept, Recv, Send, NoSend,
           Serial, Alarm, PeerConnects, PeerCloses, vars, table
  <1>5. {commbuffer, valid, timer, acceptable} \subseteq BOOLEAN /\ pending \in Int
    BY DEF TableInv, Types
  <1>6. UNCHANGED commbuffer
    BY DEF Next, Round, SelectFails, Select, Accept, NoAccept, Recv, Send, NoSend,
           Serial, Alarm, PeerConnects, PeerCloses, vars
  <1>7. valid' \in BOOLEAN
    BY <1>5 DEF Next, Round, SelectFails, Select, Accept, Admit, NoAccept, Recv, Send, NoSend,
           Serial, Alarm, PeerConnects, PeerCloses, vars
  <1>8. timer' \in BOOLEAN
    BY <1>5 DEF Next, Round, SelectFails, Select, Accept, NoAccept, Recv, Send, NoSend,
           Serial, Alarm, PeerConnects, PeerCloses, vars, serialVars
  <1>9. acceptable' \in BOOLEAN
    <2>1. CASE Select
      <3>1. acceptable' = (pending > 0)
        BY <2>1 DEF Select
      <3>2. QED
        BY <1>5, <3>1
    <2>2. CASE acceptable' = FALSE \/ acceptable' = acceptable
      BY <1>5, <2>2
    <2>3. QED
      BY <2>1, <2>2 DEF Next, Round, SelectFails, Accept, NoAccept, Recv, Send, NoSend,
           Serial, Alarm, PeerConnects, PeerCloses, vars
  <1>12. pending' \in Int
    BY <1>5 DEF Next, Round, SelectFails, Select, Accept, NoAccept, Recv, Send, NoSend,
           Serial, Alarm, PeerConnects, PeerCloses, vars
  <1>10. {swallowed, slighted, orphaned}' \subseteq BOOLEAN
    BY DEF TableInv, Types, Next, Round, SelectFails, Select, Accept, Admit, NoAccept, Recv, Send, NoSend,
           Serial, Alarm, PeerConnects, PeerCloses, vars, ghosts
  <1>11. QED
    BY <1>1, <1>2, <1>3, <1>4, <1>5, <1>6, <1>7, <1>8, <1>9, <1>12, <1>10 DEF TableInv, Types

LEMMA InitTable == Init => TableInv
  <1> SUFFICES ASSUME Init PROVE TableInv
    OBVIOUS
  <1>1. Connected = {}
    BY DEF Init, Connected
  <1>2. Types
    <2>1. {commbuffer, valid, timer, acceptable, swallowed, slighted, orphaned} \subseteq BOOLEAN
      BY DEF Init
    <2>2. client_fd \in [Slot -> Fds \cup {Free}]
      BY DEF Init
    <2>3. QED
      BY <2>1, <2>2 DEF Init, Types
  <1>3. TableConsistent
    BY <1>1, FS_EmptySet DEF Init, TableConsistent
  <1>4. QED
    BY <1>2, <1>3 DEF TableInv

(* The slot table, client_num, the set given to select(), the process's    *)
(* open descriptors and the status file agree after every step             *)
(* (tcps.c 206-230, 244-259).                                              *)
THEOREM TableStays == Spec => []TableConsistent
  <1>1. TableInv => TableConsistent
    BY DEF TableInv
  <1>2. QED
    BY <1>1, InitTable, StepTable, PTL DEF Spec

-----------------------------------------------------------------------------
(* The clients from the first writable slot on include all writable ones.  *)
LEMMA AllRecipients ==
  ASSUME Types, Writable # {}
  PROVE  Connected \cap writeset \subseteq Recipients(Min(Writable))
  <1>1. Writable \in SUBSET Nat /\ Writable \subseteq Slot
    BY DEF Writable, Slot
  <1>2. Min(Writable) \in Slot /\ \A y \in Writable : Min(Writable) <= y
    BY <1>1, MinIsLeast
  <1>3. ASSUME NEW fd \in Connected \cap writeset PROVE fd \in Recipients(Min(Writable))
    <2>1. PICK k \in Slot : client_fd[k] = fd /\ fd # Free
      BY DEF Connected
    <2>2. k \in Writable
      BY <2>1 DEF Writable
    <2>3. k \in Min(Writable) .. Slots - 1
      BY <1>2, <2>2 DEF Slot
    <2>4. QED
      BY <2>1, <2>3 DEF Recipients
  <1>4. QED
    BY <1>3

(* A chunk that is taken out of the ring goes to every client that could   *)
(* take it, whichever slots they are in (tcps.c 293-326).                  *)
THEOREM NobodySlighted == Spec => []NoneSlighted
  <1>1. Init => TableInv /\ NoneSlighted
    BY InitTable DEF Init, NoneSlighted
  <1>2. TableInv /\ NoneSlighted /\ [Next]_vars => (TableInv /\ NoneSlighted)'
    <2> SUFFICES ASSUME TableInv, NoneSlighted, [Next]_vars PROVE NoneSlighted'
      BY StepTable
    <2>1. CASE Send
      <3>1. Connected \cap writeset \subseteq Recipients(Min(Writable))
        BY <2>1, AllRecipients DEF Send, TableInv
      <3>2. QED
        BY <2>1, <3>1 DEF Send, NoneSlighted
    <2>2. QED
      BY <2>1 DEF NoneSlighted, Next, Round, SelectFails, Select, Accept, NoAccept, Recv, NoSend,
                  Serial, Alarm, PeerConnects, PeerCloses, vars, ghosts
  <1>3. QED
    BY <1>1, <1>2, PTL DEF Spec

-----------------------------------------------------------------------------
(* What the steps do to the open descriptors, which the table lists.       *)
LEMMA OpenIsTable == TableInv => open = Connected /\ socketSet = open
  BY DEF TableInv, TableConsistent

LEMMA WatchedArmed == Watched \subseteq Armed /\ (TableInv /\ valid => Watched = open)
  <1>1. TableInv => Connected \subseteq Nat
    BY ConnectedFinite DEF TableInv, Fds
  <1>2. QED
    BY <1>1, OpenIsTable DEF Watched, Armed

OrphanInv == orphaned \/ writeset \subseteq open

LEMMA StepOrphanInv == TableInv /\ OrphanInv /\ [Next]_vars => OrphanInv'
  <1> SUFFICES ASSUME TableInv, OrphanInv, [Next]_vars PROVE OrphanInv'
    OBVIOUS
  <1>1. open = Connected /\ socketSet = open
    BY OpenIsTable
  <1>2. CASE SelectFails
    BY <1>1, <1>2 DEF SelectFails, Armed, OrphanInv, ghosts
  <1>3. CASE Select
    BY <1>1, <1>3, WatchedArmed DEF Select, Armed, OrphanInv
  <1>4. CASE Accept
    BY <1>4 DEF Accept, Admit, OrphanInv, ghosts
  <1>5. CASE Recv
    BY <1>5 DEF Recv, OrphanInv
  <1>6. CASE Send
    BY <1>1, <1>6 DEF Send, OrphanInv
  <1>7. QED
    BY <1>2, <1>3, <1>4, <1>5, <1>6
       DEF OrphanInv, Next, Round, NoAccept, NoSend, Serial, Alarm, PeerConnects, PeerCloses,
           vars, ghosts

(* select() fails on a closed descriptor only after a client closed while  *)
(* it was writable (tcps.c 250).                                           *)
THEOREM OnlyOrphansDeafen == Spec => []DeafOnlyIfOrphaned
  <1>1. Init => TableInv /\ OrphanInv
    BY InitTable DEF Init, OrphanInv
  <1>2. TableInv /\ OrphanInv /\ [Next]_vars => (TableInv /\ OrphanInv)'
    BY StepTable, StepOrphanInv
  <1>3. TableInv /\ OrphanInv => DeafOnlyIfOrphaned
    BY OpenIsTable, WatchedArmed DEF OrphanInv, DeafOnlyIfOrphaned, Deaf, Armed
  <1>4. QED
    BY <1>1, <1>2, <1>3, PTL DEF Spec

-----------------------------------------------------------------------------
(* Bytes are never left without a trigger, not even those kept for a later *)
(* client; what writeset holds are clients, unless a wake-up was swallowed *)
(* or will be repeated.                                                    *)
Triggered ==
  used > 0 /\ ~swallowed /\ (open # {} \/ commbuffer) => timer \/ valid \/ writeset # {}

WakeInv ==
  /\ Triggered
  /\ Free \notin writeset
  /\ pc \in {"accept", "recv"} => writeset \subseteq open
  /\ pc = "select" \/ (pc = "send" /\ Writable = {}) =>
       writeset \subseteq open \/ swallowed \/ valid

LEMMA StepWakeInv == TableInv /\ WakeInv /\ [Next]_vars => WakeInv'
  <1> SUFFICES ASSUME TableInv, WakeInv, [Next]_vars PROVE WakeInv'
    OBVIOUS
  <1>1. open = Connected /\ socketSet = open
    BY OpenIsTable
  <1>2. /\ used \in Nat /\ pc \in {"select", "accept", "recv", "send"}
        /\ {commbuffer, valid, timer, swallowed} \subseteq BOOLEAN
    BY DEF TableInv, Types
  <1>3. TableInv' /\ Free \notin open
    BY <1>1, StepTable, FdsFinite, ConnectedFinite DEF TableInv
  <1>4. CASE SelectFails
    <2>1. ~valid
      BY <1>4, WatchedArmed DEF SelectFails
    <2>2. writeset' = writeset
      BY <1>4, <2>1 DEF SelectFails, Armed
    <2>3. QED
      BY <1>4, <2>1, <2>2 DEF SelectFails, WakeInv, Triggered, serialVars, ghosts
  <1>5. CASE Select
    <2>1. writeset' \subseteq Watched /\ Watched \subseteq open /\ pc = "select"
          /\ UNCHANGED <<open, used, timer, commbuffer>>
      BY <1>5 DEF Select, serialVars
    <2>2. swallowed' = (swallowed \/ (Wakes /\ writeset' = {}))
      BY <1>5 DEF Select
    <2>3. Triggered'
      <3>1. SUFFICES ASSUME used > 0, ~swallowed', open # {} \/ commbuffer, writeset' = {}, ~timer
                     PROVE  FALSE
        BY <2>1 DEF Triggered
      <3>2. ~swallowed /\ ~Wakes
        BY <2>2, <3>1
      <3>3. Watched = {} /\ ~(commbuffer /\ valid)
        BY <3>2 DEF Wakes
      <3>4. CASE valid
        BY <3>1, <3>3, <3>4, WatchedArmed
      <3>5. CASE ~valid
        <4>1. writeset # {} /\ writeset \subseteq open
          BY <2>1, <3>1, <3>2, <3>5 DEF WakeInv, Triggered
        <4>2. Connected \subseteq Nat
          BY ConnectedFinite DEF TableInv, Fds
        <4>3. Watched = writeset
          <5>1. \A fd \in writeset : fd \in Connected /\ fd <= fd
            BY <1>1, <4>1, <4>2
          <5>2. QED
            BY <3>5, <5>1 DEF Watched, Armed
        <4>4. QED
          BY <3>3, <4>1, <4>3
      <3>6. QED
        BY <3>4, <3>5
    <2>4. pc' \in {"accept", "select"}
      BY <1>5 DEF Select
    <2>5. QED
      BY <1>3, <2>1, <2>3, <2>4 DEF WakeInv
  <1>6. CASE Accept
    <2>1. open \subseteq open' /\ pc = "accept" /\ pc' \in {"recv", "select"}
          /\ UNCHANGED <<writeset, timer, swallowed, commbuffer>>
      BY <1>6 DEF Accept, Admit, ghosts
    <2>2. \/ UNCHANGED <<valid, used, open>>
          \/ valid' = (valid /\ commbuffer) /\ used' = IF commbuffer THEN used ELSE 0
      BY <1>6 DEF Accept, Admit
    <2>3. Triggered'
      BY <1>2, <2>1, <2>2 DEF WakeInv, Triggered
    <2>4. QED
      BY <2>1, <2>3 DEF WakeInv
  <1>7. CASE NoAccept
    BY <1>7 DEF NoAccept, WakeInv, Triggered, serialVars, ghosts
  <1>8. CASE Recv
    <2> DEFINE gone == Connected \cap readset
    <2>1. /\ open' = open \ gone /\ pc = "recv" /\ pc' = "send"
          /\ swallowed' = (swallowed \/ (writeset # {} /\ writeset \subseteq gone))
          /\ UNCHANGED <<writeset, timer, valid, used, commbuffer>>
      BY <1>8 DEF Recv, serialVars
    <2>2. Triggered'
      BY <1>2, <2>1 DEF WakeInv, Triggered
    <2>3. ASSUME Writable' = {} PROVE writeset \subseteq gone
      <3>1. Connected' \cap writeset' = {}
        BY <2>3 DEF Writable, Connected
      <3>2. open' = Connected'
        BY <1>3 DEF TableInv, TableConsistent
      <3>3. QED
        BY <2>1, <3>1, <3>2 DEF WakeInv
    <2>4. QED
      BY <1>2, <2>1, <2>2, <2>3 DEF WakeInv
  <1>9. CASE Send
    <2>1. /\ pc' = "select" /\ writeset' = (IF used > PackLen THEN open ELSE {})
          /\ UNCHANGED <<open, timer, valid, commbuffer>>
      BY <1>1, <1>9 DEF Send
    <2>2. open # {}
      <3>1. PICK k \in Slot : client_fd[k] \in writeset
        BY <1>9 DEF Send, Writable
      <3>2. client_fd[k] # Free
        BY <3>1 DEF WakeInv
      <3>3. QED
        BY <1>1, <3>1, <3>2 DEF Connected
    <2>3. used > PackLen \/ used' = 0 \/ swallowed'
      <3>1. CASE used > PackLen
        BY <3>1
      <3>2. CASE ~(used > PackLen)
        <4>1. used <= PackLen /\ used - used = 0
          BY <1>2, <3>2
        <4>2. \/ used' = used - used
              \/ swallowed' = (swallowed \/ used <= PackLen)
          BY <1>9, <3>2 DEF Send
        <4>3. QED
          BY <1>2, <4>1, <4>2
      <3>3. QED
        BY <3>1, <3>2
    <2>4. QED
      BY <1>2, <1>3, <2>1, <2>2, <2>3 DEF WakeInv, Triggered
  <1>10. CASE NoSend
    BY <1>10 DEF NoSend, WakeInv, Triggered, serialVars, ghosts
  <1>11. CASE Serial
    BY <1>11 DEF Serial, WakeInv, Triggered, ghosts, table, Writable
  <1>12. CASE Alarm
    <2>1. UNCHANGED <<pc, writeset, open, used, commbuffer>> /\ Writable' = Writable
      BY <1>12 DEF Alarm, table, Writable
    <2>2. CASE used > 0
      BY <1>2, <1>12, <2>1, <2>2 DEF Alarm, WakeInv, Triggered
    <2>3. CASE ~(used > 0)
      <3>1. used = 0 /\ swallowed' = swallowed /\ valid' = valid
        BY <1>2, <1>12, <2>3 DEF Alarm
      <3>2. QED
        BY <1>12, <2>1, <3>1 DEF WakeInv, Triggered
    <2>4. QED
      BY <2>2, <2>3
  <1>13. CASE PeerConnects \/ PeerCloses \/ UNCHANGED vars
    BY <1>13 DEF PeerConnects, PeerCloses, vars, WakeInv, Triggered, serialVars, ghosts, table, Writable
  <1>14. QED
    BY <1>4, <1>5, <1>6, <1>7, <1>8, <1>9, <1>10, <1>11, <1>12, <1>13 DEF Next, Round

(* Bytes never wait for a connected client without a trigger that will     *)
(* send them, unless select(), malloc() or the leaving of the only         *)
(* writable client swallowed it (tcps.c 244-335).                          *)
THEOREM WakeupKept == Spec => []NoLostWakeup
  <1>1. Init => TableInv /\ WakeInv
    BY InitTable DEF Init, WakeInv, Triggered
  <1>2. TableInv /\ WakeInv /\ [Next]_vars => (TableInv /\ WakeInv)'
    BY StepTable, StepWakeInv
  <1>3. TableInv /\ WakeInv => NoLostWakeup
    BY OpenIsTable DEF WakeInv, Triggered, NoLostWakeup, Idle, Trigger
  <1>4. QED
    BY <1>1, <1>2, <1>3, PTL DEF Spec
=============================================================================
