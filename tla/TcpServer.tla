----------------------------- MODULE TcpServer -----------------------------
(***************************************************************************)
(* thread_tcpserver of socket/tcps.c: one thread that accepts clients into *)
(* a table of slots and sends what waits in ring 0 to them.  One round is  *)
(* select, accept, receive and send; main, the alarm handler and the peers *)
(* act between these phases.  The kernel's descriptors, the peers and the  *)
(* serial side (Ser2Net.tla has it in full) are the environment.           *)
(***************************************************************************)
EXTENDS Integers, FiniteSets, FiniteSetsExt

CONSTANTS Slots,          \* CONNECTION_MAX
          ClientMax,      \* SOCKET_CLIENT_MAX, also an index into the slots
          PackLen,        \* portParam.packlen
          MaxUsed,        \* bound: bytes waiting in ring 0
          MaxConnects     \* bound: connections peers open

Slot == 0 .. Slots - 1
Fds  == 1 .. Slots + 1    \* the kernel hands out the lowest free number
Free == 0                 \* client_fd[i] = -1

ASSUME SlotAssumption == Slots \in Nat \ {0} /\ ClientMax \in Slot
ASSUME BoundAssumption == {PackLen, MaxUsed, MaxConnects} \subseteq Nat /\ PackLen > 0

VARIABLES
  commbuffer,   \* portParam.commbuffer, read once: keep old bytes on accept
  pc,           \* "select", "accept", "recv" or "send"
  client_fd, client_num,
  socketSet,    \* the clients select() watches (the listener is always one)
  readset,      \* the clients whose recv() will return 0
  writeset,
  acceptable,   \* the listener is in readset
  status,       \* what log_socklk wrote last
  valid,        \* socket_tx.valid[0]
  used,         \* bytes waiting in ring 0
  timer,        \* the packet timer runs
  open,         \* descriptors of the process's clients
  eof,          \* those whose peer has closed
  keepalive,    \* those with SO_KEEPALIVE set
  pending,      \* connections waiting in the listen queue
  connects,     \* connections opened so far
  swallowed,    \* a wake-up was lost, and none came since
  slighted,     \* some client was writable and was not sent a chunk
  orphaned      \* a closed client was left in writeset

serialVars == <<used, timer>>
peerVars   == <<eof, connects>>
ghosts     == <<swallowed, slighted, orphaned>>
table      == <<client_fd, client_num, socketSet, status>>
vars == <<commbuffer, pc, table, readset, writeset, acceptable, valid, serialVars, open, peerVars,
          keepalive, pending, ghosts>>

Init ==
  /\ commbuffer \in BOOLEAN
  /\ pc = "select"
  /\ client_fd = [i \in Slot |-> Free] /\ client_num = 0
  /\ socketSet = {}
  /\ readset = {} /\ writeset = {} /\ acceptable = FALSE
  /\ status = "disconnect"
  /\ valid = FALSE /\ used = 0 /\ timer = FALSE
  /\ open = {} /\ eof = {} /\ keepalive = {} /\ pending = 0 /\ connects = 0
  /\ swallowed = FALSE /\ slighted = FALSE /\ orphaned = FALSE

Connected == {client_fd[i] : i \in Slot} \ {Free}

-----------------------------------------------------------------------------
(* The environment: bytes and alarms of the serial side, peers.            *)
Serial ==
  /\ \E n \in 1 .. MaxUsed - used : used' = used + n
  /\ timer' = TRUE
  /\ UNCHANGED <<commbuffer, pc, table, readset, writeset, acceptable, valid, open,
                 peerVars, keepalive, pending, ghosts>>

Alarm ==
  /\ timer
  /\ timer' = FALSE
  /\ valid' = (valid \/ used > 0)
  /\ swallowed' = (swallowed /\ used = 0)
  /\ UNCHANGED <<commbuffer, pc, table, readset, writeset, acceptable, used, open,
                 peerVars, keepalive, pending, slighted, orphaned>>

PeerConnects ==
  /\ connects < MaxConnects
  /\ connects' = connects + 1
  /\ pending' = pending + 1
  /\ UNCHANGED <<commbuffer, pc, table, readset, writeset, acceptable, valid,
                 serialVars, open, eof, keepalive, ghosts>>

PeerCloses ==
  /\ \E fd \in open \ eof : eof' = eof \cup {fd}
  /\ UNCHANGED <<commbuffer, pc, table, readset, writeset, acceptable, valid,
                 serialVars, open, connects, keepalive, pending, ghosts>>

-----------------------------------------------------------------------------
(* What select() is asked to watch for writing: it looks no further than   *)
(* the highest descriptor of the table (the listener's is lower).          *)
Armed == IF valid THEN socketSet ELSE writeset

Watched == {fd \in Armed : \E c \in Connected : fd <= c}

(* Bytes kept for a later client lose their wake-up while there is none. *)
Wakes == Watched # {} \/ (commbuffer /\ valid)

(* select(): a closed descriptor in writeset makes it fail, and then the   *)
(* sets stay as they are; a timeout and a success keep only what is ready. *)
(* Readable data is NetToSerial's: here it is like a timeout.              *)
SelectFails ==
  /\ pc = "select"
  /\ ~(Watched \subseteq open)
  /\ valid' = FALSE
  /\ writeset' = Armed
  /\ UNCHANGED <<commbuffer, pc, table, readset, acceptable, serialVars, open,
                 peerVars, keepalive, pending, ghosts>>

(* Mutant: the listener is looked at only if there is nothing to send. *)
SelectElseIf ==
  /\ pc = "select"
  /\ Watched \subseteq open
  /\ valid' = FALSE
  /\ readset' = socketSet \cap eof
  /\ \E writable \in SUBSET Watched :
       /\ writeset' = writable
       /\ swallowed' = (swallowed \/ (Wakes /\ writable = {}))
  /\ acceptable' = (pending > 0 /\ Connected = {})
  /\ pc' = IF acceptable' \/ readset' # {} \/ writeset' # {} THEN "accept" ELSE "select"
  /\ UNCHANGED <<commbuffer, table, serialVars, open, peerVars, keepalive, pending,
                 slighted, orphaned>>

Select ==
  /\ pc = "select"
  /\ Watched \subseteq open
  /\ valid' = FALSE
  /\ readset' = socketSet \cap eof
  /\ \E writable \in SUBSET Watched :
       /\ writeset' = writable
       /\ swallowed' = (swallowed \/ (Wakes /\ writable = {}))
  /\ acceptable' = (pending > 0)
  /\ pc' = IF acceptable' \/ readset' # {} \/ writeset' # {} THEN "accept" ELSE "select"
  /\ UNCHANGED <<commbuffer, table, serialVars, open, peerVars, keepalive, pending,
                 slighted, orphaned>>

(* The loop that clears socket_tx.valid reuses i, the slot's index: with   *)
(* it, the options go to slot SOCKET_CLIENT_MAX.                           *)
OptionSlot(i) == IF commbuffer THEN i ELSE ClientMax

Admit(fd) ==
  LET i == Min({k \in Slot : client_fd[k] = Free})
  IN  /\ client_fd' = [client_fd EXCEPT ![i] = fd]
      /\ client_num' = client_num + 1
      /\ socketSet' = socketSet \cup {fd}
      /\ open' = open \cup {fd}
      /\ status' = "connect"
      /\ valid' = (valid /\ commbuffer)
      /\ used' = IF commbuffer THEN used ELSE 0
      /\ keepalive' = keepalive \cup ({client_fd'[OptionSlot(i)]} \ {Free})

Accept ==
  /\ pc = "accept"
  /\ acceptable
  /\ acceptable' = FALSE
  /\ pending' = pending - 1
  /\ \/ /\ client_num < Slots
        /\ Admit(Min(Fds \ open))
        /\ pc' = "recv"
     \/ /\ client_num >= Slots          \* close(new_sockid)
        /\ pc' = "recv"
        /\ UNCHANGED <<table, open, valid, used, keepalive>>
     \/ /\ pc' = "select"               \* accept() fails: continue
        /\ UNCHANGED <<table, open, valid, used, keepalive>>
  /\ UNCHANGED <<commbuffer, readset, writeset, timer, peerVars, ghosts>>

NoAccept ==
  /\ pc = "accept"
  /\ ~acceptable
  /\ pc' = "recv"
  /\ UNCHANGED <<commbuffer, table, readset, writeset, acceptable, valid, serialVars,
                 open, peerVars, keepalive, pending, ghosts>>

(* Mutant: a closed client stays in socketSet. *)
RecvNoClear ==
  /\ pc = "recv"
  /\ pc' = "send"
  /\ LET gone == Connected \cap readset
     IN  /\ client_fd' = [i \in Slot |-> IF client_fd[i] \in gone THEN Free ELSE client_fd[i]]
         /\ client_num' = client_num - Cardinality(gone)
         /\ open' = open \ gone
         /\ eof' = eof \ gone
         /\ keepalive' = keepalive \ gone
         /\ status' = IF gone # {} /\ client_num' = 0 THEN "disconnect" ELSE status
  /\ readset' = {}
  /\ UNCHANGED <<commbuffer, socketSet, writeset, acceptable, valid, serialVars,
                 connects, pending, ghosts>>

(* recv() = 0 closes a client; the rest is NetToSerial's. *)
Recv ==
  /\ pc = "recv"
  /\ pc' = "send"
  /\ LET gone == Connected \cap readset
     IN  /\ client_fd' = [i \in Slot |-> IF client_fd[i] \in gone THEN Free ELSE client_fd[i]]
         /\ client_num' = client_num - Cardinality(gone)
         /\ socketSet' = socketSet \ gone
         /\ open' = open \ gone
         /\ eof' = eof \ gone
         /\ keepalive' = keepalive \ gone
         /\ status' = IF gone # {} /\ client_num' = 0 THEN "disconnect" ELSE status
         /\ orphaned' = (orphaned \/ writeset \cap gone # {})
         /\ swallowed' = (swallowed \/ (writeset # {} /\ writeset \subseteq gone))
  /\ readset' = {}
  /\ UNCHANGED <<commbuffer, writeset, acceptable, valid, serialVars, connects,
                 pending, slighted>>

(* The first writable slot decides; the chunk goes to it and every later   *)
(* slot.  More than a packet re-arms writeset at once.                     *)
Writable == {i \in Slot : client_fd[i] \in writeset}

(* Mutant: the loop has moved on before the first send. *)
RecipientsAfter(i) == {client_fd[k] : k \in i + 1 .. Slots - 1} \ {Free}

Recipients(i) == {client_fd[k] : k \in i .. Slots - 1} \ {Free}

(* Mutant: the rest of a long run of bytes is not re-armed. *)
SendNoRearm ==
  /\ pc = "send"
  /\ Writable # {}
  /\ pc' = "select"
  /\ writeset' = {}
  /\ used' = IF used > PackLen THEN used - PackLen ELSE 0
  /\ UNCHANGED <<commbuffer, table, readset, acceptable, valid, timer, open,
                 peerVars, keepalive, pending, ghosts>>

Send ==
  /\ pc = "send"
  /\ Writable # {}
  /\ pc' = "select"
  /\ writeset' = IF used > PackLen THEN socketSet ELSE {}
  /\ LET n == IF used > PackLen THEN PackLen ELSE used
     IN  \/ /\ used' = used - n
            /\ slighted' = (slighted \/ (n > 0 /\
                 ~(Connected \cap writeset \subseteq Recipients(Min(Writable)))))
            /\ UNCHANGED swallowed
         \/ /\ n > 0                    \* malloc fails
            /\ swallowed' = (swallowed \/ used <= PackLen)
            /\ UNCHANGED <<used, slighted>>
  /\ UNCHANGED <<commbuffer, table, readset, acceptable, valid, timer, open,
                 peerVars, keepalive, pending, orphaned>>

NoSend ==
  /\ pc = "send"
  /\ Writable = {}
  /\ pc' = "select"
  /\ UNCHANGED <<commbuffer, table, readset, writeset, acceptable, valid, serialVars,
                 open, peerVars, keepalive, pending, ghosts>>

Round == SelectFails \/ Select \/ Accept \/ NoAccept \/ Recv \/ Send \/ NoSend

Next == Round \/ Serial \/ Alarm \/ PeerConnects \/ PeerCloses

Spec == Init /\ [][Next]_vars

(* The thread and the alarm run; peers and the serial device owe nothing.  *)
FairSpec == Spec /\ WF_vars(Round) /\ WF_vars(Alarm)

-----------------------------------------------------------------------------
(* The types of the variables (macros.h, tcps.c). *)
TypeOK ==
  /\ commbuffer \in BOOLEAN
  /\ pc \in {"select", "accept", "recv", "send"}
  /\ client_fd \in [Slot -> Fds \cup {Free}]
  /\ client_num \in 0 .. Slots
  /\ socketSet \subseteq Fds /\ readset \subseteq Fds /\ writeset \subseteq Fds
  /\ open \subseteq Fds /\ eof \subseteq open /\ keepalive \subseteq open
  /\ status \in {"connect", "disconnect"}
  /\ {acceptable, valid, timer, swallowed, slighted, orphaned} \subseteq BOOLEAN
  /\ used \in 0 .. MaxUsed
  /\ pending \in 0 .. connects /\ connects \in 0 .. MaxConnects

(* The slot table, client_num, the set given to select(), the process's    *)
(* open descriptors and the status file stay in step: no client is in two  *)
(* slots, none is open and forgotten, and the port is reported connected   *)
(* iff it has a client (tcps.c 206-230, 244-259).                          *)
TableConsistent ==
  /\ socketSet = Connected
  /\ open = Connected
  /\ client_num = Cardinality(Connected)
  /\ \A i, k \in Slot : i # k /\ client_fd[i] = client_fd[k] => client_fd[i] = Free
  /\ status = "connect" <=> Connected # {}

(* A chunk taken out of the ring goes to every client that could take it   *)
(* (tcps.c 293-326): only a slot that was not writable can miss it.        *)
NoneSlighted == ~slighted

(* FD_CLR on close clears socketSet only (tcps.c 250): writeset may keep a *)
(* closed descriptor, and select() then fails until serial data arrive.    *)
(* It takes a client that closes while it is writable and alone in that.   *)
Deaf == pc = "select" /\ ~(Watched \subseteq open)

DeafOnlyIfOrphaned == Deaf => orphaned

(* Unless the server is deaf, a connection in the listen queue is taken    *)
(* out of it.                                                              *)
Served == pending > 0 ~> (pending = 0 \/ Deaf)

Idle == pc = "select" /\ Connected # {} /\ used > 0

Trigger == timer \/ valid \/ writeset # {}

(* Bytes never wait for a connected client without a trigger, unless       *)
(* select(), malloc() or the only writable client's leaving swallowed it.  *)
NoLostWakeup == Idle /\ ~swallowed => Trigger

(* "set keepalive = 1; tcp nodelay = 1" (tcps.c 224), on each client.      *)
KeepaliveSet == Connected \subseteq keepalive

=============================================================================
