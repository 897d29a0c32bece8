------------------------------- MODULE Logins -------------------------------
(***************************************************************************)
(* What the socket threads send of their own: login packets when they      *)
(* connect or before the data (tcpc.c 156-241, udp.c 140-176, utils.c      *)
(* 355-475), and heartbeats (tcpc.c 112-154, udp.c 96-137); and where they *)
(* send it and the serial data, since a UDP thread keeps the address of    *)
(* whoever sent it the latest datagram.  Heartbeats are enabled and go to  *)
(* the network; those to the serial line are in NetToSerial.tla.           *)
(***************************************************************************)
EXTENDS Integers, Sequences

CONSTANTS Configs,      \* tuples <<workmode, workmodeb, loginen, loginwhen>>
          HeartTime,    \* portParam.hearttime
          CloudLen      \* bytes of the cloud login, 50 (utils.c 464)

(* The period and the length are positive. *)
LoginsAssumption == HeartTime \in Nat \ {0} /\ CloudLen \in Nat \ {0}

VARIABLES
  config,         \* portParam
  at,             \* where each thread is
  n,              \* bytes each thread has encrypted
  cloud_data,     \* the cloud login, one buffer
  absorbed,       \* what the one cipher state was fed since DecryptInit
  overlap,        \* the other thread was in Usr_Get_Cloud_Reg meanwhile
  udp_src_ip,     \* UDP: who sent the latest datagram
  spoke,          \* a stranger has sent one
  at_flag,        \* the AT mode
  sec_cnt,        \* modulo hearttime, which is all it is used for
  since,          \* seconds since a heartbeat, a connection, or data that restart sec_cnt
  skipped,        \* the latest heartbeat due was left out for the AT mode
  opened,         \* a login packet was sent on this connection
  last            \* the latest packet each thread sent

vars == <<config, at, n, cloud_data, absorbed, overlap, udp_src_ip, spoke, at_flag,
          sec_cnt, since, skipped, opened, last>>
cloudVars == <<n, cloud_data, absorbed, overlap>>
peerVars  == <<udp_src_ip, spoke>>
heartVars == <<sec_cnt, since, skipped>>

A == "socketa"
B == "socketb"
BothThreads == {A, B}
Other(t) == CHOOSE u \in BothThreads : u # t

Mode(t)   == IF t = A THEN config[1] ELSE config[2]
loginen   == config[3]
Udp(t)    == Mode(t) \in {"udpc", "udps"}
Client(t) == Mode(t) \in {"udpc", "tcpc"}

(* thissocket_init: only these two kinds of login look at loginwhen.       *)
When(kinds) == loginen \in {"usr", "mac"} /\ config[4] \in kinds
Leads(t)    == Client(t) /\ When({"every", "all"})
Opens(t)    == Client(t) /\ When({"first", "all"})
Cloud(t)    == Mode(t) = "tcpc" /\ loginen = "cloud"

Nothing == [kind |-> "none", to |-> "remote", login |-> "none", whole |-> TRUE]
Packet(kind, to, login) == [kind |-> kind, to |-> to, login |-> login, whole |-> TRUE]

Send(t, packet) == last' = [last EXCEPT ![t] = packet]

(* The cipher: a byte is encrypted under what was absorbed before it.      *)
Plain(i)  == <<i, <<>>>>
Encrypted(packet) ==
  \A i \in 1 .. CloudLen : packet[i] = <<i, [j \in 1 .. i - 1 |-> Plain(j)]>>

Init ==
  /\ config \in Configs
  /\ at = [t \in BothThreads |-> IF Mode(t) = "none" THEN "off" ELSE "down"]
  /\ n = [t \in BothThreads |-> 0]
  /\ cloud_data = [i \in 1 .. CloudLen |-> <<0, <<>>>>] /\ absorbed = <<>>
  /\ overlap = [t \in BothThreads |-> FALSE]
  /\ udp_src_ip = [t \in BothThreads |-> "remote"] /\ spoke = [t \in BothThreads |-> FALSE]
  /\ at_flag = FALSE
  /\ sec_cnt = [t \in BothThreads |-> 0] /\ since = [t \in BothThreads |-> 0]
  /\ skipped = [t \in BothThreads |-> FALSE]
  /\ opened = [t \in BothThreads |-> FALSE]
  /\ last = [t \in BothThreads |-> Nothing]

Goto(t, place) == at' = [at EXCEPT ![t] = place]

-----------------------------------------------------------------------------
(* Connected, or bound: log in.  A UDP socket is bound once.  The seconds  *)
(* go on from the connection before.                                       *)
Connect(t) ==
  /\ at[t] = "down"
  /\ Goto(t, IF Cloud(t) THEN "fill" ELSE "up")
  /\ udp_src_ip' = [udp_src_ip EXCEPT ![t] = "remote"]
  /\ since' = [since EXCEPT ![t] = 0]
  /\ skipped' = [skipped EXCEPT ![t] = FALSE]
  /\ overlap' = [overlap EXCEPT ![t] = FALSE]
  /\ opened' = [opened EXCEPT ![t] = Opens(t)]
  /\ Send(t, IF Opens(t) THEN Packet("login", "remote", loginen) ELSE Nothing)
  /\ UNCHANGED <<config, n, cloud_data, absorbed, spoke, at_flag, sec_cnt>>

Lose(t) ==
  /\ at[t] = "up" /\ Mode(t) = "tcpc"
  /\ Goto(t, "down")
  /\ UNCHANGED <<config, cloudVars, peerVars, at_flag, heartVars, opened, last>>

-----------------------------------------------------------------------------
(* Usr_Get_Cloud_Reg, whose buffer, key and cipher state are global: the   *)
(* text, the key, byte after byte, and out.                                *)
Registering(t) == at[t] \in {"key", "encrypt", "send"}

CloudFill(t) ==
  /\ at[t] = "fill"
  /\ Goto(t, "key")
  /\ cloud_data' = [i \in 1 .. CloudLen |-> Plain(i)]
  /\ overlap' = [u \in BothThreads |-> IF u = t THEN Registering(Other(t))
                                  ELSE overlap[u] \/ Registering(u)]
  /\ n' = [n EXCEPT ![t] = 0]
  /\ UNCHANGED <<config, absorbed, peerVars, at_flag, heartVars, opened, last>>

(* Mutant: the cipher state is not set back. *)
DecryptInitOnce(t) ==
  /\ at[t] = "key"
  /\ Goto(t, "encrypt")
  /\ UNCHANGED <<config, n, cloud_data, absorbed, overlap, peerVars, at_flag, heartVars, opened, last>>

DecryptInit(t) ==
  /\ at[t] = "key"
  /\ Goto(t, "encrypt")
  /\ absorbed' = <<>>
  /\ UNCHANGED <<config, n, cloud_data, overlap, peerVars, at_flag, heartVars, opened, last>>

EncryptByte(t) ==
  /\ at[t] = "encrypt"
  /\ n' = [n EXCEPT ![t] = @ + 1]
  /\ cloud_data' = [cloud_data EXCEPT ![n'[t]] = <<@[1], absorbed>>]
  /\ absorbed' = Append(absorbed, cloud_data[n'[t]])
  /\ Goto(t, IF n'[t] = CloudLen THEN "send" ELSE "encrypt")
  /\ UNCHANGED <<config, overlap, peerVars, at_flag, heartVars, opened, last>>

CloudSend(t) ==
  /\ at[t] = "send"
  /\ Goto(t, "up")
  /\ opened' = [opened EXCEPT ![t] = TRUE]
  /\ Send(t, [Packet("login", "remote", "cloud") EXCEPT !.whole = Encrypted(cloud_data)])
  /\ UNCHANGED <<config, cloudVars, peerVars, at_flag, heartVars>>

CloudLogin(t) == CloudFill(t) \/ DecryptInit(t) \/ EncryptByte(t) \/ CloudSend(t)

-----------------------------------------------------------------------------
(* Serial data (Ser2Net) are sent. *)
SendData(t) ==
  /\ at[t] = "up"
  /\ Send(t, IF Client(t)
             THEN Packet("data", "remote", IF Leads(t) THEN loginen ELSE "none")
             ELSE Packet("data", udp_src_ip[t], "none"))
  /\ UNCHANGED <<config, at, cloudVars, peerVars, at_flag, heartVars, opened>>

(* Data come in; a UDP thread hears anybody, and takes the address of an   *)
(* empty datagram too.  Only socket A starts its seconds anew.             *)
Recv(t) ==
  /\ at[t] = "up"
  /\ \E from \in IF Udp(t) THEN {"remote", "stranger"} ELSE {"remote"},
        empty \in IF Udp(t) THEN BOOLEAN ELSE {FALSE} :
       /\ udp_src_ip' = [udp_src_ip EXCEPT ![t] = from]
       /\ spoke' = [spoke EXCEPT ![t] = @ \/ from = "stranger"]
       /\ IF t = A /\ ~empty
          THEN /\ sec_cnt' = [sec_cnt EXCEPT ![t] = 0]
               /\ since' = [since EXCEPT ![t] = 0]
               /\ skipped' = [skipped EXCEPT ![t] = FALSE]
          ELSE UNCHANGED heartVars
  /\ UNCHANGED <<config, at, cloudVars, at_flag, opened, last>>

(* A hundred timeouts of select.  The heartbeat goes out when the seconds  *)
(* are a multiple of hearttime: a TCP client leaves it out in AT mode, and *)
(* UDP socket B sends it to whoever spoke last (udp.c 604).                *)
Second(t) ==
  /\ at[t] = "up"
  /\ LET second == (sec_cnt[t] + 1) % HeartTime
         due    == Client(t) /\ second = 0
         leave  == at_flag /\ ~Udp(t)
         to     == IF t = B /\ Udp(t) THEN udp_src_ip[t] ELSE "remote"
     IN  /\ sec_cnt' = [sec_cnt EXCEPT ![t] = second]
         /\ IF due /\ ~leave
            THEN /\ Send(t, Packet("heart", to, "none"))
                 /\ since' = [since EXCEPT ![t] = 0]
                 /\ skipped' = [skipped EXCEPT ![t] = FALSE]
            ELSE /\ since' = [since EXCEPT ![t] = IF @ < HeartTime THEN @ + 1 ELSE @]
                 /\ skipped' = [skipped EXCEPT ![t] = @ \/ due]
                 /\ UNCHANGED last
  /\ UNCHANGED <<config, at, cloudVars, peerVars, at_flag, opened>>

AtMode ==
  /\ at_flag' = ~at_flag
  /\ UNCHANGED <<config, at, cloudVars, peerVars, heartVars, opened, last>>

Next ==
  \/ \E t \in BothThreads :
       Connect(t) \/ Lose(t) \/ CloudLogin(t) \/ SendData(t) \/ Recv(t) \/ Second(t)
  \/ AtMode

Spec == Init /\ [][Next]_vars

-----------------------------------------------------------------------------
(* The types of the variables. *)
TypeOK ==
  /\ config \in Configs
  /\ at \in [BothThreads -> {"off", "down", "fill", "key", "encrypt", "send", "up"}]
  /\ n \in [BothThreads -> 0 .. CloudLen]
  /\ overlap \in [BothThreads -> BOOLEAN] /\ opened \in [BothThreads -> BOOLEAN]
  /\ udp_src_ip \in [BothThreads -> {"remote", "stranger"}] /\ spoke \in [BothThreads -> BOOLEAN]
  /\ at_flag \in BOOLEAN
  /\ sec_cnt \in [BothThreads -> 0 .. HeartTime - 1] /\ since \in [BothThreads -> 0 .. HeartTime]
  /\ skipped \in [BothThreads -> BOOLEAN]

(* Every packet goes where it belongs and says who sends it: the login     *)
(* leads the connection or the packet as configured; a cloud login is      *)
(* garbled only if the other thread used the one cipher meanwhile (utils.c *)
(* 369-372, 464-472); a stranger gets data only from a UDP server it has   *)
(* spoken to, and of a client only the heartbeats of UDP socket B (604).   *)
RightPackets ==
  \A t \in BothThreads : at[t] = "up" /\ last[t].kind # "none" =>
    LET packet == last[t]
    IN  /\ Opens(t) \/ Cloud(t) => opened[t]
        /\ packet.kind = "data" => packet.login = (IF Leads(t) THEN loginen ELSE "none")
        /\ packet.whole \/ overlap[t]
        /\ packet.to = "stranger" =>
             spoke[t] /\ (Client(t) => packet.kind = "heart" /\ Udp(t) /\ t = B)

(* A peer never waits longer than hearttime for a heartbeat or, of socket  *)
(* A, from the latest data it sent, whatever the phase that the seconds    *)
(* keep from one connection to the next, unless the AT mode stands between *)
(* (tcpc.c 124, 456, udp.c 107).                                           *)
HeartInTime ==
  \A t \in BothThreads : at[t] = "up" /\ Client(t) => since[t] < HeartTime \/ skipped[t]

(* What the threads send of their own is right and in time (tcpc.c 112-241,*)
(* udp.c 96-176).                                                          *)
OwnPackets == RightPackets /\ HeartInTime
=============================================================================
