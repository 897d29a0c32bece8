------------------------------ MODULE MCClients ------------------------------
(***************************************************************************)
(* The life of the clients and, where no thread of Clients runs, what the  *)
(* threads send of their own (Logins), side by side in one run.            *)
(***************************************************************************)
EXTENDS Clients

CONSTANTS Configs, HeartTime, CloudLen

VARIABLES config, at, n, cloud_data, absorbed, overlap, udp_src_ip, spoke, at_flag,
          sec_cnt, since, skipped, opened, last

L == INSTANCE Logins

ASSUME LoginsSizes == L!LoginsAssumption

MCThread == {A, B}

None == <<"none", "none", TRUE>>

MCSettings == {<<"tcpc", "tcpc", TRUE>>, <<"udps", "udpc", TRUE>>, <<"tcps", "none", TRUE>>,
               <<"htpc", "none", TRUE>>, <<"sslc", "none", FALSE>>, None}

NoLogins == <<"none", "none", "off", "none">>

MCConfigs == {<<"tcpc", "tcpc", "cloud", "none">>, <<"udpc", "udpc", "usr", "all">>,
              <<"udps", "tcpc", "mac", "first">>, <<"tcpc", "udpc", "mac", "every">>, NoLogins}

loginVars == <<config, at, n, cloud_data, absorbed, overlap, udp_src_ip, spoke, at_flag,
               sec_cnt, since, skipped, opened, last>>

Lives == <<workmode, workmodeb, commbuffer>> # None

MCInit == Init /\ L!Init /\ (Lives <=> config = NoLogins)

LoginsNext == ~Lives /\ L!Next /\ UNCHANGED vars

ClientsNext == Next /\ UNCHANGED loginVars

MCNext == ClientsNext \/ LoginsNext

MCSpec ==
  /\ MCInit /\ [][MCNext]_<<vars, loginVars>>
  /\ WF_vars((ThreadStep(A) \/ HttpStep \/ SslStep) /\ UNCHANGED loginVars)

OwnPackets == L!OwnPackets
=============================================================================
