------------------------------ MODULE AtTable ------------------------------
(***************************************************************************)
(* The handlers of the AT command table, at_cmd_table.c.  They are one     *)
(* program text each, but differ only in which parameter counts they take, *)
(* which parameters they check, whether all of that comes before the first *)
(* "uci set" or each check just before its own, and which options they set *)
(* and query.  A row says that and no more; AtCommand runs it.  Options of *)
(* the eight UARTs are those of one UART: nothing crosses a port number.   *)
(* Values are abstract: ranges and upper-casing are not modelled.          *)
(***************************************************************************)
EXTENDS Integers, Sequences

\* AT_CMD_MAX_PARA_SUM: the parameters AtCmd_GetPara has room for.
MaxParaSum == 20

(***************************************************************************)
(* sums: the legal parameter counts of a SET.  checked: the parameters     *)
(* whose failure is answered with an error.  each: a check stands just     *)
(* before its own "uci set", after those of the parameters before it.      *)
(* options: set in this order, the k-th from parameter k, and read in this *)
(* order by a query.                                                       *)
(***************************************************************************)
Row(sums, checked, each, options) ==
  [sums |-> sums, checked |-> checked, each |-> each, options |-> options]

CheckedFirst(sums, options) == Row(sums, DOMAIN options, FALSE, options)
CheckedInTurn(sums, options) == Row(sums, DOMAIN options, TRUE, options)
Unchecked(options) == Row({Len(options)}, {}, FALSE, options)
\* Nothing to set: every SET is an error, the answer comes from elsewhere.
QueryOnly == Row({}, {}, FALSE, << >>)

\* Every parameter is checked before the first option is set.
AtCmd_Handler_CMDPW == CheckedFirst({1, 2}, <<"username", "password">>)
AtCmd_Handler_WEBPORT == CheckedFirst({1}, <<"http_port">>)
AtCmd_Handler_SEARCH == CheckedFirst({1, 2}, <<"search.port", "search.cmd">>)
AtCmd_Handler_RSTIM == CheckedFirst({1}, <<"reset.timeout">>)
AtCmd_Handler_MID == CheckedFirst({1}, <<"hostname">>)
\* Mutant: each check moves in front of its own "uci set".
MonitorInTurn ==
  CheckedInTurn({4}, <<"menabled", "mserveraddr", "mport", "minterval">>)
AtCmd_Handler_MONITOR ==
  CheckedFirst({4},
               <<"menabled", "mserveraddr", "mport", "minterval">>)
AtCmd_Handler_UPDATE ==
  CheckedFirst({4},
               <<"uenabled", "userveraddr", "uport", "uinterval">>)
AtCmd_Handler_NTPZONE == CheckedFirst({1}, <<"timezone">>)
AtCmd_Handler_NTPIP ==
  CheckedFirst({3},
               <<"ntpserver1", "ntpserver2", "ntpserver3">>)
AtCmd_Handler_NTPRF == CheckedFirst({1}, <<"ntpintvl">>)
AtCmd_Handler_VPNPPTP ==
  CheckedFirst({4},
               <<"pptp.enabled", "pptp.serveraddr", "pptp.username", "pptp.password">>)
AtCmd_Handler_VPNPPTPDTL ==
  CheckedFirst({4},
               <<"dataencrypt", "auth", "lcpecho", "mtu">>)
AtCmd_Handler_VPNGRE ==
  CheckedFirst({5},
               <<"gre.enabled", "rteip", "localip", "rtevirtualip", "virtualip">>)
AtCmd_Handler_DDNS ==
  CheckedFirst({3, 4},
               <<"service_name", "ddns.username", "ddns.password">>)
AtCmd_Handler_DDNSEN == CheckedFirst({1}, <<"ddns.enabled">>)
AtCmd_Handler_SOCKPORTA == CheckedFirst({1}, <<"localport">>)
AtCmd_Handler_SOCKPORTB == CheckedFirst({1}, <<"localportb">>)
AtCmd_Handler_RFCEN == CheckedFirst({1}, <<"syncbaud">>)
AtCmd_Handler_HEARTEN == CheckedFirst({1}, <<"hearten">>)
AtCmd_Handler_HEARTTP == CheckedFirst({1}, <<"hearttp">>)
AtCmd_Handler_HEARTTM == CheckedFirst({1}, <<"hearttime">>)
AtCmd_Handler_HTPTP == CheckedFirst({1}, <<"htptp">>)
AtCmd_Handler_HTPURL == CheckedFirst({1}, <<"htpurl">>)
AtCmd_Handler_HTPHD == CheckedFirst({1}, <<"htphead">>)
AtCmd_Handler_HTPCHD == CheckedFirst({1}, <<"htpchd">>)
AtCmd_Handler_PLANG == CheckedFirst({1}, <<"lang">>)
AtCmd_Handler_E == CheckedFirst(1..MaxParaSum, <<"echo_on">>)
AtCmd_Handler_REGUSR == CheckedFirst({1, 2}, <<"loginpkt">>)
\* The second server is not checked; if it is absent dns2 is cleared.
AtCmd_Handler_DNS == Row({1, 2}, {1}, FALSE, <<"dns", "dns2">>)

\* Each parameter is checked just before its own option is set.
AtCmd_Handler_UART ==
  CheckedInTurn({4, 5}, <<"baud", "databit", "stopbit", "paritybit">>)
AtCmd_Handler_UARTTL == CheckedInTurn({2}, <<"packtime", "packlen">>)
\* The port of socket A is the local one if its mode is a server's.
AtCmd_Handler_SOCKA(server) ==
  CheckedInTurn({3}, <<"workmode", "remoteaddr",
                       IF server THEN "localport" ELSE "remoteport">>)
AtCmd_Handler_SOCKB ==
  CheckedInTurn({3}, <<"workmodeb", "remoteaddrb", "remoteportb">>)
AtCmd_Handler_REGCLOUD == CheckedInTurn({2}, <<"clouduser", "cloudpwd">>)
AtCmd_Handler_REGUSER == CheckedInTurn({1, 2}, <<"loginpkt", "logintype">>)
AtCmd_Handler_HEARTUSER ==
  CheckedInTurn({1, 2}, <<"heartpkt", "heart_aschex">>)

\* The result of AtCmd_GetPara is not looked at.
AtCmd_Handler_REGEN == Unchecked(<<"loginen">>)
AtCmd_Handler_REGTCP == Unchecked(<<"loginwhen">>)
AtCmd_Handler_HEARTDT == Unchecked(<<"heartpkt">>)
\* One parameter must be "dhcp"; four are taken as they are.
AtCmd_Handler_WANN(sum) ==
  IF sum = 1 THEN CheckedFirst({1}, <<"proto">>)
  ELSE Unchecked(<<"proto", "ipaddr", "netmask", "gateway">>)

AtCmd_Handler_VER == QueryOnly
AtCmd_Handler_HW_VER == QueryOnly
AtCmd_Handler_MAC == QueryOnly
AtCmd_Handler_SOCKALK == QueryOnly
AtCmd_Handler_UPTIME == QueryOnly
AtCmd_Handler_H == QueryOnly
AtCmd_Handler_PDTIME == QueryOnly
AtCmd_Handler_HWVER == QueryOnly
AtCmd_Handler_TRAFFIC == QueryOnly
AtCmd_Handler_NTPTM == QueryOnly
AtCmd_Handler_NTPTML == QueryOnly
AtCmd_Handler_NTPUTC == QueryOnly
\* AT+Z itself is in AtCommand; a SET of it is an error.
AtCmd_Handler_Z == QueryOnly

(***************************************************************************)
(* The table without the factory block's commands, AT+LINUXCMP, AT+RELD    *)
(* and AT+CLEAR (the last two run a script that is not in the sources).    *)
(* g_CommandTable has several names for a handler, one per UART; here a    *)
(* command is named after its handler.                                     *)
(***************************************************************************)
g_CommandTable ==
  [CMDPW |-> AtCmd_Handler_CMDPW,
   DDNS |-> AtCmd_Handler_DDNS,
   DDNSEN |-> AtCmd_Handler_DDNSEN,
   DNS |-> AtCmd_Handler_DNS,
   E |-> AtCmd_Handler_E,
   H |-> AtCmd_Handler_H,
   HEARTDT |-> AtCmd_Handler_HEARTDT,
   HEARTEN |-> AtCmd_Handler_HEARTEN,
   HEARTTM |-> AtCmd_Handler_HEARTTM,
   HEARTTP |-> AtCmd_Handler_HEARTTP,
   HEARTUSER |-> AtCmd_Handler_HEARTUSER,
   HTPCHD |-> AtCmd_Handler_HTPCHD,
   HTPHD |-> AtCmd_Handler_HTPHD,
   HTPTP |-> AtCmd_Handler_HTPTP,
   HTPURL |-> AtCmd_Handler_HTPURL,
   HWVER |-> AtCmd_Handler_HWVER,
   HW_VER |-> AtCmd_Handler_HW_VER,
   MAC |-> AtCmd_Handler_MAC,
   MID |-> AtCmd_Handler_MID,
   MONITOR |-> AtCmd_Handler_MONITOR,
   NTPIP |-> AtCmd_Handler_NTPIP,
   NTPRF |-> AtCmd_Handler_NTPRF,
   NTPTM |-> AtCmd_Handler_NTPTM,
   NTPTML |-> AtCmd_Handler_NTPTML,
   NTPUTC |-> AtCmd_Handler_NTPUTC,
   NTPZONE |-> AtCmd_Handler_NTPZONE,
   PDTIME |-> AtCmd_Handler_PDTIME,
   PLANG |-> AtCmd_Handler_PLANG,
   REGCLOUD |-> AtCmd_Handler_REGCLOUD,
   REGEN |-> AtCmd_Handler_REGEN,
   REGTCP |-> AtCmd_Handler_REGTCP,
   REGUSER |-> AtCmd_Handler_REGUSER,
   REGUSR |-> AtCmd_Handler_REGUSR,
   RFCEN |-> AtCmd_Handler_RFCEN,
   RSTIM |-> AtCmd_Handler_RSTIM,
   SEARCH |-> AtCmd_Handler_SEARCH,
   SOCKALK |-> AtCmd_Handler_SOCKALK,
   SOCKB |-> AtCmd_Handler_SOCKB,
   SOCKPORTA |-> AtCmd_Handler_SOCKPORTA,
   SOCKPORTB |-> AtCmd_Handler_SOCKPORTB,
   TRAFFIC |-> AtCmd_Handler_TRAFFIC,
   UART |-> AtCmd_Handler_UART,
   UARTTL |-> AtCmd_Handler_UARTTL,
   UPDATE |-> AtCmd_Handler_UPDATE,
   UPTIME |-> AtCmd_Handler_UPTIME,
   VER |-> AtCmd_Handler_VER,
   VPNGRE |-> AtCmd_Handler_VPNGRE,
   VPNPPTP |-> AtCmd_Handler_VPNPPTP,
   VPNPPTPDTL |-> AtCmd_Handler_VPNPPTPDTL,
   WEBPORT |-> AtCmd_Handler_WEBPORT,
   Z |-> AtCmd_Handler_Z]

Commands == DOMAIN g_CommandTable \cup {"SOCKA", "WANN"}

(***************************************************************************)
(* The row a command runs by, given the number of its parameters and       *)
(* whether the socket mode it sets (or, for a query, reads) is a server's. *)
(***************************************************************************)
RowOf(command, sum, server) ==
  CASE command = "SOCKA" -> AtCmd_Handler_SOCKA(server)
    [] command = "WANN"  -> AtCmd_Handler_WANN(sum)
    [] OTHER             -> g_CommandTable[command]

\* The options that a command, and those that some command, sets.
OptionsOf(command) ==
  UNION {{RowOf(command, n, s).options[k] : k \in DOMAIN RowOf(command, n, s).options} :
           n \in {1, 4}, s \in BOOLEAN}

Options == UNION {OptionsOf(c) : c \in Commands}
=============================================================================
