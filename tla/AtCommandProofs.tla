--------------------------- MODULE AtCommandProofs ---------------------------
(***************************************************************************)
(* Proofs about the parts of MCAtTable: the AT interpreter (AtCommand), for*)
(* any processes, values, batches and pages, and for every command of the  *)
(* table; the serial line (SerialLine); and the texts (Texts).             *)
(***************************************************************************)
EXTENDS MCAtTable, FiniteSetTheorems, TLAPS

-----------------------------------------------------------------------------
(***************************************************************************)
(* The table.  No handler sets an option twice.                            *)
(***************************************************************************)
Distinct(s) ==
  /\ Len(s) \in Nat /\ DOMAIN s = 1 .. Len(s)
  /\ \A i, j \in 1 .. Len(s) : s[i] = s[j] => i = j

LEMMA Distinct0 == Distinct(<< >>)
  BY DEF Distinct

LEMMA Distinct1 == \A x : Distinct(<<x>>)
  BY DEF Distinct

LEMMA Distinct2 ==
  ASSUME NEW x, NEW y, x # y
  PROVE  Distinct(<<x, y>>)
  <1> DEFINE s == <<x, y>>
  <1>1. Len(s) = 2 /\ DOMAIN s = 1 .. 2 /\ s[1] = x /\ s[2] = y
    OBVIOUS
  <1> HIDE DEF s
  <1>2. QED
    BY <1>1 DEF Distinct

LEMMA Distinct3 ==
  ASSUME NEW x, NEW y, NEW z, x \notin {y, z}, y # z
  PROVE  Distinct(<<x, y, z>>)
  <1> DEFINE s == <<x, y, z>>
  <1>1. Len(s) = 3 /\ DOMAIN s = 1 .. 3 /\ s[1] = x /\ s[2] = y /\ s[3] = z
    OBVIOUS
  <1> HIDE DEF s
  <1>2. QED
    BY <1>1 DEF Distinct

LEMMA Distinct4 ==
  ASSUME NEW x, NEW y, NEW z, NEW u, x \notin {y, z, u}, y \notin {z, u}, z # u
  PROVE  Distinct(<<x, y, z, u>>)
  <1> DEFINE s == <<x, y, z, u>>
  <1>1. Len(s) = 4 /\ DOMAIN s = 1 .. 4 /\ s[1] = x /\ s[2] = y /\ s[3] = z /\ s[4] = u
    OBVIOUS
  <1> HIDE DEF s
  <1>2. QED
    BY <1>1 DEF Distinct

LEMMA Distinct5 ==
  ASSUME NEW x, NEW y, NEW z, NEW u, NEW v,
         x \notin {y, z, u, v}, y \notin {z, u, v}, z \notin {u, v}, u # v
  PROVE  Distinct(<<x, y, z, u, v>>)
  <1> DEFINE s == <<x, y, z, u, v>>
  <1>1. /\ Len(s) = 5 /\ DOMAIN s = 1 .. 5
        /\ s[1] = x /\ s[2] = y /\ s[3] = z /\ s[4] = u /\ s[5] = v
    OBVIOUS
  <1> HIDE DEF s
  <1>2. QED
    BY <1>1 DEF Distinct

LEMMA RowOptions ==
  /\ \A n, o : CheckedFirst(n, o).options = o
  /\ \A n, o : CheckedInTurn(n, o).options = o
  /\ \A o : Unchecked(o).options = o
  /\ QueryOnly.options = << >>
  /\ \A n, c, e, o : Row(n, c, e, o).options = o
  BY DEF CheckedFirst, CheckedInTurn, Unchecked, QueryOnly, Row

LEMMA TableDistinct ==
  \A c \in DOMAIN g_CommandTable : Distinct(g_CommandTable[c].options)
  <1>1. \A row \in {
           AtCmd_Handler_H, AtCmd_Handler_HWVER, AtCmd_Handler_HW_VER,
           AtCmd_Handler_MAC, AtCmd_Handler_NTPTM, AtCmd_Handler_NTPTML,
           AtCmd_Handler_NTPUTC, AtCmd_Handler_PDTIME,
           AtCmd_Handler_SOCKALK, AtCmd_Handler_TRAFFIC,
           AtCmd_Handler_UPTIME, AtCmd_Handler_VER, AtCmd_Handler_Z} :
          Distinct(row.options)
    BY Distinct0, RowOptions DEF
       AtCmd_Handler_H, AtCmd_Handler_HWVER, AtCmd_Handler_HW_VER,
       AtCmd_Handler_MAC, AtCmd_Handler_NTPTM, AtCmd_Handler_NTPTML,
       AtCmd_Handler_NTPUTC, AtCmd_Handler_PDTIME, AtCmd_Handler_SOCKALK,
       AtCmd_Handler_TRAFFIC, AtCmd_Handler_UPTIME, AtCmd_Handler_VER,
       AtCmd_Handler_Z
  <1>2. \A row \in {
           AtCmd_Handler_DDNSEN, AtCmd_Handler_E, AtCmd_Handler_HEARTDT,
           AtCmd_Handler_HEARTEN, AtCmd_Handler_HEARTTM,
           AtCmd_Handler_HEARTTP, AtCmd_Handler_HTPCHD,
           AtCmd_Handler_HTPHD, AtCmd_Handler_HTPTP, AtCmd_Handler_HTPURL,
           AtCmd_Handler_MID, AtCmd_Handler_NTPRF, AtCmd_Handler_NTPZONE,
           AtCmd_Handler_PLANG, AtCmd_Handler_REGEN, AtCmd_Handler_REGTCP,
           AtCmd_Handler_REGUSR, AtCmd_Handler_RFCEN, AtCmd_Handler_RSTIM,
           AtCmd_Handler_SOCKPORTA, AtCmd_Handler_SOCKPORTB,
           AtCmd_Handler_WEBPORT} :
          Distinct(row.options)
    BY Distinct1, RowOptions DEF
       AtCmd_Handler_DDNSEN, AtCmd_Handler_E, AtCmd_Handler_HEARTDT,
       AtCmd_Handler_HEARTEN, AtCmd_Handler_HEARTTM, AtCmd_Handler_HEARTTP,
       AtCmd_Handler_HTPCHD, AtCmd_Handler_HTPHD, AtCmd_Handler_HTPTP,
       AtCmd_Handler_HTPURL, AtCmd_Handler_MID, AtCmd_Handler_NTPRF,
       AtCmd_Handler_NTPZONE, AtCmd_Handler_PLANG, AtCmd_Handler_REGEN,
       AtCmd_Handler_REGTCP, AtCmd_Handler_REGUSR, AtCmd_Handler_RFCEN,
       AtCmd_Handler_RSTIM, AtCmd_Handler_SOCKPORTA,
       AtCmd_Handler_SOCKPORTB, AtCmd_Handler_WEBPORT
  <1>3. \A row \in {
           AtCmd_Handler_CMDPW, AtCmd_Handler_DNS, AtCmd_Handler_HEARTUSER,
           AtCmd_Handler_REGCLOUD, AtCmd_Handler_REGUSER,
           AtCmd_Handler_SEARCH, AtCmd_Handler_UARTTL} :
          Distinct(row.options)
    <2>1. Distinct(AtCmd_Handler_CMDPW.options)
      BY Distinct2, RowOptions DEF AtCmd_Handler_CMDPW
    <2>2. Distinct(AtCmd_Handler_DNS.options)
      BY Distinct2 DEF AtCmd_Handler_DNS, Row
    <2>3. Distinct(AtCmd_Handler_HEARTUSER.options)
      BY Distinct2, RowOptions DEF AtCmd_Handler_HEARTUSER
    <2>4. Distinct(AtCmd_Handler_REGCLOUD.options)
      BY Distinct2, RowOptions DEF AtCmd_Handler_REGCLOUD
    <2>5. Distinct(AtCmd_Handler_REGUSER.options)
      BY Distinct2, RowOptions DEF AtCmd_Handler_REGUSER
    <2>6. Distinct(AtCmd_Handler_SEARCH.options)
      BY Distinct2, RowOptions DEF AtCmd_Handler_SEARCH
    <2>7. Distinct(AtCmd_Handler_UARTTL.options)
      BY Distinct2, RowOptions DEF AtCmd_Handler_UARTTL
    <2>8. QED
      BY <2>1, <2>2, <2>3, <2>4, <2>5, <2>6, <2>7
  <1>4. \A row \in {
           AtCmd_Handler_DDNS, AtCmd_Handler_NTPIP, AtCmd_Handler_SOCKB} :
          Distinct(row.options)
    BY Distinct3, RowOptions DEF
       AtCmd_Handler_DDNS, AtCmd_Handler_NTPIP, AtCmd_Handler_SOCKB
  <1>5. \A row \in {
           AtCmd_Handler_MONITOR, AtCmd_Handler_UART, AtCmd_Handler_UPDATE,
           AtCmd_Handler_VPNPPTP, AtCmd_Handler_VPNPPTPDTL} :
          Distinct(row.options)
    BY Distinct4, RowOptions DEF
       AtCmd_Handler_MONITOR, AtCmd_Handler_UART, AtCmd_Handler_UPDATE,
       AtCmd_Handler_VPNPPTP, AtCmd_Handler_VPNPPTPDTL
  <1>6. \A row \in {
           AtCmd_Handler_VPNGRE} :
          Distinct(row.options)
    BY Distinct5, RowOptions DEF
       AtCmd_Handler_VPNGRE
  <1>7. QED
    BY <1>1, <1>2, <1>3, <1>4, <1>5, <1>6 DEF g_CommandTable

LEMMA RowsDistinct ==
  ASSUME NEW c \in Commands, NEW n, NEW s
  PROVE  Distinct(RowOf(c, n, s).options)
  <1>1. CASE c = "SOCKA"
    <2>1. RowOf(c, n, s) = AtCmd_Handler_SOCKA(s)
      BY <1>1 DEF RowOf
    <2>2. QED
      BY <2>1, Distinct3, RowOptions DEF AtCmd_Handler_SOCKA
  <1>2. CASE c = "WANN"
    <2>1. RowOf(c, n, s) = AtCmd_Handler_WANN(n)
      BY <1>2 DEF RowOf
    <2>2. AtCmd_Handler_WANN(n).options = <<"proto">>
            \/ AtCmd_Handler_WANN(n).options = <<"proto", "ipaddr", "netmask", "gateway">>
      BY RowOptions DEF AtCmd_Handler_WANN
    <2>3. QED
      BY <2>1, <2>2, Distinct1, Distinct4
  <1>3. CASE c \notin {"SOCKA", "WANN"}
    BY <1>3, TableDistinct DEF RowOf, Commands
  <1>4. QED
    BY <1>1, <1>2, <1>3

(* A row depends on the number of parameters only in that it is one or not. *)
LEMMA RowsIn ==
  ASSUME NEW c \in Commands, NEW n \in Nat, NEW s \in BOOLEAN,
         NEW i \in DOMAIN RowOf(c, n, s).options
  PROVE  RowOf(c, n, s).options[i] \in OptionsOf(c)
  <1>1. PICK m \in {1, 4} : RowOf(c, n, s) = RowOf(c, m, s)
    <2>1. CASE n = 1
      BY <2>1
    <2>2. CASE n # 1
      BY <2>2 DEF RowOf, AtCmd_Handler_WANN
    <2>3. QED
      BY <2>1, <2>2
  <1> DEFINE Of(b, t) == {RowOf(c, b, t).options[j] : j \in DOMAIN RowOf(c, b, t).options}
  <1>2. OptionsOf(c) = UNION {Of(b, t) : b \in {1, 4}, t \in BOOLEAN}
    BY DEF OptionsOf
  <1>3. RowOf(c, n, s).options[i] \in Of(m, s)
    BY <1>1
  <1> HIDE DEF Of
  <1>4. QED
    BY <1>2, <1>3

(* Only the handlers that check in turn do, and they check every option.   *)
InTurn == {"UART", "UARTTL", "SOCKA", "SOCKB", "REGCLOUD", "REGUSER", "HEARTUSER"}

LEMMA RowEach ==
  /\ \A n, o : ~CheckedFirst(n, o).each /\ ~Unchecked(o).each
  /\ \A n, o : CheckedInTurn(n, o).checked = DOMAIN CheckedInTurn(n, o).options
  /\ ~QueryOnly.each
  /\ \A n, c, o : ~Row(n, c, FALSE, o).each
  BY DEF CheckedFirst, CheckedInTurn, Unchecked, QueryOnly, Row

LEMMA TableInTurn ==
  \A c \in DOMAIN g_CommandTable :
    g_CommandTable[c].each =>
      /\ c \in InTurn
      /\ g_CommandTable[c].checked = DOMAIN g_CommandTable[c].options
  <1>1. \A row \in {
           AtCmd_Handler_CMDPW, AtCmd_Handler_DDNS, AtCmd_Handler_DDNSEN, AtCmd_Handler_H,
           AtCmd_Handler_HEARTDT, AtCmd_Handler_HEARTEN, AtCmd_Handler_HEARTTM,
           AtCmd_Handler_HEARTTP, AtCmd_Handler_HTPCHD, AtCmd_Handler_HTPHD,
           AtCmd_Handler_HTPTP, AtCmd_Handler_HTPURL} : ~row.each
    BY RowEach DEF
       AtCmd_Handler_CMDPW, AtCmd_Handler_DDNS, AtCmd_Handler_DDNSEN, AtCmd_Handler_H,
       AtCmd_Handler_HEARTDT, AtCmd_Handler_HEARTEN, AtCmd_Handler_HEARTTM,
       AtCmd_Handler_HEARTTP, AtCmd_Handler_HTPCHD, AtCmd_Handler_HTPHD,
       AtCmd_Handler_HTPTP, AtCmd_Handler_HTPURL
  <1>a. \A row \in {
           AtCmd_Handler_HWVER, AtCmd_Handler_HW_VER, AtCmd_Handler_MAC, AtCmd_Handler_MID,
           AtCmd_Handler_MONITOR, AtCmd_Handler_NTPIP, AtCmd_Handler_NTPRF,
           AtCmd_Handler_NTPTM, AtCmd_Handler_NTPTML, AtCmd_Handler_NTPUTC} : ~row.each
    BY RowEach DEF
       AtCmd_Handler_HWVER, AtCmd_Handler_HW_VER, AtCmd_Handler_MAC, AtCmd_Handler_MID,
       AtCmd_Handler_MONITOR, AtCmd_Handler_NTPIP, AtCmd_Handler_NTPRF,
       AtCmd_Handler_NTPTM, AtCmd_Handler_NTPTML, AtCmd_Handler_NTPUTC
  <1>b. ~AtCmd_Handler_E.each /\ ~AtCmd_Handler_DNS.each
    BY RowEach DEF AtCmd_Handler_E, AtCmd_Handler_DNS
  <1>2. \A row \in {
           AtCmd_Handler_NTPZONE, AtCmd_Handler_PDTIME, AtCmd_Handler_PLANG,
           AtCmd_Handler_REGEN, AtCmd_Handler_REGTCP, AtCmd_Handler_REGUSR,
           AtCmd_Handler_RFCEN, AtCmd_Handler_RSTIM, AtCmd_Handler_SEARCH,
           AtCmd_Handler_SOCKALK, AtCmd_Handler_SOCKPORTA, AtCmd_Handler_SOCKPORTB,
           AtCmd_Handler_TRAFFIC, AtCmd_Handler_UPDATE, AtCmd_Handler_UPTIME,
           AtCmd_Handler_VER, AtCmd_Handler_VPNGRE, AtCmd_Handler_VPNPPTP,
           AtCmd_Handler_VPNPPTPDTL, AtCmd_Handler_WEBPORT, AtCmd_Handler_Z} : ~row.each
    BY RowEach DEF
       AtCmd_Handler_NTPZONE, AtCmd_Handler_PDTIME, AtCmd_Handler_PLANG,
       AtCmd_Handler_REGEN, AtCmd_Handler_REGTCP, AtCmd_Handler_REGUSR,
       AtCmd_Handler_RFCEN, AtCmd_Handler_RSTIM, AtCmd_Handler_SEARCH,
       AtCmd_Handler_SOCKALK, AtCmd_Handler_SOCKPORTA, AtCmd_Handler_SOCKPORTB,
       AtCmd_Handler_TRAFFIC, AtCmd_Handler_UPDATE, AtCmd_Handler_UPTIME,
       AtCmd_Handler_VER, AtCmd_Handler_VPNGRE, AtCmd_Handler_VPNPPTP,
       AtCmd_Handler_VPNPPTPDTL, AtCmd_Handler_WEBPORT, AtCmd_Handler_Z
  <1>3. \A row \in {
           AtCmd_Handler_UART, AtCmd_Handler_UARTTL, AtCmd_Handler_SOCKB,
           AtCmd_Handler_REGCLOUD, AtCmd_Handler_REGUSER, AtCmd_Handler_HEARTUSER} :
          row.checked = DOMAIN row.options
    BY RowEach DEF
       AtCmd_Handler_UART, AtCmd_Handler_UARTTL, AtCmd_Handler_SOCKB,
       AtCmd_Handler_REGCLOUD, AtCmd_Handler_REGUSER, AtCmd_Handler_HEARTUSER
  <1>4. QED
    BY <1>1, <1>2, <1>3, <1>a, <1>b, SMTT(30) DEF g_CommandTable, InTurn

LEMMA RowsInTurn ==
  ASSUME NEW c \in Commands, NEW n, NEW s, RowOf(c, n, s).each
  PROVE  c \in InTurn /\ RowOf(c, n, s).checked = DOMAIN RowOf(c, n, s).options
  <1>1. CASE c = "SOCKA"
    <2>1. RowOf(c, n, s) = AtCmd_Handler_SOCKA(s)
      BY <1>1 DEF RowOf
    <2>2. QED
      BY <1>1, <2>1, RowEach DEF AtCmd_Handler_SOCKA, InTurn
  <1>2. CASE c = "WANN"
    <2>1. RowOf(c, n, s) = AtCmd_Handler_WANN(n)
      BY <1>2 DEF RowOf
    <2>2. ~AtCmd_Handler_WANN(n).each
      BY RowEach DEF AtCmd_Handler_WANN
    <2>3. QED
      BY <2>1, <2>2
  <1>3. CASE c \notin {"SOCKA", "WANN"}
    BY <1>3, TableInTurn DEF RowOf, Commands
  <1>4. QED
    BY <1>1, <1>2, <1>3

(* Rows of one command agree where both have an option, unless they are    *)
(* those of socket A in two different modes.                               *)
LEMMA RowsAgree ==
  ASSUME NEW c \in Commands, NEW m, NEW n, NEW s \in BOOLEAN, NEW t \in BOOLEAN,
         NEW i \in DOMAIN RowOf(c, m, s).options \cap DOMAIN RowOf(c, n, t).options,
         c = "SOCKA" => s = t \/ i = 1
  PROVE  RowOf(c, m, s).options[i] = RowOf(c, n, t).options[i]
  <1>1. CASE c = "SOCKA"
    <2>1. RowOf(c, m, s) = AtCmd_Handler_SOCKA(s) /\ RowOf(c, n, t) = AtCmd_Handler_SOCKA(t)
      BY <1>1 DEF RowOf
    <2>2. AtCmd_Handler_SOCKA(s).options[1] = "workmode"
          /\ AtCmd_Handler_SOCKA(t).options[1] = "workmode"
      BY RowOptions DEF AtCmd_Handler_SOCKA
    <2>3. QED
      BY <1>1, <2>1, <2>2
  <1>2. CASE c = "WANN"
    <2>1. RowOf(c, m, s) = AtCmd_Handler_WANN(m) /\ RowOf(c, n, t) = AtCmd_Handler_WANN(n)
      BY <1>2 DEF RowOf
    <2>2. \A u : \/ AtCmd_Handler_WANN(u).options = <<"proto">>
                 \/ AtCmd_Handler_WANN(u).options = <<"proto", "ipaddr", "netmask", "gateway">>
      BY RowOptions DEF AtCmd_Handler_WANN
    <2>3. \A j \in DOMAIN <<"proto">> :
            <<"proto">>[j] = <<"proto", "ipaddr", "netmask", "gateway">>[j]
      OBVIOUS
    <2>4. QED
      BY <2>1, <2>2, <2>3
  <1>3. CASE c \notin {"SOCKA", "WANN"}
    BY <1>3 DEF RowOf
  <1>4. QED
    BY <1>1, <1>2, <1>3

LEMMA NotCommands == Unknown \notin Commands /\ Malformed \notin Commands
  BY DEF Unknown, Malformed, Commands, g_CommandTable

-----------------------------------------------------------------------------
(***************************************************************************)
(* Types, and what holds of an agent's locals between its steps.           *)
(***************************************************************************)
Settable == Value \cup {Empty}
Gotten == Settable \cup {None}
Steps == {"idle", "line", "set", "get", "commit", "changes"}
Codes == {"OK", "ERR", "ERR1", "ERR2"}
Replies == [code : Codes, ran : Commands \cup {None}, values : Seq(Gotten)]

LocalTypes ==
  /\ pc \in [Agents -> Steps]
  /\ batch \in [Agents -> Seq(AtLines)]
  /\ pfn \in [Agents -> Commands \cup {None}]
  /\ k \in [Agents -> Nat]
  /\ got \in [Agents -> Seq(Gotten)]
  /\ replies \in [Agents -> Seq(Replies)]

StoreTypes ==
  /\ committed \in [Config -> Settable]
  /\ staged \in [Config -> Gotten]
  /\ writer \in [Config -> Writers]
  /\ page = None \/ page \in Seq(Config \X Settable)

Running(a) == pc[a] \in {"set", "get", "commit", "changes"}

(* An agent that is in a handler has a line to answer and the handler is   *)
(* that of its SET or of its query; the options of its commands are in use. *)
Coherent(a) ==
  /\ Len(replies[a]) <= Len(batch[a])
  /\ Running(a) => /\ pfn[a] # None
                   /\ Len(replies[a]) < Len(batch[a])
                   /\ Current(a).cmd # Malformed
                   /\ Current(a).set <=> pc[a] = "set"
  /\ pc[a] = "set" => k[a] >= 1
  /\ pc[a] = "idle" => batch[a] = << >>
  /\ pfn[a] # None => OptionsOf(pfn[a]) \subseteq Config
  /\ \A i \in DOMAIN batch[a] :
       batch[a][i].cmd \in Commands => OptionsOf(batch[a][i].cmd) \subseteq Config

Types == LocalTypes /\ StoreTypes /\ \A a \in Agents : Coherent(a)

LEMMA InitTypes == Init => Types
  <1>1. << >> \in Seq(AtLines) /\ << >> \in Seq(Gotten) /\ << >> \in Seq(Replies)
    OBVIOUS
  <1>2. Nobody \in Writers
    BY DEF Nobody, Writers
  <1>3. Init => LocalTypes
    BY <1>1 DEF Init, LocalTypes, Steps
  <1>4. Init => StoreTypes
    BY <1>2 DEF Init, StoreTypes, Settable, Gotten
  <1>5. Init => \A a \in Agents : Coherent(a)
    BY DEF Init, Coherent, Running
  <1>6. QED
    BY <1>3, <1>4, <1>5 DEF Types

(***************************************************************************)
(* The steps of an agent, by what they do to its locals and to the store.  *)
(***************************************************************************)
Values(a) == IF pc[a] = "get" THEN got[a] ELSE << >>

Answer(a, code) ==
  /\ AtCmd_Respond(a, code, Values(a))
  /\ UNCHANGED <<committed, staged, batch, page, writer>>

AtLine(a) == pc[a] = "line" /\ LineNo(a) <= Len(batch[a])

(* The line is answered at once: it is none, or names nothing to run. *)
Refuses(a) ==
  /\ AtLine(a)
  /\ UNCHANGED pfn
  /\ \/ Current(a).cmd = Malformed /\ Answer(a, "ERR1")
     \/ Current(a).cmd = Unknown /\ pfn[a] = None /\ Answer(a, "ERR2")

(* The line runs the handler of c. *)
Enters(a, c) ==
  /\ AtLine(a)
  /\ Current(a).cmd # Malformed
  /\ c = IF Current(a).cmd = Unknown THEN pfn[a] ELSE Current(a).cmd
  /\ pfn' = [pfn EXCEPT ![a] = c]

(* A handler that does not check in turn has checked everything.           *)
Passes(row, l) == row.each \/ \A i \in row.checked : ~Rejects(row, i, l)

Begins(a) ==
  /\ Current(a).set => Passes(SetRow(pfn'[a], Current(a)), Current(a))
  /\ \E p \in {"set", "get", "commit"} :
       /\ pc' = [pc EXCEPT ![a] = p]
       /\ p = "set" <=> Current(a).set
       /\ p = "set" => k' = [k EXCEPT ![a] = 1]
       /\ p # "set" => UNCHANGED k
  /\ UNCHANGED <<got, replies, committed, staged, batch, page, writer>>

Row0(a) == SetRow(pfn[a], Current(a))

Sets(a) ==
  /\ pc[a] = "set"
  /\ k[a] \in DOMAIN Row0(a).options
  /\ ~Rejects(Row0(a), k[a], Current(a))
  /\ UciSet(Row0(a).options[k[a]], Stored(Current(a), k[a]), a, LineNo(a))
  /\ k' = [k EXCEPT ![a] = @ + 1]
  /\ UNCHANGED <<committed, pc, batch, pfn, got, replies, page>>

Finishes(a) ==
  /\ UNCHANGED pfn
  /\ \/ pc[a] = "set" /\ k[a] > Len(Row0(a).options) /\ Answer(a, "OK")
     \/ /\ pc[a] = "set" /\ Answer(a, "ERR")
        /\ k[a] \in DOMAIN Row0(a).options /\ Rejects(Row0(a), k[a], Current(a))
     \/ pc[a] \in {"get", "changes"} /\ Answer(a, "OK")

(* What the next "uci get" of a query reads.                               *)
Reads(a, v) ==
  LET options == QueryRow(pfn[a], got[a]).options
      i == Len(got[a]) + 1
  IN /\ i \in DOMAIN options
     /\ v = UciGet(options[i]) \/ (pfn[a] = "WANN" /\ v = None)

Gets(a) ==
  /\ pc[a] = "get"
  /\ \E v \in Gotten : Reads(a, v) /\ got' = [got EXCEPT ![a] = Append(@, v)]
  /\ UNCHANGED <<committed, staged, pc, batch, pfn, k, replies, page, writer>>

Commits(a) ==
  /\ pc[a] = "commit"
  /\ UciCommit
  /\ pc' = [pc EXCEPT ![a] = "changes"]
  /\ UNCHANGED <<batch, pfn, k, got, replies, page, writer>>

CommitsAgain(a) ==
  /\ pc[a] = "changes"
  /\ pc' = [pc EXCEPT ![a] = "commit"]
  /\ UNCHANGED <<committed, staged, batch, pfn, k, got, replies, page, writer>>

Sends(a) ==
  /\ pc[a] = "line"
  /\ pc' = [pc EXCEPT ![a] = "idle"]
  /\ batch' = [batch EXCEPT ![a] = << >>]
  /\ replies' = [replies EXCEPT ![a] = << >>]
  /\ UNCHANGED <<committed, staged, pfn, k, got, page, writer>>

LEMMA LineTypes ==
  ASSUME LocalTypes, NEW a \in Agents, NEW i \in DOMAIN batch[a]
  PROVE  /\ batch[a][i] \in AtLines
         /\ batch[a][i].cmd \in Commands \cup {Unknown, Malformed}
         /\ batch[a][i].set \in BOOLEAN
         /\ Len(batch[a][i].para) \in Nat
         /\ \A j : Stored(batch[a][i], j) \in Settable
  <1>1. batch[a][i] \in AtLines
    BY DEF LocalTypes
  <1>2. QED
    BY <1>1 DEF AtLines, Stored, Given, Settable

LEMMA RunningRow ==
  ASSUME Types, NEW a \in Agents, Running(a)
  PROVE  /\ LineNo(a) \in DOMAIN batch[a] /\ pfn[a] \in Commands
         /\ Distinct(Row0(a).options)
         /\ \A j \in DOMAIN Row0(a).options : Row0(a).options[j] \in Config
  <1>1. LineNo(a) \in DOMAIN batch[a] /\ pfn[a] \in Commands /\ OptionsOf(pfn[a]) \subseteq Config
    BY DEF Types, LocalTypes, Coherent, LineNo
  <1>2. Len(Current(a).para) \in Nat
    BY <1>1, LineTypes DEF Types, Current
  <1> DEFINE n == Len(Current(a).para)
             s == Given(Current(a), 1) \in ServerModes
  <1>3. s \in BOOLEAN /\ Row0(a) = RowOf(pfn[a], n, s)
    BY DEF Row0, SetRow
  <1> HIDE DEF n, s
  <1>4. n \in Nat
    BY <1>2 DEF n
  <1>5. QED
    BY <1>1, <1>3, <1>4, RowsDistinct, RowsIn

LEMMA ReadLineKinds ==
  ASSUME Types, NEW a \in Agents, ReadLine(a)
  PROVE  \/ Refuses(a)
         \/ \E c \in Commands : Enters(a, c) /\ (Begins(a) \/ Answer(a, "ERR"))
  <1> DEFINE l == Current(a)
             c == IF l.cmd = Unknown THEN pfn[a] ELSE l.cmd
  <1>1. AtLine(a) /\ UNCHANGED <<committed, staged, batch, page, writer>>
    BY DEF ReadLine, AtLine, store
  <1>2. LineNo(a) \in DOMAIN batch[a]
    BY <1>1 DEF AtLine, LineNo, Types, LocalTypes
  <1>3. l.cmd \in Commands \cup {Unknown, Malformed} /\ pfn[a] \in Commands \cup {None}
    BY <1>2, LineTypes DEF Types, Current, LocalTypes
  <1>4. Values(a) = << >>
    BY <1>1 DEF Values, AtLine
  <1>5. CASE l.cmd = Malformed
    <2>1. UNCHANGED pfn /\ AtCmd_Respond(a, "ERR1", << >>)
      BY <1>5 DEF ReadLine
    <2>2. Answer(a, "ERR1")
      BY <2>1, <1>1, <1>4 DEF Answer
    <2>3. QED
      BY <1>1, <1>5, <2>1, <2>2 DEF Refuses
  <1>6. CASE l.cmd # Malformed /\ c = None
    <2>1. pfn' = [pfn EXCEPT ![a] = None] /\ AtCmd_Respond(a, "ERR2", << >>)
      BY <1>6 DEF ReadLine
    <2>2. Answer(a, "ERR2")
      BY <2>1, <1>1, <1>4 DEF Answer
    <2>3. l.cmd = Unknown /\ pfn[a] = None
      BY <1>3, <1>6, NoneAssumption
    <2>4. UNCHANGED pfn
      BY <2>1, <2>3 DEF Types, LocalTypes
    <2>5. QED
      BY <1>1, <2>2, <2>3, <2>4 DEF Refuses
  <1>7. CASE l.cmd # Malformed /\ c # None
    <2>1. pfn' = [pfn EXCEPT ![a] = c] /\ Start(a, c, l)
      BY <1>7 DEF ReadLine
    <2>2. c \in Commands /\ Enters(a, c)
      BY <1>1, <1>3, <1>7, <2>1 DEF Enters
    <2>3. Begins(a) \/ Answer(a, "ERR")
      <3>1. CASE ~l.set
        BY <3>1, <2>1, <1>1 DEF Start, Begins
      <3>2. CASE l.set
        <4>0. pfn'[a] = c
          BY <2>1 DEF Types, LocalTypes
        <4>1. \/ AtCmd_Respond(a, "ERR", << >>)
              \/ /\ pc' = [pc EXCEPT ![a] = "set"]
                 /\ k' = [k EXCEPT ![a] = 1]
                 /\ UNCHANGED <<got, pass, replies>>
                 /\ Passes(SetRow(pfn'[a], l), l)
          BY <3>2, <2>1, <4>0 DEF Start, Passes
        <4>2. QED
          BY <4>1, <3>2, <1>1, <1>4 DEF Begins, Answer
      <3>3. QED
        BY <3>1, <3>2
    <2>4. QED
      BY <2>2, <2>3
  <1>8. QED
    BY <1>5, <1>6, <1>7

LEMMA ServeKinds ==
  ASSUME Types, NEW a \in Agents, Serve(a)
  PROVE  \/ Refuses(a)
         \/ \E c \in Commands : Enters(a, c) /\ (Begins(a) \/ Answer(a, "ERR"))
         \/ Sets(a) \/ Finishes(a) \/ Gets(a)
         \/ Commits(a) \/ CommitsAgain(a) \/ Sends(a)
  <1>1. CASE SetOption(a)
    <2>1. Running(a) /\ pc[a] = "set" /\ k[a] \in Nat /\ k[a] >= 1
      BY <1>1 DEF SetOption, Running, Types, Coherent, LocalTypes
    <2>2. UNCHANGED <<committed, batch, page>> /\ Values(a) = << >>
      BY <1>1 DEF SetOption, Values
    <2>3. Len(Row0(a).options) \in Nat /\ DOMAIN Row0(a).options = 1 .. Len(Row0(a).options)
      BY <2>1, RunningRow DEF Distinct
    <2>4. \/ /\ k[a] > Len(Row0(a).options)
             /\ UNCHANGED <<pfn, staged, writer>>
             /\ AtCmd_Respond(a, "OK", << >>)
          \/ /\ k[a] <= Len(Row0(a).options)
             /\ Rejects(Row0(a), k[a], Current(a))
             /\ UNCHANGED <<pfn, staged, writer>> /\ AtCmd_Respond(a, "ERR", << >>)
          \/ /\ k[a] <= Len(Row0(a).options)
             /\ ~Rejects(Row0(a), k[a], Current(a))
             /\ UciSet(Row0(a).options[k[a]], Stored(Current(a), k[a]), a, LineNo(a))
             /\ k' = [k EXCEPT ![a] = @ + 1]
             /\ UNCHANGED <<pc, pfn, got, pass, replies>>
      BY <1>1, <2>1, <2>3 DEF SetOption, Row0
    <2>5. \A code : UNCHANGED <<staged, writer>> /\ AtCmd_Respond(a, code, << >>) => Answer(a, code)
      BY <2>2 DEF Answer
    <2>6. k[a] <= Len(Row0(a).options) => k[a] \in DOMAIN Row0(a).options
      BY <2>1, <2>3
    <2>7. QED
      BY <2>1, <2>4, <2>5, <2>6, <2>2 DEF Finishes, Sets
  <1>2. CASE GetOption(a)
    <2>1. Running(a) /\ pc[a] = "get" /\ pfn[a] \in Commands /\ got[a] \in Seq(Gotten)
      BY <1>2, RunningRow DEF GetOption, Running, Types, LocalTypes
    <2>2. UNCHANGED <<committed, staged, batch, page, writer>>
      BY <1>2 DEF GetOption, store
    <2> DEFINE row == QueryRow(pfn[a], got[a])
               i == Len(got[a]) + 1
    <2>3. /\ DOMAIN row.options = 1 .. Len(row.options) /\ Len(row.options) \in Nat
          /\ \A j \in DOMAIN row.options : row.options[j] \in Config
      <3>1. OptionsOf(pfn[a]) \subseteq Config
        BY <2>1, NoneAssumption DEF Types, Coherent
      <3> DEFINE s == got[a] # << >> /\ Head(got[a]) \in ServerModes
      <3>2. s \in BOOLEAN /\ row = RowOf(pfn[a], 0, s)
        BY DEF QueryRow
      <3> HIDE DEF s, row
      <3>3. QED
        BY <3>1, <3>2, <2>1, RowsDistinct, RowsIn DEF Distinct
    <2>4. \/ UNCHANGED pfn /\ AtCmd_Respond(a, "OK", got[a])
          \/ /\ i <= Len(row.options)
             /\ \E v \in {None, UciGet(row.options[i])} :
                  /\ v = None => v = UciGet(row.options[i]) \/ pfn[a] = "WANN"
                  /\ got' = [got EXCEPT ![a] = Append(@, v)]
             /\ UNCHANGED <<pc, pfn, k, pass, replies>>
      <3> DEFINE dhcp == pfn[a] = "WANN" /\ i > 1 /\ got[a][1] \in DhcpModes
      <3>1. CASE i > Len(row.options)
        BY <3>1, <1>2 DEF GetOption
      <3>2. CASE ~(i > Len(row.options))
        <4>1. /\ got' = [got EXCEPT ![a] = Append(@, IF dhcp THEN None ELSE UciGet(row.options[i]))]
              /\ UNCHANGED <<pc, pfn, k, pass, replies>>
          BY <3>2, <1>2 DEF GetOption
        <4>2. i <= Len(row.options)
          BY <3>2, <2>1, <2>3
        <4>3. dhcp => pfn[a] = "WANN"
          OBVIOUS
        <4> HIDE DEF dhcp, row, i
        <4>4. QED
          BY <4>1, <4>2, <4>3
      <3>3. QED
        BY <3>1, <3>2
    <2>5. i \in Nat /\ i >= 1
      BY <2>1
    <2>6. i <= Len(row.options) => UciGet(row.options[i]) \in Gotten /\ None \in Gotten
      <3> HIDE DEF row, i
      <3>1. QED
        BY <2>3, <2>5 DEF UciGet, Types, StoreTypes, Gotten, Settable
    <2>7. /\ i \in DOMAIN row.options <=> i <= Len(row.options)
          /\ \A v : Reads(a, v) <=> /\ i \in DOMAIN row.options
                                    /\ v = UciGet(row.options[i]) \/ (pfn[a] = "WANN" /\ v = None)
      <3>1. \A v : Reads(a, v) <=> /\ i \in DOMAIN row.options
                                   /\ v = UciGet(row.options[i]) \/ (pfn[a] = "WANN" /\ v = None)
        BY DEF Reads
      <3> HIDE DEF row, i
      <3>2. i \in DOMAIN row.options <=> i <= Len(row.options)
        BY <2>3, <2>5
      <3>3. QED
        BY <3>1, <3>2, Zenon
    <2>8. Values(a) = got[a]
      BY <2>1 DEF Values
    <2> HIDE DEF row, i
    <2>9. QED
      BY <2>1, <2>2, <2>4, <2>6, <2>7, <2>8 DEF Finishes, Answer, Gets
  <1>3. CASE Commit(a)
    BY <1>3 DEF Commit, Commits
  <1>4. CASE SeeChanges(a)
    BY <1>4 DEF SeeChanges, CommitsAgain, Finishes, Answer, Values
  <1>5. CASE SendReply(a)
    BY <1>5 DEF SendReply, Sends, store
  <1>6. QED
    BY <1>1, <1>2, <1>3, <1>4, <1>5, ReadLineKinds DEF Serve

(***************************************************************************)
(* An answer adds one entry to the replies of its agent, and leaves it at  *)
(* the next line.                                                          *)
(***************************************************************************)
LEMMA AnswerShape ==
  ASSUME Types, NEW a \in Agents, NEW code \in Codes, Answer(a, code),
         pfn' \in [Agents -> Commands \cup {None}]
  PROVE  /\ LocalTypes' /\ StoreTypes'
         /\ UNCHANGED <<committed, staged, batch, page, writer>>
         /\ pc'[a] = "line" /\ Len(replies'[a]) = Len(replies[a]) + 1
         /\ Len(replies[a]) \in Nat /\ Len(replies'[a]) \in Nat
         /\ \A i \in 1 .. Len(replies[a]) : replies'[a][i] = replies[a][i]
         /\ replies'[a][Len(replies[a]) + 1].code = code
         /\ replies'[a][Len(replies[a]) + 1].ran = pfn'[a]
         /\ replies'[a][Len(replies[a]) + 1].values = Values(a) /\ got'[a] = << >>
         /\ \A b \in Agents \ {a} : /\ pc'[b] = pc[b] /\ k'[b] = k[b]
                                    /\ replies'[b] = replies[b] /\ got'[b] = got[b]
  <1>1. PICK values \in Seq(Gotten) : values = Values(a) /\ AtCmd_Respond(a, code, values)
    <2>1. << >> \in Seq(Gotten)
      OBVIOUS
    <2>2. QED
      BY <2>1 DEF Answer, Values, Types, LocalTypes
  <1>2. UNCHANGED <<committed, staged, batch, page, writer>>
    BY DEF Answer
  <1> DEFINE r == [code |-> code, ran |-> pfn'[a], values |-> values]
  <1>3. r \in Replies /\ r.code = code /\ r.ran = pfn'[a] /\ r.values = Values(a)
    BY <1>1 DEF Replies
  <1> HIDE DEF r
  <1>4. replies' = [replies EXCEPT ![a] = Append(@, r)]
    BY <1>1 DEF AtCmd_Respond, r
  <1>5. replies' \in [Agents -> Seq(Replies)] /\ replies'[a] = Append(replies[a], r)
        /\ replies[a] \in Seq(Replies)
    BY <1>3, <1>4 DEF Types, LocalTypes
  <1>6. /\ pc' \in [Agents -> Steps] /\ k' \in [Agents -> Nat] /\ pc'[a] = "line"
        /\ \A b \in Agents \ {a} : pc'[b] = pc[b] /\ k'[b] = k[b]
    BY <1>1 DEF AtCmd_Respond, Types, LocalTypes, Steps
  <1>7. /\ got' \in [Agents -> Seq(Gotten)] /\ got'[a] = << >>
        /\ \A b \in Agents \ {a} : got'[b] = got[b]
    BY <1>1 DEF AtCmd_Respond, Types, LocalTypes
  <1>8. LocalTypes' /\ StoreTypes'
    BY <1>2, <1>5, <1>6, <1>7 DEF Types, LocalTypes, StoreTypes
  <1>9. \A b \in Agents \ {a} : replies'[b] = replies[b]
    BY <1>4 DEF Types, LocalTypes
  <1>10. /\ Len(replies'[a]) = Len(replies[a]) + 1
         /\ Len(replies[a]) \in Nat
         /\ \A i \in 1 .. Len(replies[a]) : replies'[a][i] = replies[a][i]
         /\ replies'[a][Len(replies[a]) + 1] = r
    BY <1>3, <1>5
  <1>11. /\ replies'[a][Len(replies[a]) + 1].code = code
         /\ replies'[a][Len(replies[a]) + 1].ran = pfn'[a]
         /\ replies'[a][Len(replies[a]) + 1].values = Values(a)
    BY <1>3, <1>10
  <1>12. Len(replies'[a]) \in Nat
    BY <1>10
  <1>13. \A b \in Agents \ {a} : /\ pc'[b] = pc[b] /\ k'[b] = k[b]
                                /\ replies'[b] = replies[b] /\ got'[b] = got[b]
    BY <1>6, <1>7, <1>9, Zenon
  <1>14. QED
    BY <1>2, <1>6, <1>7, <1>8, <1>10, <1>11, <1>12, <1>13, Zenon

(* Nothing an agent's locals say depends on those of another. *)
LEMMA OthersCoherent ==
  ASSUME Types, NEW b \in Agents, pc'[b] = pc[b], batch'[b] = batch[b], pfn'[b] = pfn[b],
         k'[b] = k[b], replies'[b] = replies[b]
  PROVE  Coherent(b)'
  BY DEF Types, Coherent, Running, Current, LineNo

LEMMA RefusesTypes ==
  ASSUME Types, NEW a \in Agents, Refuses(a)
  PROVE  Types'
  <1>1. PICK code \in Codes : Answer(a, code)
    BY DEF Refuses, Codes
  <1>2. pfn' = pfn /\ pfn' \in [Agents -> Commands \cup {None}]
    BY DEF Refuses, Types, LocalTypes
  <1>3. Coherent(a)'
    BY <1>1, <1>2, AnswerShape DEF Refuses, AtLine, Types, Coherent, Running, LineNo
  <1>4. \A b \in Agents \ {a} : Coherent(b)'
    BY <1>1, <1>2, AnswerShape, OthersCoherent
  <1>5. QED
    BY <1>1, <1>2, <1>3, <1>4, AnswerShape DEF Types

LEMMA EntersFacts ==
  ASSUME Types, NEW a \in Agents, NEW c \in Commands, Enters(a, c)
  PROVE  /\ pfn' \in [Agents -> Commands \cup {None}] /\ pfn'[a] = c
         /\ \A b \in Agents \ {a} : pfn'[b] = pfn[b]
         /\ OptionsOf(c) \subseteq Config /\ c # None
         /\ LineNo(a) \in DOMAIN batch[a]
         /\ Len(replies[a]) < Len(batch[a])
         /\ ~Running(a) /\ pc[a] = "line"
  <1>1. LineNo(a) \in DOMAIN batch[a] /\ c # None
    BY NoneAssumption DEF Enters, AtLine, LineNo, Types, LocalTypes
  <1>2. OptionsOf(c) \subseteq Config
    <2>1. Current(a).cmd \in Commands \cup {Unknown, Malformed}
      BY <1>1, LineTypes DEF Types, Current
    <2>2. QED
      BY <1>1, <2>1 DEF Enters, Types, Coherent, Current
  <1>3. QED
    BY <1>1, <1>2 DEF Enters, AtLine, Types, LocalTypes, Running, LineNo

LEMMA EntersTypes ==
  ASSUME Types, NEW a \in Agents, NEW c \in Commands, Enters(a, c), Begins(a) \/ Answer(a, "ERR")
  PROVE  Types'
  <1>1. CASE Answer(a, "ERR")
    <2>1. LocalTypes' /\ StoreTypes'
      BY <1>1, AnswerShape, EntersFacts DEF Codes
    <2>2. Coherent(a)'
      BY <1>1, AnswerShape, EntersFacts DEF Types, Coherent, Running, Codes
    <2>3. \A b \in Agents \ {a} : Coherent(b)'
      BY <1>1, AnswerShape, EntersFacts, OthersCoherent DEF Codes
    <2>4. QED
      BY <2>1, <2>2, <2>3 DEF Types
  <1>2. CASE Begins(a)
    <2>1. PICK p \in {"set", "get", "commit"} :
             /\ pc' = [pc EXCEPT ![a] = p]
             /\ p = "set" <=> Current(a).set
             /\ p = "set" => k' = [k EXCEPT ![a] = 1]
             /\ p # "set" => UNCHANGED k
      BY <1>2 DEF Begins
    <2>2. UNCHANGED <<got, replies, committed, staged, batch, page, writer>>
      BY <1>2 DEF Begins
    <2>3. /\ pc' \in [Agents -> Steps] /\ pc'[a] = p
          /\ \A b \in Agents \ {a} : pc'[b] = pc[b]
      BY <2>1 DEF Types, LocalTypes, Steps
    <2>4. /\ k' \in [Agents -> Nat]
          /\ p = "set" => k'[a] = 1
          /\ \A b \in Agents \ {a} : k'[b] = k[b]
      <3>1. CASE p = "set"
        BY <2>1, <3>1 DEF Types, LocalTypes
      <3>2. CASE p # "set"
        BY <2>1, <3>2 DEF Types, LocalTypes
      <3>3. QED
        BY <3>1, <3>2
    <2>5. LocalTypes' /\ StoreTypes'
      <3>1. LocalTypes'
        BY <2>2, <2>3, <2>4, EntersFacts DEF Types, LocalTypes
      <3>2. QED
        BY <2>2, <3>1 DEF Types, StoreTypes
    <2>6. Coherent(a)'
      <3>1. Coherent(a) /\ Current(a).cmd # Malformed
        BY DEF Types, Enters
      <3>2. /\ batch'[a] = batch[a] /\ replies'[a] = replies[a] /\ pfn'[a] = c
            /\ c # None /\ OptionsOf(c) \subseteq Config /\ Len(replies[a]) < Len(batch[a])
        BY <2>2, EntersFacts
      <3>3. pc'[a] = "set" <=> Current(a).set
        BY <2>1, <2>3
      <3>4. pc'[a] \in {"set", "get", "commit"} /\ (pc'[a] = "set" => k'[a] >= 1)
        BY <2>3, <2>4
      <3>5. Current(a)' = Current(a)
        BY <3>2 DEF Current, LineNo
      <3>6. QED
        BY <3>1, <3>2, <3>3, <3>4, <3>5 DEF Coherent, Running
    <2>7. \A b \in Agents \ {a} : Coherent(b)'
      BY <2>2, <2>3, <2>4, EntersFacts, OthersCoherent
    <2>8. QED
      BY <2>5, <2>6, <2>7 DEF Types
  <1>3. QED
    BY <1>1, <1>2

(* What a "uci set" leaves, whoever it is that sets. *)
LEMMA UciSetFacts ==
  ASSUME StoreTypes, NEW o \in Config, NEW v \in Settable, NEW by \in Agents \cup {Web},
         NEW no \in Nat, UciSet(o, v, by, no), UNCHANGED committed
  PROVE  /\ staged' \in [Config -> Gotten] /\ writer' \in [Config -> Writers]
         /\ writer'[o] = [by |-> by, line |-> no] /\ UciGet(o)' = v
         /\ writer'[o].by = by /\ writer'[o].line = no
         /\ \A c \in Config \ {o} : /\ writer'[c] = writer[c] /\ staged'[c] = staged[c]
                                    /\ UciGet(c)' = UciGet(c)
  <1>1. v # None /\ v \in Gotten /\ [by |-> by, line |-> no] \in Writers
    BY NoneAssumption DEF Settable, Gotten, Writers
  <1>2. /\ staged' \in [Config -> Gotten] /\ writer' \in [Config -> Writers]
        /\ writer'[o] = [by |-> by, line |-> no] /\ staged'[o] = v
        /\ \A c \in Config \ {o} : writer'[c] = writer[c] /\ staged'[c] = staged[c]
    BY <1>1 DEF UciSet, StoreTypes
  <1>3. QED
    BY <1>1, <1>2 DEF UciGet

LEMMA UciCommitFacts ==
  ASSUME StoreTypes, UciCommit
  PROVE  /\ committed' \in [Config -> Settable] /\ staged' \in [Config -> Gotten]
         /\ \A o \in Config : staged'[o] = None /\ UciGet(o)' = UciGet(o)
  <1>1. \A o \in Config : UciGet(o) \in Settable
    BY DEF UciGet, StoreTypes, Gotten
  <1>2. \A o \in Config : committed'[o] = UciGet(o) /\ staged'[o] = None
    BY DEF UciCommit
  <1>3. committed' \in [Config -> Settable]
    BY <1>1 DEF UciCommit
  <1>4. staged' \in [Config -> Gotten]
    BY DEF UciCommit, Gotten
  <1>5. QED
    BY <1>2, <1>3, <1>4 DEF UciGet

LEMMA SetsFacts ==
  ASSUME Types, NEW a \in Agents, Sets(a)
  PROVE  /\ Running(a) /\ Row0(a).options[k[a]] \in Config
         /\ Stored(Current(a), k[a]) \in Settable /\ LineNo(a) \in Nat
         /\ k'[a] = k[a] + 1 /\ k[a] \in Nat /\ k[a] >= 1
         /\ k' \in [Agents -> Nat] /\ \A b \in Agents \ {a} : k'[b] = k[b]
  <1>1. Running(a)
    BY DEF Sets, Running
  <1>2. Stored(Current(a), k[a]) \in Settable
    BY <1>1, RunningRow, LineTypes DEF Types, Current
  <1>3. k'[a] = k[a] + 1 /\ k[a] \in Nat /\ k[a] >= 1
    BY DEF Sets, Types, LocalTypes, Coherent
  <1>4. k' \in [Agents -> Nat] /\ \A b \in Agents \ {a} : k'[b] = k[b]
    BY DEF Sets, Types, LocalTypes
  <1>5. LineNo(a) \in Nat
    BY DEF LineNo, Types, LocalTypes
  <1>6. QED
    BY <1>1, <1>2, <1>3, <1>4, <1>5, RunningRow DEF Sets

LEMMA SetsStore ==
  ASSUME Types, NEW a \in Agents, Sets(a)
  PROVE  \E o \in Config, v \in Settable, n \in Nat :
           /\ o = Row0(a).options[k[a]] /\ v = Stored(Current(a), k[a]) /\ n = LineNo(a)
           /\ staged' \in [Config -> Gotten] /\ writer' \in [Config -> Writers]
           /\ writer'[o] = [by |-> a, line |-> n] /\ UciGet(o)' = v
           /\ writer'[o].by = a /\ writer'[o].line = n
           /\ \A c \in Config \ {o} : /\ writer'[c] = writer[c] /\ staged'[c] = staged[c]
                                      /\ UciGet(c)' = UciGet(c)
  <1>1. PICK o \in Config, v \in Settable, n \in Nat :
          o = Row0(a).options[k[a]] /\ v = Stored(Current(a), k[a]) /\ n = LineNo(a)
    BY SetsFacts
  <1>2. UciSet(o, v, a, n) /\ UNCHANGED committed /\ StoreTypes /\ a \in Agents \cup {Web}
    BY <1>1 DEF Sets, Types
  <1>3. /\ staged' \in [Config -> Gotten] /\ writer' \in [Config -> Writers]
        /\ writer'[o] = [by |-> a, line |-> n] /\ UciGet(o)' = v
        /\ writer'[o].by = a /\ writer'[o].line = n
        /\ \A c \in Config \ {o} : /\ writer'[c] = writer[c] /\ staged'[c] = staged[c]
                                   /\ UciGet(c)' = UciGet(c)
    BY <1>2, UciSetFacts
  <1>4. QED
    BY <1>1, <1>3

LEMMA SetsTypes ==
  ASSUME Types, NEW a \in Agents, Sets(a)
  PROVE  Types'
  <1>1. UNCHANGED <<committed, pc, batch, pfn, got, replies, page>>
    BY DEF Sets
  <1>2. staged' \in [Config -> Gotten] /\ writer' \in [Config -> Writers]
    BY SetsStore
  <1>3. LocalTypes' /\ StoreTypes'
    BY <1>1, <1>2, SetsFacts DEF Types, LocalTypes, StoreTypes
  <1>4. Coherent(a)'
    BY <1>1, SetsFacts DEF Types, Coherent, Running, Current, LineNo
  <1>5. \A b \in Agents \ {a} : Coherent(b)'
    BY <1>1, SetsFacts, OthersCoherent
  <1>6. QED
    BY <1>3, <1>4, <1>5 DEF Types

LEMMA FinishesTypes ==
  ASSUME Types, NEW a \in Agents, Finishes(a)
  PROVE  Types'
  <1>1. PICK code \in Codes : Answer(a, code)
    BY DEF Finishes, Codes
  <1>2. pfn' = pfn /\ pfn' \in [Agents -> Commands \cup {None}] /\ Running(a)
    BY DEF Finishes, Types, LocalTypes, Running
  <1>3. Coherent(a)'
    <2>1. /\ pc'[a] = "line" /\ batch'[a] = batch[a] /\ pfn'[a] = pfn[a]
          /\ Len(replies'[a]) = Len(replies[a]) + 1 /\ Len(replies[a]) \in Nat
      BY <1>1, <1>2, AnswerShape
    <2>2. Coherent(a) /\ Len(batch[a]) \in Nat
      BY DEF Types, LocalTypes
    <2>3. Len(replies[a]) < Len(batch[a])
      BY <1>2, <2>2 DEF Coherent
    <2>4. Len(replies'[a]) <= Len(batch'[a])
      BY <2>1, <2>2, <2>3
    <2>5. QED
      BY <2>1, <2>2, <2>4 DEF Coherent, Running
  <1>4. \A b \in Agents \ {a} : Coherent(b)'
    BY <1>1, <1>2, AnswerShape, OthersCoherent
  <1>5. QED
    BY <1>1, <1>2, <1>3, <1>4, AnswerShape DEF Types

LEMMA GetsTypes ==
  ASSUME Types, NEW a \in Agents, Gets(a)
  PROVE  Types'
  <1>1. UNCHANGED <<committed, staged, pc, batch, pfn, k, replies, page, writer>>
    BY DEF Gets
  <1>2. got' \in [Agents -> Seq(Gotten)]
    BY DEF Gets, Types, LocalTypes
  <1>3. LocalTypes'
    BY <1>1, <1>2 DEF Types, LocalTypes
  <1>4. StoreTypes'
    BY <1>1 DEF Types, StoreTypes
  <1>5. \A b \in Agents : Coherent(b)'
    BY <1>1, OthersCoherent
  <1>6. QED
    BY <1>3, <1>4, <1>5 DEF Types

LEMMA CommitsTypes ==
  ASSUME Types, NEW a \in Agents, Commits(a) \/ CommitsAgain(a)
  PROVE  Types'
  <1>1. UNCHANGED <<batch, pfn, k, got, replies, page, writer>>
    BY DEF Commits, CommitsAgain
  <1>2. PICK p \in {"changes", "commit"} : pc' = [pc EXCEPT ![a] = p]
    BY DEF Commits, CommitsAgain
  <1>3. /\ pc' \in [Agents -> Steps] /\ pc'[a] = p
        /\ \A b \in Agents \ {a} : pc'[b] = pc[b]
    BY <1>2 DEF Types, LocalTypes, Steps
  <1>4. LocalTypes'
    BY <1>1, <1>3 DEF Types, LocalTypes
  <1>5. committed' \in [Config -> Settable] /\ staged' \in [Config -> Gotten]
    BY UciCommitFacts DEF Commits, CommitsAgain, Types, StoreTypes
  <1>6. StoreTypes'
    BY <1>1, <1>5 DEF Types, StoreTypes
  <1>7. Coherent(a)'
    <2>1. Coherent(a) /\ Running(a) /\ pc[a] # "set"
      BY DEF Types, Running, Commits, CommitsAgain
    <2>2. QED
      BY <2>1, <1>1, <1>3 DEF Coherent, Running, Current, LineNo
  <1>8. \A b \in Agents \ {a} : Coherent(b)'
    BY <1>1, <1>3, OthersCoherent
  <1>9. QED
    BY <1>4, <1>6, <1>7, <1>8 DEF Types

(* A batch is taken, or given back answered. *)
LEMMA BatchTypes ==
  ASSUME Types, NEW a \in Agents, NEW b \in Seq(AtLines), NEW p \in {"idle", "line"},
         \A i \in DOMAIN b : b[i].cmd \in Commands => OptionsOf(b[i].cmd) \subseteq Config,
         p = "idle" => b = << >>,
         pc' = [pc EXCEPT ![a] = p], batch' = [batch EXCEPT ![a] = b],
         replies' = [replies EXCEPT ![a] = << >>],
         pfn' \in [Agents -> Commands \cup {None}], pfn'[a] \in {None, pfn[a]},
         \A c \in Agents \ {a} : pfn'[c] = pfn[c], UNCHANGED <<k, got>>
  PROVE  LocalTypes' /\ \A c \in Agents : Coherent(c)'
  <1>1. pc' \in [Agents -> Steps] /\ pc'[a] = p /\ \A c \in Agents \ {a} : pc'[c] = pc[c]
    BY DEF Types, LocalTypes, Steps
  <1>2. /\ batch' \in [Agents -> Seq(AtLines)] /\ batch'[a] = b
        /\ \A c \in Agents \ {a} : batch'[c] = batch[c]
    BY DEF Types, LocalTypes
  <1>3. /\ replies' \in [Agents -> Seq(Replies)] /\ replies'[a] = << >>
        /\ \A c \in Agents \ {a} : replies'[c] = replies[c]
    <2>1. << >> \in Seq(Replies)
      OBVIOUS
    <2>2. QED
      BY <2>1 DEF Types, LocalTypes
  <1>4. LocalTypes'
    BY <1>1, <1>2, <1>3 DEF Types, LocalTypes
  <1>5. Coherent(a)'
    <2>1. Coherent(a) /\ Len(b) \in Nat /\ Len(<< >>) = 0
      BY DEF Types
    <2>2. QED
      BY <2>1, <1>1, <1>2, <1>3 DEF Coherent, Running
  <1>6. \A c \in Agents \ {a} : Coherent(c)'
    BY <1>1, <1>2, <1>3, OthersCoherent
  <1>7. QED
    BY <1>4, <1>5, <1>6

LEMMA SendsTypes ==
  ASSUME Types, NEW a \in Agents, Sends(a)
  PROVE  Types'
  <1> DEFINE b == << >>
  <1>1. b \in Seq(AtLines) /\ \A i \in DOMAIN b : b[i].cmd \in Commands => OptionsOf(b[i].cmd) \subseteq Config
    OBVIOUS
  <1>2. /\ pc' = [pc EXCEPT ![a] = "idle"] /\ batch' = [batch EXCEPT ![a] = b]
        /\ replies' = [replies EXCEPT ![a] = << >>]
        /\ pfn' = pfn /\ pfn \in [Agents -> Commands \cup {None}]
        /\ UNCHANGED <<k, got>>
    BY DEF Sends, Types, LocalTypes
  <1> HIDE DEF b
  <1>3. LocalTypes' /\ \A c \in Agents : Coherent(c)'
    <2>1. "idle" = "idle" => b = << >>
      BY DEF b
    <2>2. QED
      BY <1>1, <1>2, <2>1, BatchTypes
  <1>4. StoreTypes'
    BY DEF Sends, Types, StoreTypes
  <1>5. QED
    BY <1>3, <1>4 DEF Types

(* The history of an agent's own options starts anew with its batch. *)
LEMMA ReceiveFacts ==
  ASSUME Types, NEW a \in Agents, NEW b \in BatchesOf[a], Receive(a, b)
  PROVE  /\ pc[a] = "idle" /\ UNCHANGED <<committed, staged, k, got, page>>
         /\ pfn' \in [Agents -> Commands \cup {None}] /\ pfn'[a] = None
         /\ writer' \in [Config -> Writers]
         /\ pc'[a] = "line" /\ batch'[a] = b /\ replies'[a] = << >>
         /\ \A c \in Agents \ {a} : /\ pc'[c] = pc[c] /\ batch'[c] = batch[c]
                                    /\ pfn'[c] = pfn[c] /\ replies'[c] = replies[c]
         /\ \A o \in Config : \/ writer'[o] = writer[o] /\ writer[o].by # a
                              \/ /\ writer[o].by = a /\ writer'[o] = [by |-> a, line |-> 0]
                                 /\ writer'[o].by = a
  <1>1. [by |-> a, line |-> 0] \in Writers
    BY DEF Writers
  <1>2. writer' = [o \in Config |-> IF writer[o].by # a THEN writer[o]
                                    ELSE [by |-> a, line |-> 0]]
    BY DEF Receive
  <1>3. writer' \in [Config -> Writers]
    BY <1>1, <1>2 DEF Types, StoreTypes
  <1>4. /\ pfn' = [pfn EXCEPT ![a] = None] /\ pc[a] = "idle"
        /\ pc' = [pc EXCEPT ![a] = "line"] /\ batch' = [batch EXCEPT ![a] = b]
        /\ replies' = [replies EXCEPT ![a] = << >>]
        /\ UNCHANGED <<committed, staged, k, got, page>>
    BY DEF Receive, Waits, store
  <1>5. QED
    BY <1>2, <1>3, <1>4 DEF Types, LocalTypes

LEMMA ReceiveTypes ==
  ASSUME Types, NEW a \in Agents, NEW b \in BatchesOf[a], Receive(a, b)
  PROVE  Types'
  <1>1. /\ pc' = [pc EXCEPT ![a] = "line"] /\ batch' = [batch EXCEPT ![a] = b]
        /\ replies' = [replies EXCEPT ![a] = << >>]
    BY DEF Receive
  <1>2. /\ b \in Seq(AtLines)
        /\ \A i \in DOMAIN b : b[i].cmd \in Commands => OptionsOf(b[i].cmd) \subseteq Config
    BY BatchAssumption
  <1>3. /\ pfn' \in [Agents -> Commands \cup {None}] /\ pfn'[a] \in {None, pfn[a]}
        /\ \A c \in Agents \ {a} : pfn'[c] = pfn[c]
        /\ UNCHANGED <<k, got>>
    BY ReceiveFacts
  <1>4. LocalTypes' /\ \A c \in Agents : Coherent(c)'
    BY <1>1, <1>2, <1>3, BatchTypes
  <1>5. StoreTypes'
    BY ReceiveFacts DEF Types, StoreTypes
  <1>6. QED
    BY <1>4, <1>5 DEF Types

(***************************************************************************)
(* The page and a restart.                                                 *)
(***************************************************************************)
Page == (\E p \in Pages : uci_httpd_convert(p)) \/ WebSet \/ WebCommit

LEMMA LocalsStay ==
  ASSUME Types, UNCHANGED <<pc, batch, pfn, k, got, replies>>
  PROVE  LocalTypes' /\ \A a \in Agents : Coherent(a)'
  <1>1. LocalTypes'
    BY DEF Types, LocalTypes
  <1>2. QED
    BY <1>1, OthersCoherent

LEMMA WebSetFacts ==
  ASSUME Types, WebSet
  PROVE  /\ page[1][1] \in Config /\ page[1][2] \in Settable
         /\ page' \in Seq(Config \X Settable)
         /\ UciSet(page[1][1], page[1][2], Web, 0) /\ UNCHANGED committed
         /\ UNCHANGED <<pc, batch, pfn, k, got, replies>>
  <1>1. page \in Seq(Config \X Settable) /\ page # << >> /\ page' = Tail(page)
    BY DEF WebSet, Types, StoreTypes
  <1>2. page[1] \in Config \X Settable /\ page' \in Seq(Config \X Settable)
    BY <1>1
  <1>3. QED
    BY <1>2 DEF WebSet, locals

LEMMA WebSetStore ==
  ASSUME Types, WebSet
  PROVE  \E o \in Config :
           /\ staged' \in [Config -> Gotten] /\ writer' \in [Config -> Writers]
           /\ writer'[o] = [by |-> Web, line |-> 0] /\ writer'[o].by = Web
           /\ \A c \in Config \ {o} : /\ writer'[c] = writer[c] /\ staged'[c] = staged[c]
                                      /\ UciGet(c)' = UciGet(c)
  <1>1. PICK o \in Config, v \in Settable : UciSet(o, v, Web, 0)
    BY WebSetFacts
  <1>2. UNCHANGED committed /\ StoreTypes /\ Web \in Agents \cup {Web} /\ 0 \in Nat
    BY WebSetFacts DEF Types
  <1>3. QED
    BY <1>1, <1>2, UciSetFacts

LEMMA PageTypes == Types /\ Page => Types'
  <1> SUFFICES ASSUME Types, Page PROVE Types'
    OBVIOUS
  <1>1. UNCHANGED <<pc, batch, pfn, k, got, replies>>
    BY DEF Page, uci_httpd_convert, WebSet, WebCommit, locals
  <1>2. StoreTypes'
    <2>1. CASE \E p \in Pages : uci_httpd_convert(p)
      BY <2>1, PageAssumption DEF uci_httpd_convert, store, Types, StoreTypes, Settable
    <2>2. CASE WebSet
      BY <2>2, WebSetFacts, WebSetStore DEF Types, StoreTypes
    <2>3. CASE WebCommit
      BY <2>3, UciCommitFacts DEF WebCommit, Types, StoreTypes
    <2>4. QED
      BY <2>1, <2>2, <2>3 DEF Page
  <1>3. QED
    BY <1>1, <1>2, LocalsStay DEF Types

LEMMA BootFacts ==
  ASSUME Boot
  PROVE  /\ UNCHANGED committed
         /\ \A a \in Agents : /\ pc'[a] = "idle" /\ replies'[a] = << >>
                              /\ batch'[a] = << >> /\ pfn'[a] = None
         /\ \A o \in Config : writer'[o] = Nobody /\ staged'[o] = None
  BY DEF Boot

LEMMA BootTypes == Types /\ Boot => Types'
  <1> SUFFICES ASSUME Types, Boot PROVE Types'
    OBVIOUS
  <1>1. << >> \in Seq(AtLines) /\ << >> \in Seq(Gotten) /\ << >> \in Seq(Replies)
    OBVIOUS
  <1>2. Nobody \in Writers
    BY DEF Nobody, Writers
  <1>3. LocalTypes'
    BY <1>1 DEF Boot, LocalTypes, Steps
  <1>4. StoreTypes'
    BY <1>2 DEF Boot, Types, StoreTypes, Settable, Gotten
  <1>5. \A a \in Agents : Coherent(a)'
    BY BootFacts DEF Coherent, Running
  <1>6. QED
    BY <1>3, <1>4, <1>5 DEF Types

LEMMA Kinds ==
  ASSUME Types, [Next]_vars
  PROVE  \/ \E a \in Agents :
              \/ Refuses(a)
              \/ \E c \in Commands : Enters(a, c) /\ (Begins(a) \/ Answer(a, "ERR"))
              \/ Sets(a) \/ Finishes(a) \/ Gets(a)
              \/ Commits(a) \/ CommitsAgain(a) \/ Sends(a)
              \/ \E b \in BatchesOf[a] : Receive(a, b)
         \/ Page \/ Boot
         \/ UNCHANGED <<committed, staged, pc, batch, pfn, k, got, replies, page, writer>>
  <1>1. CASE UNCHANGED vars
    BY <1>1 DEF vars, store, locals
  <1>2. CASE \E a \in Agents : Serve(a)
    BY <1>2, ServeKinds
  <1>3. QED
    BY <1>1, <1>2 DEF Next, Page, Reboot, PowerLoss

LEMMA TypesStep == Types /\ [Next]_vars => Types'
  <1> SUFFICES ASSUME Types, [Next]_vars PROVE Types'
    OBVIOUS
  <1>1. CASE UNCHANGED <<committed, staged, pc, batch, pfn, k, got, replies, page, writer>>
    BY <1>1, LocalsStay DEF Types, StoreTypes
  <1>2. QED
    BY <1>1, Kinds, RefusesTypes, EntersTypes, SetsTypes, FinishesTypes, GetsTypes,
       CommitsTypes, SendsTypes, ReceiveTypes, PageTypes, BootTypes

(***************************************************************************)
(* Every variable keeps its type, and a handler runs only for a line that  *)
(* names it or is answered by it, with every option it touches in use.     *)
(***************************************************************************)
THEOREM TypeCorrect == Spec => []Types
  BY InitTypes, TypesStep, PTL DEF Spec

-----------------------------------------------------------------------------
(***************************************************************************)
(* What AT+Z has committed.  An option of which this process is the last   *)
(* writer can only have been staged again by itself.                       *)
(***************************************************************************)
Saved == \A a \in Agents : pc[a] = "changes" =>
           \A o \in Config : writer[o].by = a => staged[o] = None

LEMMA SavedStep == Types /\ Saved /\ [Next]_vars => Saved'
  <1> SUFFICES ASSUME Types, Saved, [Next]_vars,
                      NEW b \in Agents, pc'[b] = "changes",
                      NEW o \in Config, writer'[o].by = b
               PROVE  staged'[o] = None
    BY DEF Saved
  <1>1. ASSUME NEW a \in Agents, Refuses(a) \/ Finishes(a)
        PROVE  staged'[o] = None
    <2>1. UNCHANGED <<staged, writer>> /\ pfn' = pfn /\ \E code \in Codes : Answer(a, code)
      BY <1>1 DEF Refuses, Finishes, Answer, Codes
    <2>2. pfn' \in [Agents -> Commands \cup {None}]
      BY <2>1 DEF Types, LocalTypes
    <2>3. pc[b] = "changes"
      BY <2>1, <2>2, AnswerShape
    <2>4. QED
      BY <2>1, <2>3 DEF Saved
  <1>2. ASSUME NEW a \in Agents, NEW c \in Commands, Enters(a, c),
               Begins(a) \/ Answer(a, "ERR")
        PROVE  staged'[o] = None
    <2>1. UNCHANGED <<staged, writer>>
      BY <1>2 DEF Begins, Answer
    <2>2. pc[b] = "changes"
      <3>1. CASE Answer(a, "ERR")
        BY <1>2, <3>1, AnswerShape, EntersFacts DEF Codes
      <3>2. CASE Begins(a)
        BY <3>2 DEF Begins, Types, LocalTypes
      <3>3. QED
        BY <1>2, <3>1, <3>2
    <2>3. QED
      BY <2>1, <2>2 DEF Saved
  <1>3. ASSUME NEW a \in Agents, Sets(a)
        PROVE  staged'[o] = None
    <2>1. UciSet(Row0(a).options[k[a]], Stored(Current(a), k[a]), a, LineNo(a))
          /\ UNCHANGED <<pc, committed>> /\ pc[a] = "set"
      BY <1>3 DEF Sets
    <2>2. b # a /\ pc[b] = "changes"
      BY <2>1
    <2>3. PICK q \in Config, v \in Settable, n \in Nat :
             /\ writer'[q].by = a
             /\ \A c \in Config \ {q} : /\ writer'[c] = writer[c] /\ staged'[c] = staged[c]
                                        /\ UciGet(c)' = UciGet(c)
      BY <1>3, SetsStore, Zenon
    <2>4. QED
      BY <2>2, <2>3 DEF Saved
  <1>4. ASSUME NEW a \in Agents, Gets(a) \/ CommitsAgain(a) \/ Sends(a)
        PROVE  staged'[o] = None
    <2>1. UNCHANGED <<staged, writer>>
      BY <1>4 DEF Gets, CommitsAgain, Sends
    <2>2. pc[b] = "changes"
      BY <1>4 DEF Gets, CommitsAgain, Sends, Types, LocalTypes
    <2>3. QED
      BY <2>1, <2>2 DEF Saved
  <1>5. ASSUME NEW a \in Agents, Commits(a)
        PROVE  staged'[o] = None
    BY <1>5, UciCommitFacts DEF Commits, Types
  <1>6. ASSUME NEW a \in Agents, NEW c \in BatchesOf[a], Receive(a, c)
        PROVE  staged'[o] = None
    <2>1. CASE b = a
      BY <1>6, <2>1, ReceiveFacts
    <2>2. CASE b # a
      <3>1. pc[b] = "changes" /\ UNCHANGED staged
        BY <1>6, <2>2, ReceiveFacts
      <3>2. writer[o].by = b
        BY <1>6, <2>2, ReceiveFacts
      <3>3. QED
        BY <3>1, <3>2 DEF Saved
    <2>3. QED
      BY <2>1, <2>2
  <1>7. CASE Page
    <2>1. UNCHANGED pc
      BY <1>7 DEF Page, uci_httpd_convert, WebSet, WebCommit, locals
    <2>2. CASE \E p \in Pages : uci_httpd_convert(p)
      BY <2>1, <2>2 DEF uci_httpd_convert, store, Saved
    <2>3. CASE WebSet
      <3>1. PICK q \in Config : /\ writer'[q].by = Web
                               /\ \A c \in Config \ {q} : /\ writer'[c] = writer[c]
                                                          /\ staged'[c] = staged[c]
        BY <2>3, WebSetStore
      <3>2. QED
        BY <2>1, <3>1, WriterAssumption DEF Saved
    <2>4. CASE WebCommit
      BY <2>4, UciCommitFacts DEF WebCommit, Types
    <2>5. QED
      BY <1>7, <2>2, <2>3, <2>4 DEF Page
  <1>8. CASE Boot
    BY <1>8, BootFacts
  <1>9. CASE UNCHANGED <<committed, staged, pc, batch, pfn, k, got, replies, page, writer>>
    BY <1>9 DEF Saved
  <1>10. QED
    BY <1>1, <1>2, <1>3, <1>4, <1>5, <1>6, <1>7, <1>8, <1>9, Kinds

LEMMA InitSaved == Init => Saved
  BY DEF Init, Saved

(***************************************************************************)
(* When AT+Z answers and the restart is ordered, everything this process   *)
(* set before and nobody set since is permanent (at_cmd_table.c 416-428).  *)
(***************************************************************************)
THEOREM RestartKeepsOwn == Spec => OwnSaved
  <1>1. Types /\ Saved /\ [Next]_vars =>
          [\A a \in Agents : pc[a] = "changes" /\ pc'[a] = "line" =>
             \A o \in Config : writer[o].by = a => staged[o] = None]_vars
    BY DEF Saved
  <1>2. QED
    BY <1>1, InitTypes, TypesStep, InitSaved, SavedStep, PTL DEF Spec, OwnSaved

-----------------------------------------------------------------------------
(***************************************************************************)
(* Which handler answers.  The function pointer names the last command of  *)
(* the table among the lines read so far, the current one included while   *)
(* its handler runs; it is empty as long as there was none.                *)
(***************************************************************************)
LinesRead(a) == IF Running(a) THEN LineNo(a) ELSE Len(replies[a])

Last(a, n, c) == \E j \in Known(a, n) :
                   batch[a][j].cmd = c /\ \A h \in Known(a, n) : h <= j

Pointer(a, n, c) == /\ c = None => Known(a, n) = {}
                    /\ c # None => Last(a, n, c)

Right(a, i) ==
  LET r == replies[a][i]
      l == batch[a][i]
      known == Known(a, i)
  IN /\ (r.code = "ERR1") <=> (l.cmd = Malformed)
     /\ (r.code = "ERR2") <=> (l.cmd = Unknown /\ known = {})
     /\ known = {} => r.ran = None
     /\ \A j \in known : (\A h \in known : h <= j) => r.ran = batch[a][j].cmd

Order(a) == /\ pc[a] # "idle" => Pointer(a, LinesRead(a), pfn[a])
            /\ \A i \in DOMAIN replies[a] : Right(a, i)

Ordered == \A a \in Agents : Order(a)

LEMMA InitOrdered == Init => Ordered
  BY DEF Init, Ordered, Order

(* What was right, and what the pointer names, depends on the batch alone. *)
LEMMA SameBatch ==
  ASSUME NEW a \in Agents, batch'[a] = batch[a], NEW i, NEW c
  PROVE  /\ Known(a, i)' = Known(a, i) /\ Pointer(a, i, c)' = Pointer(a, i, c)
         /\ replies'[a][i] = replies[a][i] => Right(a, i)' = Right(a, i)
  BY DEF Known, Pointer, Last, Right

LEMMA OthersOrder ==
  ASSUME Types, NEW b \in Agents, Order(b), pc'[b] = pc[b], batch'[b] = batch[b], pfn'[b] = pfn[b],
         replies'[b] = replies[b]
  PROVE  Order(b)'
  <1>1. LinesRead(b)' = LinesRead(b)
    BY DEF LinesRead, LineNo, Running
  <1>2. \A n : Pointer(b, n, pfn[b])' <=> Pointer(b, n, pfn'[b])
    BY SameBatch
  <1>3. QED
    BY <1>1, SameBatch DEF Order

(* One more line that names no command of the table leaves Known as it is. *)
LEMMA KnownNext ==
  ASSUME Types, NEW a \in Agents, LineNo(a) \in DOMAIN batch[a]
  PROVE  Known(a, LineNo(a)) =
           Known(a, Len(replies[a]))
             \cup (IF Current(a).cmd \in Commands THEN {LineNo(a)} ELSE {})
  <1>1. Len(replies[a]) \in Nat /\ LineNo(a) = Len(replies[a]) + 1
    BY DEF Types, LocalTypes, LineNo
  <1>2. QED
    BY <1>1 DEF Known, Current

LEMMA LastIsOne ==
  ASSUME NEW a \in Agents, NEW n \in Nat, NEW c, Last(a, n, c),
         NEW j \in Known(a, n), \A h \in Known(a, n) : h <= j
  PROVE  c = batch[a][j].cmd
  <1>1. Known(a, n) \subseteq 1 .. n
    BY DEF Known
  <1>2. PICK i \in Known(a, n) : batch[a][i].cmd = c /\ \A h \in Known(a, n) : h <= i
    BY DEF Last
  <1>3. i = j
    BY <1>1, <1>2
  <1>4. QED
    BY <1>2, <1>3

LEMMA AnswerOrder ==
  ASSUME Types, NEW a \in Agents, Order(a), NEW code \in Codes, Answer(a, code),
         pfn' \in [Agents -> Commands \cup {None}], LineNo(a) \in DOMAIN batch[a],
         (code = "ERR1") <=> (Current(a).cmd = Malformed),
         (code = "ERR2") <=> (Current(a).cmd = Unknown /\ pfn'[a] = None),
         Pointer(a, LineNo(a), pfn'[a])
  PROVE  Order(a)'
  <1>1. PICK n \in Nat, c \in Commands \cup {None} : n = LineNo(a) /\ c = pfn'[a]
    BY DEF Types, LocalTypes, LineNo
  <1>2. Len(replies[a]) \in Nat /\ n = Len(replies[a]) + 1 /\ batch'[a] = batch[a]
    BY <1>1, AnswerShape DEF LineNo
  <1>3. Len(replies'[a]) = n /\ DOMAIN replies'[a] = 1 .. n
    BY <1>2, AnswerShape DEF LocalTypes
  <1>4. Pointer(a, n, c)
    BY <1>1
  <1>5. c = None <=> Known(a, n) = {}
    BY <1>4 DEF Pointer, Last
  <1>6. Right(a, n)'
    <2>1. /\ replies'[a][n].code = code /\ replies'[a][n].ran = c
          /\ batch'[a][n] = Current(a) /\ Known(a, n)' = Known(a, n)
      BY <1>1, <1>2, AnswerShape, SameBatch DEF Current
    <2>2. (code = "ERR1") <=> (batch'[a][n].cmd = Malformed)
      BY <2>1
    <2>3. (code = "ERR2") <=> (batch'[a][n].cmd = Unknown /\ Known(a, n)' = {})
      BY <1>1, <1>5, <2>1
    <2>4. \A j \in Known(a, n)' : (\A h \in Known(a, n)' : h <= j) => c = batch'[a][j].cmd
      <3>1. \A j \in Known(a, n) : (\A h \in Known(a, n) : h <= j) => c = batch[a][j].cmd
        <4> SUFFICES ASSUME NEW j \in Known(a, n), \A h \in Known(a, n) : h <= j
                     PROVE  c = batch[a][j].cmd
          OBVIOUS
        <4>1. Last(a, n, c)
          BY <1>4, <1>5 DEF Pointer
        <4>2. QED
          BY <4>1, LastIsOne
      <3>2. QED
        BY <1>2, <2>1, <3>1
    <2>5. Known(a, n)' = {} => c = None
      BY <1>5, <2>1
    <2>6. QED
      BY <2>1, <2>2, <2>3, <2>4, <2>5 DEF Right
  <1>7. \A i \in DOMAIN replies'[a] : Right(a, i)'
    <2>1. \A i \in 1 .. Len(replies[a]) : Right(a, i)'
      <3> SUFFICES ASSUME NEW i \in 1 .. Len(replies[a]) PROVE Right(a, i)'
        OBVIOUS
      <3>1. replies'[a][i] = replies[a][i]
        BY AnswerShape
      <3>2. Right(a, i)
        BY DEF Order, Types, LocalTypes
      <3>3. QED
        BY <1>2, <3>1, <3>2, SameBatch
    <2>2. QED
      BY <1>2, <1>3, <1>6, <2>1
  <1>8. pc'[a] = "line" /\ LinesRead(a)' = n
    BY <1>3, AnswerShape DEF LinesRead, Running
  <1>9. Pointer(a, n, c)'
    BY <1>2, <1>4, SameBatch
  <1>10. QED
    BY <1>1, <1>7, <1>8, <1>9 DEF Order

LEMMA RefusesOrder ==
  ASSUME Types, NEW a \in Agents, Order(a), Refuses(a)
  PROVE  Order(a)'
  <1>1. LineNo(a) \in DOMAIN batch[a] /\ LinesRead(a) = Len(replies[a]) /\ pc[a] = "line"
    BY DEF Refuses, AtLine, LinesRead, Running, LineNo, Types, LocalTypes
  <1>2. pfn' = pfn /\ pfn' \in [Agents -> Commands \cup {None}]
    BY DEF Refuses, Types, LocalTypes
  <1>3. Known(a, LineNo(a)) = Known(a, Len(replies[a]))
    BY <1>1, KnownNext, NotCommands DEF Refuses
  <1>4. Pointer(a, LineNo(a), pfn'[a])
    BY <1>1, <1>2, <1>3 DEF Order, Pointer, Last
  <1>5. PICK code \in {"ERR1", "ERR2"} :
          /\ Answer(a, code)
          /\ code = "ERR1" => Current(a).cmd = Malformed
          /\ code = "ERR2" => Current(a).cmd = Unknown /\ pfn[a] = None
    BY DEF Refuses
  <1>6. /\ (code = "ERR1") <=> (Current(a).cmd = Malformed)
        /\ (code = "ERR2") <=> (Current(a).cmd = Unknown /\ pfn'[a] = None)
        /\ code \in Codes
    BY <1>2, <1>5 DEF Unknown, Malformed, Codes
  <1>7. QED
    BY <1>1, <1>2, <1>4, <1>5, <1>6, AnswerOrder

LEMMA EntersPointer ==
  ASSUME Types, NEW a \in Agents, NEW c \in Commands, Order(a), Enters(a, c)
  PROVE  Pointer(a, LineNo(a), c)
  <1>1. LineNo(a) \in DOMAIN batch[a] /\ c # None /\ pc[a] = "line"
        /\ LinesRead(a) = Len(replies[a])
    BY EntersFacts DEF LinesRead
  <1>2. Len(replies[a]) \in Nat /\ LineNo(a) = Len(replies[a]) + 1
    BY DEF Types, LocalTypes, LineNo
  <1>3. CASE Current(a).cmd \in Commands
    <2>1. Known(a, LineNo(a)) = Known(a, Len(replies[a])) \cup {LineNo(a)}
      BY <1>1, <1>3, KnownNext
    <2>2. batch[a][LineNo(a)].cmd = c
      BY <1>3, NotCommands DEF Enters, Current
    <2>3. \A h \in Known(a, LineNo(a)) : h <= LineNo(a)
      BY <1>2 DEF Known
    <2>4. QED
      BY <1>1, <2>1, <2>2, <2>3 DEF Pointer, Last
  <1>4. CASE Current(a).cmd \notin Commands
    <2>1. Known(a, LineNo(a)) = Known(a, Len(replies[a]))
      BY <1>1, <1>4, KnownNext
    <2>2. c = pfn[a]
      BY <1>1, <1>4, LineTypes DEF Enters, Types, Current
    <2>3. QED
      BY <1>1, <2>1, <2>2 DEF Order, Pointer, Last
  <1>5. QED
    BY <1>3, <1>4

LEMMA EntersOrder ==
  ASSUME Types, NEW a \in Agents, NEW c \in Commands, Order(a), Enters(a, c),
         Begins(a) \/ Answer(a, "ERR")
  PROVE  Order(a)'
  <1>1. Pointer(a, LineNo(a), c) /\ pfn'[a] = c /\ c # None
    BY EntersPointer, EntersFacts
  <1>2. CASE Answer(a, "ERR")
    <2>1. /\ LineNo(a) \in DOMAIN batch[a] /\ Current(a).cmd # Malformed
          /\ pfn' \in [Agents -> Commands \cup {None}]
      BY EntersFacts DEF Enters
    <2>2. /\ "ERR" \in Codes
          /\ ("ERR" = "ERR1") <=> (Current(a).cmd = Malformed)
          /\ ("ERR" = "ERR2") <=> (Current(a).cmd = Unknown /\ pfn'[a] = None)
      BY <1>1, <2>1 DEF Codes
    <2>3. QED
      BY <1>1, <1>2, <2>1, <2>2, AnswerOrder
  <1>3. CASE Begins(a)
    <2>1. UNCHANGED <<batch, replies>> /\ pc'[a] \in {"set", "get", "commit"}
      BY <1>3 DEF Begins, Types, LocalTypes
    <2>2. PICK n : n = LineNo(a)
      OBVIOUS
    <2>3. LinesRead(a)' = n
      BY <2>1, <2>2 DEF LinesRead, Running, LineNo
    <2>4. Pointer(a, n, c)'
      BY <1>1, <2>1, <2>2, SameBatch
    <2>5. \A i \in DOMAIN replies[a] : Right(a, i)'
      BY <2>1, SameBatch DEF Order
    <2>6. QED
      BY <1>1, <2>1, <2>3, <2>4, <2>5 DEF Order
  <1>4. QED
    BY <1>2, <1>3

LEMMA FinishesOrder ==
  ASSUME Types, NEW a \in Agents, Order(a), Finishes(a)
  PROVE  Order(a)'
  <1>1. Running(a) /\ LinesRead(a) = LineNo(a) /\ pfn[a] # None /\ Current(a).cmd # Malformed
    BY DEF Finishes, Running, LinesRead, Types, Coherent
  <1>2. LineNo(a) \in DOMAIN batch[a]
    BY <1>1, RunningRow
  <1>3. pfn' = pfn /\ pfn' \in [Agents -> Commands \cup {None}]
    BY DEF Finishes, Types, LocalTypes
  <1>4. Pointer(a, LineNo(a), pfn'[a])
    BY <1>1, <1>3 DEF Order, Running
  <1>5. PICK code \in {"OK", "ERR"} : Answer(a, code)
    BY DEF Finishes
  <1>6. /\ code \in Codes
        /\ (code = "ERR1") <=> (Current(a).cmd = Malformed)
        /\ (code = "ERR2") <=> (Current(a).cmd = Unknown /\ pfn'[a] = None)
    BY <1>1, <1>3 DEF Codes
  <1>7. QED
    BY <1>2, <1>3, <1>4, <1>5, <1>6, AnswerOrder

(* A step inside a handler: the agent stays at its line. *)
LEMMA StaysOrder ==
  ASSUME Types, NEW a \in Agents, Order(a), Running(a), pc'[a] \in {"set", "get", "commit", "changes"},
         UNCHANGED <<batch, pfn, replies>>
  PROVE  Order(a)'
  <1>1. PICK n, c : n = LineNo(a) /\ c = pfn[a]
    OBVIOUS
  <1>2. LinesRead(a)' = n /\ Pointer(a, n, c)
    BY <1>1 DEF LinesRead, LineNo, Running, Order
  <1>3. Pointer(a, n, c)'
    BY <1>2, SameBatch
  <1>4. \A i \in DOMAIN replies[a] : Right(a, i)'
    BY SameBatch DEF Order
  <1>5. QED
    BY <1>1, <1>2, <1>3, <1>4 DEF Order

LEMMA OrderedStep == Types /\ Ordered /\ [Next]_vars => Ordered'
  <1> SUFFICES ASSUME Types, Ordered, [Next]_vars, NEW b \in Agents
               PROVE  Order(b)'
    BY DEF Ordered
  <1>0. Order(b)
    BY DEF Ordered
  <1>1. ASSUME NEW a \in Agents, Refuses(a) \/ Finishes(a)
        PROVE  Order(b)'
    <2>1. CASE a = b
      BY <1>0, <1>1, <2>1, RefusesOrder, FinishesOrder
    <2>2. CASE a # b
      <3>1. UNCHANGED <<pfn, batch>> /\ \E code \in Codes : Answer(a, code)
        BY <1>1 DEF Refuses, Finishes, Answer, Codes
      <3>2. pfn' \in [Agents -> Commands \cup {None}]
        BY <3>1 DEF Types, LocalTypes
      <3>3. QED
        BY <1>0, <2>2, <3>1, <3>2, AnswerShape, OthersOrder
    <2>3. QED
      BY <2>1, <2>2
  <1>2. ASSUME NEW a \in Agents, NEW c \in Commands, Enters(a, c),
               Begins(a) \/ Answer(a, "ERR")
        PROVE  Order(b)'
    <2>1. CASE a = b
      BY <1>0, <1>2, <2>1, EntersOrder
    <2>2. CASE a # b
      <3>1. pfn'[b] = pfn[b] /\ pfn' \in [Agents -> Commands \cup {None}]
        BY <1>2, <2>2, EntersFacts
      <3>2. CASE Answer(a, "ERR")
        BY <1>0, <2>2, <3>1, <3>2, AnswerShape, OthersOrder DEF Codes
      <3>3. CASE Begins(a)
        <4>1. pc'[b] = pc[b] /\ UNCHANGED <<batch, replies>>
          BY <2>2, <3>3 DEF Begins, Types, LocalTypes
        <4>2. QED
          BY <1>0, <3>1, <4>1, OthersOrder
      <3>4. QED
        BY <1>2, <3>2, <3>3
    <2>3. QED
      BY <2>1, <2>2
  <1>3. ASSUME NEW a \in Agents, Sets(a) \/ Gets(a) \/ Commits(a) \/ CommitsAgain(a)
        PROVE  Order(b)'
    <2>1. UNCHANGED <<batch, pfn, replies>> /\ Running(a)
      BY <1>3 DEF Sets, Gets, Commits, CommitsAgain, Running
    <2>2. /\ pc'[a] \in {"set", "get", "commit", "changes"}
          /\ a # b => pc'[b] = pc[b]
      BY <1>3 DEF Sets, Gets, Commits, CommitsAgain, Types, LocalTypes
    <2>3. QED
      BY <1>0, <2>1, <2>2, StaysOrder, OthersOrder
  <1>4. ASSUME NEW a \in Agents, Sends(a)
        PROVE  Order(b)'
    <2>1. CASE a = b
      BY <1>4, <2>1 DEF Sends, Order, Types, LocalTypes
    <2>2. CASE a # b
      <3>1. /\ pc'[b] = pc[b] /\ batch'[b] = batch[b] /\ pfn'[b] = pfn[b]
            /\ replies'[b] = replies[b]
        BY <1>4, <2>2 DEF Sends, Types, LocalTypes
      <3>2. QED
        BY <1>0, <3>1, OthersOrder
    <2>3. QED
      BY <2>1, <2>2
  <1>5. ASSUME NEW a \in Agents, NEW c \in BatchesOf[a], Receive(a, c)
        PROVE  Order(b)'
    <2>1. CASE a = b
      <3>1. pc'[b] = "line" /\ replies'[b] = << >> /\ pfn'[b] = None
        BY <1>5, <2>1, ReceiveFacts
      <3>2. LinesRead(b)' = 0
        BY <3>1 DEF LinesRead, Running
      <3>3. Pointer(b, 0, None)'
        <4>1. 1 .. 0 = {}
          OBVIOUS
        <4>2. QED
          BY <4>1 DEF Pointer, Known
      <3>4. QED
        BY <3>1, <3>2, <3>3 DEF Order
    <2>2. CASE a # b
      <3>1. /\ pc'[b] = pc[b] /\ batch'[b] = batch[b] /\ pfn'[b] = pfn[b]
            /\ replies'[b] = replies[b]
        <4>1. \A d \in Agents \ {a} : /\ pc'[d] = pc[d] /\ batch'[d] = batch[d]
                                      /\ pfn'[d] = pfn[d] /\ replies'[d] = replies[d]
          BY <1>5, ReceiveFacts
        <4>2. QED
          BY <2>2, <4>1
      <3>2. QED
        BY <1>0, <3>1, OthersOrder
    <2>3. QED
      BY <2>1, <2>2
  <1>6. CASE Page \/ UNCHANGED <<committed, staged, pc, batch, pfn, k, got, replies, page, writer>>
    <2>1. UNCHANGED <<pc, batch, pfn, replies>>
      BY <1>6 DEF Page, uci_httpd_convert, WebSet, WebCommit, locals
    <2>2. QED
      BY <1>0, <2>1, OthersOrder
  <1>7. CASE Boot
    BY <1>7, BootFacts DEF Order
  <1>8. QED
    BY <1>1, <1>2, <1>3, <1>4, <1>5, <1>6, <1>7, Kinds

(***************************************************************************)
(* Every line is answered by the right code and by the right handler, and  *)
(* no handler reaches over from an earlier batch (at_cmd.c 33-152).        *)
(***************************************************************************)
THEOREM RightHandler == Spec => []AnswersInOrder
  <1>1. Ordered => AnswersInOrder
    BY DEF Ordered, Order, Right, AnswersInOrder
  <1>2. QED
    BY <1>1, InitTypes, TypesStep, InitOrdered, OrderedStep, PTL DEF Spec

-----------------------------------------------------------------------------
(***************************************************************************)
(* What +OK promises: line i of a set option o to v, unless a later line   *)
(* or another process set it since.                                        *)
(***************************************************************************)
Held(a, i, o, v) ==
  /\ o \in Config
  /\ writer[o] # Nobody
  /\ writer[o].by = a => writer[o].line >= i
  /\ writer[o] = [by |-> a, line |-> i] => UciGet(o) = v

RowHeld(a, i, options, l, n) ==
  \A j \in DOMAIN options : j < n => Held(a, i, options[j], Stored(l, j))

Promise(a, i) ==
  replies[a][i].code = "OK" /\ batch[a][i].set =>
    LET options == SetRow(replies[a][i].ran, batch[a][i]).options
    IN \A j \in DOMAIN options : Held(a, i, options[j], Stored(batch[a][i], j))

(* The promises made, and those of the SET whose options are being set. *)
Keeps(a) ==
  /\ \A i \in DOMAIN replies[a] : Promise(a, i)
  /\ pc[a] = "set" => RowHeld(a, LineNo(a), Row0(a).options, Current(a), k[a])

Kept == \A a \in Agents : Keeps(a)

LEMMA InitKept == Init => Kept
  BY DEF Init, Kept, Keeps

(***************************************************************************)
(* Which steps leave every promise of b standing: all but b's own setting  *)
(* of an option, and taking a new batch.                                   *)
(***************************************************************************)
Stands(b) == \A i \in Nat : \A o \in Config : \A v : Held(b, i, o, v) => Held(b, i, o, v)'

LEMMA StandsSame ==
  ASSUME NEW b, UNCHANGED <<committed, staged, writer>>
  PROVE  Stands(b)
  BY DEF Stands, Held, UciGet

LEMMA StandsCommit ==
  ASSUME Types, NEW b, UciCommit, UNCHANGED writer
  PROVE  Stands(b)
  BY UciCommitFacts DEF Stands, Held, Types

(* Another's option is written over. *)
LEMMA StandsOther ==
  ASSUME Types, NEW b \in Agents, NEW q \in Config, NEW w \in Agents \cup {Web}, w # b,
         writer'[q].by = w, writer'[q] # Nobody,
         \A c \in Config \ {q} : writer'[c] = writer[c] /\ UciGet(c)' = UciGet(c)
  PROVE  Stands(b)
  <1> SUFFICES ASSUME NEW i \in Nat, NEW o \in Config, NEW v, Held(b, i, o, v)
               PROVE  Held(b, i, o, v)'
    BY DEF Stands
  <1>1. CASE o = q
    <2>1. writer'[o].by # b /\ writer'[o] # [by |-> b, line |-> i]
      BY <1>1
    <2>2. QED
      BY <1>1, <2>1 DEF Held
  <1>2. CASE o # q
    BY <1>2 DEF Held
  <1>3. QED
    BY <1>1, <1>2

LEMMA NobodyElse == \A w \in Agents \cup {Web} : \A n : [by |-> w, line |-> n] # Nobody
  BY WriterAssumption, SMTT(30) DEF Nobody

LEMMA PromisesStand ==
  ASSUME Types, NEW b \in Agents, Keeps(b), Stands(b),
         batch'[b] = batch[b], replies'[b] = replies[b]
  PROVE  \A i \in DOMAIN replies[b] : Promise(b, i)'
  <1>1. \A i \in DOMAIN replies[b] : i \in Nat /\ Promise(b, i)
    BY DEF Keeps, Types, LocalTypes
  <1>2. QED
    <2> SUFFICES ASSUME NEW i \in DOMAIN replies[b], replies[b][i].code = "OK", batch[b][i].set,
                        NEW j \in DOMAIN SetRow(replies[b][i].ran, batch[b][i]).options
                 PROVE  Held(b, i, SetRow(replies[b][i].ran, batch[b][i]).options[j],
                             Stored(batch[b][i], j))'
      BY DEF Promise
    <2>1. PICK o, v : /\ o = SetRow(replies[b][i].ran, batch[b][i]).options[j]
                      /\ v = Stored(batch[b][i], j)
      BY SMTT(30)
    <2>2. Held(b, i, o, v) /\ o \in Config
      BY <1>1, <2>1 DEF Promise, Held
    <2>3. Held(b, i, o, v)'
      BY <1>1, <2>2 DEF Stands
    <2>4. QED
      BY <2>1, <2>3 DEF Held

LEMMA KeepsStanding ==
  ASSUME Types, NEW b \in Agents, Keeps(b), Stands(b),
         pc'[b] = pc[b], batch'[b] = batch[b], pfn'[b] = pfn[b], k'[b] = k[b],
         replies'[b] = replies[b]
  PROVE  Keeps(b)'
  <1>2. \A i \in DOMAIN replies[b] : Promise(b, i)'
    BY PromisesStand
  <1>3. pc[b] = "set" => RowHeld(b, LineNo(b), Row0(b).options, Current(b), k[b])'
    <2> SUFFICES ASSUME pc[b] = "set" PROVE RowHeld(b, LineNo(b), Row0(b).options, Current(b), k[b])'
      OBVIOUS
    <2>0. LineNo(b) \in Nat
      BY DEF Types, LocalTypes, LineNo
    <2>1. PICK n, options, l, m :
             n = LineNo(b) /\ options = Row0(b).options /\ l = Current(b) /\ m = k[b]
      OBVIOUS
    <2>2. /\ LineNo(b)' = n /\ Row0(b)' = Row0(b) /\ Current(b)' = l /\ k'[b] = m
      BY <2>1 DEF LineNo, Row0, Current
    <2>3. RowHeld(b, n, options, l, m)
      BY <2>1 DEF Keeps
    <2>4. RowHeld(b, n, options, l, m)'
      BY <2>0, <2>1, <2>3, SMTT(30) DEF RowHeld, Stands, Held
    <2>5. QED
      BY <2>1, <2>2, <2>4
  <1>4. QED
    BY <1>2, <1>3 DEF Keeps

(* An answer that is no +OK to a SET promises nothing new. *)
LEMMA AnswerKeeps ==
  ASSUME Types, NEW a \in Agents, Keeps(a), NEW code \in Codes, Answer(a, code),
         pfn' \in [Agents -> Commands \cup {None}],
         code = "OK" /\ Current(a).set =>
           /\ pfn'[a] = pfn[a]
           /\ \A j \in DOMAIN Row0(a).options :
                Held(a, LineNo(a), Row0(a).options[j], Stored(Current(a), j))
  PROVE  Keeps(a)'
  <1>1. /\ UNCHANGED <<committed, staged, batch, page, writer>>
        /\ pc'[a] = "line" /\ Len(replies[a]) \in Nat
        /\ DOMAIN replies'[a] = 1 .. (Len(replies[a]) + 1)
        /\ \A i \in 1 .. Len(replies[a]) : replies'[a][i] = replies[a][i]
        /\ replies'[a][Len(replies[a]) + 1].code = code
        /\ replies'[a][Len(replies[a]) + 1].ran = pfn'[a]
    BY AnswerShape DEF LocalTypes
  <1>2. PICK n \in Nat : n = Len(replies[a]) + 1 /\ n = LineNo(a)
    BY <1>1 DEF LineNo
  <1>3. \A i, o, v : Held(a, i, o, v)' <=> Held(a, i, o, v)
    BY <1>1 DEF Held, UciGet
  <1>4. \A i \in 1 .. Len(replies[a]) : Promise(a, i)'
    <2> SUFFICES ASSUME NEW i \in 1 .. Len(replies[a]) PROVE Promise(a, i)'
      OBVIOUS
    <2>1. Promise(a, i)
      BY DEF Keeps, Types, LocalTypes
    <2>2. replies'[a][i] = replies[a][i] /\ batch'[a][i] = batch[a][i]
      BY <1>1
    <2>3. QED
      BY <1>3, <2>1, <2>2 DEF Promise
  <1>5. Promise(a, n)'
    <2> SUFFICES ASSUME code = "OK", Current(a).set
                 PROVE  LET options == SetRow(pfn'[a], Current(a)).options
                        IN \A j \in DOMAIN options :
                             Held(a, n, options[j], Stored(Current(a), j))
      BY <1>1, <1>2, <1>3 DEF Promise, Current
    <2>1. QED
      BY <1>2 DEF Row0
  <1>6. QED
    BY <1>1, <1>2, <1>4, <1>5 DEF Keeps

LEMMA FinishesKeeps ==
  ASSUME Types, NEW a \in Agents, Keeps(a), Finishes(a)
  PROVE  Keeps(a)'
  <1>1. pfn' = pfn /\ pfn' \in [Agents -> Commands \cup {None}] /\ Running(a)
    BY DEF Finishes, Types, LocalTypes, Running
  <1>2. CASE pc[a] = "set" /\ k[a] > Len(Row0(a).options) /\ Answer(a, "OK")
    <2>1. DOMAIN Row0(a).options = 1 .. Len(Row0(a).options) /\ Len(Row0(a).options) \in Nat
      BY <1>1, RunningRow DEF Distinct
    <2>2. k[a] \in Nat /\ RowHeld(a, LineNo(a), Row0(a).options, Current(a), k[a])
      BY <1>2 DEF Keeps, Types, LocalTypes
    <2>3. \A j \in DOMAIN Row0(a).options : j < k[a]
      BY <1>2, <2>1, <2>2
    <2>4. \A j \in DOMAIN Row0(a).options :
            Held(a, LineNo(a), Row0(a).options[j], Stored(Current(a), j))
      BY <2>2, <2>3 DEF RowHeld
    <2>5. QED
      BY <1>1, <1>2, <2>4, AnswerKeeps DEF Codes
  <1>3. CASE Answer(a, "ERR")
    BY <1>1, <1>3, AnswerKeeps DEF Codes
  <1>4. CASE pc[a] \in {"get", "changes"} /\ Answer(a, "OK")
    <2>1. ~Current(a).set
      BY <1>1, <1>4, RunningRow, LineTypes DEF Types, Coherent, Current
    <2>2. QED
      BY <1>1, <1>4, <2>1, AnswerKeeps DEF Codes
  <1>5. QED
    BY <1>2, <1>3, <1>4 DEF Finishes

LEMMA RefusesKeeps ==
  ASSUME Types, NEW a \in Agents, Keeps(a), Refuses(a)
  PROVE  Keeps(a)'
  <1>1. pfn' = pfn /\ pfn' \in [Agents -> Commands \cup {None}]
    BY DEF Refuses, Types, LocalTypes
  <1>2. PICK code \in {"ERR1", "ERR2"} : Answer(a, code)
    BY DEF Refuses
  <1>3. QED
    BY <1>1, <1>2, AnswerKeeps DEF Codes

LEMMA EntersKeeps ==
  ASSUME Types, NEW a \in Agents, NEW c \in Commands, Keeps(a), Enters(a, c),
         Begins(a) \/ Answer(a, "ERR")
  PROVE  Keeps(a)'
  <1>1. CASE Answer(a, "ERR")
    BY <1>1, EntersFacts, AnswerKeeps DEF Codes
  <1>2. CASE Begins(a)
    <2>1. UNCHANGED <<committed, staged, writer, batch, replies>>
      BY <1>2 DEF Begins
    <2>2. pc'[a] = "set" => k'[a] = 1
      BY <1>2 DEF Begins, Types, LocalTypes
    <2>3. \A i, o, v : Held(a, i, o, v)' <=> Held(a, i, o, v)
      BY <2>1 DEF Held, UciGet
    <2>4. \A i \in DOMAIN replies[a] : Promise(a, i)'
      BY <2>1, <2>3 DEF Promise, Keeps
    <2>5. pc'[a] = "set" => RowHeld(a, LineNo(a), Row0(a).options, Current(a), k[a])'
      <3>1. pfn' \in [Agents -> Commands \cup {None}] /\ pfn'[a] = c /\ LineNo(a) \in DOMAIN batch[a]
        BY EntersFacts
      <3>2. LineNo(a)' = LineNo(a) /\ Current(a)' = Current(a) /\ Row0(a)' = SetRow(c, Current(a))
        BY <2>1, <3>1 DEF LineNo, Current, Row0
      <3> DEFINE n == Len(Current(a).para)
                 s == Given(Current(a), 1) \in ServerModes
      <3>3. SetRow(c, Current(a)) = RowOf(c, n, s)
        BY DEF SetRow
      <3> HIDE DEF n, s
      <3>4. /\ DOMAIN SetRow(c, Current(a)).options = 1 .. Len(SetRow(c, Current(a)).options)
            /\ Len(SetRow(c, Current(a)).options) \in Nat
        BY <3>3, RowsDistinct DEF Distinct
      <3>5. \A j \in DOMAIN Row0(a)'.options : ~(j < 1)
        BY <3>2, <3>4
      <3>6. QED
        BY <2>2, <3>5 DEF RowHeld
    <2>6. QED
      BY <2>1, <2>4, <2>5 DEF Keeps
  <1>3. QED
    BY <1>1, <1>2

(* A later line, or a later parameter of this one, sets an option. *)
LEMMA SetsKeeps ==
  ASSUME Types, NEW a \in Agents, Keeps(a), Sets(a)
  PROVE  Keeps(a)'
  <1>1. PICK q \in Config, w \in Settable, n \in Nat :
           /\ q = Row0(a).options[k[a]] /\ w = Stored(Current(a), k[a]) /\ n = LineNo(a)
           /\ staged' \in [Config -> Gotten] /\ writer' \in [Config -> Writers]
           /\ writer'[q] = [by |-> a, line |-> n] /\ UciGet(q)' = w
           /\ writer'[q].by = a /\ writer'[q].line = n
           /\ \A c \in Config \ {q} : /\ writer'[c] = writer[c] /\ staged'[c] = staged[c]
                                      /\ UciGet(c)' = UciGet(c)
    BY SetsStore, Zenon
  <1>2. writer'[q] # Nobody
    BY <1>1, NobodyElse
  <1>3. \A i \in Nat : \A o, v : i < n /\ Held(a, i, o, v) => Held(a, i, o, v)'
    <2> SUFFICES ASSUME NEW i \in Nat, NEW o, NEW v, i < n, Held(a, i, o, v)
                 PROVE  Held(a, i, o, v)'
      OBVIOUS
    <2>1. CASE o = q
      <3>1. writer'[o] # [by |-> a, line |-> i] /\ writer'[o].line >= i
        BY <1>1, <2>1
      <3>2. QED
        BY <1>2, <2>1, <3>1 DEF Held
    <2>2. CASE o # q
      BY <1>1, <2>2 DEF Held
    <2>3. QED
      BY <2>1, <2>2
  <1>4. \A o, v : o # q /\ Held(a, n, o, v) => Held(a, n, o, v)'
    BY <1>1 DEF Held
  <1>5. Held(a, n, q, w)'
    BY <1>1, <1>2 DEF Held
  <1>6. UNCHANGED <<batch, pfn, replies, pc>> /\ pc[a] = "set" /\ k[a] \in DOMAIN Row0(a).options
    BY SMTT(30) DEF Sets
  <1>7. \A i \in DOMAIN replies[a] : Promise(a, i)'
    <2> SUFFICES ASSUME NEW i \in DOMAIN replies[a], replies[a][i].code = "OK", batch[a][i].set,
                        NEW j \in DOMAIN SetRow(replies[a][i].ran, batch[a][i]).options
                 PROVE  Held(a, i, SetRow(replies[a][i].ran, batch[a][i]).options[j],
                             Stored(batch[a][i], j))'
      BY <1>6 DEF Promise
    <2>1. PICK o, v : /\ o = SetRow(replies[a][i].ran, batch[a][i]).options[j]
                      /\ v = Stored(batch[a][i], j)
      OBVIOUS
    <2>2. i \in Nat /\ i < n
      BY <1>1 DEF Types, LocalTypes, LineNo
    <2>3. Held(a, i, o, v)
      BY <2>1 DEF Keeps, Promise
    <2>4. Held(a, i, o, v)'
      BY <1>3, <2>2, <2>3
    <2>5. o = (SetRow(replies[a][i].ran, batch[a][i]).options[j])' /\ v = Stored(batch[a][i], j)'
      BY <1>6, <2>1
    <2>6. QED
      BY <2>4, <2>5 DEF Held
  <1>8. RowHeld(a, LineNo(a), Row0(a).options, Current(a), k[a])'
    <2>1. PICK options, l, m : options = Row0(a).options /\ l = Current(a) /\ m = k[a]
      BY SMTT(30)
    <2>2. LineNo(a)' = n /\ Row0(a).options' = options /\ Current(a)' = l /\ k'[a] = m + 1
      BY <1>1, <1>6, <2>1, SetsFacts DEF LineNo, Row0, Current
    <2>3. RowHeld(a, n, options, l, m)
      BY <1>1, <1>6, <2>1 DEF Keeps
    <2>4. Distinct(options) /\ m \in Nat /\ m \in DOMAIN options /\ q = options[m] /\ w = Stored(l, m)
      BY <1>1, <1>6, <2>1, RunningRow, SetsFacts
    <2>5. RowHeld(a, n, options, l, m + 1)'
      <3> SUFFICES ASSUME NEW j \in DOMAIN options, j < m + 1
                   PROVE  Held(a, n, options[j], Stored(l, j))'
        BY DEF RowHeld
      <3>1. j \in Nat
        BY <2>4 DEF Distinct
      <3>2. CASE j = m
        BY <1>5, <2>4, <3>2
      <3>3. CASE j # m
        <4>1. j < m
          BY <2>4, <3>1, <3>3
        <4>2. options[j] # q
          BY <2>4, <3>3 DEF Distinct
        <4>3. Held(a, n, options[j], Stored(l, j))
          BY <2>3, <4>1 DEF RowHeld
        <4>4. QED
          BY <1>4, <4>2, <4>3
      <3>4. QED
        BY <3>2, <3>3
    <2>6. QED
      BY <2>2, <2>5 DEF RowHeld, Held
  <1>9. QED
    BY <1>6, <1>7, <1>8 DEF Keeps

LEMMA ReceiveStands ==
  ASSUME Types, NEW a \in Agents, NEW b \in Agents, a # b, NEW c \in BatchesOf[a], Receive(a, c)
  PROVE  Stands(b)
  <1>1. /\ UNCHANGED <<committed, staged>>
        /\ \A o \in Config : \/ writer'[o] = writer[o]
                             \/ /\ writer'[o] = [by |-> a, line |-> 0]
                                /\ writer'[o].by = a
    BY ReceiveFacts
  <1> SUFFICES ASSUME NEW i \in Nat, NEW o \in Config, NEW v, Held(b, i, o, v)
               PROVE  Held(b, i, o, v)'
    BY DEF Stands
  <1>2. CASE writer'[o] = writer[o]
    BY <1>1, <1>2 DEF Held, UciGet
  <1>3. CASE writer'[o] = [by |-> a, line |-> 0] /\ writer'[o].by = a
    <2>1. writer'[o] # Nobody
      BY <1>3, NobodyElse
    <2>2. writer'[o].by # b /\ writer'[o] # [by |-> b, line |-> i]
      BY <1>3
    <2>3. QED
      BY <2>1, <2>2 DEF Held
  <1>4. QED
    BY <1>1, <1>2, <1>3

LEMMA KeptStep == Types /\ Kept /\ [Next]_vars => Kept'
  <1> SUFFICES ASSUME Types, Kept, [Next]_vars, NEW b \in Agents
               PROVE  Keeps(b)'
    BY DEF Kept
  <1>0. Keeps(b)
    BY DEF Kept
  <1>1. ASSUME NEW a \in Agents, Refuses(a) \/ Finishes(a)
        PROVE  Keeps(b)'
    <2>1. CASE a = b
      BY <1>0, <1>1, <2>1, RefusesKeeps, FinishesKeeps
    <2>2. CASE a # b
      <3>1. /\ UNCHANGED <<pfn, batch, committed, staged, writer>>
            /\ \E code \in Codes : Answer(a, code)
        BY <1>1 DEF Refuses, Finishes, Answer, Codes
      <3>2. pfn' \in [Agents -> Commands \cup {None}]
        BY <3>1 DEF Types, LocalTypes
      <3>3. pc'[b] = pc[b] /\ k'[b] = k[b] /\ replies'[b] = replies[b]
        BY <2>2, <3>1, <3>2, AnswerShape
      <3>4. QED
        BY <1>0, <3>1, <3>3, StandsSame, KeepsStanding
    <2>3. QED
      BY <2>1, <2>2
  <1>2. ASSUME NEW a \in Agents, NEW c \in Commands, Enters(a, c),
               Begins(a) \/ Answer(a, "ERR")
        PROVE  Keeps(b)'
    <2>1. CASE a = b
      BY <1>0, <1>2, <2>1, EntersKeeps
    <2>2. CASE a # b
      <3>1. pfn'[b] = pfn[b] /\ pfn' \in [Agents -> Commands \cup {None}]
        BY <1>2, <2>2, EntersFacts
      <3>2. UNCHANGED <<batch, committed, staged, writer>>
        BY <1>2 DEF Begins, Answer
      <3>3. pc'[b] = pc[b] /\ k'[b] = k[b] /\ replies'[b] = replies[b]
        <4>1. CASE Answer(a, "ERR")
          BY <2>2, <3>1, <4>1, AnswerShape DEF Codes
        <4>2. CASE Begins(a)
          <5>1. pc'[b] = pc[b] /\ UNCHANGED replies
            BY <2>2, <4>2 DEF Begins, Types, LocalTypes
          <5>2. k' = [k EXCEPT ![a] = 1] \/ UNCHANGED k
            BY <4>2 DEF Begins
          <5>3. QED
            BY <2>2, <5>1, <5>2 DEF Types, LocalTypes
        <4>3. QED
          BY <1>2, <4>1, <4>2
      <3>4. QED
        BY <1>0, <3>1, <3>2, <3>3, StandsSame, KeepsStanding
    <2>3. QED
      BY <2>1, <2>2
  <1>3. ASSUME NEW a \in Agents, Sets(a)
        PROVE  Keeps(b)'
    <2>1. CASE a = b
      BY <1>0, <1>3, <2>1, SetsKeeps
    <2>2. CASE a # b
      <3>1. PICK q \in Config, w \in Settable, n \in Nat :
               /\ q = Row0(a).options[k[a]] /\ w = Stored(Current(a), k[a]) /\ n = LineNo(a)
               /\ staged' \in [Config -> Gotten] /\ writer' \in [Config -> Writers]
               /\ writer'[q] = [by |-> a, line |-> n] /\ UciGet(q)' = w
               /\ writer'[q].by = a /\ writer'[q].line = n
               /\ \A c \in Config \ {q} : /\ writer'[c] = writer[c] /\ staged'[c] = staged[c]
                                          /\ UciGet(c)' = UciGet(c)
        BY <1>3, SetsStore, Zenon
      <3>2. writer'[q] # Nobody
        BY <3>1, NobodyElse
      <3>3. Stands(b)
        BY <2>2, <3>1, <3>2, StandsOther
      <3>4. UNCHANGED <<pc, batch, pfn, replies>> /\ k'[b] = k[b]
        BY <1>3, <2>2, SetsFacts DEF Sets
      <3>5. QED
        BY <1>0, <3>3, <3>4, KeepsStanding
    <2>3. QED
      BY <2>1, <2>2
  <1>4. ASSUME NEW a \in Agents, Gets(a)
        PROVE  Keeps(b)'
    <2>1. UNCHANGED <<committed, staged, writer, pc, batch, pfn, k, replies>>
      BY <1>4 DEF Gets
    <2>2. QED
      BY <1>0, <2>1, StandsSame, KeepsStanding
  <1>5. ASSUME NEW a \in Agents, Commits(a) \/ CommitsAgain(a)
        PROVE  Keeps(b)'
    <2>1. /\ UNCHANGED <<batch, pfn, k, replies, writer>>
          /\ UciCommit \/ UNCHANGED <<committed, staged>>
      BY <1>5 DEF Commits, CommitsAgain
    <2>2. Stands(b)
      BY <2>1, StandsSame, StandsCommit
    <2>3. CASE a # b
      <3>1. pc'[b] = pc[b]
        BY <1>5, <2>3 DEF Commits, CommitsAgain, Types, LocalTypes
      <3>2. QED
        BY <1>0, <2>1, <2>2, <3>1, KeepsStanding
    <2>4. CASE a = b
      <3>1. pc'[b] # "set" /\ pc[b] # "set"
        BY <1>5, <2>4 DEF Commits, CommitsAgain, Types, LocalTypes
      <3>2. \A i \in DOMAIN replies[b] : Promise(b, i)'
        BY <1>0, <2>1, <2>2, PromisesStand
      <3>3. QED
        BY <2>1, <3>1, <3>2 DEF Keeps
    <2>5. QED
      BY <2>3, <2>4
  <1>6. ASSUME NEW a \in Agents, Sends(a)
        PROVE  Keeps(b)'
    <2>1. UNCHANGED <<committed, staged, writer, pfn, k>>
      BY <1>6 DEF Sends
    <2>2. CASE a = b
      <3>1. pc'[b] = "idle" /\ replies'[b] = << >>
        BY <1>6, <2>2 DEF Sends, Types, LocalTypes
      <3>2. QED
        BY <3>1 DEF Keeps
    <2>3. CASE a # b
      <3>1. pc'[b] = pc[b] /\ batch'[b] = batch[b] /\ replies'[b] = replies[b]
        BY <1>6, <2>3 DEF Sends, Types, LocalTypes
      <3>2. QED
        BY <1>0, <2>1, <3>1, StandsSame, KeepsStanding
    <2>4. QED
      BY <2>2, <2>3
  <1>7. ASSUME NEW a \in Agents, NEW c \in BatchesOf[a], Receive(a, c)
        PROVE  Keeps(b)'
    <2>1. CASE a = b
      <3>1. pc'[b] = "line" /\ replies'[b] = << >>
        BY <1>7, <2>1, ReceiveFacts
      <3>2. QED
        BY <3>1 DEF Keeps
    <2>2. CASE a # b
      <3>1. /\ UNCHANGED k
            /\ \A d \in Agents \ {a} : /\ pc'[d] = pc[d] /\ batch'[d] = batch[d]
                                       /\ pfn'[d] = pfn[d] /\ replies'[d] = replies[d]
        BY <1>7, ReceiveFacts
      <3>2. QED
        BY <1>0, <1>7, <2>2, <3>1, ReceiveStands, KeepsStanding
    <2>3. QED
      BY <2>1, <2>2
  <1>8. CASE Page
    <2>1. UNCHANGED <<pc, batch, pfn, k, replies>>
      BY <1>8 DEF Page, uci_httpd_convert, WebSet, WebCommit, locals
    <2>2. Stands(b)
      <3>1. CASE \E p \in Pages : uci_httpd_convert(p)
        BY <3>1, StandsSame DEF uci_httpd_convert, store
      <3>2. CASE WebSet
        <4>1. PICK q \in Config :
                 /\ writer'[q] = [by |-> Web, line |-> 0] /\ writer'[q].by = Web
                 /\ \A c \in Config \ {q} : /\ writer'[c] = writer[c] /\ staged'[c] = staged[c]
                                            /\ UciGet(c)' = UciGet(c)
          BY <3>2, WebSetStore, Zenon
        <4>2. writer'[q] # Nobody /\ Web # b
          BY <4>1, NobodyElse, WriterAssumption
        <4>3. QED
          BY <4>1, <4>2, StandsOther
      <3>3. CASE WebCommit
        BY <3>3, StandsCommit DEF WebCommit
      <3>4. QED
        BY <1>8, <3>1, <3>2, <3>3 DEF Page
    <2>3. QED
      BY <1>0, <2>1, <2>2, KeepsStanding
  <1>9. CASE Boot
    BY <1>9, BootFacts DEF Keeps
  <1>10. CASE UNCHANGED <<committed, staged, pc, batch, pfn, k, got, replies, page, writer>>
    BY <1>0, <1>10, StandsSame, KeepsStanding
  <1>11. QED
    BY <1>1, <1>2, <1>3, <1>4, <1>5, <1>6, <1>7, <1>8, <1>9, <1>10, Kinds

(***************************************************************************)
(* +OK to a SET: every option of the command has the value asked for,      *)
(* unless a later line or another process set it since.                    *)
(***************************************************************************)
THEOREM OkIsKept == Spec => []OkHolds
  <1>1. ASSUME Kept PROVE OkHolds
    <2> SUFFICES ASSUME NEW a \in Agents, NEW i \in DOMAIN replies[a],
                        replies[a][i].code = "OK", batch[a][i].set,
                        NEW j \in DOMAIN SetRow(replies[a][i].ran, batch[a][i]).options
                 PROVE  LET o == SetRow(replies[a][i].ran, batch[a][i]).options[j]
                        IN  /\ writer[o] # Nobody
                            /\ writer[o].by = a => writer[o].line >= i
                            /\ writer[o] = [by |-> a, line |-> i]
                                 => UciGet(o) = Stored(batch[a][i], j)
      BY DEF OkHolds
    <2>1. Promise(a, i)
      BY <1>1, Zenon DEF Kept, Keeps
    <2>2. Held(a, i, SetRow(replies[a][i].ran, batch[a][i]).options[j], Stored(batch[a][i], j))
      BY <2>1, Zenon DEF Promise
    <2>3. QED
      BY <2>2, ZenonT(30) DEF Held
  <1>2. QED
    BY <1>1, InitTypes, TypesStep, InitKept, KeptStep, PTL DEF Spec

-----------------------------------------------------------------------------
(***************************************************************************)
(* Where every value an agent has set in this batch comes from, and what   *)
(* its queries have read.  Line i of a ran the handler c and was the last  *)
(* to set o, from one of its first n - 1 parameters; all up to that one    *)
(* had passed their checks.                                                *)
(***************************************************************************)
SetBy(a, o, i, c, n) ==
  LET l == batch[a][i]
      row == SetRow(c, l)
  IN \E j \in DOMAIN row.options :
       /\ j < n /\ o = row.options[j] /\ UciGet(o) = Stored(l, j)
       /\ \A h \in 1 .. j : ~Rejects(row, h, l)

(* The SET l of c stopped at its n-th parameter, between two options.      *)
Broken(l, c, n) ==
  LET row == SetRow(c, l)
  IN row.each /\ n \in DOMAIN row.options /\ Rejects(row, n, l)

(* It was answered: in full, or up to the parameter that was bad.          *)
SetAndAnswered(a, o, i) ==
  LET r == replies[a][i]
  IN /\ r.ran \in Commands /\ batch[a][i].set
     /\ \E n \in Nat : /\ SetBy(a, o, i, r.ran, n)
                       /\ r.code = "OK" \/ Broken(batch[a][i], r.ran, n)

Traced(a) ==
  pc[a] # "idle" => \A o \in Config : writer[o].by = a =>
    \/ writer[o].line = 0
    \/ writer[o].line \in DOMAIN replies[a] /\ SetAndAnswered(a, o, writer[o].line)
    \/ /\ pc[a] = "set" /\ writer[o].line = LineNo(a)
       /\ SetBy(a, o, LineNo(a), pfn[a], k[a])

(* The parameters a handler has come past have passed their checks.        *)
Passing(a) ==
  pc[a] = "set" => /\ Passes(Row0(a), Current(a))
                   /\ \A h \in 1 .. (k[a] - 1) : ~Rejects(Row0(a), h, Current(a))

(* The values that a query by the handler c, behind the first u - 1 lines, *)
(* has read are those its last SET among these asked for.                  *)
Seen(a, values, c, u) ==
  /\ values # << >> => c \in Commands /\ OptionsOf(c) \subseteq Config
  /\ \A h \in 1 .. (u - 1) :
       LET l == batch[a][h]
           options == SetRow(c, l).options
           mine(o) == writer[o] = [by |-> a, line |-> h]
       IN /\ replies[a][h].ran = c /\ l.set
          /\ c = "SOCKA" => mine(options[1])
          => \A j \in DOMAIN options \cap DOMAIN values :
               mine(options[j]) /\ values[j] # None => values[j] = Stored(l, j)

Queried(a) ==
  /\ pc[a] # "get" => got[a] = << >>
  /\ pc[a] = "get" => /\ Seen(a, got[a], pfn[a], LineNo(a))
                      /\ pfn[a] # "WANN" => \A j \in DOMAIN got[a] : got[a][j] # None
  /\ \A i \in DOMAIN replies[a] : Seen(a, replies[a][i].values, replies[a][i].ran, i)

History(a) == Traced(a) /\ Passing(a) /\ Queried(a)
Histories == \A a \in Agents : History(a)

LEMMA InitHistory == Init => Histories
  BY DEF Init, Histories, History, Traced, Passing, Queried

(* The row a SET runs by: its options are the command's, each once.        *)
LEMMA SetRowFacts ==
  ASSUME Types, NEW a \in Agents, NEW i \in DOMAIN batch[a], NEW c \in Commands
  PROVE  LET row == SetRow(c, batch[a][i])
         IN /\ Distinct(row.options)
            /\ \A j \in DOMAIN row.options : row.options[j] \in OptionsOf(c)
            /\ row.each => c \in InTurn /\ row.checked = DOMAIN row.options
  <1>1. Len(batch[a][i].para) \in Nat
    BY LineTypes DEF Types
  <1> DEFINE n == Len(batch[a][i].para)
             s == Given(batch[a][i], 1) \in ServerModes
  <1>2. s \in BOOLEAN /\ SetRow(c, batch[a][i]) = RowOf(c, n, s)
    BY DEF SetRow
  <1> HIDE DEF n, s
  <1>3. n \in Nat
    BY <1>1 DEF n
  <1>4. QED
    BY <1>2, <1>3, RowsDistinct, RowsIn, RowsInTurn

(***************************************************************************)
(* Steps that leave the options b was the last to set as they are.         *)
(***************************************************************************)
Quiet(b) == \A o \in Config : writer'[o].by = b => writer'[o] = writer[o] /\ UciGet(o)' = UciGet(o)

LEMMA QuietSame ==
  ASSUME NEW b, UNCHANGED <<committed, staged, writer>>
  PROVE  Quiet(b)
  BY DEF Quiet, UciGet

LEMMA QuietCommit ==
  ASSUME Types, NEW b, UciCommit, UNCHANGED writer
  PROVE  Quiet(b)
  BY UciCommitFacts DEF Quiet, Types

LEMMA QuietOther ==
  ASSUME NEW b, NEW q \in Config, NEW w, w # b, writer'[q].by = w,
         \A c \in Config \ {q} : writer'[c] = writer[c] /\ UciGet(c)' = UciGet(c)
  PROVE  Quiet(b)
  <1> SUFFICES ASSUME NEW o \in Config, writer'[o].by = b
               PROVE  writer'[o] = writer[o] /\ UciGet(o)' = UciGet(o)
    BY DEF Quiet
  <1>1. o # q
    OBVIOUS
  <1>2. QED
    BY <1>1

LEMMA ReceiveQuiet ==
  ASSUME Types, NEW a \in Agents, NEW b \in Agents, a # b, NEW c \in BatchesOf[a], Receive(a, c)
  PROVE  Quiet(b)
  <1>1. UNCHANGED <<committed, staged>>
    BY ReceiveFacts
  <1>2. \A o \in Config : \/ writer'[o] = writer[o]
                          \/ writer'[o] = [by |-> a, line |-> 0] /\ writer'[o].by = a
    BY ReceiveFacts
  <1>3. \A o : UciGet(o)' = UciGet(o)
    BY <1>1 DEF UciGet
  <1>4. QED
    BY <1>2, <1>3 DEF Quiet

(* Of which line it is that set an option, the answer stays.               *)
LEMMA SetByStays ==
  ASSUME NEW a, NEW o, NEW i, NEW c, NEW n, batch'[a] = batch[a], UciGet(o)' = UciGet(o),
         SetBy(a, o, i, c, n)
  PROVE  SetBy(a, o, i, c, n)'
  BY DEF SetBy

LEMMA AnsweredStays ==
  ASSUME NEW a, NEW o, NEW i, batch'[a] = batch[a], UciGet(o)' = UciGet(o),
         replies'[a][i] = replies[a][i], SetAndAnswered(a, o, i)
  PROVE  SetAndAnswered(a, o, i)'
  <1>1. PICK c, d, l : c = replies[a][i].ran /\ d = replies[a][i].code /\ l = batch[a][i]
    OBVIOUS
  <1>2. PICK n \in Nat : SetBy(a, o, i, c, n) /\ (d = "OK" \/ Broken(l, c, n))
    BY <1>1 DEF SetAndAnswered
  <1>3. SetBy(a, o, i, c, n)'
    BY <1>2, SetByStays
  <1>4. c \in Commands /\ l.set
    BY <1>1 DEF SetAndAnswered
  <1>5. /\ replies'[a][i].ran = c /\ replies'[a][i].code = d /\ batch'[a][i] = l
    BY <1>1
  <1>6. Broken(l, c, n)' <=> Broken(l, c, n)
    BY DEF Broken
  <1>7. QED
    BY <1>2, <1>3, <1>4, <1>5, <1>6 DEF SetAndAnswered

LEMMA SeenStays ==
  ASSUME Types, NEW a \in Agents, NEW values, NEW c, NEW u \in Nat, u <= Len(replies[a]) + 1,
         batch'[a] = batch[a],
         \A h \in 1 .. Len(replies[a]) : replies'[a][h] = replies[a][h],
         \A o \in Config : \A h \in 1 .. Len(replies[a]) :
           writer'[o] = [by |-> a, line |-> h] => writer[o] = [by |-> a, line |-> h],
         Seen(a, values, c, u)
  PROVE  Seen(a, values, c, u)'
  <1> SUFFICES ASSUME NEW h \in 1 .. (u - 1)
               PROVE  LET l == batch'[a][h]
                          options == SetRow(c, l).options
                          mine(o) == writer'[o] = [by |-> a, line |-> h]
                      IN /\ replies'[a][h].ran = c /\ l.set
                         /\ c = "SOCKA" => mine(options[1])
                         => \A j \in DOMAIN options \cap DOMAIN values :
                              mine(options[j]) /\ values[j] # None => values[j] = Stored(l, j)
    BY DEF Seen
  <1>1. h \in 1 .. Len(replies[a]) /\ h \in DOMAIN batch[a]
    BY DEF Types, LocalTypes, Coherent
  <1> DEFINE l == batch[a][h]
             options == SetRow(c, l).options
             mine(o) == writer[o] = [by |-> a, line |-> h]
             mineNow(o) == writer'[o] = [by |-> a, line |-> h]
  <1> SUFFICES ASSUME replies[a][h].ran = c, l.set, c = "SOCKA" => mineNow(options[1]),
                      NEW j \in DOMAIN options \cap DOMAIN values,
                      mineNow(options[j]), values[j] # None
               PROVE  values[j] = Stored(l, j)
    BY <1>1
  <1>2. c \in Commands /\ OptionsOf(c) \subseteq Config
    BY DEF Seen
  <1>3. Distinct(options) /\ \A i \in DOMAIN options : options[i] \in Config
    BY <1>1, <1>2, SetRowFacts
  <1>4. j \in DOMAIN options /\ j \in DOMAIN values /\ 1 \in DOMAIN options
    BY <1>3 DEF Distinct
  <1>5. mine(options[j]) /\ (c = "SOCKA" => mine(options[1]))
    BY <1>1, <1>3, <1>4
  <1>6. QED
    BY <1>4, <1>5 DEF Seen

LEMMA HistoryStays ==
  ASSUME Types, NEW b \in Agents, History(b), Quiet(b),
         pc'[b] = pc[b] \/ (pc[b] \in {"commit", "changes"} /\ pc'[b] \in {"commit", "changes"}),
         batch'[b] = batch[b], pfn'[b] = pfn[b], k'[b] = k[b], got'[b] = got[b],
         replies'[b] = replies[b]
  PROVE  History(b)'
  <1>1. LineNo(b)' = LineNo(b) /\ Current(b)' = Current(b) /\ Row0(b)' = Row0(b)
    BY DEF LineNo, Current, Row0
  <1>2. Traced(b)'
    <2> SUFFICES ASSUME pc'[b] # "idle", NEW o \in Config, writer'[o].by = b
                 PROVE  \/ writer'[o].line = 0
                        \/ /\ writer'[o].line \in DOMAIN replies'[b]
                           /\ SetAndAnswered(b, o, writer[o].line)'
                        \/ /\ pc'[b] = "set" /\ writer'[o].line = LineNo(b)'
                           /\ SetBy(b, o, LineNo(b), pfn[b], k[b])'
      BY DEF Traced
    <2>1. writer'[o] = writer[o] /\ UciGet(o)' = UciGet(o)
      BY DEF Quiet
    <2>2. PICK i, n, c, m : i = writer[o].line /\ n = LineNo(b) /\ c = pfn[b] /\ m = k[b]
      OBVIOUS
    <2>3. \/ i = 0
          \/ i \in DOMAIN replies[b] /\ SetAndAnswered(b, o, i)
          \/ pc[b] = "set" /\ i = n /\ SetBy(b, o, n, c, m)
      BY <2>1, <2>2 DEF History, Traced
    <2>4. CASE i \in DOMAIN replies[b] /\ SetAndAnswered(b, o, i)
      <3>1. SetAndAnswered(b, o, i)'
        BY <2>1, <2>4, AnsweredStays
      <3>2. QED
        BY <2>1, <2>2, <2>4, <3>1
    <2>5. CASE pc[b] = "set" /\ i = n /\ SetBy(b, o, n, c, m)
      <3>1. SetBy(b, o, n, c, m)'
        BY <2>1, <2>5, SetByStays
      <3>2. LineNo(b)' = n /\ pfn'[b] = c /\ k'[b] = m /\ pc'[b] = "set"
        BY <1>1, <2>2, <2>5
      <3>3. QED
        BY <2>1, <2>2, <2>5, <3>1, <3>2
    <2>6. QED
      BY <2>1, <2>2, <2>3, <2>4, <2>5
  <1>3. Passing(b)'
    BY <1>1 DEF History, Passing, Passes
  <1>4. \A values, c : \A u \in Nat :
          u <= Len(replies[b]) + 1 /\ Seen(b, values, c, u) => Seen(b, values, c, u)'
    BY SeenStays DEF Quiet
  <1>5. Queried(b)'
    <2>1. Len(replies[b]) \in Nat /\ LineNo(b) = Len(replies[b]) + 1
          /\ DOMAIN replies[b] = 1 .. Len(replies[b])
      BY DEF LineNo, Types, LocalTypes
    <2>2. pc'[b] = "get" => Seen(b, got[b], pfn[b], LineNo(b))'
      <3> SUFFICES ASSUME pc'[b] = "get" PROVE Seen(b, got[b], pfn[b], LineNo(b))'
        OBVIOUS
      <3>1. PICK values, c, u : values = got[b] /\ c = pfn[b] /\ u = LineNo(b)
        OBVIOUS
      <3>2. Seen(b, values, c, u) /\ u \in Nat /\ u <= Len(replies[b]) + 1
        BY <2>1, <3>1 DEF History, Queried
      <3>3. Seen(b, values, c, u)'
        BY <1>4, <3>2
      <3>4. got'[b] = values /\ pfn'[b] = c /\ LineNo(b)' = u
        BY <1>1, <3>1
      <3>5. QED
        BY <3>3, <3>4
    <2>3. ASSUME NEW i \in DOMAIN replies[b]
          PROVE  Seen(b, replies[b][i].values, replies[b][i].ran, i)'
      <3>1. PICK values, c : values = replies[b][i].values /\ c = replies[b][i].ran
        OBVIOUS
      <3>2. Seen(b, values, c, i) /\ i \in Nat /\ i <= Len(replies[b]) + 1
        BY <2>1, <3>1 DEF History, Queried
      <3>3. Seen(b, values, c, i)'
        BY <1>4, <3>2
      <3>4. QED
        BY <3>1, <3>3
    <2>4. QED
      BY <2>2, <2>3 DEF History, Queried
  <1>6. QED
    BY <1>2, <1>3, <1>5 DEF History

(* A line is answered: with what a query has read, or with nothing.        *)
LEMMA SeenNothing == \A a, c, u : Seen(a, << >>, c, u)
  BY DEF Seen

LEMMA AnswerHistory ==
  ASSUME Types, NEW a \in Agents, History(a), NEW code \in Codes, Answer(a, code),
         pc[a] # "idle", pfn' \in [Agents -> Commands \cup {None}],
         Running(a) => pfn'[a] = pfn[a],
         pc[a] = "set" => code = "OK" \/ Broken(Current(a), pfn[a], k[a])
  PROVE  History(a)'
  <1>1. PICK n \in Nat, m \in Nat : n = Len(replies[a]) + 1 /\ n = LineNo(a) /\ m = n - 1
    BY DEF LineNo, Types, LocalTypes
  <1>2. /\ m = Len(replies[a]) /\ DOMAIN replies[a] = 1 .. m /\ DOMAIN replies'[a] = 1 .. n
        /\ n = m + 1
    <2>1. Len(replies'[a]) = n /\ replies' \in [Agents -> Seq(Replies)]
      BY <1>1, AnswerShape DEF LocalTypes
    <2>2. replies \in [Agents -> Seq(Replies)] /\ m = Len(replies[a]) /\ n = m + 1
      BY <1>1 DEF Types, LocalTypes
    <2>3. replies[a] \in Seq(Replies) /\ replies'[a] \in Seq(Replies)
      BY <2>1, <2>2
    <2>4. QED
      BY <2>1, <2>2, <2>3
  <1>3. /\ UNCHANGED <<committed, staged, batch, writer>> /\ pc'[a] = "line"
        /\ \A i \in 1 .. m : replies'[a][i] = replies[a][i]
        /\ replies'[a][n].code = code /\ replies'[a][n].ran = pfn'[a]
        /\ replies'[a][n].values = Values(a) /\ got'[a] = << >>
    BY <1>1, <1>2, AnswerShape
  <1>4. \A o : UciGet(o)' = UciGet(o)
    BY <1>3 DEF UciGet
  <1>5. ASSUME NEW o \in Config, pc[a] = "set", SetBy(a, o, n, pfn[a], k[a])
        PROVE  SetAndAnswered(a, o, n)'
    <2>1. pfn'[a] = pfn[a] /\ pfn[a] \in Commands /\ Current(a).set /\ Current(a) = batch[a][n]
      BY <1>1, <1>5, RunningRow DEF Running, Types, Coherent, Current
    <2>2. PICK c \in Commands, q \in Nat, l \in {batch[a][n]} : c = pfn[a] /\ q = k[a]
      BY <2>1 DEF Types, LocalTypes
    <2>3. SetBy(a, o, n, c, q)'
      BY <1>3, <1>4, <1>5, <2>2, SetByStays
    <2>4. code = "OK" \/ Broken(l, c, q)
      BY <1>5, <2>1, <2>2
    <2>5. Broken(l, c, q)' <=> Broken(l, c, q)
      BY DEF Broken
    <2>6. replies'[a][n].ran = c /\ replies'[a][n].code = code /\ batch'[a][n] = l /\ l.set
      BY <1>3, <2>1, <2>2
    <2>7. QED
      BY <2>3, <2>4, <2>5, <2>6 DEF SetAndAnswered
  <1>6. Traced(a)'
    <2> SUFFICES ASSUME NEW o \in Config, writer[o].by = a, writer[o].line # 0
                 PROVE  \E i \in 1 .. n : i = writer[o].line /\ SetAndAnswered(a, o, i)'
      BY <1>2, <1>3 DEF Traced
    <2>1. PICK i : i = writer[o].line
      OBVIOUS
    <2>2. \/ i \in 1 .. m /\ SetAndAnswered(a, o, i)
          \/ i = n /\ pc[a] = "set" /\ SetBy(a, o, n, pfn[a], k[a])
      BY <1>1, <1>2, <2>1 DEF History, Traced
    <2>3. CASE i \in 1 .. m /\ SetAndAnswered(a, o, i)
      <3>1. SetAndAnswered(a, o, i)'
        BY <1>3, <1>4, <2>3, AnsweredStays
      <3>2. QED
        BY <1>2, <2>1, <2>3, <3>1
    <2>4. CASE i = n /\ pc[a] = "set" /\ SetBy(a, o, n, pfn[a], k[a])
      <3>1. SetAndAnswered(a, o, n)'
        BY <1>5, <2>4
      <3>2. QED
        BY <1>2, <2>1, <2>4, <3>1
    <2>5. QED
      BY <2>2, <2>3, <2>4
  <1>7. Passing(a)'
    BY <1>3 DEF Passing
  <1>8. \A values, c : \A u \in Nat : u <= n /\ Seen(a, values, c, u) => Seen(a, values, c, u)'
    BY <1>2, <1>3, SeenStays
  <1>9. ASSUME NEW i \in 1 .. n
        PROVE  Seen(a, replies[a][i].values, replies[a][i].ran, i)'
    <2>1. CASE i = n
      <3>1. CASE pc[a] = "get"
        <4>1. PICK values, c : values = got[a] /\ c = pfn[a]
          OBVIOUS
        <4>2. Seen(a, values, c, n)
          BY <1>1, <3>1, <4>1 DEF History, Queried
        <4>3. Seen(a, values, c, n)'
          BY <1>8, <4>2
        <4>4. replies'[a][n].values = values /\ replies'[a][n].ran = c
          BY <1>3, <3>1, <4>1 DEF Values, Running
        <4>5. QED
          BY <2>1, <4>3, <4>4
      <3>2. CASE pc[a] # "get"
        BY <1>3, <2>1, <3>2, SeenNothing DEF Values, Seen
      <3>3. QED
        BY <3>1, <3>2
    <2>2. CASE i # n
      <3>1. PICK values, c : values = replies[a][i].values /\ c = replies[a][i].ran
        OBVIOUS
      <3>2. i \in 1 .. m
        BY <1>2, <2>2
      <3>3. Seen(a, values, c, i)
        BY <1>2, <3>1, <3>2 DEF History, Queried
      <3>4. Seen(a, values, c, i)'
        BY <1>8, <3>3
      <3>5. QED
        BY <1>3, <3>1, <3>2, <3>4
    <2>3. QED
      BY <2>1, <2>2
  <1>10. Queried(a)'
    BY <1>2, <1>3, <1>9 DEF Queried
  <1>11. QED
    BY <1>6, <1>7, <1>10 DEF History

LEMMA RefusesHistory ==
  ASSUME Types, NEW a \in Agents, History(a), Refuses(a)
  PROVE  History(a)'
  <1>1. pfn' = pfn /\ pfn' \in [Agents -> Commands \cup {None}] /\ pc[a] = "line"
    BY DEF Refuses, AtLine, Types, LocalTypes
  <1>2. PICK code \in {"ERR1", "ERR2"} : Answer(a, code)
    BY DEF Refuses
  <1>3. QED
    BY <1>1, <1>2, AnswerHistory DEF Codes

LEMMA FinishesHistory ==
  ASSUME Types, NEW a \in Agents, History(a), Finishes(a)
  PROVE  History(a)'
  <1>1. pfn' = pfn /\ pfn' \in [Agents -> Commands \cup {None}] /\ Running(a) /\ pc[a] # "idle"
    BY DEF Finishes, Types, LocalTypes, Running
  <1>2. CASE Answer(a, "OK")
    BY <1>1, <1>2, AnswerHistory DEF Codes
  <1>3. CASE pc[a] = "set" /\ k[a] \in DOMAIN Row0(a).options /\ Rejects(Row0(a), k[a], Current(a))
             /\ Answer(a, "ERR")
    <2>1. Row0(a).each
      BY <1>3 DEF History, Passing, Passes, Rejects
    <2>2. Broken(Current(a), pfn[a], k[a])
      BY <1>3, <2>1 DEF Broken, Row0
    <2>3. QED
      BY <1>1, <1>3, <2>2, AnswerHistory DEF Codes
  <1>4. QED
    BY <1>2, <1>3 DEF Finishes

(* A handler begins: nothing set yet, nothing read yet.                    *)
LEMMA EntersHistory ==
  ASSUME Types, NEW a \in Agents, NEW c \in Commands, History(a), Enters(a, c),
         Begins(a) \/ Answer(a, "ERR")
  PROVE  History(a)'
  <1>0. /\ pc[a] = "line" /\ ~Running(a) /\ pfn'[a] = c
        /\ pfn' \in [Agents -> Commands \cup {None}]
    BY EntersFacts
  <1>1. CASE Answer(a, "ERR")
    BY <1>0, <1>1, AnswerHistory DEF Codes
  <1>2. CASE Begins(a)
    <2>1. /\ UNCHANGED <<got, replies, committed, staged, batch, writer>>
          /\ pc'[a] \in {"set", "get", "commit"}
          /\ pc'[a] = "set" <=> Current(a).set
          /\ pc'[a] = "set" => k'[a] = 1
      BY <1>2 DEF Begins, Types, LocalTypes
    <2>2. Quiet(a)
      BY <2>1, QuietSame
    <2>3. got[a] = << >>
      BY <1>0 DEF History, Queried
    <2>4. Traced(a)'
      <3> SUFFICES ASSUME NEW o \in Config, writer'[o].by = a
                   PROVE  \/ writer'[o].line = 0
                          \/ /\ writer'[o].line \in DOMAIN replies'[a]
                             /\ SetAndAnswered(a, o, writer[o].line)'
        BY DEF Traced
      <3>1. writer' = writer /\ replies' = replies /\ UciGet(o)' = UciGet(o)
        BY <2>1 DEF UciGet
      <3>2. PICK i : i = writer[o].line
        OBVIOUS
      <3>3. i = 0 \/ (i \in DOMAIN replies[a] /\ SetAndAnswered(a, o, i))
        BY <1>0, <3>1, <3>2 DEF History, Traced
      <3>4. SetAndAnswered(a, o, i) => SetAndAnswered(a, o, i)'
        BY <2>1, <3>1, AnsweredStays
      <3>5. QED
        BY <3>1, <3>2, <3>3, <3>4
    <2>5. Passing(a)'
      <3> SUFFICES ASSUME pc'[a] = "set" PROVE Passing(a)'
        BY DEF Passing
      <3>1. Current(a)' = Current(a) /\ Row0(a)' = SetRow(pfn'[a], Current(a))
        BY <2>1 DEF Current, LineNo, Row0
      <3>2. Passes(SetRow(pfn'[a], Current(a)), Current(a))
        BY <1>2, <2>1 DEF Begins
      <3>3. Passes(Row0(a), Current(a))'
        BY <3>1, <3>2 DEF Passes
      <3>4. \A h \in 1 .. (k'[a] - 1) : FALSE
        BY <2>1
      <3>5. QED
        BY <3>3, <3>4 DEF Passing
    <2>6. Queried(a)'
      <3>1. \A values, d : \A u \in Nat :
              u <= Len(replies[a]) + 1 /\ Seen(a, values, d, u) => Seen(a, values, d, u)'
        BY <2>1, SeenStays
      <3>2. ASSUME NEW i \in DOMAIN replies[a]
            PROVE  Seen(a, replies[a][i].values, replies[a][i].ran, i)'
        <4>1. PICK values, d : values = replies[a][i].values /\ d = replies[a][i].ran
          OBVIOUS
        <4>2. Seen(a, values, d, i) /\ i \in Nat /\ i <= Len(replies[a]) + 1
          BY <4>1 DEF History, Queried, Types, LocalTypes
        <4>3. Seen(a, values, d, i)'
          BY <3>1, <4>2
        <4>4. QED
          BY <2>1, <4>1, <4>3
      <3>3. Seen(a, got[a], pfn[a], LineNo(a))'
        BY <2>1, <2>3 DEF Seen
      <3>4. QED
        BY <2>1, <2>3, <3>2, <3>3 DEF Queried
    <2>7. QED
      BY <2>4, <2>5, <2>6 DEF History
  <1>3. QED
    BY <1>1, <1>2

(* One more option is set.                                                 *)
LEMMA SetsHistory ==
  ASSUME Types, NEW a \in Agents, History(a), Sets(a)
  PROVE  History(a)'
  <1>1. PICK q \in Config, w \in Settable, n \in Nat :
           /\ q = Row0(a).options[k[a]] /\ w = Stored(Current(a), k[a]) /\ n = LineNo(a)
           /\ staged' \in [Config -> Gotten] /\ writer' \in [Config -> Writers]
           /\ writer'[q] = [by |-> a, line |-> n] /\ UciGet(q)' = w
           /\ writer'[q].by = a /\ writer'[q].line = n
           /\ \A c \in Config \ {q} : /\ writer'[c] = writer[c] /\ staged'[c] = staged[c]
                                      /\ UciGet(c)' = UciGet(c)
    BY SetsStore, Zenon
  <1>2. /\ UNCHANGED <<batch, pfn, replies, pc, got>> /\ pc[a] = "set"
        /\ k[a] \in DOMAIN Row0(a).options /\ ~Rejects(Row0(a), k[a], Current(a))
    BY DEF Sets
  <1>3. PICK c, m, l : c = pfn[a] /\ m = k[a] /\ l = Current(a)
    OBVIOUS
  <1>4. /\ LineNo(a)' = n /\ Current(a)' = l /\ pfn'[a] = c /\ k'[a] = m + 1 /\ m \in Nat /\ m >= 1
        /\ l = batch[a][n] /\ Row0(a) = SetRow(c, l) /\ Row0(a)' = SetRow(c, l)
    <2>1. k'[a] = m + 1 /\ m \in Nat /\ m >= 1
      BY <1>3, SetsFacts
    <2>2. LineNo(a)' = n /\ pfn'[a] = c /\ batch'[a] = batch[a]
      BY <1>1, <1>2, <1>3 DEF LineNo
    <2>3. l = batch[a][n] /\ Current(a)' = l
      BY <1>1, <1>3, <2>2 DEF Current
    <2>4. QED
      BY <1>3, <2>1, <2>2, <2>3 DEF Row0
  <1>5. n = Len(replies[a]) + 1 /\ Len(replies[a]) \in Nat
        /\ DOMAIN replies[a] = 1 .. Len(replies[a])
    BY <1>1 DEF LineNo, Types, LocalTypes
  <1>6. \A h \in 1 .. m : ~Rejects(SetRow(c, l), h, l)
    <2>1. \A h \in 1 .. (m - 1) : ~Rejects(SetRow(c, l), h, l)
      BY <1>2, <1>3, <1>4 DEF History, Passing
    <2>2. ~Rejects(SetRow(c, l), m, l)
      BY <1>2, <1>3, <1>4
    <2>3. QED
      BY <1>4, <2>1, <2>2
  <1>7. Traced(a)'
    <2> SUFFICES ASSUME NEW o \in Config, writer'[o].by = a
                 PROVE  \E i : /\ i = writer'[o].line
                               /\ \/ i = 0
                                  \/ i \in DOMAIN replies'[a] /\ SetAndAnswered(a, o, i)'
                                  \/ i = n /\ SetBy(a, o, n, c, m + 1)'
      BY <1>2, <1>4 DEF Traced
    <2>1. CASE o = q
      <3>1. SetBy(a, q, n, c, m + 1)'
        <4>1. batch'[a][n] = l /\ m \in DOMAIN SetRow(c, l).options /\ q = SetRow(c, l).options[m]
              /\ w = Stored(l, m) /\ m < m + 1
          BY <1>1, <1>2, <1>3, <1>4
        <4>2. QED
          BY <1>1, <1>6, <4>1 DEF SetBy
      <3>2. QED
        BY <1>1, <2>1, <3>1
    <2>2. CASE o # q
      <3>1. writer'[o] = writer[o] /\ UciGet(o)' = UciGet(o)
        BY <1>1, <2>2
      <3>2. PICK i : i = writer[o].line
        OBVIOUS
      <3>3. \/ i = 0
            \/ i \in DOMAIN replies[a] /\ SetAndAnswered(a, o, i)
            \/ i = n /\ SetBy(a, o, n, c, m)
        BY <1>1, <1>2, <1>3, <3>1, <3>2 DEF History, Traced
      <3>4. SetAndAnswered(a, o, i) => SetAndAnswered(a, o, i)'
        BY <1>2, <3>1, AnsweredStays
      <3>5. SetBy(a, o, n, c, m) => SetBy(a, o, n, c, m + 1)
        <4>1. \A j \in DOMAIN SetRow(c, l).options : j \in Nat
          BY <1>2, <1>4, RunningRow DEF Running, Distinct
        <4>2. \A j \in Nat : j < m => j < m + 1
          BY <1>4
        <4>3. QED
          BY <1>4, <4>1, <4>2 DEF SetBy
      <3>6. SetBy(a, o, n, c, m + 1) => SetBy(a, o, n, c, m + 1)'
        BY <1>2, <3>1, SetByStays
      <3>7. QED
        BY <1>2, <3>1, <3>2, <3>3, <3>4, <3>5, <3>6
    <2>3. QED
      BY <2>1, <2>2
  <1>8. Passing(a)'
    <2>1. Passes(SetRow(c, l), l)
      BY <1>2, <1>3, <1>4 DEF History, Passing
    <2>2. (m + 1) - 1 = m
      BY <1>4
    <2>3. QED
      BY <1>4, <1>6, <2>1, <2>2 DEF Passing, Passes
  <1>9. Queried(a)'
    <2>1. \A o \in Config : \A h \in 1 .. Len(replies[a]) :
            writer'[o] = [by |-> a, line |-> h] => writer[o] = [by |-> a, line |-> h]
      <3> SUFFICES ASSUME NEW o \in Config, NEW h \in 1 .. Len(replies[a]),
                          writer'[o] = [by |-> a, line |-> h]
                   PROVE  writer[o] = [by |-> a, line |-> h]
        OBVIOUS
      <3>1. writer'[o].line = h /\ h # n
        BY <1>5
      <3>2. o # q
        BY <1>1, <3>1
      <3>3. QED
        BY <1>1, <3>2
    <2>2. ASSUME NEW i \in DOMAIN replies[a]
          PROVE  Seen(a, replies[a][i].values, replies[a][i].ran, i)'
      <3>1. PICK values, d : values = replies[a][i].values /\ d = replies[a][i].ran
        OBVIOUS
      <3>2. Seen(a, values, d, i) /\ i \in Nat /\ i <= Len(replies[a]) + 1
        BY <1>5, <3>1 DEF History, Queried
      <3>3. Seen(a, values, d, i)'
        BY <1>2, <2>1, <3>2, SeenStays
      <3>4. QED
        BY <1>2, <3>1, <3>3
    <2>3. QED
      BY <1>2, <2>2 DEF History, Queried
  <1>10. QED
    BY <1>7, <1>8, <1>9 DEF History

(***************************************************************************)
(* What line h of a set last has the value that line asked for, and had    *)
(* passed its check with all before it.                                    *)
(***************************************************************************)
LEMMA MineIsGiven ==
  ASSUME Types, NEW a \in Agents, Traced(a), pc[a] # "idle",
         NEW h \in DOMAIN replies[a], h \in DOMAIN batch[a], h # LineNo(a) \/ pc[a] # "set",
         NEW c \in Commands, replies[a][h].ran = c, h # 0,
         NEW j \in DOMAIN SetRow(c, batch[a][h]).options,
         SetRow(c, batch[a][h]).options[j] \in Config,
         writer[SetRow(c, batch[a][h]).options[j]] = [by |-> a, line |-> h]
  PROVE  /\ UciGet(SetRow(c, batch[a][h]).options[j]) = Stored(batch[a][h], j)
         /\ \A i \in 1 .. j : ~Rejects(SetRow(c, batch[a][h]), i, batch[a][h])
  <1>1. PICK row, l, o : row = SetRow(c, l) /\ l = batch[a][h] /\ o = row.options[j]
    OBVIOUS
  <1>2. o \in Config /\ writer[o].by = a /\ writer[o].line = h
    BY <1>1
  <1>3. SetAndAnswered(a, o, h)
    BY <1>2 DEF Traced
  <1>4. PICK n \in Nat : SetBy(a, o, h, c, n)
    BY <1>3 DEF SetAndAnswered
  <1>5. PICK i \in DOMAIN row.options :
          /\ o = row.options[i] /\ UciGet(o) = Stored(l, i)
          /\ \A g \in 1 .. i : ~Rejects(row, g, l)
    BY <1>1, <1>4 DEF SetBy
  <1>6. Distinct(row.options)
    BY <1>1, SetRowFacts
  <1>7. i = j
    BY <1>1, <1>5, <1>6 DEF Distinct
  <1>8. QED
    BY <1>1, <1>5, <1>7

(* One mode of socket A, one row.                                          *)
LEMMA SocketAChecked ==
  ASSUME NEW l, ~Rejects(SetRow("SOCKA", l), 1, l)
  PROVE  Given(l, 1) # Bad /\ Stored(l, 1) = Given(l, 1)
  <1>1. \A s : AtCmd_Handler_SOCKA(s).checked = DOMAIN AtCmd_Handler_SOCKA(s).options
    BY RowEach DEF AtCmd_Handler_SOCKA
  <1>2. \A s : 1 \in DOMAIN AtCmd_Handler_SOCKA(s).options
    BY RowOptions DEF AtCmd_Handler_SOCKA
  <1>3. 1 \in SetRow("SOCKA", l).checked
    BY <1>1, <1>2 DEF SetRow, RowOf
  <1>4. QED
    BY <1>3 DEF Rejects, Stored

(* The next value a query reads is the one its last SET asked for.         *)
LEMMA ReadsRight ==
  ASSUME Types, NEW a \in Agents, History(a), pc[a] = "get", NEW v \in Gotten, Reads(a, v)
  PROVE  /\ Seen(a, Append(got[a], v), pfn[a], LineNo(a))
         /\ pfn[a] # "WANN" => v # None
  <1>1. PICK c \in Commands, s \in Seq(Gotten), u \in Nat : c = pfn[a] /\ s = got[a] /\ u = Len(replies[a])
    BY RunningRow DEF Running, Types, LocalTypes
  <1>2. OptionsOf(c) \subseteq Config
    BY <1>1, NotCommands, NoneAssumption DEF Types, Coherent
  <1>3. u < Len(batch[a]) /\ LineNo(a) = u + 1 /\ DOMAIN replies[a] = 1 .. u
        /\ DOMAIN batch[a] = 1 .. Len(batch[a]) /\ Len(batch[a]) \in Nat
    BY <1>1 DEF LineNo, Types, LocalTypes, Coherent, Running
  <1> DEFINE mode == s # << >> /\ Head(s) \in ServerModes
             i == Len(s) + 1
             query == RowOf(c, 0, mode)
  <1>4. i \in DOMAIN query.options /\ (v = UciGet(query.options[i]) \/ (c = "WANN" /\ v = None))
    BY <1>1 DEF Reads, QueryRow
  <1>5. query.options[i] \in Config
    BY <1>2, <1>4, RowsIn
  <1>6. c # "WANN" => v # None
    <2>1. UciGet(query.options[i]) # None
      BY <1>5, NoneAssumption DEF UciGet, Types, StoreTypes, Settable
    <2>2. QED
      BY <1>4, <2>1
  <1> DEFINE t == Append(s, v)
  <1>7. /\ Len(s) \in Nat /\ DOMAIN t = 1 .. i /\ t[i] = v
        /\ DOMAIN s = 1 .. Len(s) /\ \A j \in 1 .. Len(s) : t[j] = s[j]
    OBVIOUS
  <1> HIDE DEF t
  <1>8. Seen(a, s, c, u + 1) /\ (c # "WANN" => \A j \in DOMAIN s : s[j] # None)
    BY <1>1, <1>3 DEF History, Queried
  <1>9. ASSUME NEW h \in 1 .. u, replies[a][h].ran = c, batch[a][h].set,
               c = "SOCKA" => writer[SetRow(c, batch[a][h]).options[1]] = [by |-> a, line |-> h],
               NEW j \in DOMAIN SetRow(c, batch[a][h]).options \cap DOMAIN t,
               writer[SetRow(c, batch[a][h]).options[j]] = [by |-> a, line |-> h],
               t[j] # None
        PROVE  t[j] = Stored(batch[a][h], j)
    <2>1. PICK l : l = batch[a][h]
      OBVIOUS
    <2>2. h \in DOMAIN batch[a] /\ h \in DOMAIN replies[a] /\ h # 0
      BY <1>3
    <2> DEFINE options == SetRow(c, l).options
    <2>3. Distinct(options) /\ \A g \in DOMAIN options : options[g] \in Config
      BY <1>2, <2>1, <2>2, SetRowFacts
    <2>4. \A g \in DOMAIN options :
            writer[options[g]] = [by |-> a, line |-> h] =>
              /\ UciGet(options[g]) = Stored(l, g)
              /\ \A e \in 1 .. g : ~Rejects(SetRow(c, l), e, l)
      BY <1>9, <2>1, <2>2, <2>3, MineIsGiven DEF History
    <2>5. CASE j \in 1 .. Len(s)
      <3>1. s[j] = Stored(l, j)
        BY <1>7, <1>8, <1>9, <2>1, <2>5 DEF Seen
      <3>2. QED
        BY <1>7, <2>1, <2>5, <3>1
    <2>6. CASE j = i
      <3>1. v = UciGet(query.options[i])
        BY <1>4, <1>7, <1>9, <2>6, NoneAssumption
      <3> DEFINE n == Len(l.para)
                 server == Given(l, 1) \in ServerModes
      <3>2. SetRow(c, l) = RowOf(c, n, server) /\ server \in BOOLEAN /\ mode \in BOOLEAN
        BY DEF SetRow
      <3>3. c = "SOCKA" => server = mode \/ i = 1
        <4> SUFFICES ASSUME c = "SOCKA", i # 1 PROVE server = mode
          OBVIOUS
        <4>1. 1 \in DOMAIN s /\ s # << >> /\ Head(s) = s[1]
          BY <1>7
        <4>2. 1 \in DOMAIN options
          BY RowOptions DEF SetRow, RowOf, AtCmd_Handler_SOCKA
        <4>3. s[1] = Stored(l, 1)
          BY <1>8, <1>9, <2>1, <4>1, <4>2 DEF Seen
        <4>4. ~Rejects(SetRow(c, l), 1, l)
          BY <1>9, <2>1, <2>4, <4>2
        <4>5. Stored(l, 1) = Given(l, 1)
          BY <4>4, SocketAChecked
        <4>6. QED
          BY <4>1, <4>3, <4>5
      <3> HIDE DEF n, server, mode
      <3>4. i \in DOMAIN RowOf(c, 0, mode).options \cap DOMAIN RowOf(c, n, server).options
        BY <1>4, <1>9, <2>1, <2>6, <3>2
      <3> HIDE DEF i
      <3>5. query.options[i] = options[i]
        <4>1. PICK b \in BOOLEAN, d \in BOOLEAN : b = mode /\ d = server
          BY <3>2
        <4>2. c = "SOCKA" => b = d \/ i = 1
          BY <3>3, <4>1
        <4>3. i \in DOMAIN RowOf(c, 0, b).options \cap DOMAIN RowOf(c, n, d).options
          BY <3>4, <4>1
        <4>4. RowOf(c, 0, b).options[i] = RowOf(c, n, d).options[i]
          BY <4>2, <4>3, RowsAgree
        <4>5. QED
          BY <3>2, <4>1, <4>4
      <3>6. UciGet(options[i]) = Stored(l, i)
        BY <1>9, <2>1, <2>4, <2>6
      <3>7. QED
        BY <1>7, <2>1, <2>6, <3>1, <3>5, <3>6
    <2>7. QED
      BY <1>7, <2>5, <2>6
  <1>10. Seen(a, t, c, u + 1)
    <2>1. (u + 1) - 1 = u
      BY <1>1
    <2>2. QED
      BY <1>2, <1>9, <2>1, Zenon DEF Seen
  <1>11. QED
    BY <1>1, <1>3, <1>6, <1>10 DEF t

LEMMA GetsHistory ==
  ASSUME Types, NEW a \in Agents, History(a), Gets(a)
  PROVE  History(a)'
  <1>1. PICK v \in Gotten : Reads(a, v) /\ got' = [got EXCEPT ![a] = Append(@, v)]
    BY DEF Gets
  <1>2. UNCHANGED <<committed, staged, pc, batch, pfn, k, replies, writer>> /\ pc[a] = "get"
    BY DEF Gets
  <1>3. PICK t, c, u, s : t = Append(s, v) /\ c = pfn[a] /\ u = LineNo(a) /\ s = got[a]
                          /\ s \in Seq(Gotten)
    BY DEF Types, LocalTypes
  <1>4. Seen(a, t, c, u) /\ (c # "WANN" => v # None)
    BY <1>1, <1>2, <1>3, ReadsRight
  <1>5. got'[a] = t /\ pfn'[a] = c /\ LineNo(a)' = u
    BY <1>1, <1>2, <1>3 DEF Types, LocalTypes, LineNo
  <1>6. \A values, d, i : Seen(a, values, d, i)' <=> Seen(a, values, d, i)
    BY <1>2 DEF Seen
  <1>7. Traced(a)' /\ Passing(a)'
    <2>1. Passing(a)'
      BY <1>2 DEF Passing
    <2>2. Traced(a)'
      <3> SUFFICES ASSUME NEW o \in Config, writer[o].by = a
                   PROVE  \E i : /\ i = writer[o].line
                                 /\ \/ i = 0
                                    \/ i \in DOMAIN replies[a] /\ SetAndAnswered(a, o, i)'
        BY <1>2 DEF Traced
      <3>1. PICK i : i = writer[o].line
        OBVIOUS
      <3>2. i = 0 \/ (i \in DOMAIN replies[a] /\ SetAndAnswered(a, o, i))
        BY <1>2, <3>1 DEF History, Traced
      <3>3. UciGet(o)' = UciGet(o)
        BY <1>2 DEF UciGet
      <3>4. SetAndAnswered(a, o, i) => SetAndAnswered(a, o, i)'
        BY <1>2, <3>3, AnsweredStays
      <3>5. QED
        BY <3>1, <3>2, <3>4
    <2>3. QED
      BY <2>1, <2>2
  <1>8. c # "WANN" => \A j \in DOMAIN t : t[j] # None
    <2>1. c # "WANN" => \A j \in DOMAIN s : s[j] # None
      BY <1>2, <1>3 DEF History, Queried
    <2>2. \A j \in DOMAIN t : t[j] = v \/ (j \in DOMAIN s /\ t[j] = s[j])
      BY <1>3
    <2>3. QED
      BY <1>4, <2>1, <2>2
  <1>9. Seen(a, got[a], pfn[a], LineNo(a))'
    BY <1>4, <1>5, <1>6
  <1>10. ASSUME NEW i \in DOMAIN replies[a]
         PROVE  Seen(a, replies[a][i].values, replies[a][i].ran, i)'
    <2>1. PICK values, d : values = replies[a][i].values /\ d = replies[a][i].ran
      OBVIOUS
    <2>2. Seen(a, values, d, i)
      BY <2>1 DEF History, Queried
    <2>3. QED
      BY <1>2, <1>6, <2>1, <2>2
  <1>11. Queried(a)'
    BY <1>2, <1>5, <1>8, <1>9, <1>10 DEF Queried
  <1>12. QED
    BY <1>7, <1>11 DEF History

(* What an agent does leaves another's locals alone.                       *)
LEMMA HistoryStep == Types /\ Histories /\ [Next]_vars => Histories'
  <1> SUFFICES ASSUME Types, [Next]_vars, Histories, NEW b \in Agents
               PROVE  History(b)'
    BY DEF Histories
  <1>0. \A a \in Agents : History(a)
    BY DEF Histories
  <1>1. ASSUME NEW a \in Agents, Refuses(a) \/ Finishes(a)
        PROVE  History(b)'
    <2>1. CASE a = b
      BY <1>0, <1>1, <2>1, RefusesHistory, FinishesHistory
    <2>2. CASE a # b
      <3>1. /\ UNCHANGED <<pfn, batch, committed, staged, writer>>
            /\ \E code \in Codes : Answer(a, code)
        BY <1>1 DEF Refuses, Finishes, Answer, Codes
      <3>2. pfn' \in [Agents -> Commands \cup {None}]
        BY <3>1 DEF Types, LocalTypes
      <3>3. pc'[b] = pc[b] /\ k'[b] = k[b] /\ replies'[b] = replies[b] /\ got'[b] = got[b]
        BY <2>2, <3>1, <3>2, AnswerShape
      <3>4. QED
        BY <1>0, <3>1, <3>3, QuietSame, HistoryStays
    <2>3. QED
      BY <2>1, <2>2
  <1>2. ASSUME NEW a \in Agents, NEW c \in Commands, Enters(a, c),
               Begins(a) \/ Answer(a, "ERR")
        PROVE  History(b)'
    <2>1. CASE a = b
      BY <1>0, <1>2, <2>1, EntersHistory
    <2>2. CASE a # b
      <3>1. pfn'[b] = pfn[b] /\ pfn' \in [Agents -> Commands \cup {None}]
        BY <1>2, <2>2, EntersFacts
      <3>2. UNCHANGED <<batch, committed, staged, writer>>
        BY <1>2 DEF Begins, Answer
      <3>3. pc'[b] = pc[b] /\ k'[b] = k[b] /\ replies'[b] = replies[b] /\ got'[b] = got[b]
        <4>1. CASE Answer(a, "ERR")
          BY <2>2, <3>1, <4>1, AnswerShape DEF Codes
        <4>2. CASE Begins(a)
          <5>1. pc'[b] = pc[b] /\ UNCHANGED <<replies, got>>
            BY <2>2, <4>2 DEF Begins, Types, LocalTypes
          <5>2. k' = [k EXCEPT ![a] = 1] \/ UNCHANGED k
            BY <4>2 DEF Begins
          <5>3. QED
            BY <2>2, <5>1, <5>2 DEF Types, LocalTypes
        <4>3. QED
          BY <1>2, <4>1, <4>2
      <3>4. QED
        BY <1>0, <3>1, <3>2, <3>3, QuietSame, HistoryStays
    <2>3. QED
      BY <2>1, <2>2
  <1>3. ASSUME NEW a \in Agents, Sets(a)
        PROVE  History(b)'
    <2>1. CASE a = b
      BY <1>0, <1>3, <2>1, SetsHistory
    <2>2. CASE a # b
      <3>1. PICK q \in Config, w \in Settable, n \in Nat :
               /\ q = Row0(a).options[k[a]] /\ w = Stored(Current(a), k[a]) /\ n = LineNo(a)
               /\ staged' \in [Config -> Gotten] /\ writer' \in [Config -> Writers]
               /\ writer'[q] = [by |-> a, line |-> n] /\ UciGet(q)' = w
               /\ writer'[q].by = a /\ writer'[q].line = n
               /\ \A c \in Config \ {q} : /\ writer'[c] = writer[c] /\ staged'[c] = staged[c]
                                          /\ UciGet(c)' = UciGet(c)
        BY <1>3, SetsStore, Zenon
      <3>2. Quiet(b)
        BY <2>2, <3>1, QuietOther
      <3>3. UNCHANGED <<pc, batch, pfn, got, replies>> /\ k'[b] = k[b]
        BY <1>3, <2>2, SetsFacts DEF Sets
      <3>4. QED
        BY <1>0, <3>2, <3>3, HistoryStays
    <2>3. QED
      BY <2>1, <2>2
  <1>4. ASSUME NEW a \in Agents, Gets(a)
        PROVE  History(b)'
    <2>1. CASE a = b
      BY <1>0, <1>4, <2>1, GetsHistory
    <2>2. CASE a # b
      <3>1. UNCHANGED <<committed, staged, writer, pc, batch, pfn, k, replies>>
            /\ got'[b] = got[b]
        BY <1>4, <2>2 DEF Gets, Types, LocalTypes
      <3>2. QED
        BY <1>0, <3>1, QuietSame, HistoryStays
    <2>3. QED
      BY <2>1, <2>2
  <1>5. ASSUME NEW a \in Agents, Commits(a) \/ CommitsAgain(a)
        PROVE  History(b)'
    <2>1. /\ UNCHANGED <<batch, pfn, k, got, replies, writer>>
          /\ UciCommit \/ UNCHANGED <<committed, staged>>
      BY <1>5 DEF Commits, CommitsAgain
    <2>2. Quiet(b)
      BY <2>1, QuietSame, QuietCommit
    <2>3. pc'[b] = pc[b] \/ (pc[b] \in {"commit", "changes"} /\ pc'[b] \in {"commit", "changes"})
      BY <1>5 DEF Commits, CommitsAgain, Types, LocalTypes
    <2>4. QED
      BY <1>0, <2>1, <2>2, <2>3, HistoryStays
  <1>6. ASSUME NEW a \in Agents, Sends(a)
        PROVE  History(b)'
    <2>1. UNCHANGED <<committed, staged, writer, pfn, k, got>> /\ pc[a] = "line"
      BY <1>6 DEF Sends
    <2>2. CASE a = b
      <3>1. pc'[b] = "idle" /\ replies'[b] = << >> /\ got'[b] = << >>
        <4>1. got[b] = << >>
          BY <2>1, <2>2 DEF Histories, History, Queried
        <4>2. QED
          BY <1>6, <2>1, <2>2, <4>1 DEF Sends, Types, LocalTypes
      <3>2. QED
        BY <3>1 DEF History, Traced, Passing, Queried
    <2>3. CASE a # b
      <3>1. pc'[b] = pc[b] /\ batch'[b] = batch[b] /\ replies'[b] = replies[b]
        BY <1>6, <2>3 DEF Sends, Types, LocalTypes
      <3>2. QED
        BY <1>0, <2>1, <3>1, QuietSame, HistoryStays
    <2>4. QED
      BY <2>2, <2>3
  <1>7. ASSUME NEW a \in Agents, NEW c \in BatchesOf[a], Receive(a, c)
        PROVE  History(b)'
    <2>1. CASE a = b
      <3>1. pc'[b] = "line" /\ replies'[b] = << >> /\ got'[b] = got[b] /\ pc[b] = "idle"
        BY <1>7, <2>1, ReceiveFacts
      <3>2. got'[b] = << >>
        BY <1>0, <3>1 DEF History, Queried
      <3>3. \A o \in Config : writer'[o].by = b => writer'[o].line = 0
        <4>1. \A o \in Config : \/ writer'[o] = writer[o] /\ writer[o].by # b
                                \/ writer'[o] = [by |-> b, line |-> 0]
          BY <1>7, <2>1, ReceiveFacts
        <4>2. QED
          BY <4>1
      <3>4. QED
        BY <3>1, <3>2, <3>3 DEF History, Traced, Passing, Queried
    <2>2. CASE a # b
      <3>1. /\ UNCHANGED <<k, got>>
            /\ \A d \in Agents \ {a} : /\ pc'[d] = pc[d] /\ batch'[d] = batch[d]
                                       /\ pfn'[d] = pfn[d] /\ replies'[d] = replies[d]
        BY <1>7, ReceiveFacts
      <3>2. QED
        BY <1>0, <1>7, <2>2, <3>1, ReceiveQuiet, HistoryStays
    <2>3. QED
      BY <2>1, <2>2
  <1>8. CASE Page
    <2>1. UNCHANGED <<pc, batch, pfn, k, got, replies>>
      BY <1>8 DEF Page, uci_httpd_convert, WebSet, WebCommit, locals
    <2>2. Quiet(b)
      <3>1. CASE \E p \in Pages : uci_httpd_convert(p)
        BY <3>1, QuietSame DEF uci_httpd_convert, store
      <3>2. CASE WebSet
        <4>1. PICK q \in Config :
                 /\ writer'[q].by = Web
                 /\ \A c \in Config \ {q} : writer'[c] = writer[c] /\ UciGet(c)' = UciGet(c)
          BY <3>2, WebSetStore, Zenon
        <4>2. Web # b
          BY WriterAssumption
        <4>3. QED
          BY <4>1, <4>2, QuietOther
      <3>3. CASE WebCommit
        BY <3>3, QuietCommit DEF WebCommit
      <3>4. QED
        BY <1>8, <3>1, <3>2, <3>3 DEF Page
    <2>3. QED
      BY <1>0, <2>1, <2>2, HistoryStays
  <1>9. CASE Boot
    <2>1. pc'[b] = "idle" /\ replies'[b] = << >> /\ got'[b] = << >>
      BY <1>9 DEF Boot
    <2>2. QED
      BY <2>1 DEF History, Traced, Passing, Queried
  <1>10. CASE UNCHANGED <<committed, staged, pc, batch, pfn, k, got, replies, page, writer>>
    BY <1>0, <1>10, QuietSame, HistoryStays
  <1>11. QED
    BY <1>1, <1>2, <1>3, <1>4, <1>5, <1>6, <1>7, <1>8, <1>9, <1>10, Kinds

(***************************************************************************)
(* A query answers what the last SET of its command in the same batch      *)
(* asked for, each value at its own place, staged or committed by now,     *)
(* whatever the other processes, the page and commits do in between.       *)
(***************************************************************************)
THEOREM QueryReadsSet == Spec => []QueryAnswersSet
  <1>1. Histories => QueryAnswersSet
    <2>1. ASSUME Histories, NEW a \in Agents, NEW i \in DOMAIN replies[a]
          PROVE  Seen(a, replies[a][i].values, replies[a][i].ran, i)
      BY <2>1 DEF Histories, History, Queried
    <2>2. QED
      BY <2>1, Zenon DEF QueryAnswersSet, Seen
  <1>2. QED
    BY <1>1, InitTypes, TypesStep, InitHistory, HistoryStep, PTL DEF Spec

(***************************************************************************)
(* An error answer has set nothing, or, in the handlers that check in      *)
(* turn, only options before the first bad parameter.                      *)
(***************************************************************************)
THEOREM ErrorSetsPrefix == Spec => []ErrorLeavesPrefix
  <1>1. Types /\ Histories => ErrorLeavesPrefix
    <2> SUFFICES ASSUME Types, NEW a \in Agents, Traced(a), NEW i \in DOMAIN replies[a],
                        NEW o \in Config, replies[a][i].code \in {"ERR", "ERR1", "ERR2"},
                        writer[o] = [by |-> a, line |-> i]
                 PROVE  LET c == replies[a][i].ran
                            l == batch[a][i]
                            row == SetRow(c, l)
                        IN /\ c \in InTurn
                           /\ \E j \in DOMAIN row.options :
                                /\ o = row.options[j]
                                /\ \A h \in 1..j : Given(l, h) # Bad
                                /\ \E h \in DOMAIN row.options : h > j /\ Given(l, h) = Bad
      BY DEF ErrorLeavesPrefix, Histories, History, InTurn
    <2>1. PICK c, l, row : c = replies[a][i].ran /\ l = batch[a][i] /\ row = SetRow(c, l)
      OBVIOUS
    <2>2. i \in DOMAIN batch[a] /\ i \in Nat /\ i >= 1 /\ i # LineNo(a) /\ pc[a] # "idle"
      BY DEF Types, LocalTypes, Coherent, LineNo
    <2>3. SetAndAnswered(a, o, i)
      BY <2>2 DEF Traced
    <2>4. PICK n \in Nat : SetBy(a, o, i, c, n) /\ Broken(l, c, n) /\ c \in Commands
      BY <2>1, <2>3 DEF SetAndAnswered
    <2>5. /\ row.each /\ n \in DOMAIN row.options /\ Given(l, n) = Bad
          /\ c \in InTurn /\ row.checked = DOMAIN row.options
      BY <2>1, <2>2, <2>4, SetRowFacts, SMTT(30) DEF Broken, Rejects
    <2>6. PICK j \in DOMAIN row.options : /\ j < n /\ o = row.options[j]
                                          /\ \A h \in 1 .. j : ~Rejects(row, h, l)
      BY <2>1, <2>4 DEF SetBy
    <2>7. \A h \in 1 .. j : h \in DOMAIN row.options
      <3>1. Distinct(row.options)
        BY <2>1, <2>2, <2>4, SetRowFacts
      <3>2. QED
        BY <3>1 DEF Distinct
    <2>8. \A h \in 1 .. j : Given(l, h) # Bad
      BY <2>5, <2>6, <2>7 DEF Rejects
    <2>9. n > j
      <3>1. j \in Nat
        BY <2>1, <2>2, <2>4, SetRowFacts DEF Distinct
      <3>2. QED
        BY <2>6, <3>1
    <2>10. QED
      BY <2>1, <2>5, <2>6, <2>8, <2>9
  <1>2. QED
    BY <1>1, InitTypes, TypesStep, InitHistory, HistoryStep, PTL DEF Spec


-----------------------------------------------------------------------------
(* The parameters of the serial line (SerialLine.tla).                     *)
Bauds == {S!Opened.speed} \cup {w.baud : w \in Configured \cup Requested}

Termios ==
  [speed : Bauds, databit : 5 .. 8, parenb : BOOLEAN, parodd : BOOLEAN, cstopb : BOOLEAN,
   icanon : BOOLEAN]

SetterTypes ==
  /\ port \in Termios
  /\ copy \in [S!Setter -> Termios] /\ before \in [S!Setter -> Termios]
  /\ want \in [S!Setter -> Configured \cup Requested]
  /\ at \in [S!Setter -> {"idle", "speed", "set", "again", "frame", "write"}]
  /\ overlap \in [S!Setter -> BOOLEAN]

Sped(p, w)  == IF w.baud \in Speeds THEN [p EXCEPT !.speed = w.baud] ELSE p
Asking(p, w) == IF S!Supported(w) THEN S!Framed(Sped(p, w), w) ELSE Sped(p, w)

(* A setter that no other ran into is alone, and how far it is, is how far *)
(* the line is from what it was; the one that was last leaves it as asked. *)
Alone(s) ==
  S!Busy(s) /\ ~overlap[s] =>
    /\ \A u \in S!Setter \ {s} : ~S!Busy(u)
    /\ at[s] \in {"set", "again"} => want[s].baud \in Speeds /\ copy[s] = before[s]
    /\ at[s] \in {"speed", "set"} => port = before[s]
    /\ at[s] \in {"again", "frame"} => port = Sped(before[s], want[s])
    /\ at[s] = "write" => S!Supported(want[s]) /\ copy[s] = Sped(before[s], want[s])

Left ==
  latest \in S!Setter /\ ~overlap[latest] /\ (\A s \in S!Setter : ~S!Busy(s)) =>
    port = Asking(before[latest], want[latest])

LineInv == SetterTypes /\ Left /\ \A s \in S!Setter : Alone(s)

LEMMA Setters == "main" \in S!Setter /\ "none" \notin S!Setter
  BY DEF S!Setter

LEMMA SpedType ==
  ASSUME NEW p \in Termios, NEW w \in Configured \cup Requested
  PROVE  Sped(p, w) \in Termios /\ [p EXCEPT !.speed = w.baud] \in Termios
  <1>1. w.baud \in Bauds
    BY DEF Bauds
  <1>2. [p EXCEPT !.speed = w.baud] \in Termios
    BY <1>1 DEF Termios
  <1>3. QED
    BY <1>2 DEF Sped

LEMMA FramedType ==
  ASSUME NEW p \in Termios, NEW w \in Configured \cup Requested
  PROVE  /\ S!Framed(p, w) \in Termios
         /\ S!Framed(p, w).speed = p.speed
         /\ S!Framed(p, w).icanon = FALSE
         /\ S!Supported(w) => S!Frame(S!Framed(p, w)) = S!Asked(w)
  <1>1. w.databit \in 5 .. 8 /\ w.paritybit \in S!Parities /\ w.stopbit \in 1 .. 2
    BY LineSettings DEF S!SerialLineAssumption
  <1>2. p.parodd \in BOOLEAN
    BY DEF Termios
  <1>3. PICK a \in BOOLEAN : a = (w.paritybit = "O" \/ w.paritybit = "E")
    OBVIOUS
  <1>4. PICK b \in BOOLEAN : b = (w.paritybit = "O" \/ (p.parodd /\ w.paritybit # "E"))
    OBVIOUS
  <1>5. PICK c \in BOOLEAN : c = (w.stopbit = 2)
    OBVIOUS
  <1>6. PICK f : f = S!Framed(p, w)
    OBVIOUS
  <1>13. (w.paritybit \in {"O", "E"}) = (w.paritybit = "O" \/ w.paritybit = "E")
    OBVIOUS
  <1>7. f = [p EXCEPT !.databit = w.databit, !.parenb = a, !.parodd = b, !.cstopb = c,
                      !.icanon = FALSE]
    BY <1>13, <1>3, <1>4, <1>5, <1>6 DEF S!Framed
  <1>8. /\ f \in Termios
        /\ f.speed = p.speed /\ f.databit = w.databit
        /\ f.parenb = a /\ f.parodd = b /\ f.cstopb = c /\ f.icanon = FALSE
    <2>1. w.databit \in 5 .. 8
      BY <1>1
    <2> DEFINE g == [p EXCEPT !.databit = w.databit, !.parenb = a, !.parodd = b,
                              !.cstopb = c, !.icanon = FALSE]
    <2>2. /\ g \in Termios
          /\ g.speed = p.speed /\ g.databit = w.databit
          /\ g.parenb = a /\ g.parodd = b /\ g.cstopb = c /\ g.icanon = FALSE
      BY <2>1 DEF Termios
    <2>3. f = g
      BY <1>7
    <2> HIDE DEF g
    <2>4. QED
      BY <2>2, <2>3
  <1>9. ASSUME S!Supported(w) PROVE S!Frame(f) = S!Asked(w)
    <2>1. w.paritybit \in {"N", "O", "E", "S"}
      BY <1>1, <1>9 DEF S!Supported, S!Parities
    <2>2. S!Parity(f) = IF w.paritybit = "S" THEN "N" ELSE w.paritybit
      <3>1. CASE w.paritybit = "O"
        <4>1. a /\ b
          BY <1>3, <1>4, <3>1
        <4>2. f.parenb /\ f.parodd
          BY <1>8, <4>1
        <4>3. QED
          BY <3>1, <4>2 DEF S!Parity
      <3>2. CASE w.paritybit = "E"
        <4>1. a /\ ~b
          BY <1>3, <1>4, <3>2
        <4>2. f.parenb /\ ~f.parodd
          BY <1>8, <4>1
        <4>3. QED
          BY <3>2, <4>2 DEF S!Parity
      <3>3. CASE w.paritybit \in {"N", "S"}
        <4>1. ~a
          BY <1>3, <3>3
        <4>2. ~f.parenb
          BY <1>8, <4>1
        <4>3. QED
          BY <3>3, <4>2 DEF S!Parity
      <3>4. QED
        BY <2>1, <3>1, <3>2, <3>3
    <2>3. (IF f.cstopb THEN 2 ELSE 1) = w.stopbit
      <3>1. CASE w.stopbit = 2
        <4>1. f.cstopb
          BY <1>5, <1>8, <3>1
        <4>2. QED
          BY <3>1, <4>1
      <3>2. CASE w.stopbit = 1
        <4>1. w.stopbit # 2
          BY <3>2
        <4>2. ~c
          BY <1>5, <4>1
        <4>3. ~f.cstopb
          BY <1>8, <4>2
        <4>4. QED
          BY <3>2, <4>3
      <3>3. QED
        BY <1>1, <3>1, <3>2
    <2>4. QED
      BY <1>8, <2>2, <2>3 DEF S!Frame, S!Asked
  <1>10. QED
    BY <1>6, <1>8, <1>9

LEMMA InitLine == S!Init => LineInv
  <1> SUFFICES ASSUME S!Init PROVE LineInv
    OBVIOUS
  <1>1. S!Opened \in Termios
    BY DEF S!Opened, Termios, Bauds
  <1>2. PICK w \in Configured : want = [s \in S!Setter |-> w]
    BY DEF S!Init
  <1>3. SetterTypes
    <2>1. port \in Termios /\ copy \in [S!Setter -> Termios] /\ before \in [S!Setter -> Termios]
      BY <1>1 DEF S!Init
    <2>2. want \in [S!Setter -> Configured \cup Requested]
      BY <1>2
    <2>3. at \in [S!Setter -> {"idle", "speed", "set", "again", "frame", "write"}]
      BY DEF S!Init
    <2>4. overlap \in [S!Setter -> BOOLEAN]
      BY DEF S!Init
    <2>5. QED
      BY <2>1, <2>2, <2>3, <2>4 DEF SetterTypes
  <1>4. Left
    BY Setters DEF S!Init, Left
  <1>5. ASSUME NEW s \in S!Setter PROVE Alone(s)
    <2>1. CASE s = "main"
      BY <2>1 DEF S!Init, Alone, S!Busy
    <2>2. CASE s # "main"
      BY <2>2 DEF S!Init, Alone, S!Busy
    <2>3. QED
      BY <2>1, <2>2
  <1>6. QED
    BY <1>3, <1>4, <1>5 DEF LineInv

(* A setter that begins is alone only if nobody is at work, and then it    *)
(* finds the line as it notes it.                                          *)
LEMMA BeginLine ==
  ASSUME LineInv, NEW s \in S!Setter, S!xfrc2217(s)
  PROVE  LineInv'
  <1>1. PICK w \in Requested : want' = [want EXCEPT ![s] = w]
    BY DEF S!xfrc2217
  <1>2. /\ at[s] = "idle" /\ at' = [at EXCEPT ![s] = "speed"]
        /\ before' = [before EXCEPT ![s] = port]
        /\ port' = port /\ copy' = copy /\ latest' = latest
    BY DEF S!xfrc2217, S!Goto
  <1>3. overlap' = [t \in S!Setter |-> IF t = s THEN \E u \in S!Setter \ {s} : S!Busy(u)
                                       ELSE overlap[t] \/ S!Busy(t)]
    BY DEF S!xfrc2217
  <1>4. SetterTypes'
    <2>1. overlap' \in [S!Setter -> BOOLEAN]
      <3>1. \A t \in S!Setter : overlap[t] \in BOOLEAN
        BY DEF LineInv, SetterTypes
      <3>2. \A t \in S!Setter :
              (IF t = s THEN \E u \in S!Setter \ {s} : S!Busy(u) ELSE overlap[t] \/ S!Busy(t))
                \in BOOLEAN
        BY <3>1
      <3>3. QED
        BY <1>3, <3>2
    <2>2. QED
      BY <1>1, <1>2, <2>1 DEF LineInv, SetterTypes
  <1>5. at'[s] = "speed" /\ \A u \in S!Setter \ {s} : at'[u] = at[u]
    BY <1>2 DEF LineInv, SetterTypes
  <1>6. Left'
    <2>1. S!Busy(s)'
      BY <1>5 DEF S!Busy
    <2>2. QED
      BY <2>1 DEF Left
  <1>7. ASSUME NEW t \in S!Setter PROVE Alone(t)'
    <2>1. CASE t = s
      <3>1. overlap'[s] = \E u \in S!Setter \ {s} : S!Busy(u)
        BY <1>3
      <3>2. ~overlap'[s] => \A u \in S!Setter \ {s} : ~S!Busy(u)'
        BY <1>5, <3>1 DEF S!Busy
      <3>3. before'[s] = port
        BY <1>2 DEF LineInv, SetterTypes
      <3>4. QED
        BY <1>2, <1>5, <2>1, <3>2, <3>3 DEF Alone
    <2>2. CASE t # s
      <3>1. overlap'[t] = (overlap[t] \/ S!Busy(t))
        BY <1>3, <2>2
      <3>2. S!Busy(t)' => S!Busy(t)
        BY <1>5, <2>2 DEF S!Busy
      <3>3. QED
        BY <3>1, <3>2 DEF Alone
    <2>3. QED
      BY <2>1, <2>2
  <1>8. QED
    BY <1>4, <1>6, <1>7 DEF LineInv

(* What a step of a setter at work leaves to show: a setter that is alone  *)
(* is the one that steps, and while one is at work the line is not left.   *)
LEMMA AtWork ==
  ASSUME LineInv, NEW s \in S!Setter, SetterTypes', S!Busy(s), S!Busy(s)',
         \A u \in S!Setter \ {s} : at'[u] = at[u],
         want' = want, before' = before, overlap' = overlap,
         ~overlap[s] =>
           /\ at'[s] \in {"set", "again"} => want[s].baud \in Speeds /\ copy'[s] = before[s]
           /\ at'[s] \in {"speed", "set"} => port' = before[s]
           /\ at'[s] \in {"again", "frame"} => port' = Sped(before[s], want[s])
           /\ at'[s] = "write" => S!Supported(want[s]) /\ copy'[s] = Sped(before[s], want[s])
  PROVE  LineInv'
  <1>1. Left'
    BY DEF Left
  <1>2. ASSUME NEW t \in S!Setter PROVE Alone(t)'
    <2>1. CASE t = s
      <3>1. \A u \in S!Setter \ {s} : S!Busy(u)' <=> S!Busy(u)
        BY DEF S!Busy
      <3>2. ~overlap[s] => \A u \in S!Setter \ {s} : ~S!Busy(u)
        BY DEF LineInv, Alone
      <3>3. Sped(before[s], want[s])' = Sped(before[s], want[s])
        BY DEF Sped
      <3>4. QED
        BY <2>1, <3>1, <3>2, <3>3 DEF Alone, S!Supported
    <2>2. CASE t # s
      <3>1. S!Busy(t)' => S!Busy(t)
        BY <2>2 DEF S!Busy
      <3>2. ~(S!Busy(t) /\ ~overlap[t])
        BY <2>2 DEF LineInv, Alone
      <3>3. QED
        BY <3>1, <3>2 DEF Alone
    <2>3. QED
      BY <2>1, <2>2
  <1>3. QED
    BY <1>1, <1>2 DEF LineInv

(* A setter that ends, if it was alone, leaves the line as it asks. *)
LEMMA AtRest ==
  ASSUME LineInv, NEW s \in S!Setter, SetterTypes', S!Busy(s), at'[s] = "idle", latest' = s,
         \A u \in S!Setter \ {s} : at'[u] = at[u],
         want' = want, before' = before, overlap' = overlap,
         ~overlap[s] => port' = Asking(before[s], want[s])
  PROVE  LineInv'
  <1>1. Left'
    <2>1. Asking(before[s], want[s])' = Asking(before[s], want[s])
      BY DEF Asking, Sped, S!Supported, S!Framed
    <2>2. QED
      BY <2>1 DEF Left
  <1>2. ASSUME NEW t \in S!Setter PROVE Alone(t)'
    <2>1. CASE t = s
      BY <2>1 DEF Alone, S!Busy
    <2>2. CASE t # s
      <3>1. S!Busy(t)' => S!Busy(t)
        BY <2>2 DEF S!Busy
      <3>2. ~(S!Busy(t) /\ ~overlap[t])
        BY <2>2 DEF LineInv, Alone
      <3>3. QED
        BY <3>1, <3>2 DEF Alone
    <2>3. QED
      BY <2>1, <2>2
  <1>3. QED
    BY <1>1, <1>2 DEF LineInv

LEMMA SpeedGets ==
  ASSUME LineInv, NEW s \in S!Setter, S!SpeedGet(s)
  PROVE  LineInv'
  <1>1. /\ at[s] = "speed"
        /\ at' = [at EXCEPT ![s] = IF want[s].baud \in Speeds THEN "set" ELSE "frame"]
        /\ copy' = [copy EXCEPT ![s] = port]
        /\ port' = port /\ want' = want /\ before' = before /\ overlap' = overlap
        /\ latest' = latest
    BY DEF S!SpeedGet, S!Goto
  <1>2. /\ at'[s] = IF want[s].baud \in Speeds THEN "set" ELSE "frame"
        /\ \A u \in S!Setter \ {s} : at'[u] = at[u]
        /\ copy'[s] = port
    BY <1>1 DEF LineInv, SetterTypes
  <1>3. SetterTypes'
    BY <1>1 DEF LineInv, SetterTypes
  <1>4. S!Busy(s) /\ S!Busy(s)'
    BY <1>1, <1>2 DEF S!Busy
  <1>5. ~overlap[s] => port = before[s]
    BY <1>1, <1>4 DEF LineInv, Alone
  <1>6. want[s].baud \notin Speeds => Sped(before[s], want[s]) = before[s]
    BY DEF Sped
  <1>7. QED
    <2>1. CASE want[s].baud \in Speeds
      BY <1>1, <1>2, <1>3, <1>4, <1>5, <2>1, AtWork
    <2>2. CASE want[s].baud \notin Speeds
      BY <1>1, <1>2, <1>3, <1>4, <1>5, <1>6, <2>2, AtWork
    <2>3. QED
      BY <2>1, <2>2

LEMMA SpeedSets ==
  ASSUME LineInv, NEW s \in S!Setter, S!SpeedSet(s)
  PROVE  LineInv'
  <1>1. /\ at[s] \in {"set", "again"}
        /\ at' = [at EXCEPT ![s] = IF at[s] = "set" THEN "again" ELSE "frame"]
        /\ port' = [copy[s] EXCEPT !.speed = want[s].baud]
        /\ copy' = copy /\ want' = want /\ before' = before /\ overlap' = overlap
        /\ latest' = latest
    BY DEF S!SpeedSet, S!Goto
  <1>2. /\ at'[s] = IF at[s] = "set" THEN "again" ELSE "frame"
        /\ \A u \in S!Setter \ {s} : at'[u] = at[u]
    BY <1>1 DEF LineInv, SetterTypes
  <1>3. SetterTypes'
    <2>1. port' \in Termios
      BY <1>1, SpedType DEF LineInv, SetterTypes
    <2>2. QED
      BY <1>1, <2>1 DEF LineInv, SetterTypes
  <1>4. S!Busy(s) /\ S!Busy(s)'
    BY <1>1, <1>2 DEF S!Busy
  <1>5. ~overlap[s] => want[s].baud \in Speeds /\ copy[s] = before[s]
    BY <1>1, <1>4 DEF LineInv, Alone
  <1>6. ~overlap[s] => port' = Sped(before[s], want[s])
    BY <1>1, <1>5 DEF Sped
  <1>7. QED
    BY <1>1, <1>2, <1>3, <1>4, <1>5, <1>6, AtWork

LEMMA FrameGets ==
  ASSUME LineInv, NEW s \in S!Setter, S!FrameGet(s)
  PROVE  LineInv'
  <1>1. /\ at[s] = "frame"
        /\ at' = [at EXCEPT ![s] = IF S!Supported(want[s]) THEN "write" ELSE "idle"]
        /\ copy' = [copy EXCEPT ![s] = port]
        /\ latest' = IF S!Supported(want[s]) THEN latest ELSE s
        /\ port' = port /\ want' = want /\ before' = before /\ overlap' = overlap
    BY DEF S!FrameGet, S!Goto
  <1>2. /\ at'[s] = IF S!Supported(want[s]) THEN "write" ELSE "idle"
        /\ \A u \in S!Setter \ {s} : at'[u] = at[u]
        /\ copy'[s] = port
    BY <1>1 DEF LineInv, SetterTypes
  <1>3. SetterTypes'
    BY <1>1 DEF LineInv, SetterTypes
  <1>4. S!Busy(s)
    BY <1>1 DEF S!Busy
  <1>5. ~overlap[s] => port = Sped(before[s], want[s])
    BY <1>1, <1>4 DEF LineInv, Alone
  <1>6. CASE S!Supported(want[s])
    <2>1. S!Busy(s)'
      BY <1>2, <1>6 DEF S!Busy
    <2>2. QED
      BY <1>1, <1>2, <1>3, <1>4, <1>5, <1>6, <2>1, AtWork
  <1>7. CASE ~S!Supported(want[s])
    <2>1. ~overlap[s] => port' = Asking(before[s], want[s])
      BY <1>1, <1>5, <1>7 DEF Asking
    <2>2. QED
      BY <1>1, <1>2, <1>3, <1>4, <1>7, <2>1, AtRest
  <1>8. QED
    BY <1>6, <1>7

LEMMA FrameSets ==
  ASSUME LineInv, NEW s \in S!Setter, S!FrameSet(s)
  PROVE  LineInv'
  <1>1. /\ at[s] = "write" /\ at' = [at EXCEPT ![s] = "idle"]
        /\ port' = S!Framed(copy[s], want[s]) /\ latest' = s
        /\ copy' = copy /\ want' = want /\ before' = before /\ overlap' = overlap
    BY DEF S!FrameSet, S!Goto
  <1>2. at'[s] = "idle" /\ \A u \in S!Setter \ {s} : at'[u] = at[u]
    BY <1>1 DEF LineInv, SetterTypes
  <1>3. SetterTypes'
    <2>1. copy[s] \in Termios /\ want[s] \in Configured \cup Requested
      BY DEF LineInv, SetterTypes
    <2>2. port' \in Termios
      BY <1>1, <2>1, FramedType
    <2>3. QED
      BY <1>1, <2>2 DEF LineInv, SetterTypes
  <1>4. S!Busy(s)
    BY <1>1 DEF S!Busy
  <1>5. ~overlap[s] => S!Supported(want[s]) /\ copy[s] = Sped(before[s], want[s])
    BY <1>1, <1>4 DEF LineInv, Alone
  <1>6. ~overlap[s] => port' = Asking(before[s], want[s])
    BY <1>1, <1>5 DEF Asking
  <1>7. QED
    BY <1>1, <1>2, <1>3, <1>4, <1>6, AtRest

LEMMA StepLine == LineInv /\ [S!Next]_S!vars => LineInv'
  <1> SUFFICES ASSUME LineInv, [S!Next]_S!vars PROVE LineInv'
    OBVIOUS
  <1>1. CASE UNCHANGED S!vars
    <2>1. /\ port' = port /\ copy' = copy /\ want' = want /\ at' = at /\ before' = before
          /\ overlap' = overlap /\ latest' = latest
      BY <1>1 DEF S!vars
    <2>2. SetterTypes'
      BY <2>1 DEF LineInv, SetterTypes
    <2>3. Left'
      BY <2>1 DEF LineInv, Left, Asking, Sped, S!Busy, S!Supported, S!Framed
    <2>4. ASSUME NEW s \in S!Setter PROVE Alone(s)'
      BY <2>1 DEF LineInv, Alone, Sped, S!Busy, S!Supported
    <2>5. QED
      BY <2>2, <2>3, <2>4 DEF LineInv
  <1>2. ASSUME NEW s \in S!Setter,
               S!xfrc2217(s) \/ S!SpeedGet(s) \/ S!SpeedSet(s) \/ S!FrameGet(s) \/ S!FrameSet(s)
        PROVE  LineInv'
    <2>1. CASE S!xfrc2217(s)
      BY <2>1, BeginLine
    <2>2. CASE S!SpeedGet(s)
      BY <2>2, SpeedGets
    <2>3. CASE S!SpeedSet(s)
      BY <2>3, SpeedSets
    <2>4. CASE S!FrameGet(s)
      BY <2>4, FrameGets
    <2>5. CASE S!FrameSet(s)
      BY <2>5, FrameSets
    <2>6. QED
      BY <1>2, <2>1, <2>2, <2>3, <2>4, <2>5
  <1>3. QED
    BY <1>1, <1>2 DEF S!Next

(* The line is left, part by part, as the setting asks. *)
LEMMA LeftAsAsked == LineInv => LineAsAsked
  <1> SUFFICES ASSUME LineInv, latest \in S!Setter, ~overlap[latest],
                      \A s \in S!Setter : ~S!Busy(s)
               PROVE  LET w   == want[latest]
                          was == before[latest]
                      IN  /\ port.speed = IF w.baud \in Speeds THEN w.baud ELSE was.speed
                          /\ S!Frame(port) = IF S!Supported(w) THEN S!Asked(w) ELSE S!Frame(was)
                          /\ port.icanon = (was.icanon /\ ~S!Supported(w))
    BY DEF LineAsAsked, S!LineAsAsked
  <1>1. PICK w \in Configured \cup Requested : w = want[latest]
    BY DEF LineInv, SetterTypes
  <1>2. PICK was \in Termios : was = before[latest]
    BY DEF LineInv, SetterTypes
  <1>3. port = Asking(was, w)
    BY <1>1, <1>2 DEF LineInv, Left
  <1>4. PICK p \in Termios : p = Sped(was, w)
    BY SpedType
  <1>5. p.speed = IF w.baud \in Speeds THEN w.baud ELSE was.speed
    BY <1>4 DEF Sped, Termios
  <1>6. S!Frame(p) = S!Frame(was) /\ p.icanon = was.icanon
    <2>1. CASE w.baud \in Speeds
      <3>1. /\ p.databit = was.databit /\ p.parenb = was.parenb /\ p.parodd = was.parodd
            /\ p.cstopb = was.cstopb /\ p.icanon = was.icanon
        BY <1>4, <2>1 DEF Sped, Termios
      <3>2. S!Parity(p) = S!Parity(was)
        BY <3>1, Zenon DEF S!Parity
      <3>3. QED
        BY <3>1, <3>2, Zenon DEF S!Frame
    <2>2. CASE w.baud \notin Speeds
      BY <1>4, <2>2 DEF Sped
    <2>3. QED
      BY <2>1, <2>2
  <1>7. was.icanon \in BOOLEAN
    BY DEF Termios
  <1>8. CASE S!Supported(w)
    <2>1. port = S!Framed(p, w)
      BY <1>3, <1>4, <1>8 DEF Asking
    <2>2. port.speed = p.speed /\ S!Frame(port) = S!Asked(w) /\ port.icanon = FALSE
      BY <2>1, <1>8, FramedType
    <2>3. QED
      BY <1>1, <1>2, <1>5, <1>8, <2>2
  <1>9. CASE ~S!Supported(w)
    <2>1. port = p
      BY <1>3, <1>4, <1>9 DEF Asking
    <2>2. QED
      BY <1>1, <1>2, <1>5, <1>6, <1>7, <1>9, <2>1
  <1>10. QED
    BY <1>8, <1>9

(* However the setters of the line run into each other, a setting that no  *)
(* other ran into leaves the line as it asks: the rate if it is in the     *)
(* table, the frame if it is supported, and what is not as it was          *)
(* (main.c set_speed and set_Parity, utils.c xfrc2217).                    *)
THEOREM LineIsAsAsked == S!Spec => []LineAsAsked
  <1>1. QED
    BY InitLine, StepLine, LeftAsAsked, PTL DEF S!Spec

-----------------------------------------------------------------------------
(***************************************************************************)
(* The texts of the socket threads.  What is defined by recursion over     *)
(* numbers or sequences is reasoned about from its least counterexample.   *)
(***************************************************************************)
(* A set of numbers has its least. *)
LEMMA MinIsLeast ==
  ASSUME NEW D \in SUBSET Nat, D # {}
  PROVE  X!Min(D) \in D /\ \A y \in D : X!Min(D) <= y
  <1> DEFINE T == {0 .. x : x \in D}
  <1>1. T \subseteq FiniteSubsetsOf(Nat)
    <2>1. ASSUME NEW x \in D PROVE 0 .. x \subseteq Nat /\ IsFiniteSet(0 .. x)
      BY FS_Interval
    <2>2. QED
      BY <2>1 DEF FiniteSubsetsOf
  <1>2. IsWellFoundedOn(StrictSubsetOrdering(Nat), FiniteSubsetsOf(Nat))
    BY FS_StrictSubsetOrderingWellFounded
  <1>3. T # {}
    OBVIOUS
  <1>4. PICK m \in T : \A t \in T : <<t, m>> \notin StrictSubsetOrdering(Nat)
    <2> HIDE DEF T
    <2>1. QED
      BY <1>1, <1>2, <1>3, WFMin
  <1>5. PICK x \in D : m = 0 .. x
    BY <1>4
  <1>6. ASSUME NEW y \in D PROVE x <= y
    <2>1. SUFFICES ASSUME y < x PROVE FALSE
      OBVIOUS
    <2>2. 0 .. y \subseteq 0 .. x /\ x \in 0 .. x /\ x \notin 0 .. y
      BY <2>1
    <2>3. <<0 .. y, m>> \in StrictSubsetOrdering(Nat)
      BY <1>5, <2>2 DEF StrictSubsetOrdering
    <2>4. QED
      BY <1>4, <2>3
  <1>7. QED
    BY <1>5, <1>6 DEF X!Min

(* The function that Decimal chooses exists: up to b, one does. *)
DecimalTo(g, b) ==
  /\ \A m \in 0 .. b : m < 10 => g[m] = <<m>>
  /\ \A m \in 0 .. b : m >= 10 => g[m] = Append(g[m \div 10], m % 10)

(* The digits before the last are those of a smaller number. *)
LEMMA Tenth ==
  ASSUME NEW m \in Nat, m >= 10
  PROVE  m \div 10 \in 0 .. m - 1 /\ m % 10 \in 0 .. 9 /\ m % 10 = m - 10 * (m \div 10)
  <1>1. m \div 10 \in 0 .. m - 1
    OBVIOUS
  <1>2. m % 10 \in 0 .. 9
    OBVIOUS
  <1>3. m % 10 = m - 10 * (m \div 10)
    OBVIOUS
  <1>4. QED
    BY <1>1, <1>2, <1>3

LEMMA Agree ==
  ASSUME NEW g, NEW h, NEW a \in Nat, NEW b \in Nat, DecimalTo(g, a), DecimalTo(h, b)
  PROVE  \A m \in Nat : m <= a /\ m <= b => g[m] = h[m]
  <1> DEFINE Odd == {m \in Nat : m <= a /\ m <= b /\ g[m] # h[m]}
  <1> SUFFICES ASSUME Odd # {} PROVE FALSE
    OBVIOUS
  <1>1. PICK m \in Odd : \A y \in Odd : m <= y
    <2>1. Odd \in SUBSET Nat
      OBVIOUS
    <2> HIDE DEF Odd
    <2>2. QED
      BY <2>1, MinIsLeast
  <1>2. m \in 0 .. a /\ m \in 0 .. b /\ g[m] # h[m]
    BY <1>1
  <1>3. CASE m < 10
    BY <1>2, <1>3 DEF DecimalTo
  <1>4. CASE m >= 10
    <2>1. m \div 10 \in 0 .. m - 1
      BY <1>2, <1>4, Tenth
    <2>2. g[m \div 10] = h[m \div 10]
      BY <1>1, <1>2, <2>1
    <2>3. g[m] = Append(g[m \div 10], m % 10) /\ h[m] = Append(h[m \div 10], m % 10)
      BY <1>2, <1>4 DEF DecimalTo
    <2>4. QED
      BY <1>2, <2>2, <2>3
  <1>5. QED
    BY <1>2, <1>3, <1>4

LEMMA GoodExists == \A b \in Nat : \E g : DecimalTo(g, b)
  <1> DEFINE Odd == {b \in Nat : ~ \E g : DecimalTo(g, b)}
  <1> SUFFICES ASSUME Odd # {} PROVE FALSE
    OBVIOUS
  <1>1. PICK b \in Odd : \A y \in Odd : b <= y
    <2>1. Odd \in SUBSET Nat
      OBVIOUS
    <2> HIDE DEF Odd
    <2>2. QED
      BY <2>1, MinIsLeast
  <1>2. b \in Nat /\ ~ \E g : DecimalTo(g, b)
    BY <1>1
  <1>3. CASE b = 0
    <2>1. DecimalTo([m \in 0 .. 0 |-> <<m>>], 0)
      BY DEF DecimalTo
    <2>2. QED
      BY <1>2, <1>3, <2>1
  <1>4. CASE b # 0
    <2>1. b - 1 \in Nat /\ b - 1 \notin Odd
      BY <1>1, <1>2, <1>4
    <2>2. PICK g : DecimalTo(g, b - 1)
      BY <2>1
    <2> DEFINE h == [m \in 0 .. b |->
                       IF m < b THEN g[m]
                       ELSE IF b < 10 THEN <<b>> ELSE Append(g[b \div 10], b % 10)]
    <2>3. ASSUME NEW m \in 0 .. b
          PROVE  /\ m < 10 => h[m] = <<m>>
                 /\ m >= 10 => h[m] = Append(h[m \div 10], m % 10)
      <3>1. m >= 10 => m \div 10 \in 0 .. m - 1
        BY Tenth
      <3>2. m >= 10 => h[m \div 10] = g[m \div 10]
        BY <3>1, <1>2
      <3>3. CASE m < b
        <4>1. m \in 0 .. b - 1
          BY <3>3, <1>2
        <4>2. h[m] = g[m]
          BY <3>3
        <4> HIDE DEF h
        <4>3. QED
          BY <2>2, <3>2, <4>1, <4>2 DEF DecimalTo
      <3>4. CASE m = b
        <4>1. h[m] = IF b < 10 THEN <<b>> ELSE Append(g[b \div 10], b % 10)
          BY <3>4, <1>2
        <4> HIDE DEF h
        <4>2. QED
          BY <3>2, <3>4, <4>1, <1>2
      <3> HIDE DEF h
      <3>5. m < b \/ m = b
        BY <1>2
      <3>6. QED
        BY <3>3, <3>4, <3>5
    <2> HIDE DEF h
    <2>4. DecimalTo(h, b)
      BY <2>3 DEF DecimalTo
    <2>5. QED
      BY <1>2, <2>4
  <1>5. QED
    BY <1>3, <1>4

LEMMA DecimalFacts ==
  \A m \in Nat : X!Decimal[m] = IF m < 10 THEN <<m>> ELSE Append(X!Decimal[m \div 10], m % 10)
  <1> DEFINE G(m) == CHOOSE g : DecimalTo(g, m)
             f == [m \in Nat |-> G(m)[m]]
  <1>1. \A m \in Nat : DecimalTo(G(m), m)
    BY GoodExists
  <1>2. ASSUME NEW m \in Nat
        PROVE  f[m] = IF m < 10 THEN <<m>> ELSE Append(f[m \div 10], m % 10)
    <2>1. f[m] = G(m)[m]
      OBVIOUS
    <2>2. m >= 10 => m \div 10 \in 0 .. m - 1
      BY Tenth
    <2>3. m >= 10 => f[m \div 10] = G(m \div 10)[m \div 10]
      BY <2>2
    <2>4. m >= 10 => G(m \div 10)[m \div 10] = G(m)[m \div 10]
      <3>1. DecimalTo(G(m), m) /\ (m >= 10 => DecimalTo(G(m \div 10), m \div 10))
        BY <1>1, <2>2
      <3> HIDE DEF G
      <3>2. QED
        BY <2>2, <3>1, Agree
    <2> HIDE DEF f, G
    <2>5. /\ m < 10 => G(m)[m] = <<m>>
          /\ m >= 10 => G(m)[m] = Append(G(m)[m \div 10], m % 10)
      <3>1. PICK g : g = G(m)
        OBVIOUS
      <3>2. DecimalTo(g, m) /\ m \in 0 .. m
        BY <1>1, <3>1
      <3>3. QED
        BY <3>1, <3>2 DEF DecimalTo
    <2>6. CASE m < 10
      BY <2>1, <2>5, <2>6
    <2>7. CASE m >= 10
      <3>1. f[m] = Append(f[m \div 10], m % 10)
        BY <2>1, <2>3, <2>4, <2>5, <2>7
      <3>2. ~(m < 10)
        BY <2>7
      <3>3. QED
        BY <3>1, <3>2
    <2>8. QED
      BY <2>6, <2>7
  <1> HIDE DEF G
  <1>3. f = [m \in Nat |-> IF m < 10 THEN <<m>> ELSE Append(f[m \div 10], m % 10)]
    BY <1>2
  <1> HIDE DEF f
  <1>4. X!Decimal = [m \in Nat |-> IF m < 10 THEN <<m>> ELSE Append(X!Decimal[m \div 10], m % 10)]
    BY <1>3 DEF X!Decimal
  <1>5. QED
    BY <1>4

-----------------------------------------------------------------------------
ValuesTo(g, s, b) ==
  \A D \in SUBSET (1 .. b) :
    g[D] = IF D = {} THEN 0 ELSE 10 * g[D \ {X!Max(D)}] + s[X!Max(D)]

LEMMA MaxOfLast ==
  ASSUME NEW b \in Nat, NEW D \in SUBSET (1 .. b), b \in D
  PROVE  X!Max(D) = b
  <1>1. \A y \in D : b >= y
    OBVIOUS
  <1>2. \A x \in D : (\A y \in D : x >= y) => x = b
    OBVIOUS
  <1>3. QED
    BY <1>1, <1>2 DEF X!Max

(* The function the fold chooses exists, too. *)
LEMMA CountsExist ==
  ASSUME NEW s
  PROVE  \A b \in Nat : \E g : ValuesTo(g, s, b)
  <1> DEFINE Odd == {b \in Nat : ~ \E g : ValuesTo(g, s, b)}
  <1> SUFFICES ASSUME Odd # {} PROVE FALSE
    OBVIOUS
  <1>1. PICK b \in Odd : \A y \in Odd : b <= y
    <2>1. Odd \in SUBSET Nat
      OBVIOUS
    <2> HIDE DEF Odd
    <2>2. QED
      BY <2>1, MinIsLeast
  <1>2. b \in Nat /\ ~ \E g : ValuesTo(g, s, b)
    BY <1>1
  <1>3. CASE b = 0
    <2>1. 1 .. b = {}
      BY <1>3
    <2>2. ValuesTo([D \in {{}} |-> 0], s, b)
      BY <2>1 DEF ValuesTo
    <2>3. QED
      BY <1>2, <2>2
  <1>4. CASE b # 0
    <2>1. b - 1 \in Nat /\ b - 1 \notin Odd
      BY <1>1, <1>2, <1>4
    <2>2. PICK g : ValuesTo(g, s, b - 1)
      BY <2>1
    <2> DEFINE h == [D \in SUBSET (1 .. b) |->
                       IF b \in D THEN 10 * g[D \ {b}] + s[b] ELSE g[D]]
    <2>3. ASSUME NEW D \in SUBSET (1 .. b)
          PROVE  h[D] = IF D = {} THEN 0 ELSE 10 * h[D \ {X!Max(D)}] + s[X!Max(D)]
      <3>1. CASE b \in D
        <4>1. X!Max(D) = b /\ D # {}
          BY <1>2, <3>1, MaxOfLast
        <4>2. h[D] = 10 * g[D \ {b}] + s[b] /\ h[D \ {b}] = g[D \ {b}]
          BY <3>1
        <4> HIDE DEF h
        <4>3. QED
          BY <4>1, <4>2
      <3>2. CASE b \notin D
        <4>1. D \in SUBSET (1 .. b - 1)
          BY <1>2, <3>2
        <4>2. h[D] = g[D] /\ h[D \ {X!Max(D)}] = g[D \ {X!Max(D)}]
          BY <3>2
        <4> HIDE DEF h
        <4>3. QED
          BY <2>2, <4>1, <4>2 DEF ValuesTo
      <3>3. QED
        BY <3>1, <3>2
    <2> HIDE DEF h
    <2>4. ValuesTo(h, s, b)
      BY <2>3 DEF ValuesTo
    <2>5. QED
      BY <1>2, <2>4
  <1>5. QED
    BY <1>3, <1>4

(* X!ValueOf, one digit after the other. *)
RunsTo(c, s) == c[0] = 0 /\ \A j \in 1 .. Len(s) : c[j] = 10 * c[j - 1] + s[j]

LEMMA ValueRuns ==
  ASSUME NEW s \in Seq(Nat)
  PROVE  \E c \in [0 .. Len(s) -> Nat] : RunsTo(c, s) /\ X!ValueOf(s) = c[Len(s)]
  <1> DEFINE v == CHOOSE g : g = [D \in SUBSET (DOMAIN s) |->
                    IF D = {} THEN 0 ELSE 10 * g[D \ {X!Max(D)}] + s[X!Max(D)]]
  <1>1. X!ValueOf(s) = v[DOMAIN s]
    BY DEF X!ValueOf, X!FoldLeft, X!MapThenFoldSet
  <1>2. PICK g : ValuesTo(g, s, Len(s))
    <2>1. Len(s) \in Nat
      OBVIOUS
    <2>2. QED
      BY <2>1, CountsExist
  <1>3. DOMAIN s = 1 .. Len(s) /\ Len(s) \in Nat
    OBVIOUS
  <1> DEFINE w == [D \in SUBSET (DOMAIN s) |-> g[D]]
  <1>4. \A D \in SUBSET (DOMAIN s) :
          w[D] = IF D = {} THEN 0 ELSE 10 * w[D \ {X!Max(D)}] + s[X!Max(D)]
    <2> TAKE D \in SUBSET (DOMAIN s)
    <2>1. w[D] = g[D] /\ w[D \ {X!Max(D)}] = g[D \ {X!Max(D)}]
      OBVIOUS
    <2>2. D \in SUBSET (1 .. Len(s))
      BY <1>3
    <2> HIDE DEF w
    <2>3. QED
      BY <1>2, <2>1, <2>2 DEF ValuesTo
  <1>5. w = [D \in SUBSET (DOMAIN s) |-> IF D = {} THEN 0 ELSE 10 * w[D \ {X!Max(D)}] + s[X!Max(D)]]
    BY <1>4
  <1> HIDE DEF w
  <1>6. v = [D \in SUBSET (DOMAIN s) |-> IF D = {} THEN 0 ELSE 10 * v[D \ {X!Max(D)}] + s[X!Max(D)]]
    BY <1>5
  <1> HIDE DEF v
  <1> DEFINE c == [j \in 0 .. Len(s) |-> v[1 .. j]]
  <1>7. c[0] = 0
    <2>1. v[{}] = 0
      BY <1>6
    <2>2. 1 .. 0 = {} /\ 0 \in 0 .. Len(s)
      BY <1>3
    <2>3. QED
      BY <2>1, <2>2
  <1>8. ASSUME NEW j \in 1 .. Len(s) PROVE c[j] = 10 * c[j - 1] + s[j]
    <2>1. X!Max(1 .. j) = j
      BY <1>3, MaxOfLast
    <2>2. (1 .. j) \ {j} = 1 .. j - 1 /\ 1 .. j # {} /\ 1 .. j \in SUBSET (DOMAIN s)
      <3>1. j \in Nat /\ j # 0 /\ j <= Len(s)
        BY <1>3
      <3>2. (1 .. j) \ {j} = 1 .. j - 1
        BY <3>1
      <3>3. 1 .. j \subseteq 1 .. Len(s) /\ j \in 1 .. j
        BY <1>3, <3>1
      <3>4. QED
        BY <1>3, <3>2, <3>3
    <2>3. v[1 .. j] = 10 * v[1 .. j - 1] + s[j]
      BY <1>6, <2>1, <2>2
    <2>4. j \in 0 .. Len(s) /\ j - 1 \in 0 .. Len(s)
      BY <1>3
    <2>5. QED
      BY <2>3, <2>4
  <1> HIDE DEF c
  <1>9. RunsTo(c, s)
    BY <1>7, <1>8 DEF RunsTo
  <1>10. \A j \in 0 .. Len(s) : c[j] \in Nat
    <2> DEFINE Odd == {j \in 0 .. Len(s) : c[j] \notin Nat}
    <2> SUFFICES ASSUME Odd # {} PROVE FALSE
      OBVIOUS
    <2>1. PICK j \in Odd : \A y \in Odd : j <= y
      <3>1. Odd \in SUBSET Nat
        OBVIOUS
      <3> HIDE DEF Odd
      <3>2. QED
        BY <3>1, MinIsLeast
    <2>2. j \in 0 .. Len(s) /\ c[j] \notin Nat
      BY <2>1
    <2>3. j # 0
      BY <1>7, <2>2
    <2>4. c[j - 1] \in Nat
      BY <1>3, <2>1, <2>2, <2>3
    <2>5. s[j] \in Nat
      BY <1>3, <2>2, <2>3
    <2>6. c[j] = 10 * c[j - 1] + s[j]
      BY <1>3, <1>8, <2>2, <2>3
    <2>7. QED
      BY <2>2, <2>4, <2>5, <2>6
  <1>11. X!ValueOf(s) = c[Len(s)]
    BY <1>1, <1>3 DEF c
  <1>12. c \in [0 .. Len(s) -> Nat]
    BY <1>10 DEF c
  <1>13. QED
    BY <1>9, <1>11, <1>12

(* A digit more. *)
LEMMA ValueAppend ==
  ASSUME NEW s \in Seq(Nat), NEW e \in Nat
  PROVE  X!ValueOf(s) \in Nat /\ X!ValueOf(Append(s, e)) = 10 * X!ValueOf(s) + e
  <1>1. /\ Append(s, e) \in Seq(Nat) /\ Len(Append(s, e)) = Len(s) + 1 /\ Len(s) \in Nat
        /\ Append(s, e)[Len(s) + 1] = e
        /\ \A j \in 1 .. Len(s) : Append(s, e)[j] = s[j]
    OBVIOUS
  <1>2. PICK c \in [0 .. Len(s) -> Nat] : RunsTo(c, s) /\ X!ValueOf(s) = c[Len(s)]
    BY ValueRuns
  <1>3. PICK d : RunsTo(d, Append(s, e)) /\ X!ValueOf(Append(s, e)) = d[Len(s) + 1]
    BY <1>1, ValueRuns
  <1>4. \A j \in 0 .. Len(s) : c[j] = d[j]
    <2> DEFINE Odd == {j \in 0 .. Len(s) : c[j] # d[j]}
    <2> SUFFICES ASSUME Odd # {} PROVE FALSE
      OBVIOUS
    <2>1. PICK j \in Odd : \A y \in Odd : j <= y
      <3>1. Odd \in SUBSET Nat
        OBVIOUS
      <3> HIDE DEF Odd
      <3>2. QED
        BY <3>1, MinIsLeast
    <2>2. j \in 0 .. Len(s) /\ c[j] # d[j]
      BY <2>1
    <2>3. j # 0
      BY <1>2, <1>3, <2>2 DEF RunsTo
    <2>4. j \in 1 .. Len(s) /\ j - 1 \in 0 .. Len(s) /\ j \in 1 .. Len(s) + 1
      BY <1>1, <2>2, <2>3
    <2>5. c[j - 1] = d[j - 1]
      BY <1>1, <2>1, <2>4
    <2>6. c[j] = 10 * c[j - 1] + s[j]
      BY <1>2, <2>4 DEF RunsTo
    <2>7. d[j] = 10 * d[j - 1] + s[j]
      BY <1>1, <1>3, <2>4 DEF RunsTo
    <2>8. QED
      BY <2>2, <2>5, <2>6, <2>7
  <1>5. Len(s) \in 0 .. Len(s) /\ Len(s) + 1 \in 1 .. Len(s) + 1
    BY <1>1
  <1>6. d[Len(s) + 1] = 10 * d[Len(s)] + e
    <2>1. Append(s, e)[Len(s) + 1] = e /\ (Len(s) + 1) - 1 = Len(s)
      BY <1>1
    <2>2. d[Len(s) + 1] = 10 * d[(Len(s) + 1) - 1] + Append(s, e)[Len(s) + 1]
      BY <1>1, <1>3, <1>5 DEF RunsTo
    <2>3. QED
      BY <2>1, <2>2
  <1>7. QED
    BY <1>2, <1>3, <1>4, <1>5, <1>6

LEMMA ValueNone == X!ValueOf(<< >>) = 0
  <1>1. << >> \in Seq(Nat) /\ Len(<< >>) = 0
    OBVIOUS
  <1>2. PICK c : RunsTo(c, << >>) /\ X!ValueOf(<< >>) = c[0]
    BY <1>1, ValueRuns
  <1>3. QED
    BY <1>2 DEF RunsTo

Zeros(z) == [i \in 1 .. z |-> 0]

LEMMA ZerosGrow ==
  ASSUME NEW z \in Nat
  PROVE  /\ Zeros(z) \in Seq(Nat) /\ Len(Zeros(z)) = z
         /\ Zeros(0) = << >> /\ Zeros(z + 1) = Append(Zeros(z), 0)
  BY DEF Zeros

LEMMA ValueZeros == \A z \in Nat : X!ValueOf(Zeros(z)) = 0
  <1> DEFINE Odd == {z \in Nat : X!ValueOf(Zeros(z)) # 0}
  <1> SUFFICES ASSUME Odd # {} PROVE FALSE
    OBVIOUS
  <1>1. PICK z \in Odd : \A y \in Odd : z <= y
    <2>1. Odd \in SUBSET Nat
      OBVIOUS
    <2> HIDE DEF Odd
    <2>2. QED
      BY <2>1, MinIsLeast
  <1>2. z \in Nat /\ X!ValueOf(Zeros(z)) # 0
    BY <1>1
  <1>3. z # 0
    BY <1>2, ZerosGrow, ValueNone
  <1>4. z - 1 \in Nat /\ z - 1 \notin Odd
    BY <1>1, <1>2, <1>3
  <1>5. X!ValueOf(Zeros(z - 1)) = 0
    BY <1>4
  <1>6. Zeros(z) = Append(Zeros(z - 1), 0) /\ Zeros(z - 1) \in Seq(Nat)
    <2>1. PICK y \in Nat : y = z - 1
      BY <1>4
    <2>2. Zeros(y + 1) = Append(Zeros(y), 0) /\ Zeros(y) \in Seq(Nat)
      BY ZerosGrow
    <2>3. QED
      BY <2>1, <2>2, <1>2
  <1>7. X!ValueOf(Zeros(z)) = 0
    BY <1>5, <1>6, ValueAppend
  <1>8. QED
    BY <1>2, <1>7

LEMMA AppendAfter ==
  ASSUME NEW a \in Seq(Nat), NEW s \in Seq(Nat), NEW e \in Nat
  PROVE  a \o Append(s, e) = Append(a \o s, e) /\ a \o s \in Seq(Nat)
  OBVIOUS

LEMMA AppendOne ==
  ASSUME NEW a \in Seq(Nat), NEW e \in Nat
  PROVE  a \o <<e>> = Append(a, e)
  OBVIOUS

(* The decimal number, after any zeros, has its value. *)
LEMMA ValueDecimal ==
  \A m \in Nat : X!Decimal[m] \in Seq(Nat) /\ \A z \in Nat : X!ValueOf(Zeros(z) \o X!Decimal[m]) = m
  <1> DEFINE P(m) == X!Decimal[m] \in Seq(Nat) /\ \A z \in Nat : X!ValueOf(Zeros(z) \o X!Decimal[m]) = m
             Odd == {m \in Nat : ~P(m)}
  <1> SUFFICES ASSUME Odd # {} PROVE FALSE
    OBVIOUS
  <1>1. PICK m \in Odd : \A y \in Odd : m <= y
    <2>1. Odd \in SUBSET Nat
      OBVIOUS
    <2> HIDE DEF Odd
    <2>2. QED
      BY <2>1, MinIsLeast
  <1>2. m \in Nat /\ ~P(m)
    BY <1>1
  <1>3. CASE m < 10
    <2>1. X!Decimal[m] = <<m>>
      BY <1>2, <1>3, DecimalFacts
    <2>2. ASSUME NEW z \in Nat PROVE X!ValueOf(Zeros(z) \o <<m>>) = m
      <3>1. Zeros(z) \in Seq(Nat) /\ X!ValueOf(Zeros(z)) = 0
        BY ZerosGrow, ValueZeros
      <3>2. Zeros(z) \o <<m>> = Append(Zeros(z), m)
        <4>1. m \in Nat
          BY <1>2
        <4> HIDE DEF P, Odd
        <4>2. QED
          BY <3>1, <4>1, AppendOne, Zenon
      <3>3. X!ValueOf(Append(Zeros(z), m)) = m
        BY <1>2, <3>1, ValueAppend
      <3>4. QED
        BY <3>2, <3>3, Zenon
    <2>3. X!Decimal[m] \in Seq(Nat)
      BY <1>2, <2>1
    <2>4. QED
      BY <1>2, <2>1, <2>2, <2>3
  <1>4. CASE m >= 10
    <2>1. PICK q \in Nat, r \in Nat : q = m \div 10 /\ r = m % 10 /\ q < m /\ 10 * q + r = m
      <3>1. m \div 10 \in 0 .. m - 1 /\ m % 10 \in 0 .. 9 /\ m % 10 = m - 10 * (m \div 10)
        BY <1>2, <1>4, Tenth
      <3>2. PICK q, r : q = m \div 10 /\ r = m % 10
        OBVIOUS
      <3>3. q \in Nat /\ r \in Nat /\ q < m /\ r = m - 10 * q
        BY <1>2, <3>1, <3>2
      <3>4. 10 * q + r = m
        BY <1>2, <3>3
      <3>5. QED
        BY <3>2, <3>3, <3>4
    <2>2. P(q)
      <3>1. ~(m <= q)
        BY <1>2, <2>1
      <3>2. QED
        BY <1>1, <3>1
    <2>3. X!Decimal[m] = Append(X!Decimal[q], r)
      <3>1. ~(m < 10)
        BY <1>2, <1>4
      <3>2. QED
        BY <1>2, <2>1, <3>1, DecimalFacts
    <2>4. X!Decimal[m] \in Seq(Nat)
      BY <2>2, <2>3
    <2>5. ASSUME NEW z \in Nat PROVE X!ValueOf(Zeros(z) \o X!Decimal[m]) = m
      <3>1. Zeros(z) \in Seq(Nat)
        BY ZerosGrow
      <3>2. /\ Zeros(z) \o X!Decimal[m] = Append(Zeros(z) \o X!Decimal[q], r)
            /\ Zeros(z) \o X!Decimal[q] \in Seq(Nat)
        <4>1. PICK s \in Seq(Nat) : s = X!Decimal[q]
          BY <2>2
        <4>2. PICK a \in Seq(Nat) : a = Zeros(z)
          BY <3>1
        <4> HIDE DEF P, Odd
        <4>3. a \o Append(s, r) = Append(a \o s, r) /\ a \o s \in Seq(Nat)
          BY AppendAfter
        <4>4. X!Decimal[m] = Append(s, r)
          BY <2>3, <4>1
        <4>5. QED
          BY <4>1, <4>2, <4>3, <4>4
      <3>3. X!ValueOf(Zeros(z) \o X!Decimal[m]) = 10 * X!ValueOf(Zeros(z) \o X!Decimal[q]) + r
        BY <3>2, ValueAppend
      <3>4. X!ValueOf(Zeros(z) \o X!Decimal[q]) = q
        BY <2>2
      <3>5. QED
        BY <2>1, <3>3, <3>4
    <2>6. QED
      BY <1>2, <2>4, <2>5
  <1>5. QED
    BY <1>2, <1>3, <1>4

LEMMA ValueDigits ==
  ASSUME NEW m \in Nat
  PROVE  X!Digits(m) \in Seq(Nat) /\ X!ValueOf(X!Digits(m)) = m
  <1>1. Width \in Nat
    BY TextSizes DEF X!TextsAssumption
  <1>2. X!Decimal[m] \in Seq(Nat) /\ Len(X!Decimal[m]) \in Nat
    BY ValueDecimal
  <1>3. PICK z \in Nat : 1 .. Width - Len(X!Decimal[m]) = 1 .. z
    <2>1. CASE Width - Len(X!Decimal[m]) \in Nat
      BY <2>1
    <2>2. CASE Width - Len(X!Decimal[m]) \notin Nat
      <3>1. 1 .. Width - Len(X!Decimal[m]) = 1 .. 0
        BY <1>1, <1>2, <2>2
      <3>2. QED
        BY <3>1
    <2>3. QED
      BY <2>1, <2>2
  <1>4. X!Digits(m) = Zeros(z) \o X!Decimal[m]
    BY <1>3 DEF X!Digits, Zeros
  <1>5. Zeros(z) \in Seq(Nat)
    BY ZerosGrow
  <1>6. X!Digits(m) \in Seq(Nat)
    BY <1>2, <1>4, <1>5
  <1>7. QED
    BY <1>4, <1>6, ValueDecimal

(* A number of no more digits writes over all of the other. *)
LEMMA LengthRight ==
  ASSUME NEW m \in Contents
  PROVE  Len(X!Digits(X!Carried(m))) = Len(X!Digits(m)) => X!ContentLength(m) = X!Carried(m)
  <1>1. m \in Nat /\ X!Carried(m) \in Nat
    BY TextSizes DEF X!TextsAssumption, X!Carried, X!MinOf
  <1>2. PICK s \in Seq(Nat) : s = X!Digits(X!Carried(m)) /\ X!ValueOf(s) = X!Carried(m)
    BY <1>1, ValueDigits
  <1>3. PICK u \in Seq(Nat) : u = X!Digits(m)
    BY <1>1, ValueDigits
  <1>4. ASSUME Len(s) = Len(u) PROVE s \o SubSeq(u, Len(s) + 1, Len(u)) = s
    BY <1>4
  <1>5. X!ContentLength(m) = X!ValueOf(s \o SubSeq(u, Len(s) + 1, Len(u)))
    BY <1>2, <1>3 DEF X!ContentLength
  <1>6. QED
    BY <1>2, <1>3, <1>4, <1>5

-----------------------------------------------------------------------------
BadAt(s) == X!SelectInSeq(s, LAMBDA c : ~X!IsHex(c))

(* Where the first bad digit is. *)
LEMMA FirstBad ==
  ASSUME NEW s \in Seq(Nat)
  PROVE  \/ BadAt(s) = 0 /\ \A i \in 1 .. Len(s) : X!IsHex(s[i])
         \/ /\ BadAt(s) \in 1 .. Len(s) /\ ~X!IsHex(s[BadAt(s)])
            /\ \A i \in 1 .. BadAt(s) - 1 : X!IsHex(s[i])
  <1> DEFINE I == {i \in 1 .. Len(s) : ~X!IsHex(s[i])}
  <1>1. BadAt(s) = IF I # {} THEN X!Min(I) ELSE 0
    BY DEF BadAt, X!SelectInSeq
  <1>2. CASE I = {}
    BY <1>1, <1>2
  <1>3. CASE I # {}
    <2>1. X!Min(I) \in I /\ \A y \in I : X!Min(I) <= y
      <3>1. I \in SUBSET Nat
        OBVIOUS
      <3> HIDE DEF I
      <3>2. QED
        BY <1>3, <3>1, MinIsLeast
    <2>2. PICK b \in I : b = BadAt(s) /\ \A y \in I : b <= y
      <3> HIDE DEF I
      <3>1. QED
        BY <1>1, <1>3, <2>1
    <2>3. \A i \in 1 .. b - 1 : X!IsHex(s[i])
      BY <2>2
    <2>4. QED
      BY <2>2, <2>3
  <1>4. QED
    BY <1>2, <1>3

(* The good pairs of a text: up to the first bad digit, without an odd one. *)
GoodOf(s, bad, size) == IF bad = 0 \/ bad > size THEN size \div 2 ELSE (bad - 1) \div 2

LEMMA HalfFacts ==
  ASSUME NEW b \in Nat
  PROVE  b \div 2 \in Nat /\ (b = 2 * (b \div 2) \/ b = 2 * (b \div 2) + 1)
  OBVIOUS

LEMMA MinFacts ==
  ASSUME NEW a \in Nat, NEW b \in Nat
  PROVE  X!MinOf(a, b) \in Nat /\ X!MinOf(a, b) <= a /\ X!MinOf(a, b) <= b /\ (a <= b => X!MinOf(a, b) = a)
  BY DEF X!MinOf

LEMMA Prefix ==
  ASSUME NEW s \in Seq(Nat), NEW n \in Nat, n <= Len(s)
  PROVE  /\ SubSeq(s, 1, n) \in Seq(Nat) /\ Len(SubSeq(s, 1, n)) = n
         /\ \A i \in 1 .. n : SubSeq(s, 1, n)[i] = s[i]
  OBVIOUS

(* The bytes of the first digits of a text are those of its good pairs. *)
LEMMA Paired ==
  ASSUME NEW s \in Seq(Nat), NEW size \in Nat, size <= Len(s), size <= 2 * HexSize
  PROVE  LET bytes == X!HexString2Asc(SubSeq(s, 1, size), HexSize)
             good  == GoodOf(s, BadAt(s), size)
         IN  /\ bytes \in Seq(Nat) /\ Len(bytes) = good
             /\ good \in Nat /\ 2 * good <= size /\ good <= size \div 2
             /\ \A i \in 1 .. good :
                  /\ s[2 * i - 1] \in 0 .. 15 /\ s[2 * i] \in 0 .. 15
                  /\ bytes[i] = 16 * s[2 * i - 1] + s[2 * i]
  <1>1. PICK u \in Seq(Nat) : u = SubSeq(s, 1, size) /\ Len(u) = size /\ \A i \in 1 .. size : u[i] = s[i]
    BY Prefix
  <1>2. PICK n \in Nat : n = size \div 2 /\ (size = 2 * n \/ size = 2 * n + 1)
    BY HalfFacts
  <1>3. HexSize \in Nat
    BY TextSizes DEF X!TextsAssumption
  <1>4. X!MinOf(Len(u) \div 2, HexSize) = n
    <2>1. n <= HexSize
      BY <1>2, <1>3
    <2>2. Len(u) \div 2 = n
      BY <1>1, <1>2
    <2>3. QED
      BY <1>3, <2>1, <2>2, MinFacts
  <1>5. PICK v \in Seq(Nat) : /\ v = SubSeq(u, 1, 2 * n) /\ Len(v) = 2 * n
                              /\ \A i \in 1 .. 2 * n : v[i] = u[i]
    <2>1. 2 * n \in Nat /\ 2 * n <= Len(u)
      BY <1>1, <1>2
    <2>2. QED
      BY <2>1, Prefix
  <1>6. \A i \in 1 .. 2 * n : v[i] = s[i]
    BY <1>1, <1>2, <1>5
  <1>7. PICK c : c = BadAt(v)
    OBVIOUS
  <1>8. PICK b : b = BadAt(s)
    OBVIOUS
  <1> DEFINE g == IF c = 0 THEN n ELSE (c - 1) \div 2
  <1>9. X!HexString2Asc(u, HexSize) = [i \in 1 .. g |-> 16 * u[2 * i - 1] + u[2 * i]]
    BY <1>4, <1>5, <1>7 DEF X!HexString2Asc, BadAt
  <1>10. \/ c = 0 /\ \A i \in 1 .. 2 * n : X!IsHex(s[i])
         \/ c \in 1 .. 2 * n /\ ~X!IsHex(s[c]) /\ \A i \in 1 .. c - 1 : X!IsHex(s[i])
    <2>1. \/ c = 0 /\ \A i \in 1 .. 2 * n : X!IsHex(v[i])
          \/ c \in 1 .. 2 * n /\ ~X!IsHex(v[c]) /\ \A i \in 1 .. c - 1 : X!IsHex(v[i])
      BY <1>5, <1>7, FirstBad
    <2>2. c \in 1 .. 2 * n => 1 .. c - 1 \subseteq 1 .. 2 * n
      OBVIOUS
    <2>3. QED
      BY <1>6, <2>1, <2>2
  <1>11. \/ b = 0 /\ \A i \in 1 .. Len(s) : X!IsHex(s[i])
         \/ b \in 1 .. Len(s) /\ ~X!IsHex(s[b]) /\ \A i \in 1 .. b - 1 : X!IsHex(s[i])
    BY <1>8, FirstBad
  <1>12. g = GoodOf(s, b, size)
    <2>1. Len(s) \in Nat
      OBVIOUS
    <2>2. CASE b = 0 \/ b > size
      <3>1. \A i \in 1 .. size : X!IsHex(s[i])
        BY <1>11, <2>1, <2>2
      <3>2. c = 0
        BY <1>2, <1>10, <3>1
      <3>3. QED
        BY <1>2, <2>2, <3>2 DEF GoodOf
    <2>3. CASE b \in 1 .. size
      <3>1. CASE b <= 2 * n
        <4>1. ~X!IsHex(s[b]) /\ b \in 1 .. 2 * n
          BY <1>2, <1>11, <2>3, <3>1
        <4>2. c \in 1 .. 2 * n /\ ~X!IsHex(s[c]) /\ \A i \in 1 .. c - 1 : X!IsHex(s[i])
          BY <1>10, <4>1
        <4>3. ~(b < c) /\ ~(c < b)
          BY <1>2, <1>11, <4>1, <4>2, <2>1
        <4>4. c = b
          BY <4>1, <4>2, <4>3
        <4>5. QED
          BY <2>3, <4>4, <4>1, <4>2 DEF GoodOf
      <3>2. CASE b > 2 * n
        <4>1. b = 2 * n + 1
          BY <1>2, <2>3, <3>2
        <4>2. \A i \in 1 .. 2 * n : X!IsHex(s[i])
          BY <1>11, <4>1
        <4>3. c = 0
          BY <1>10, <4>2
        <4>4. (b - 1) \div 2 = n
          BY <4>1
        <4>5. ~(b = 0 \/ b > size)
          BY <2>3
        <4>6. QED
          BY <4>3, <4>4, <4>5 DEF GoodOf
      <3>3. QED
        BY <2>3, <3>1, <3>2
    <2>4. QED
      BY <1>11, <2>1, <2>2, <2>3
  <1>13. /\ g \in Nat /\ 2 * g <= size /\ g <= n /\ 2 * g <= 2 * n
         /\ \A i \in 1 .. 2 * g : X!IsHex(s[i])
    <2>1. CASE c = 0
      BY <1>2, <1>10, <2>1
    <2>2. CASE c # 0
      <3>1. c \in 1 .. 2 * n /\ \A i \in 1 .. c - 1 : X!IsHex(s[i])
        BY <1>10, <2>2
      <3>2. PICK h \in Nat : h = (c - 1) \div 2 /\ 2 * h <= c - 1
        BY <3>1, HalfFacts
      <3>3. g = h
        BY <2>2, <3>2
      <3> HIDE DEF g
      <3>4. QED
        BY <1>2, <3>1, <3>2, <3>3
    <2>3. QED
      BY <2>1, <2>2
  <1> HIDE DEF g
  <1>14. ASSUME NEW i \in 1 .. g
         PROVE  /\ s[2 * i - 1] \in 0 .. 15 /\ s[2 * i] \in 0 .. 15
                /\ 16 * u[2 * i - 1] + u[2 * i] = 16 * s[2 * i - 1] + s[2 * i]
                /\ 16 * s[2 * i - 1] + s[2 * i] \in Nat
    <2>1. PICK p, q \in 1 .. 2 * g : p = 2 * i - 1 /\ q = 2 * i
      BY <1>13
    <2>2. X!IsHex(s[p]) /\ X!IsHex(s[q])
      BY <1>13
    <2>3. p \in 1 .. size /\ q \in 1 .. size
      BY <1>13
    <2>4. u[p] = s[p] /\ u[q] = s[q]
      BY <1>1, <2>3
    <2>5. s[p] \in 0 .. 15 /\ s[q] \in 0 .. 15
      BY <2>2 DEF X!IsHex
    <2>6. PICK x, y \in 0 .. 15 : x = s[p] /\ y = s[q]
      BY <2>5
    <2>7. 16 * x + y \in Nat
      OBVIOUS
    <2>8. QED
      BY <2>1, <2>4, <2>6, <2>7
  <1> DEFINE bytes == X!HexString2Asc(u, HexSize)
  <1>15. /\ bytes \in Seq(Nat) /\ Len(bytes) = g
         /\ \A i \in 1 .. g : bytes[i] = 16 * s[2 * i - 1] + s[2 * i]
    <2>1. bytes = [i \in 1 .. g |-> 16 * u[2 * i - 1] + u[2 * i]]
      BY <1>9
    <2> HIDE DEF bytes
    <2>2. bytes = [i \in 1 .. g |-> 16 * s[2 * i - 1] + s[2 * i]]
      BY <2>1, <1>14
    <2>3. QED
      BY <2>2, <1>13, <1>14
  <1> HIDE DEF bytes
  <1>16. X!HexString2Asc(SubSeq(s, 1, size), HexSize) = bytes
    BY <1>1 DEF bytes
  <1>17. QED
    BY <1>2, <1>8, <1>12, <1>13, <1>14, <1>15, <1>16

LEMMA PrefixInt ==
  ASSUME NEW s \in Seq(Int), NEW n \in Nat, n <= Len(s)
  PROVE  /\ Len(SubSeq(s, 1, n)) = n
         /\ \A i \in 1 .. n : SubSeq(s, 1, n)[i] = s[i]
  OBVIOUS

LEMMA ByteDigits ==
  ASSUME NEW x \in 0 .. 15, NEW y \in 0 .. 15
  PROVE  (16 * x + y) \div 16 = x /\ (16 * x + y) % 16 = y
  OBVIOUS

LEMMA OddEven ==
  ASSUME NEW g \in Nat, NEW i \in 1 .. 2 * g
  PROVE  \E j \in 1 .. g : \/ i = 2 * j - 1 /\ i % 2 = 1 /\ (i + 1) \div 2 = j
                           \/ i = 2 * j /\ i % 2 = 0 /\ i \div 2 = j
  <1>1. PICK h \in Nat : i = 2 * h \/ i = 2 * h + 1
    <2>1. i \in Nat
      OBVIOUS
    <2>2. i \div 2 \in Nat /\ (i = 2 * (i \div 2) \/ i = 2 * (i \div 2) + 1)
      BY <2>1, HalfFacts
    <2>3. QED
      BY <2>2
  <1>2. CASE i = 2 * h
    <2>1. h \in 1 .. g /\ i % 2 = 0 /\ i \div 2 = h
      BY <1>2
    <2>2. QED
      BY <1>2, <2>1
  <1>3. CASE i = 2 * h + 1
    <2>1. PICK j \in 1 .. g : j = h + 1
      BY <1>3
    <2>2. i = 2 * j - 1 /\ i % 2 = 1 /\ (i + 1) \div 2 = j
      BY <1>3, <2>1
    <2>3. QED
      BY <2>2
  <1>4. QED
    BY <1>1, <1>2, <1>3

(* X!Digits packed two in a byte spell themselves. *)
LEMMA SpelledBack ==
  ASSUME NEW s \in Seq(Nat), NEW packet \in Seq(Int), NEW g \in Nat,
         g <= Len(packet), 2 * g <= Len(s),
         \A i \in 1 .. g : /\ s[2 * i - 1] \in 0 .. 15 /\ s[2 * i] \in 0 .. 15
                           /\ packet[i] = 16 * s[2 * i - 1] + s[2 * i]
  PROVE  X!Spelled(SubSeq(packet, 1, g)) = SubSeq(s, 1, 2 * g)
  <1>1. PICK p : p = SubSeq(packet, 1, g) /\ Len(p) = g /\ \A i \in 1 .. g : p[i] = packet[i]
    <2>1. /\ Len(SubSeq(packet, 1, g)) = g
          /\ \A i \in 1 .. g : SubSeq(packet, 1, g)[i] = packet[i]
      BY PrefixInt, Zenon
    <2>2. QED
      BY <2>1, Zenon
  <1>2. PICK u \in Seq(Nat) : u = SubSeq(s, 1, 2 * g) /\ Len(u) = 2 * g /\ \A i \in 1 .. 2 * g : u[i] = s[i]
    <2>1. 2 * g \in Nat
      OBVIOUS
    <2>2. QED
      BY <2>1, Prefix
  <1> DEFINE D(i) == IF i % 2 = 1 THEN p[(i + 1) \div 2] \div 16 ELSE p[i \div 2] % 16
  <1>3. ASSUME NEW i \in 1 .. 2 * g PROVE D(i) = s[i]
    <2>1. PICK j \in 1 .. g : \/ i = 2 * j - 1 /\ i % 2 = 1 /\ (i + 1) \div 2 = j
                              \/ i = 2 * j /\ i % 2 = 0 /\ i \div 2 = j
      BY OddEven
    <2>2. PICK x, y \in 0 .. 15 : x = s[2 * j - 1] /\ y = s[2 * j] /\ p[j] = 16 * x + y
      BY <1>1
    <2>3. (16 * x + y) \div 16 = x /\ (16 * x + y) % 16 = y
      BY ByteDigits
    <2>4. CASE i = 2 * j - 1 /\ i % 2 = 1 /\ (i + 1) \div 2 = j
      <3>1. D(i) = p[j] \div 16
        BY <2>4, Zenon
      <3>2. QED
        BY <2>2, <2>3, <2>4, <3>1
    <2>5. CASE i = 2 * j /\ i % 2 = 0 /\ i \div 2 = j
      <3>1. D(i) = p[j] % 16
        <4>1. i % 2 # 1
          BY <2>5
        <4>2. QED
          BY <2>5, <4>1
      <3>2. QED
        BY <2>2, <2>3, <2>5, <3>1
    <2>6. QED
      BY <2>1, <2>4, <2>5
  <1>4. X!Spelled(p) = [i \in 1 .. 2 * g |-> D(i)]
    BY <1>1 DEF X!Spelled
  <1> HIDE DEF D
  <1>5. u = [i \in 1 .. 2 * g |-> u[i]]
    BY <1>2
  <1>6. X!Spelled(p) = u
    BY <1>2, <1>3, <1>4, <1>5
  <1>7. QED
    BY <1>1, <1>2, <1>6

(* A heartbeat ends after the good pairs, a login goes on. *)
LEMMA HexIsRight ==
  ASSUME hex \in HexTexts, kind \in {"heart", "open", "lead"}
  PROVE  X!HexRight
  <1>1. PICK s \in Seq(Nat) : s = hex /\ Len(s) <= 2 * HexSize
    BY TextSizes DEF X!TextsAssumption
  <1>2. HexSize \in Nat /\ LeadMax \in Nat
    BY TextSizes DEF X!TextsAssumption
  <1>3. PICK size \in Nat : /\ size = (IF kind = "lead" THEN X!MinOf(Len(hex), LeadMax) ELSE Len(hex))
                            /\ size <= Len(s) /\ size <= 2 * HexSize
    <2>1. Len(s) \in Nat
      OBVIOUS
    <2>2. X!MinOf(Len(s), LeadMax) \in Nat /\ X!MinOf(Len(s), LeadMax) <= Len(s)
      BY <1>2, <2>1, MinFacts
    <2>3. QED
      BY <1>1, <1>2, <2>1, <2>2
  <1>4. PICK b, g : b = BadAt(s) /\ g = GoodOf(s, b, size)
    OBVIOUS
  <1>5. PICK bytes \in Seq(Nat) :
          /\ bytes = X!HexString2Asc(SubSeq(s, 1, size), HexSize) /\ Len(bytes) = g
          /\ g \in Nat /\ 2 * g <= size /\ g <= size \div 2
          /\ \A i \in 1 .. g : /\ s[2 * i - 1] \in 0 .. 15 /\ s[2 * i] \in 0 .. 15
                               /\ bytes[i] = 16 * s[2 * i - 1] + s[2 * i]
    BY <1>3, <1>4, Paired
  <1>6. PICK half \in Nat : half = size \div 2
    BY <1>3, HalfFacts
  <1> DEFINE packet == CASE kind = "heart" -> X!Heart(hex)
                         [] kind = "open"  -> X!tcp_login(hex)
                         [] kind = "lead"  -> X!tcp_login_beforedata(hex)
             Fits(p) == /\ p \in Seq(Int) /\ \A i \in 1 .. g : p[i] = bytes[i]
                        /\ Len(p) = IF kind = "heart" THEN g ELSE half
             P(rest) == [i \in 1 .. half |-> IF i <= Len(bytes) THEN bytes[i] ELSE rest]
  <1>7. ASSUME NEW rest \in Int, kind # "heart" PROVE Fits(P(rest))
    <2>1. \A i \in 1 .. half : (IF i <= g THEN bytes[i] ELSE rest) \in Int
      BY <1>5
    <2>2. P(rest) = [i \in 1 .. half |-> IF i <= g THEN bytes[i] ELSE rest]
      BY <1>5
    <2>3. P(rest) \in Seq(Int) /\ Len(P(rest)) = half
      BY <2>1, <2>2
    <2>4. \A i \in 1 .. g : P(rest)[i] = bytes[i]
      BY <1>5, <1>6, <2>2
    <2> HIDE DEF P
    <2>5. QED
      BY <1>7, <2>3, <2>4
  <1>8. Fits(packet)
    <2>1. kind # "lead" => SubSeq(s, 1, size) = s
      BY <1>1, <1>3
    <2>2. CASE kind = "heart"
      <3>1. packet = bytes
        BY <1>1, <1>5, <2>1, <2>2 DEF X!Heart
      <3> HIDE DEF packet
      <3>2. QED
        BY <1>5, <2>2, <3>1
    <2>3. CASE kind = "open"
      <3>1. packet = P(0)
        <4>1. X!Heart(hex) = bytes
          BY <1>1, <1>5, <2>1, <2>3 DEF X!Heart
        <4>2. Len(hex) \div 2 = half
          BY <1>3, <1>6, <2>3
        <4>3. QED
          BY <4>1, <4>2, <2>3 DEF X!tcp_login, X!Padded, X!Heart
      <3> HIDE DEF packet, P, Fits
      <3>2. QED
        BY <1>7, <2>3, <3>1
    <2>4. CASE kind = "lead"
      <3>1. packet = P(-1)
        <4>1. PICK u \in Seq(Nat) : u = SubSeq(s, 1, size) /\ Len(u) = size
          BY <1>3, Prefix
        <4>2. X!tcp_login_beforedata(hex) = X!Padded(u, -1)
          BY <1>1, <1>3, <2>4, <4>1 DEF X!tcp_login_beforedata
        <4>3. X!Padded(u, -1) = P(-1)
          BY <1>5, <1>6, <4>1 DEF X!Padded
        <4>4. QED
          BY <2>4, <4>2, <4>3
      <3> HIDE DEF packet, P, Fits
      <3>2. -1 \in Int
        OBVIOUS
      <3>3. QED
        BY <1>7, <2>4, <3>1, <3>2
    <2>5. QED
      BY <2>2, <2>3, <2>4
  <1> HIDE DEF packet, P
  <1>9. PICK p \in Seq(Int) : p = packet /\ Len(p) = (IF kind = "heart" THEN g ELSE half)
                             /\ \A i \in 1 .. g : p[i] = bytes[i]
    BY <1>8
  <1>10. X!Spelled(SubSeq(p, 1, g)) = SubSeq(s, 1, 2 * g)
    <2>1. g <= Len(p) /\ 2 * g <= Len(s)
      BY <1>3, <1>5, <1>6, <1>9
    <2>2. \A i \in 1 .. g : /\ s[2 * i - 1] \in 0 .. 15 /\ s[2 * i] \in 0 .. 15
                            /\ p[i] = 16 * s[2 * i - 1] + s[2 * i]
      BY <1>5, <1>9
    <2>3. QED
      BY <1>5, <2>1, <2>2, SpelledBack
  <1>11. /\ X!Spelled(SubSeq(packet, 1, g)) = SubSeq(hex, 1, 2 * g)
         /\ Len(packet) = IF kind = "heart" THEN g ELSE size \div 2
    BY <1>1, <1>6, <1>9, <1>10
  <1>12. g = (IF BadAt(hex) = 0 \/ BadAt(hex) > size THEN size \div 2 ELSE (BadAt(hex) - 1) \div 2)
    BY <1>1, <1>4 DEF GoodOf
  <1>13. QED
    BY <1>3, <1>11, <1>12 DEF X!HexRight, packet, BadAt

-----------------------------------------------------------------------------
Word  == {"length", "other", "end", "body", "unknown"}
Token == Word \X Nat

(* What an answer has let through, however many pieces it came in.         *)
AnswerInv ==
  LET all == X!Text(answer)
  IN  /\ hex \in HexTexts /\ kind \in {"heart", "open", "lead"} /\ content \in Contents
      /\ htpchd \in BOOLEAN /\ answer \in Answers
      /\ came \in 0 .. Len(all) /\ rx \in Seq(Token) /\ torn \in BOOLEAN
      /\ came = 0 => tty = << >> /\ ~torn
      /\ came > 0 /\ ~torn => came = Len(all)
      /\ ~htpchd => tty = SubSeq(all, 1, came)
      /\ htpchd /\ ~torn /\ came > 0 /\ answer.field => tty = SubSeq(all, 3, Len(all))
      /\ htpchd /\ ~torn /\ came > 0 /\ ~answer.field =>
           tty = << >> \/ \E i \in Len(all) + 1 .. Len(rx) : X!IsLength(rx[i])

LEMMA TokenFacts ==
  ASSUME NEW w \in Word, NEW n \in Nat
  PROVE  /\ <<w, n>> \in Token /\ <<w, n>>[1] = w /\ <<w, n>>[2] = n
         /\ X!IsLength(<<w, n>>) <=> w = "length"
  BY DEF Token, X!IsLength

LEMMA BodyIsNoLength ==
  ASSUME NEW n \in Nat
  PROVE  ~X!IsLength(<<"body", n>>)
  BY DEF X!IsLength

LEMMA Joined ==
  ASSUME NEW T, NEW s \in Seq(T), NEW t \in Seq(T)
  PROVE  /\ s \o t \in Seq(T) /\ Len(s \o t) = Len(s) + Len(t)
         /\ \A i \in 1 .. Len(s) + Len(t) :
              (s \o t)[i] = IF i <= Len(s) THEN s[i] ELSE t[i - Len(s)]
  OBVIOUS

LEMMA TwoOf ==
  ASSUME NEW T, NEW x \in T, NEW y \in T
  PROVE  /\ <<x, y>> \in Seq(T) /\ Len(<<x, y>>) = 2
         /\ <<x, y>>[1] = x /\ <<x, y>>[2] = y
  OBVIOUS

(* Only the first token of an answer says a length, if any does. *)
LEMMA TextFacts ==
  ASSUME NEW a \in Answers
  PROVE  /\ X!Text(a) \in Seq(Token) /\ Len(a.body) \in Nat /\ Len(X!Text(a)) = Len(a.body) + 2
         /\ a.field => X!IsLength(X!Text(a)[1]) /\ X!Text(a)[1][2] = Len(a.body)
         /\ ~a.field => \A i \in 1 .. Len(X!Text(a)) : ~X!IsLength(X!Text(a)[i])
  <1>1. PICK body \in Seq(Nat) : body = a.body
    BY TextSizes DEF X!TextsAssumption
  <1>2. PICK len \in Nat : len = Len(body) /\ DOMAIN body = 1 .. len /\ \A i \in 1 .. len : body[i] \in Nat
    OBVIOUS
  <1>3. PICK tail : tail = [i \in DOMAIN body |-> <<"body", body[i]>>]
    OBVIOUS
  <1>4. /\ tail \in Seq(Token) /\ Len(tail) = len
        /\ \A i \in 1 .. len : tail[i] = <<"body", body[i]>>
    <2>1. \A i \in 1 .. len : <<"body", body[i]>> \in Token
      BY <1>2, TokenFacts DEF Word
    <2>2. tail = [i \in 1 .. len |-> <<"body", body[i]>>]
      BY <1>2, <1>3
    <2>3. QED
      BY <2>1, <2>2
  <1>5. PICK w \in Word : w = IF a.field THEN "length" ELSE "other"
    BY DEF Word
  <1>6. PICK x, y \in Token : /\ x = <<w, len>> /\ y = <<"end", 0>>
                               /\ x[2] = len /\ (X!IsLength(x) <=> w = "length") /\ ~X!IsLength(y)
    <2>1. "end" \in Word /\ "end" # "length"
      BY DEF Word
    <2>2. <<w, len>> \in Token /\ <<"end", 0>> \in Token
      BY <2>1, TokenFacts
    <2>3. <<w, len>>[2] = len /\ (X!IsLength(<<w, len>>) <=> w = "length") /\ ~X!IsLength(<<"end", 0>>)
      BY <2>1, TokenFacts
    <2>4. QED
      BY <2>2, <2>3
  <1>7. PICK head \in Seq(Token) : head = <<x, y>> /\ Len(head) = 2 /\ head[1] = x /\ head[2] = y
    <2>1. /\ <<x, y>> \in Seq(Token) /\ Len(<<x, y>>) = 2
          /\ <<x, y>>[1] = x /\ <<x, y>>[2] = y
      BY TwoOf, Zenon
    <2>2. QED
      BY <2>1, Zenon
  <1>8. X!Text(a) = head \o tail
    BY <1>1, <1>2, <1>3, <1>5, <1>6, <1>7 DEF X!Text
  <1>9. PICK all \in Seq(Token) :
          /\ all = head \o tail /\ Len(all) = len + 2 /\ all[1] = x /\ all[2] = y
          /\ \A i \in 3 .. len + 2 : all[i] = tail[i - 2]
    <2>1. PICK all \in Seq(Token) :
            /\ all = head \o tail /\ Len(all) = Len(head) + Len(tail)
            /\ \A i \in 1 .. Len(head) + Len(tail) :
                 all[i] = IF i <= Len(head) THEN head[i] ELSE tail[i - Len(head)]
      <3>1. /\ head \o tail \in Seq(Token) /\ Len(head \o tail) = Len(head) + Len(tail)
            /\ \A i \in 1 .. Len(head) + Len(tail) :
                 (head \o tail)[i] = IF i <= Len(head) THEN head[i] ELSE tail[i - Len(head)]
        BY <1>4, Joined, Zenon
      <3>2. QED
        BY <3>1, Zenon
    <2>2. all[1] = x /\ all[2] = y
      BY <1>2, <1>4, <1>7, <2>1
    <2>3. \A i \in 3 .. len + 2 : all[i] = tail[i - 2]
      BY <1>2, <1>4, <1>7, <2>1
    <2>4. Len(all) = len + 2
      BY <1>4, <1>7, <2>1
    <2>5. QED
      BY <2>1, <2>2, <2>3, <2>4, Zenon
  <1>10. a.field => X!IsLength(all[1]) /\ all[1][2] = len
    BY <1>5, <1>6, <1>9
  <1>11. ASSUME ~a.field, NEW i \in 1 .. len + 2 PROVE ~X!IsLength(all[i])
    <2>1. CASE i = 1
      BY <1>5, <1>6, <1>9, <1>11, <2>1
    <2>2. CASE i = 2
      BY <1>6, <1>9, <2>2
    <2>3. CASE i >= 3
      <3>1. PICK j \in 1 .. len : j = i - 2
        BY <2>3
      <3>2. all[i] = <<"body", body[j]>>
        BY <1>2, <1>4, <1>9, <2>3, <3>1
      <3>3. QED
        BY <1>2, <3>2, BodyIsNoLength
    <2>4. QED
      BY <1>2, <2>1, <2>2, <2>3
  <1>12. QED
    BY <1>1, <1>2, <1>8, <1>9, <1>10, <1>11

(* The length that is found is the first. *)
LEMMA FirstLength ==
  ASSUME NEW s \in Seq(Token)
  PROVE  LET field == X!SelectInSeq(s, X!IsLength)
         IN  \/ field = 0 /\ \A i \in 1 .. Len(s) : ~X!IsLength(s[i])
             \/ /\ field \in 1 .. Len(s) /\ X!IsLength(s[field])
                /\ \A i \in 1 .. Len(s) : X!IsLength(s[i]) => field <= i
  <1> DEFINE I == {i \in 1 .. Len(s) : X!IsLength(s[i])}
  <1>1. X!SelectInSeq(s, X!IsLength) = IF I # {} THEN X!Min(I) ELSE 0
    BY DEF X!SelectInSeq
  <1>2. CASE I = {}
    BY <1>1, <1>2
  <1>3. CASE I # {}
    <2>1. I \in SUBSET Nat
      OBVIOUS
    <2> HIDE DEF I
    <2>2. PICK b \in I : b = X!Min(I) /\ \A y \in I : b <= y
      BY <1>3, <2>1, MinIsLeast
    <2>3. X!SelectInSeq(s, X!IsLength) = b
      BY <1>1, <1>3, <2>2
    <2> USE DEF I
    <2>4. QED
      BY <2>2, <2>3
  <1>4. QED
    BY <1>2, <1>3

LEMMA OnePiece ==
  ASSUME NEW s \in Seq(Token), NEW n \in Nat, n = Len(s)
  PROVE  SubSeq(s, 1, n) = s
  OBVIOUS

LEMMA Pieces ==
  ASSUME NEW s \in Seq(Token), NEW m \in Nat, NEW n \in Nat, m + n <= Len(s)
  PROVE  SubSeq(s, 1, m) \o SubSeq(s, m + 1, m + n) = SubSeq(s, 1, m + n)
  OBVIOUS

LEMMA Slice ==
  ASSUME NEW s \in Seq(Token), NEW m \in Nat, NEW n \in Nat, n <= Len(s)
  PROVE  SubSeq(s, m + 1, n) \in Seq(Token)
  OBVIOUS

(* What is left of an answer that comes in one piece. *)
LEMMA HeaderOff ==
  ASSUME NEW a \in Answers, NEW rest \in Seq(Token), htpchd
  PROVE  LET all  == X!Text(a)
             data == all \o rest
             out  == X!httpd_rm_hdr(data, all)
         IN  /\ a.field => out = SubSeq(all, 3, Len(all))
             /\ ~a.field => out = << >> \/ \E i \in Len(all) + 1 .. Len(data) : X!IsLength(data[i])
  <1>1. PICK all \in Seq(Token), len \in Nat :
          /\ all = X!Text(a) /\ Len(all) = len + 2
          /\ a.field => X!IsLength(all[1]) /\ all[1][2] = len
          /\ ~a.field => \A i \in 1 .. len + 2 : ~X!IsLength(all[i])
    <2>1. /\ X!Text(a) \in Seq(Token) /\ Len(a.body) \in Nat /\ Len(X!Text(a)) = Len(a.body) + 2
          /\ a.field => X!IsLength(X!Text(a)[1]) /\ X!Text(a)[1][2] = Len(a.body)
          /\ ~a.field => \A i \in 1 .. Len(X!Text(a)) : ~X!IsLength(X!Text(a)[i])
      BY TextFacts
    <2>2. QED
      BY <2>1, Zenon
  <1>2. PICK data \in Seq(Token), size \in Nat :
          /\ data = all \o rest /\ Len(data) = size /\ len + 2 <= size
          /\ \A i \in 1 .. len + 2 : data[i] = all[i]
    <2>1. /\ all \o rest \in Seq(Token) /\ Len(all \o rest) = Len(all) + Len(rest)
          /\ \A i \in 1 .. Len(all) + Len(rest) :
               (all \o rest)[i] = IF i <= Len(all) THEN all[i] ELSE rest[i - Len(all)]
      BY Joined, Zenon
    <2>2. Len(rest) \in Nat
      OBVIOUS
    <2>3. PICK d \in Seq(Token) : /\ d = all \o rest /\ Len(d) = Len(all) + Len(rest)
                                  /\ \A i \in 1 .. Len(all) + Len(rest) :
                                       d[i] = IF i <= Len(all) THEN all[i] ELSE rest[i - Len(all)]
      BY <2>1, Zenon
    <2>4. Len(d) \in Nat /\ len + 2 <= Len(d) /\ \A i \in 1 .. len + 2 : d[i] = all[i]
      BY <1>1, <2>2, <2>3
    <2>5. QED
      BY <2>3, <2>4, Zenon
  <1>3. PICK field : field = X!SelectInSeq(data, X!IsLength)
    OBVIOUS
  <1>4. \/ field = 0 /\ \A i \in 1 .. size : ~X!IsLength(data[i])
        \/ /\ field \in 1 .. size /\ X!IsLength(data[field])
           /\ \A i \in 1 .. size : X!IsLength(data[i]) => field <= i
    BY <1>2, <1>3, FirstLength
  <1>5. X!httpd_rm_hdr(data, all) =
          IF field = 0 THEN << >>
          ELSE IF data[field][2] > Len(all) THEN [i \in 1 .. data[field][2] |-> X!Unknown]
          ELSE SubSeq(all, Len(all) - data[field][2] + 1, Len(all))
    BY <1>3 DEF X!httpd_rm_hdr
  <1>6. ASSUME a.field PROVE X!httpd_rm_hdr(data, all) = SubSeq(all, 3, Len(all))
    <2>1. 1 \in 1 .. size /\ 1 \in 1 .. len + 2
      BY <1>2
    <2>2. X!IsLength(data[1]) /\ data[1][2] = len
      BY <1>1, <1>2, <1>6, <2>1
    <2>3. field = 1
      BY <1>4, <2>1, <2>2
    <2>4. ~(len > Len(all)) /\ Len(all) - len + 1 = 3 /\ field # 0
      BY <1>1, <2>3
    <2>5. QED
      BY <1>5, <2>2, <2>3, <2>4
  <1>7. ASSUME ~a.field
        PROVE  X!httpd_rm_hdr(data, all) = << >> \/ \E i \in Len(all) + 1 .. size : X!IsLength(data[i])
    <2>1. CASE field = 0
      BY <1>5, <2>1
    <2>2. CASE field # 0
      <3>1. field \in 1 .. size /\ X!IsLength(data[field])
        BY <1>4, <2>2
      <3>2. field \notin 1 .. len + 2
        BY <1>1, <1>2, <1>7, <3>1
      <3>3. field \in Len(all) + 1 .. size
        BY <1>1, <1>2, <3>1, <3>2
      <3>4. QED
        BY <3>1, <3>3
    <2>3. QED
      BY <2>1, <2>2
  <1>8. QED
    BY <1>1, <1>2, <1>6, <1>7, Zenon

LEMMA AnswerBegins ==
  ASSUME NEW a \in Answers
  PROVE  /\ Len(X!Text(a)) \in Nat /\ Len(X!Text(a)) >= 2 /\ SubSeq(X!Text(a), 1, 0) = << >>
         /\ << >> \in Seq(Token)
  <1>1. Len(a.body) \in Nat /\ Len(X!Text(a)) = Len(a.body) + 2
    BY TextFacts
  <1>2. Len(X!Text(a)) \in Nat /\ Len(X!Text(a)) >= 2
    BY <1>1
  <1>3. SubSeq(X!Text(a), 1, 0) = << >> /\ << >> \in Seq(Token)
    OBVIOUS
  <1>4. QED
    BY <1>2, <1>3

LEMMA AnswerInit == X!Init => AnswerInv
  <1> SUFFICES ASSUME X!Init PROVE AnswerInv
    OBVIOUS
  <1>1. /\ hex \in HexTexts /\ kind \in {"heart", "open", "lead"} /\ content \in Contents
        /\ htpchd \in BOOLEAN /\ answer \in Answers
        /\ came = 0 /\ rx = << >> /\ tty = << >> /\ torn = FALSE
    BY DEF X!Init
  <1>2. PICK all : /\ all = X!Text(answer) /\ Len(all) \in Nat /\ SubSeq(all, 1, 0) = << >>
                   /\ << >> \in Seq(Token)
    BY <1>1, AnswerBegins
  <1>3. came \in 0 .. Len(all) /\ ~(came > 0) /\ tty = SubSeq(all, 1, came) /\ rx \in Seq(Token)
    <2>1. came \in 0 .. Len(all) /\ ~(came > 0)
      BY <1>1, <1>2
    <2>2. QED
      BY <1>1, <1>2, <2>1, Zenon
  <1>4. QED
    BY <1>1, <1>2, <1>3, Zenon DEF AnswerInv

LEMMA AnswerRecv == AnswerInv /\ X!Recv => AnswerInv'
  <1> SUFFICES ASSUME AnswerInv, X!Recv PROVE AnswerInv'
    OBVIOUS
  <1>1. PICK all \in Seq(Token), len \in Nat : all = X!Text(answer) /\ len = Len(all)
    <2>1. answer \in Answers
      BY DEF AnswerInv
    <2>2. X!Text(answer) \in Seq(Token) /\ Len(X!Text(answer)) \in Nat
      BY <2>1, TextFacts, AnswerBegins
    <2>3. QED
      BY <2>2, Zenon
  <1>2. /\ hex \in HexTexts /\ kind \in {"heart", "open", "lead"} /\ content \in Contents
        /\ htpchd \in BOOLEAN /\ answer \in Answers
        /\ came \in 0 .. len /\ rx \in Seq(Token) /\ torn \in BOOLEAN
        /\ came = 0 => tty = << >> /\ ~torn
        /\ came > 0 /\ ~torn => came = len
        /\ ~htpchd => tty = SubSeq(all, 1, came)
    BY <1>1 DEF AnswerInv
  <1>3. PICK n \in 1 .. len - came : \E piece, data :
          /\ piece = SubSeq(all, came + 1, came + n) /\ data = piece \o SubSeq(rx, n + 1, Len(rx))
          /\ came' = came + n /\ rx' = data
          /\ torn' = (torn \/ came + n < len)
          /\ tty' = tty \o X!httpd_rm_hdr(data, piece)
    BY <1>1 DEF X!Recv
  <1>a. PICK piece, data :
          /\ piece = SubSeq(all, came + 1, came + n) /\ data = piece \o SubSeq(rx, n + 1, Len(rx))
          /\ came' = came + n /\ rx' = data
          /\ torn' = (torn \/ came + n < len)
          /\ tty' = tty \o X!httpd_rm_hdr(data, piece)
    BY <1>3
  <1>4. UNCHANGED <<hex, kind, content, htpchd, answer>>
    BY DEF X!Recv, X!asked
  <1>5. X!Text(answer)' = all
    BY <1>1, <1>4 DEF X!Text
  <1>6. PICK rest \in Seq(Token) : rest = SubSeq(rx, n + 1, Len(rx))
    <2>1. Len(rx) \in Nat /\ Len(rx) <= Len(rx)
      BY <1>2
    <2>2. SubSeq(rx, n + 1, Len(rx)) \in Seq(Token)
      BY <1>2, <1>3, <1>a, <2>1, Slice
    <2>3. QED
      BY <2>2, Zenon
  <1>7. piece \in Seq(Token) /\ data \in Seq(Token)
    <2>1. came + n \in Nat /\ came + n <= len /\ came \in Nat
      BY <1>2, <1>3, <1>a
    <2>2. piece \in Seq(Token)
      BY <1>1, <1>3, <1>a, <2>1, Slice
    <2>3. data = piece \o rest
      BY <1>3, <1>a, <1>6
    <2>4. QED
      BY <2>2, <2>3, Joined, Zenon
  <1>8. came' \in 0 .. len /\ came' > 0 /\ torn' \in BOOLEAN /\ (~torn' => came' = len /\ came = 0 /\ n = len)
    <2>1. came' = came + n /\ n \in 1 .. len - came /\ came \in 0 .. len
      BY <1>2, <1>3, <1>a, Zenon
    <2>2. came' \in 0 .. len /\ came' > 0
      BY <2>1
    <2>3. torn' \in BOOLEAN
      BY <1>2, <1>3, <1>a, Zenon
    <2>4. ASSUME ~torn' PROVE came' = len /\ came = 0 /\ n = len
      <3>1. ~torn /\ ~(came + n < len) /\ (came > 0 /\ ~torn => came = len)
        BY <1>2, <1>3, <1>a, <2>4, Zenon
      <3>2. came > 0 => came = len
        BY <3>1
      <3>3. QED
        BY <2>1, <3>1, <3>2
    <2>5. QED
      BY <2>2, <2>3, <2>4
  <1>9. ASSUME ~htpchd PROVE tty' = SubSeq(all, 1, came')
    <2>1. X!httpd_rm_hdr(data, piece) = piece
      BY <1>9 DEF X!httpd_rm_hdr
    <2>2. came \in Nat /\ n \in Nat /\ came + n <= len
      BY <1>2, <1>3, <1>a
    <2>3. SubSeq(all, 1, came) \o SubSeq(all, came + 1, came + n) = SubSeq(all, 1, came + n)
      BY <1>1, <2>2, Pieces
    <2>4. QED
      BY <1>2, <1>3, <1>a, <1>9, <2>1, <2>3, Zenon
  <1>10. ASSUME htpchd, ~torn'
         PROVE  /\ answer.field => tty' = SubSeq(all, 3, len)
                /\ ~answer.field => tty' = << >> \/ \E i \in len + 1 .. Len(data) : X!IsLength(data[i])
    <2>1. came = 0 /\ n = len /\ tty = << >>
      BY <1>2, <1>8, <1>10
    <2>2. piece = all
      BY <1>1, <1>3, <1>a, <2>1, OnePiece
    <2>3. data = all \o rest
      BY <1>3, <1>a, <1>6, <2>2
    <2>4. /\ answer.field => X!httpd_rm_hdr(data, all) = SubSeq(all, 3, len)
          /\ ~answer.field => \/ X!httpd_rm_hdr(data, all) = << >>
                              \/ \E i \in len + 1 .. Len(data) : X!IsLength(data[i])
      BY <1>1, <1>2, <1>10, <2>3, HeaderOff, Zenon
    <2>5. tty' = << >> \o X!httpd_rm_hdr(data, all)
      BY <1>3, <1>a, <2>1, <2>2
    <2>6. << >> \o SubSeq(all, 3, len) = SubSeq(all, 3, len) /\ << >> \o << >> = << >>
      OBVIOUS
    <2>7. QED
      BY <2>4, <2>5, <2>6, Zenon
  <1>11. came' # 0
    BY <1>8
  <1>12. QED
    BY <1>1, <1>2, <1>3, <1>a, <1>4, <1>5, <1>7, <1>8, <1>9, <1>10, <1>11, Zenon DEF AnswerInv

LEMMA AnswerNext == AnswerInv /\ X!NextAnswer => AnswerInv'
  <1> SUFFICES ASSUME AnswerInv, X!NextAnswer PROVE AnswerInv'
    OBVIOUS
  <1>1. /\ answer' \in Answers /\ came' = 0 /\ tty' = << >> /\ torn' = FALSE
        /\ UNCHANGED <<hex, kind, content, htpchd, rx>>
    BY DEF X!NextAnswer, X!asked
  <1>2. PICK all : /\ all = X!Text(answer') /\ Len(all) \in Nat /\ SubSeq(all, 1, 0) = << >>
    BY <1>1, AnswerBegins
  <1>3. X!Text(answer)' = all
    BY <1>2 DEF X!Text
  <1>4. /\ hex \in HexTexts /\ kind \in {"heart", "open", "lead"} /\ content \in Contents
        /\ htpchd \in BOOLEAN /\ rx \in Seq(Token)
    BY DEF AnswerInv
  <1>5. came' \in 0 .. Len(all) /\ ~(came' > 0) /\ tty' = SubSeq(all, 1, came')
    <2>1. came' \in 0 .. Len(all) /\ ~(came' > 0)
      BY <1>1, <1>2
    <2>2. QED
      BY <1>1, <1>2, <2>1, Zenon
  <1>6. QED
    BY <1>1, <1>3, <1>4, <1>5, Zenon DEF AnswerInv

LEMMA AnswerIsRight == AnswerInv => X!AnswerRight
  <1> SUFFICES ASSUME AnswerInv PROVE X!AnswerRight
    OBVIOUS
  <1>1. PICK all \in Seq(Token), len \in Nat : all = X!Text(answer) /\ len = Len(all) /\ len >= 2
    <2>1. answer \in Answers
      BY DEF AnswerInv
    <2>2. X!Text(answer) \in Seq(Token) /\ Len(X!Text(answer)) \in Nat /\ Len(X!Text(answer)) >= 2
      BY <2>1, TextFacts, AnswerBegins
    <2>3. QED
      BY <2>2, Zenon
  <1>2. SubSeq(all, 1, len) = all
    BY <1>1, OnePiece
  <1>3. came = len => came > 0
    BY <1>1
  <1>4. SUFFICES ASSUME came = len
                 PROVE  /\ ~htpchd => tty = all
                        /\ htpchd /\ ~torn /\ answer.field => tty = SubSeq(all, 3, len)
                        /\ htpchd /\ ~torn /\ ~answer.field =>
                             tty = << >> \/ \E i \in len + 1 .. Len(rx) : X!IsLength(rx[i])
    BY <1>1, Zenon DEF X!AnswerRight
  <1>5. /\ ~htpchd => tty = SubSeq(all, 1, came)
        /\ htpchd /\ ~torn /\ came > 0 /\ answer.field => tty = SubSeq(all, 3, len)
        /\ htpchd /\ ~torn /\ came > 0 /\ ~answer.field =>
             tty = << >> \/ \E i \in len + 1 .. Len(rx) : X!IsLength(rx[i])
    BY <1>1, Zenon DEF AnswerInv
  <1>6. QED
    BY <1>2, <1>3, <1>4, <1>5, Zenon

LEMMA AnswerStep == AnswerInv /\ [X!Next]_X!vars => AnswerInv'
  <1> SUFFICES ASSUME AnswerInv, [X!Next]_X!vars PROVE AnswerInv'
    OBVIOUS
  <1>1. CASE UNCHANGED X!vars
    BY <1>1 DEF X!vars, X!asked, AnswerInv, X!Text
  <1>2. CASE X!Recv
    BY <1>2, AnswerRecv
  <1>3. CASE X!NextAnswer
    BY <1>3, AnswerNext
  <1>4. QED
    BY <1>1, <1>2, <1>3 DEF X!Next

LEMMA TextsFollow == AnswerInv => TextsRight
  <1> SUFFICES ASSUME AnswerInv PROVE X!TextsRight
    BY DEF TextsRight
  <1>1. hex \in HexTexts /\ kind \in {"heart", "open", "lead"} /\ content \in Contents
    BY DEF AnswerInv
  <1>2. X!HexRight /\ X!AnswerRight
    BY <1>1, HexIsRight, AnswerIsRight
  <1>3. X!RequestRight
    BY <1>1, LengthRight DEF X!RequestRight
  <1>4. QED
    BY <1>2, <1>3 DEF X!TextsRight

(* Whatever the packets as configured, the requests and the answers:       *)
(* packets spell their texts, requests say how many bytes follow them, and *)
(* answers pass whole or without their header (public.c 120, tcpc.c 186,   *)
(* httpdclient.c 61, 122).                                                 *)
THEOREM TextsAreRight == X!Spec => []TextsRight
  <1>1. QED
    BY AnswerInit, AnswerStep, TextsFollow, PTL DEF X!Spec

-----------------------------------------------------------------------------
(* What is checked of the table of commands is one of three parts, with the*)
(* others standing still: the results above hold of the run.               *)
THEOREM PartsOfTable == MCSpec => Spec /\ S!Spec /\ X!Spec
  <1>1. MCInit => Init /\ S!Init /\ X!Init
    BY DEF MCInit
  <1>2. [MCNext]_<<side, vars, textVars, lineVars>> => [Next]_vars
    BY DEF MCNext, TableNext, TextsNext, LineNext
  <1>3. [MCNext]_<<side, vars, textVars, lineVars>> => [S!Next]_S!vars
    BY DEF MCNext, TableNext, TextsNext, LineNext, lineVars, S!vars
  <1>4. [MCNext]_<<side, vars, textVars, lineVars>> => [X!Next]_X!vars
    BY DEF MCNext, TableNext, TextsNext, LineNext, textVars, X!vars
  <1>5. QED
    BY <1>1, <1>2, <1>3, <1>4, PTL DEF MCSpec, Spec, S!Spec, X!Spec

=============================================================================
