----------------------------- MODULE AtCommand -----------------------------
(***************************************************************************)
(* The AT interpreter, at_cmd.c, as the processes that link it run it: the *)
(* bridge for its console, the locator and the remote manager.  Each reads *)
(* a batch of lines and answers them in one reply.  The settings are kept  *)
(* by uci (external): a "uci set" is seen by every process at once but is  *)
(* only staged in memory; "uci commit", by AT+Z or by the web page, makes  *)
(* everything staged permanent, and a restart drops what is not.  Every    *)
(* system() is a step of its own, so batches of several processes mix.     *)
(***************************************************************************)
EXTENDS AtTable

CONSTANTS
  Agents,        \* the processes with an interpreter
  Value,         \* values of options that pass every check
  Bad,           \* a parameter that its check rejects
  Empty,         \* the value left by a parameter that is absent or too long
  ServerModes, DhcpModes,    \* socket modes of servers, protos of DHCP
  None,          \* no handler, nothing staged, no writer
  Web,           \* the web server's CGI process
  Config,        \* the options in use: those of the commands in BatchesOf
  BatchesOf,     \* [Agents -> set of batches]: what the peers may send
  Pages,         \* what the web page may save: sequences of <<option, value>>
  CommitLimit,   \* the commits one AT+Z tries: 10
  Repeat         \* FALSE: each agent receives only one batch

ASSUME ConfigAssumption == Config \subseteq Options
ASSUME CommitAssumption == CommitLimit \in Nat \ {0}
ASSUME WriterAssumption == None \notin Agents \cup {Web} /\ Web \notin Agents

(***************************************************************************)
(* A line: its command (or Unknown, a name that is not in the table, or    *)
(* Malformed, one that does not start with AT), whether it has an equals   *)
(* sign, and its parameters.                                               *)
(***************************************************************************)
Unknown == "unknown"
Malformed == "malformed"
Line(cmd, set, para) == [cmd |-> cmd, set |-> set, para |-> para]
AtLines ==
  [cmd : Commands \cup {Unknown, Malformed}, set : BOOLEAN, para : Seq(Value \cup {Bad})]

ASSUME BatchAssumption ==
  \A a \in Agents : \A b \in BatchesOf[a] :
    /\ b \in Seq(AtLines)
    /\ \A i \in DOMAIN b : b[i].cmd \in Commands => OptionsOf(b[i].cmd) \subseteq Config
ASSUME PageAssumption == Pages \subseteq Seq(Config \X (Value \cup {Empty}))
ASSUME NoneAssumption == None \notin Commands \cup Value \cup {Empty}

VARIABLES
  committed,     \* [Config -> value]: the files of /etc/config
  staged,        \* [Config -> value or None]: the changes not yet committed
  rebooting,     \* "reboot -d 2" was called
  pc, batch, pfn, k, got, pass,   \* an agent's step and locals
  replies,       \* g_InnerRspBuf: one entry for every line answered
  page,          \* what the CGI process has still to set; None when idle
  received,      \* the agents that have had a batch
  writer         \* history: who set the option last, from which line of its
                 \* batch; 0 for an earlier batch and for the page

store == <<committed, staged, rebooting>>
locals == <<pc, batch, pfn, k, got, pass, replies, received>>
vars == <<store, locals, page, writer>>

Nobody == [by |-> None, line |-> 0]

Init ==
  /\ committed = [o \in Config |-> Empty]
  /\ staged = [o \in Config |-> None]
  /\ rebooting = FALSE
  /\ pc = [a \in Agents |-> "idle"]
  /\ batch = [a \in Agents |-> << >>]
  /\ pfn = [a \in Agents |-> None]
  /\ k = [a \in Agents |-> 0]
  /\ got = [a \in Agents |-> << >>]
  /\ pass = [a \in Agents |-> 0]
  /\ replies = [a \in Agents |-> << >>]
  /\ page = None
  /\ received = {}
  /\ writer = [o \in Config |-> Nobody]

(* What "uci get", "uci set" and "uci commit" do. *)
UciGet(o) == IF staged[o] = None THEN committed[o] ELSE staged[o]
UciSet(o, v, by, line) ==
  /\ staged' = [staged EXCEPT ![o] = v]
  /\ writer' = [writer EXCEPT ![o] = [by |-> by, line |-> line]]
UciCommit ==
  /\ committed' = [o \in Config |-> UciGet(o)]
  /\ staged' = [o \in Config |-> None]

(* The line an agent is at, its parameters, and the handler's row. *)
LineNo(a) == Len(replies[a]) + 1
Current(a) == batch[a][LineNo(a)]
Given(l, i) == IF i \in DOMAIN l.para THEN l.para[i] ELSE Bad
Stored(l, i) == IF Given(l, i) = Bad THEN Empty ELSE Given(l, i)
SetRow(cmd, l) == RowOf(cmd, Len(l.para), Given(l, 1) \in ServerModes)
(* Mutant: the port of socket A is looked up before its mode is known. *)
QueryRowBlind(cmd, values) == RowOf(cmd, 0, FALSE)
QueryRow(cmd, values) ==
  RowOf(cmd, 0, values # << >> /\ Head(values) \in ServerModes)

(* AtCmd_Respond: the answer to the current line.  The handler returns. *)
AtCmd_Respond(a, code, values) ==
  /\ replies' = [replies EXCEPT
       ![a] = Append(@, [code |-> code, ran |-> pfn'[a], values |-> values])]
  /\ pc' = [pc EXCEPT ![a] = "line"]
  /\ k' = [k EXCEPT ![a] = 0]
  /\ got' = [got EXCEPT ![a] = << >>]
  /\ pass' = [pass EXCEPT ![a] = 0]

(* The agent reads the next batch. *)
Waits(a) == pc[a] = "idle" /\ (Repeat \/ a \notin received)

(* Mutant: pfn is static and keeps the handler of the last batch. *)
ReceiveStalePfn(a, b) ==
  /\ Waits(a)
  /\ batch' = [batch EXCEPT ![a] = b]
  /\ pc' = [pc EXCEPT ![a] = "line"]
  /\ received' = received \cup {a}
  /\ writer' = [o \in Config |-> IF writer[o].by # a THEN writer[o]
                                 ELSE [by |-> a, line |-> 0]]
  /\ UNCHANGED <<store, pfn, k, got, pass, replies, page>>

(***************************************************************************)
(* AtCmd_Dispatch: the function pointer and the reply start out empty.     *)
(***************************************************************************)
Receive(a, b) ==
  /\ Waits(a)
  /\ batch' = [batch EXCEPT ![a] = b]
  /\ pfn' = [pfn EXCEPT ![a] = None]
  /\ replies' = [replies EXCEPT ![a] = << >>]
  /\ pc' = [pc EXCEPT ![a] = "line"]
  /\ received' = received \cup {a}
  /\ writer' = [o \in Config |-> IF writer[o].by # a THEN writer[o]
                                  ELSE [by |-> a, line |-> 0]]
  /\ UNCHANGED <<store, k, got, pass, page>>

Rejects(row, i, l) == i \in row.checked /\ Given(l, i) = Bad

(* What the handler does before its first system(). *)
Start(a, cmd, l) ==
  IF l.set
  THEN LET row == SetRow(cmd, l)
       IN IF \/ Len(l.para) \notin row.sums
             \/ ~row.each /\ \E i \in row.checked : Rejects(row, i, l)
          THEN AtCmd_Respond(a, "ERR", << >>)
          ELSE /\ pc' = [pc EXCEPT ![a] = "set"]
               /\ k' = [k EXCEPT ![a] = 1]
               /\ UNCHANGED <<got, pass, replies>>
  ELSE IF cmd = "Z"
  THEN /\ pc' = [pc EXCEPT ![a] = "commit"]
       /\ UNCHANGED <<k, got, pass, replies>>
  ELSE /\ pc' = [pc EXCEPT ![a] = "get"]
       /\ UNCHANGED <<k, got, pass, replies>>

(***************************************************************************)
(* One line.  A command that is not in the table runs the handler that the *)
(* function pointer still holds from an earlier line of the batch.         *)
(***************************************************************************)
ReadLine(a) ==
  /\ pc[a] = "line"
  /\ LineNo(a) <= Len(batch[a])
  /\ LET l == Current(a)
         cmd == IF l.cmd = Unknown THEN pfn[a] ELSE l.cmd
     IN IF l.cmd = Malformed
        THEN /\ UNCHANGED pfn
             /\ AtCmd_Respond(a, "ERR1", << >>)
        ELSE /\ pfn' = [pfn EXCEPT ![a] = cmd]
             /\ IF cmd = None
                THEN AtCmd_Respond(a, "ERR2", << >>)
                ELSE Start(a, cmd, l)
  /\ UNCHANGED <<store, batch, received, page, writer>>

(* Mutant: the last option is forgotten. *)
SetOptionButLast(a) ==
  /\ pc[a] = "set"
  /\ LET l == Current(a)
         row == SetRow(pfn[a], l)
     IN IF k[a] >= Len(row.options)
        THEN /\ UNCHANGED <<pfn, staged, writer>>
             /\ AtCmd_Respond(a, "OK", << >>)
        ELSE /\ UciSet(row.options[k[a]], Stored(l, k[a]), a, LineNo(a))
             /\ k' = [k EXCEPT ![a] = @ + 1]
             /\ UNCHANGED <<pc, pfn, got, pass, replies>>
  /\ UNCHANGED <<committed, rebooting, batch, received, page>>

(* The next parameter of a SET: its check, if it stands here, and "uci set". *)
SetOption(a) ==
  /\ pc[a] = "set"
  /\ LET l == Current(a)
         row == SetRow(pfn[a], l)
     IN IF k[a] > Len(row.options)
        THEN /\ UNCHANGED <<pfn, staged, writer>>
             /\ AtCmd_Respond(a, "OK", << >>)
        ELSE IF Rejects(row, k[a], l)
        THEN /\ UNCHANGED <<pfn, staged, writer>>
             /\ AtCmd_Respond(a, "ERR", << >>)
        ELSE /\ UciSet(row.options[k[a]], Stored(l, k[a]), a, LineNo(a))
             /\ k' = [k EXCEPT ![a] = @ + 1]
             /\ UNCHANGED <<pc, pfn, got, pass, replies>>
  /\ UNCHANGED <<committed, rebooting, batch, received, page>>

(* The next "uci get" of a query.  Under DHCP the addresses come from ifconfig. *)
GetOption(a) ==
  /\ pc[a] = "get"
  /\ LET options == QueryRow(pfn[a], got[a]).options
         i == Len(got[a]) + 1
         dhcp == pfn[a] = "WANN" /\ i > 1 /\ got[a][1] \in DhcpModes
     IN IF i > Len(options)
        THEN /\ UNCHANGED pfn
             /\ AtCmd_Respond(a, "OK", got[a])
        ELSE /\ got' = [got EXCEPT ![a] = Append(@,
                          IF dhcp THEN None ELSE UciGet(options[i]))]
             /\ UNCHANGED <<pc, pfn, k, pass, replies>>
  /\ UNCHANGED <<store, batch, received, page, writer>>

(* Mutant: the commit names another package and leaves ser2net as it is. *)
CommitElsewhere(a) ==
  /\ pc[a] = "commit"
  /\ pass' = [pass EXCEPT ![a] = @ + 1]
  /\ pc' = [pc EXCEPT ![a] = "changes"]
  /\ UNCHANGED <<store, batch, pfn, k, got, replies, received, page, writer>>

(* Mutant: the loop does not count. *)
CommitUncounted(a) ==
  /\ pc[a] = "commit"
  /\ UciCommit
  /\ pc' = [pc EXCEPT ![a] = "changes"]
  /\ UNCHANGED <<rebooting, batch, pfn, k, got, pass, replies, received, page, writer>>

(* AtCmd_Handler_Z: commit, sleep, look for changes; at most CommitLimit times. *)
Commit(a) ==
  /\ pc[a] = "commit"
  /\ UciCommit
  /\ pass' = [pass EXCEPT ![a] = @ + 1]
  /\ pc' = [pc EXCEPT ![a] = "changes"]
  /\ UNCHANGED <<rebooting, batch, pfn, k, got, replies, received, page, writer>>

SeeChanges(a) ==
  /\ pc[a] = "changes"
  /\ UNCHANGED pfn
  /\ IF pass[a] < CommitLimit /\ \E o \in Config : staged[o] # None
     THEN /\ pc' = [pc EXCEPT ![a] = "commit"]
          /\ UNCHANGED <<rebooting, k, got, pass, replies>>
     ELSE rebooting' = TRUE /\ AtCmd_Respond(a, "OK", << >>)
  /\ UNCHANGED <<committed, staged, batch, received, page, writer>>

(* The caller sends the reply.  Text after the last line end is dropped. *)
SendReply(a) ==
  /\ pc[a] = "line"
  /\ LineNo(a) > Len(batch[a])
  /\ pc' = [pc EXCEPT ![a] = "idle"]
  /\ batch' = [batch EXCEPT ![a] = << >>]
  /\ replies' = [replies EXCEPT ![a] = << >>]
  /\ UNCHANGED <<store, pfn, k, got, pass, received, page, writer>>

(***************************************************************************)
(* The CGI process saves a page: one "uci set" per field, then one commit. *)
(***************************************************************************)
uci_httpd_convert(p) ==
  /\ page = None
  /\ page' = p
  /\ UNCHANGED <<store, locals, writer>>

WebSet ==
  /\ page \notin {None, << >>}
  /\ UciSet(page[1][1], page[1][2], Web, 0)
  /\ page' = Tail(page)
  /\ UNCHANGED <<committed, rebooting, locals>>

WebCommit ==
  /\ page = << >>
  /\ UciCommit
  /\ page' = None
  /\ UNCHANGED <<rebooting, locals, writer>>

(* What is staged is lost and every process starts anew. *)
Boot ==
  /\ staged' = [o \in Config |-> None]
  /\ rebooting' = FALSE
  /\ pc' = [a \in Agents |-> "idle"]
  /\ batch' = [a \in Agents |-> << >>]
  /\ pfn' = [a \in Agents |-> None]
  /\ k' = [a \in Agents |-> 0]
  /\ got' = [a \in Agents |-> << >>]
  /\ pass' = [a \in Agents |-> 0]
  /\ replies' = [a \in Agents |-> << >>]
  /\ page' = None
  /\ writer' = [o \in Config |-> Nobody]
  /\ UNCHANGED <<committed, received>>

Reboot == rebooting /\ Boot
PowerLoss == Boot

Serve(a) ==
  \/ ReadLine(a)
  \/ SetOption(a)
  \/ GetOption(a)
  \/ Commit(a)
  \/ SeeChanges(a)
  \/ SendReply(a)

Next ==
  \/ \E a \in Agents : Serve(a) \/ (Waits(a) /\ \E b \in BatchesOf[a] : Receive(a, b))
  \/ \E p \in Pages : uci_httpd_convert(p)
  \/ WebSet
  \/ WebCommit
  \/ Reboot
  \/ PowerLoss

Spec == Init /\ [][Next]_vars

(* The kernel schedules every process; it owes no input and no power failure. *)
FairSpec == Spec /\ \A a \in Agents : WF_vars(Serve(a))

-----------------------------------------------------------------------------
Writers == [by : Agents \cup {None, Web}, line : Nat]

(* The variables hold values of their kinds; a handler runs only by name. *)
TypeOK ==
  /\ committed \in [Config -> Value \cup {Empty}]
  /\ staged \in [Config -> Value \cup {Empty, None}]
  /\ rebooting \in BOOLEAN
  /\ pc \in [Agents -> {"idle", "line", "set", "get", "commit", "changes"}]
  /\ pfn \in [Agents -> Commands \cup {None}]
  /\ pass \in [Agents -> 0..CommitLimit]
  /\ received \subseteq Agents
  /\ writer \in [Config -> Writers]
  /\ \A a \in Agents : /\ Len(replies[a]) <= Len(batch[a])
                       /\ pc[a] \notin {"idle", "line"} => pfn[a] # None

(* The lines up to the i-th whose command is in the table. *)
Known(a, i) == {j \in 1..i : batch[a][j].cmd \in Commands}

(***************************************************************************)
(* Every line is answered by the right code and by the right handler       *)
(* (at_cmd.c 33-152): a known command by its own; an unknown one by that   *)
(* of the last known command before it in the same batch, and with ERR:2   *)
(* only if there is none.  No handler reaches over from an earlier batch.  *)
(***************************************************************************)
AnswersInOrder ==
  \A a \in Agents : \A i \in DOMAIN replies[a] :
    LET r == replies[a][i]
        l == batch[a][i]
        known == Known(a, i)
    IN /\ (r.code = "ERR1") <=> (l.cmd = Malformed)
       /\ (r.code = "ERR2") <=> (l.cmd = Unknown /\ known = {})
       /\ known = {} => r.ran = None
       /\ \A j \in known : (\A h \in known : h <= j) => r.ran = batch[a][j].cmd

(***************************************************************************)
(* +OK to a SET means that every option of the command was set: it has the *)
(* value asked for, unless a later line or another process set it since.   *)
(***************************************************************************)
OkHolds ==
  \A a \in Agents : \A i \in DOMAIN replies[a] :
    LET r == replies[a][i]
        l == batch[a][i]
        options == SetRow(r.ran, l).options
    IN r.code = "OK" /\ l.set =>
         \A j \in DOMAIN options :
           LET o == options[j]
           IN /\ writer[o] # Nobody
              /\ writer[o].by = a => writer[o].line >= i
              /\ writer[o] = [by |-> a, line |-> i] => UciGet(o) = Stored(l, j)

(***************************************************************************)
(* A query answers what the last SET of the command in the same batch asked *)
(* for, staged or committed by now: each value at its own place, under     *)
(* whatever option the handler keeps it.  What another line or process set *)
(* since, and the addresses under DHCP, are not promised; nor is socket A's *)
(* port once another line or process has changed the mode by which it is   *)
(* looked up (at_cmd_table.c 1076-1089).                                   *)
(***************************************************************************)
QueryAnswersSet ==
  \A a \in Agents : \A i \in DOMAIN replies[a] : \A h \in 1..(i - 1) :
    LET asked == replies[a][i]
        l == batch[a][h]
        options == SetRow(asked.ran, l).options
        Mine(o) == writer[o] = [by |-> a, line |-> h]
    IN /\ replies[a][h].ran = asked.ran /\ l.set
       /\ asked.ran = "SOCKA" => Mine(options[1])
       => \A j \in DOMAIN options \cap DOMAIN asked.values :
            Mine(options[j]) /\ asked.values[j] # None => asked.values[j] = Stored(l, j)

(***************************************************************************)
(* A line answered with an error has set nothing, except that of the       *)
(* handlers that check in turn it leaves the options before the first bad  *)
(* parameter set (at_cmd_table.c 731-922, 1061-1256, 1522-1686, 1784-1842).*)
(***************************************************************************)
ErrorLeavesPrefix ==
  \A a \in Agents : \A i \in DOMAIN replies[a] : \A o \in Config :
    LET r == replies[a][i]
        l == batch[a][i]
        row == SetRow(r.ran, l)
    IN r.code \in {"ERR", "ERR1", "ERR2"} /\ writer[o] = [by |-> a, line |-> i]
         => /\ r.ran \in {"UART", "UARTTL", "SOCKA", "SOCKB", "REGCLOUD",
                          "REGUSER", "HEARTUSER"}
            /\ \E j \in DOMAIN row.options :
                 /\ o = row.options[j]
                 /\ \A h \in 1..j : Given(l, h) # Bad
                 /\ \E h \in DOMAIN row.options : h > j /\ Given(l, h) = Bad

(***************************************************************************)
(* When AT+Z answers and the restart is ordered (at_cmd_table.c 416-428),  *)
(* everything this process set before is permanent, unless another process *)
(* set the same option since.                                              *)
(***************************************************************************)
OwnSaved ==
  [][\A a \in Agents : pc[a] = "changes" /\ pc'[a] = "line" =>
       \A o \in Config : writer[o].by = a => staged[o] = None]_vars

(***************************************************************************)
(* Every batch is answered, AT+Z included, however often the other         *)
(* processes stage new changes between its commit and its look at them.    *)
(***************************************************************************)
Answered == \A a \in Agents : pc[a] # "idle" ~> pc[a] = "idle"

=============================================================================
