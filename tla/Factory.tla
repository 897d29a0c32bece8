------------------------------ MODULE Factory ------------------------------
(***************************************************************************)
(* The factory block in flash (/dev/mtd2): MAC address, its code, and two  *)
(* version texts (at_cmd_table.c 2550-2834, param.c 24-83).  Every AT      *)
(* interpreter is a process of its own with its own copy of the block; a   *)
(* command reads the whole block and writes it back, through two files in  *)
(* /tmp that all share.                                                    *)
(***************************************************************************)
EXTENDS Integers

CONSTANTS Agent,       \* the processes that interpret AT commands
          Mac, Text,   \* addresses (and, as codes, what EncryptBlock makes of them), texts
          AnyCode,     \* "FFFFFFFFFFFF", accepted with every address
          Unset,       \* erased
          MaxSets, MaxMisreads   \* bounds

ASSUME FactoryAssumption ==
  /\ Unset \notin Mac \cup Text /\ AnyCode \notin Mac \cup {Unset}
  /\ MaxSets \in Nat /\ MaxMisreads \in Nat

VARIABLES
  flash,
  readfile, writefile,   \* /tmp/factory_read and /tmp/factory_write
  block_factory,         \* the copy of each process
  op,                    \* the command each process is at, and its next step
  expected,              \* what the commands have set, one after the other
  disturbed,             \* two commands overlapped, or one was cut short or misread
  sets, misreads

factoryVars == <<flash, readfile, writefile, block_factory, op, expected, disturbed,
                 sets, misreads>>

Field  == {"mac", "enc", "manuf_ver", "userver"}
Blank  == [f \in Field |-> Unset]
Block  == [Field -> Mac \cup Text \cup {AnyCode, Unset}]
NoFile == [f \in {"missing"} |-> Unset]

(* What a command puts into the block; a query puts nothing.               *)
Query == [f \in {} |-> Unset]
Sets  == {[mac |-> m, enc |-> e] : m \in Mac, e \in Mac \cup {AnyCode}}
           \cup {[manuf_ver |-> t] : t \in Text} \cup {[userver |-> t] : t \in Text}

Steps == {"idle", "mtd_read", "file_read", "modify", "open", "write", "erase", "program"}
Idle == [step |-> "idle", puts |-> Query]

Put(block, puts) == [f \in Field |-> IF f \in DOMAIN puts THEN puts[f] ELSE block[f]]

(* WRMAC: the code given is that of the address given.                     *)
CodeMatches(puts) == "mac" \in DOMAIN puts => puts.enc \in {puts.mac, AnyCode}

FactoryInit ==
  /\ flash \in {Blank} \cup {Put(Blank, [mac |-> m, enc |-> m]) : m \in Mac}
  /\ readfile \in {NoFile, flash} /\ writefile = NoFile
  /\ block_factory = [a \in Agent |-> Blank]
  /\ op = [a \in Agent |-> Idle]
  /\ expected = flash /\ disturbed = FALSE
  /\ sets = 0 /\ misreads = 0

Busy(a) == op[a] # Idle

Command(a, puts) ==
  /\ ~Busy(a)
  /\ op' = [op EXCEPT ![a] = [step |-> "mtd_read", puts |-> puts]]
  /\ disturbed' = (disturbed \/ \E b \in Agent : Busy(b))
  /\ UNCHANGED <<flash, readfile, writefile, block_factory, expected, misreads>>

Set(a) ==
  /\ sets < MaxSets /\ sets' = sets + 1
  /\ \E puts \in Sets : Command(a, puts)

Ask(a) == Command(a, Query) /\ UNCHANGED sets

From(a, here, next) == op[a].step = here /\ op' = [op EXCEPT ![a].step = next]

Done(a, here) == op[a].step = here /\ op' = [op EXCEPT ![a] = Idle]

(* Mutant: the flash is read only if there is no file of it yet. *)
MtdReadOnce(a) ==
  /\ From(a, "mtd_read", "file_read")
  /\ readfile' = IF readfile = NoFile THEN flash ELSE readfile
  /\ UNCHANGED <<flash, writefile, block_factory, expected, disturbed, sets, misreads>>

(* factory_read: mtd_debug copies the flash into a file, or fails ...      *)
MtdRead(a) ==
  /\ From(a, "mtd_read", "file_read")
  /\ \/ readfile' = flash /\ UNCHANGED <<disturbed, misreads>>
     \/ /\ misreads < MaxMisreads /\ misreads' = misreads + 1
        /\ disturbed' = TRUE
        /\ UNCHANGED readfile
  /\ UNCHANGED <<flash, writefile, block_factory, expected, sets>>

(* Mutant: a command that sets works on the copy it has. *)
FileReadToAsk(a) ==
  /\ IF op[a].puts = Query THEN Done(a, "file_read") ELSE From(a, "file_read", "modify")
  /\ block_factory' = IF readfile = NoFile \/ op[a].puts # Query THEN block_factory
                      ELSE [block_factory EXCEPT ![a] = readfile]
  /\ UNCHANGED <<flash, readfile, writefile, expected, disturbed, sets, misreads>>

(* ... and the file is read, if it is there.                               *)
FileRead(a) ==
  /\ IF op[a].puts = Query THEN Done(a, "file_read") ELSE From(a, "file_read", "modify")
  /\ block_factory' = IF readfile = NoFile THEN block_factory
                      ELSE [block_factory EXCEPT ![a] = readfile]
  /\ UNCHANGED <<flash, readfile, writefile, expected, disturbed, sets, misreads>>

(* WRMAC changes its copy first and then looks whether the code is right.  *)
Modify(a) ==
  /\ block_factory' = [block_factory EXCEPT ![a] = Put(@, op[a].puts)]
  /\ IF CodeMatches(op[a].puts) THEN From(a, "modify", "open") ELSE Done(a, "modify")
  /\ UNCHANGED <<flash, readfile, writefile, expected, disturbed, sets, misreads>>

(* factory_write: open with O_TRUNC, write, and flashcp, which erases and  *)
(* then programs.                                                          *)
OpenFile(a) ==
  /\ From(a, "open", "write") /\ writefile' = Blank
  /\ UNCHANGED <<flash, readfile, block_factory, expected, disturbed, sets, misreads>>

WriteFile(a) ==
  /\ From(a, "write", "erase") /\ writefile' = block_factory[a]
  /\ UNCHANGED <<flash, readfile, block_factory, expected, disturbed, sets, misreads>>

Erase(a) ==
  /\ From(a, "erase", "program") /\ flash' = Blank
  /\ UNCHANGED <<readfile, writefile, block_factory, expected, disturbed, sets, misreads>>

Program(a) ==
  /\ Done(a, "program")
  /\ flash' = writefile
  /\ expected' = Put(expected, op[a].puts)
  /\ UNCHANGED <<readfile, writefile, block_factory, disturbed, sets, misreads>>

FactoryStep(a) ==
  MtdRead(a) \/ FileRead(a) \/ Modify(a) \/ OpenFile(a) \/ WriteFile(a) \/ Erase(a) \/ Program(a)

(* The board restarts: the flash stays as it is.  At boot a locator that   *)
(* ends at once asks for the address (network_init.sh 5, locator.c 154).   *)
FactoryRestart ==
  /\ disturbed' = (disturbed \/ \E a \in Agent : op[a].step = "program")
  /\ readfile' \in {NoFile, flash} /\ writefile' = NoFile
  /\ block_factory' = [a \in Agent |-> Blank]
  /\ op' = [a \in Agent |-> Idle]
  /\ UNCHANGED <<flash, expected, sets, misreads>>

-----------------------------------------------------------------------------
(* The types of the variables (at_cmd_table.c 16-21). *)
FactoryTypeOK ==
  /\ flash \in Block /\ expected \in Block
  /\ readfile \in Block \cup {NoFile} /\ writefile \in Block \cup {NoFile}
  /\ block_factory \in [Agent -> Block]
  /\ op \in [Agent -> [step : Steps, puts : Sets \cup {Query}]]
  /\ disturbed \in BOOLEAN
  /\ sets \in 0 .. MaxSets /\ misreads \in 0 .. MaxMisreads

(* However commands of several processes overlap, and whenever the power   *)
(* fails, the flash has no address whose code is wrong (at_cmd_table.c     *)
(* 2662): the copy that a refused WRMAC leaves behind is never written,    *)
(* unless mtd_debug failed.                                                *)
OnlyValidMac ==
  flash.mac # Unset /\ misreads = 0 => flash.enc \in {flash.mac, AnyCode}

(* Commands that do not overlap change only their own field; a rewrite of  *)
(* the whole block keeps the others (at_cmd_table.c 2645, 2739, 2788).     *)
FieldsKept ==
  ~disturbed /\ (\A a \in Agent : op[a].step # "program") => flash = expected
=============================================================================
