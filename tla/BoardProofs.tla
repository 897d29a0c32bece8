----------------------------- MODULE BoardProofs -----------------------------
(***************************************************************************)
(* Proofs about the factory block in flash, the sessions of the locator    *)
(* and the reload button (Factory, Locator, ReloadButton, Board), for any  *)
(* number of processes, addresses and restarts.                            *)
(***************************************************************************)
EXTENDS Board, TLAPS

USE FactoryAssumption, LocatorAssumption, ButtonAssumption, BoardAssumption

-----------------------------------------------------------------------------
(* Steps of the locator are listed in Next with the commands it takes.     *)
LEMMA LocatorSteps ==
  [Next]_vars => \/ UNCHANGED locatorVars
                 \/ Search \/ IdleTurn \/ LocatorRestart \/ Listen
  BY DEF Next, CommandOf, AtMessage, FactoryWork, LocatorTurn, Button, Restart, vars

SessionInv ==
  /\ atcmd_timeout \in 0 .. IdleLimit
  /\ since \in Nat
  /\ atcmd_enable => since <= atcmd_timeout

(* An AT session of the locator ends after at most the idle turns that     *)
(* locator.c 287 allows, although the count is not started with the        *)
(* session: a count that was running when it began only shortens it.       *)
THEOREM SessionsEnd == Spec => []SessionEnds
  <1> USE DEF SessionInv
  <1>1. Init => SessionInv
    BY DEF Init, LocatorInit
  <1>2. SessionInv /\ [Next]_vars => SessionInv'
    <2> SUFFICES ASSUME SessionInv, [Next]_vars PROVE SessionInv'
      OBVIOUS
    <2>1. CASE UNCHANGED locatorVars
      BY <2>1 DEF locatorVars
    <2>2. CASE Search
      BY <2>2 DEF Search
    <2>3. CASE IdleTurn
      BY <2>3 DEF IdleTurn
    <2>4. CASE LocatorRestart
      BY <2>4 DEF LocatorRestart
    <2>5. CASE Listen
      BY <2>5 DEF Listen
    <2>6. QED
      BY <2>1, <2>2, <2>3, <2>4, <2>5, LocatorSteps
  <1>3. SessionInv => SessionEnds
    BY DEF SessionEnds
  <1>4. QED
    BY <1>1, <1>2, <1>3, PTL DEF Spec

-----------------------------------------------------------------------------
ButtonInv ==
  /\ reld_cnt \in 0 .. Hold - 1
  /\ held \in 0 .. Hold
  /\ IF blinking THEN held = Hold /\ reld_cnt = 0 ELSE held >= reld_cnt

(* The factory settings are restored only after Hold polls in a row, none  *)
(* of which counted for an earlier restore, that found the button pressed  *)
(* or could not read the pin (gpio_work_rdy_reload.c 156).                 *)
THEOREM ResetsOnlyHeld == Spec => []ResetOnlyHeld
  <1> USE DEF ButtonInv
  <1>1. Init => ButtonInv
    BY DEF Init, ButtonInit
  <1>2. ButtonInv /\ [Next]_vars => ButtonInv'
    <2> SUFFICES ASSUME ButtonInv, [Next]_vars PROVE ButtonInv'
      OBVIOUS
    <2>1. CASE UNCHANGED buttonVars
      BY <2>1 DEF buttonVars
    <2>2. CASE Poll
      <3>1. PICK v \in Values :
              /\ Remember(v)
              /\ IF ReadsPressed(v) /\ reld_cnt + 1 >= Hold
                 THEN reld_cnt' = 0 /\ blinking' = TRUE
                 ELSE reld_cnt' = (IF ReadsPressed(v) THEN reld_cnt + 1 ELSE 0)
                      /\ UNCHANGED blinking
        BY <2>2 DEF Poll
      <3>2. QED
        BY <2>2, <3>1 DEF Poll, Remember
    <2>3. CASE ResetParam
      BY <2>3 DEF ResetParam
    <2>4. CASE ButtonRestart
      BY <2>4 DEF ButtonRestart
    <2>5. QED
      BY <2>1, <2>2, <2>3, <2>4
         DEF Next, CommandOf, FactoryWork, LocatorTurn, Button, Restart, vars
  <1>3. ButtonInv => ResetOnlyHeld
    BY DEF ResetOnlyHeld
  <1>4. QED
    BY <1>1, <1>2, <1>3, PTL DEF Spec

-----------------------------------------------------------------------------
(* The factory block. *)
Commands == Sets \cup {Query}

LEMMA BlankType == Blank \in Block /\ Blank # NoFile
  BY DEF Blank, Block, NoFile, Field

LEMMA NoFileIsNoBlock == NoFile \notin Block
  <1>1. DOMAIN NoFile = {"missing"}
    BY DEF NoFile
  <1>2. \A b \in Block : DOMAIN b = Field
    BY DEF Block
  <1>3. QED
    BY <1>1, <1>2 DEF Field

LEMMA QueryPutsNothing == DOMAIN Query = {} /\ Query \notin Sets
  <1>1. DOMAIN Query = {}
    BY DEF Query
  <1>2. \A puts \in Sets : DOMAIN puts # {}
    BY DEF Sets
  <1>3. QED
    BY <1>1, <1>2

(* What a command puts into a block leaves it one. *)
LEMMA PutType == \A b \in Block, puts \in Commands : Put(b, puts) \in Block
  <1> SUFFICES ASSUME NEW b \in Block, NEW puts \in Commands PROVE Put(b, puts) \in Block
    OBVIOUS
  <1>1. \A f \in DOMAIN puts : f \in Field => puts[f] \in Mac \cup Text \cup {AnyCode, Unset}
    BY DEF Commands, Sets, Query
  <1>2. QED
    BY <1>1 DEF Put, Block

Valid(b) == b.mac # Unset => b.enc \in {b.mac, AnyCode}

LEMMA BlankIsValid == Valid(Blank)
  BY DEF Valid, Blank, Field

(* An address that was accepted, or no address, keeps a block valid.       *)
LEMMA PutValid ==
  ASSUME NEW b \in Block, NEW puts \in Commands, Valid(b), CodeMatches(puts)
  PROVE  Valid(Put(b, puts))
  <1>1. "mac" \in DOMAIN puts <=> "enc" \in DOMAIN puts
    BY DEF Commands, Sets, Query
  <1>2. CASE "mac" \in DOMAIN puts
    <2>1. puts.enc \in {puts.mac, AnyCode}
      BY <1>2 DEF CodeMatches
    <2>2. Put(b, puts).mac = puts.mac /\ Put(b, puts).enc = puts.enc
      BY <1>1, <1>2 DEF Put, Field
    <2>3. QED
      BY <2>1, <2>2 DEF Valid
  <1>3. CASE "mac" \notin DOMAIN puts
    <2>1. Put(b, puts).mac = b.mac /\ Put(b, puts).enc = b.enc
      BY <1>1, <1>3 DEF Put, Field
    <2>2. QED
      BY <2>1 DEF Valid
  <1>4. QED
    BY <1>2, <1>3

-----------------------------------------------------------------------------
(* The types that the factory block needs. *)
BlockTypes ==
  /\ flash \in Block /\ expected \in Block
  /\ readfile \in Block \cup {NoFile} /\ writefile \in Block \cup {NoFile}
  /\ block_factory \in [Agent -> Block]
  /\ op \in [Agent -> [step : Steps, puts : Commands]]
  /\ misreads \in Nat

FactoryMoves ==
  \/ UNCHANGED factoryVars
  \/ FactoryRestart
  \/ \E a \in Agent : Set(a) \/ Ask(a) \/ FactoryStep(a)

LEMMA FactorySteps == [Next]_vars => FactoryMoves
  BY DEF Next, CommandOf, FactoryWork, LocatorTurn, Button, Restart, vars, FactoryMoves

LEMMA InitBlockTypes == Init => BlockTypes
  <1> SUFFICES ASSUME Init PROVE BlockTypes
    OBVIOUS
  <1>1. \A m \in Mac : Put(Blank, [mac |-> m, enc |-> m]) \in Block
    BY PutType, BlankType DEF Commands, Sets
  <1>2. flash \in Block
    BY <1>1, BlankType DEF Init, FactoryInit
  <1>3. Idle \in [step : Steps, puts : Commands]
    BY DEF Idle, Steps, Commands
  <1>4. QED
    BY <1>2, <1>3, BlankType DEF Init, FactoryInit, BlockTypes

(* A command that has opened its file has one. *)
FileInv == \A a \in Agent : op[a].step \in {"write", "erase", "program"} => writefile # NoFile

LEMMA InitFileInv == Init => FileInv
  BY DEF Init, FactoryInit, Idle, FileInv

LEMMA StepFileInv == BlockTypes /\ FileInv /\ FactoryMoves => FileInv'
  <1> SUFFICES ASSUME BlockTypes, FileInv, FactoryMoves PROVE FileInv'
    OBVIOUS
  <1> USE DEF BlockTypes
  <1>1. ASSUME NEW a \in Agent, NEW here, NEW next, From(a, here, next)
        PROVE  /\ op[a].step = here /\ op'[a].step = next
               /\ \A b \in Agent \ {a} : op'[b] = op[b]
    BY <1>1 DEF From
  <1>2. ASSUME NEW a \in Agent, NEW here, Done(a, here)
        PROVE  /\ op'[a].step = "idle"
               /\ \A b \in Agent \ {a} : op'[b] = op[b]
    BY <1>2 DEF Done, Idle
  <1>3. CASE UNCHANGED factoryVars
    BY <1>3 DEF factoryVars, FileInv
  <1>4. CASE FactoryRestart
    <2>1. \A a \in Agent : op'[a].step = "idle"
      BY <1>4 DEF FactoryRestart, Idle
    <2>2. QED
      BY <2>1 DEF FileInv
  <1>5. ASSUME NEW a \in Agent, Set(a) \/ Ask(a) PROVE FileInv'
    <2>1. PICK puts : Command(a, puts)
      BY <1>5 DEF Set, Ask
    <2>2. op'[a].step = "mtd_read" /\ \A b \in Agent \ {a} : op'[b] = op[b]
      BY <2>1 DEF Command
    <2>3. QED
      BY <2>1, <2>2 DEF Command, FileInv
  <1>6. ASSUME NEW a \in Agent, FactoryStep(a) PROVE FileInv'
    <2>1. CASE MtdRead(a)
      BY <1>1, <2>1 DEF MtdRead, FileInv
    <2>2. CASE FileRead(a)
      BY <1>1, <1>2, <2>2 DEF FileRead, FileInv
    <2>3. CASE Modify(a)
      BY <1>1, <1>2, <2>3 DEF Modify, FileInv
    <2>4. CASE OpenFile(a)
      BY <1>1, <2>4, BlankType DEF OpenFile, FileInv
    <2>5. CASE WriteFile(a)
      BY <1>1, <2>5, NoFileIsNoBlock DEF WriteFile, FileInv
    <2>6. CASE Erase(a)
      BY <1>1, <2>6 DEF Erase, FileInv
    <2>7. CASE Program(a)
      BY <1>2, <2>7 DEF Program, FileInv
    <2>8. QED
      BY <1>6, <2>1, <2>2, <2>3, <2>4, <2>5, <2>6, <2>7 DEF FactoryStep
  <1>7. QED
    BY <1>3, <1>4, <1>5, <1>6 DEF FactoryMoves

LEMMA StepBlockTypes == BlockTypes /\ FileInv /\ FactoryMoves => BlockTypes'
  <1> SUFFICES ASSUME BlockTypes, FileInv, FactoryMoves PROVE BlockTypes'
    OBVIOUS
  <1> USE DEF BlockTypes
  <1>1. Idle \in [step : Steps, puts : Commands] /\ Query \in Commands
    BY DEF Idle, Steps, Commands
  <1>2. ASSUME NEW a \in Agent, NEW here, NEW next \in Steps, From(a, here, next)
        PROVE  op' \in [Agent -> [step : Steps, puts : Commands]]
    BY <1>2 DEF From
  <1>3. ASSUME NEW a \in Agent, NEW here, Done(a, here)
        PROVE  op' \in [Agent -> [step : Steps, puts : Commands]]
    BY <1>1, <1>3 DEF Done
  <1>4. CASE UNCHANGED factoryVars
    BY <1>4 DEF factoryVars
  <1>5. CASE FactoryRestart
    BY <1>1, <1>5, BlankType DEF FactoryRestart
  <1>6. ASSUME NEW a \in Agent, Set(a) \/ Ask(a) PROVE BlockTypes'
    <2>1. PICK puts \in Commands : Command(a, puts)
      BY <1>1, <1>6 DEF Set, Ask, Commands
    <2>2. [step |-> "mtd_read", puts |-> puts] \in [step : Steps, puts : Commands]
      BY DEF Steps
    <2>3. QED
      BY <2>1, <2>2 DEF Command
  <1>7. ASSUME NEW a \in Agent, FactoryStep(a) PROVE BlockTypes'
    <2> USE DEF Steps
    <2>1. CASE MtdRead(a)
      BY <1>2, <2>1 DEF MtdRead
    <2>2. CASE FileRead(a)
      <3>1. block_factory' \in [Agent -> Block]
        BY <2>2 DEF FileRead
      <3>2. QED
        BY <1>2, <1>3, <2>2, <3>1 DEF FileRead
    <2>3. CASE Modify(a)
      <3>1. op[a].puts \in Commands
        OBVIOUS
      <3>2. Put(block_factory[a], op[a].puts) \in Block
        BY <3>1, PutType
      <3>3. block_factory' \in [Agent -> Block]
        BY <2>3, <3>2 DEF Modify
      <3>4. QED
        BY <1>2, <1>3, <2>3, <3>3 DEF Modify
    <2>4. CASE OpenFile(a)
      BY <1>2, <2>4, BlankType DEF OpenFile
    <2>5. CASE WriteFile(a)
      BY <1>2, <2>5 DEF WriteFile
    <2>6. CASE Erase(a)
      BY <1>2, <2>6, BlankType DEF Erase
    <2>7. CASE Program(a)
      <3>1. op[a].puts \in Commands
        OBVIOUS
      <3>2. Put(expected, op[a].puts) \in Block
        BY <3>1, PutType
      <3>3. writefile \in Block
        BY <2>7 DEF Program, Done, FileInv
      <3>4. QED
        BY <1>3, <2>7, <3>2, <3>3 DEF Program
    <2>8. QED
      BY <1>7, <2>1, <2>2, <2>3, <2>4, <2>5, <2>6, <2>7 DEF FactoryStep
  <1>8. QED
    BY <1>4, <1>5, <1>6, <1>7 DEF FactoryMoves

FactoryInv == BlockTypes /\ FileInv

LEMMA InitFactoryInv == Init => FactoryInv
  BY InitBlockTypes, InitFileInv DEF FactoryInv

LEMMA StepFactoryInv == FactoryInv /\ FactoryMoves => FactoryInv'
  BY StepBlockTypes, StepFileInv DEF FactoryInv

-----------------------------------------------------------------------------
(* As long as mtd_debug did not fail, the flash and the files hold valid   *)
(* blocks, and so does a copy that was read and not refused.               *)
ValidInv ==
  misreads = 0 =>
    /\ Valid(flash)
    /\ readfile # NoFile => Valid(readfile)
    /\ writefile # NoFile => Valid(writefile)
    /\ \A a \in Agent :
         /\ op[a].step = "file_read" => readfile # NoFile
         /\ op[a].step \in {"modify", "open", "write"} => Valid(block_factory[a])

LEMMA InitValidInv == Init => ValidInv
  <1> SUFFICES ASSUME Init PROVE ValidInv
    OBVIOUS
  <1>1. ASSUME NEW m \in Mac PROVE Valid(Put(Blank, [mac |-> m, enc |-> m]))
    <2>1. [mac |-> m, enc |-> m] \in Commands /\ CodeMatches([mac |-> m, enc |-> m])
      BY DEF Commands, Sets, CodeMatches
    <2>2. QED
      BY <2>1, PutValid, BlankType, BlankIsValid
  <1>2. Valid(flash)
    BY <1>1, BlankIsValid DEF Init, FactoryInit
  <1>3. \A a \in Agent : op[a].step = "idle"
    BY DEF Init, FactoryInit, Idle
  <1>4. QED
    BY <1>2, <1>3 DEF Init, FactoryInit, ValidInv

LEMMA StepValidInv == BlockTypes /\ FileInv /\ ValidInv /\ FactoryMoves => ValidInv'
  <1> SUFFICES ASSUME BlockTypes, FileInv, ValidInv, FactoryMoves, misreads' = 0 PROVE ValidInv'
    BY DEF ValidInv
  <1> USE DEF BlockTypes
  <1>1. misreads = 0
    BY DEF FactoryMoves, factoryVars, FactoryRestart, Set, Ask, Command, FactoryStep,
           MtdRead, FileRead, Modify, OpenFile, WriteFile, Erase, Program
  <1>2. ASSUME NEW a \in Agent, NEW here, NEW next, From(a, here, next)
        PROVE  /\ op[a].step = here /\ op'[a].step = next /\ op'[a].puts = op[a].puts
               /\ \A b \in Agent \ {a} : op'[b] = op[b]
    BY <1>2 DEF From
  <1>3. ASSUME NEW a \in Agent, NEW here, Done(a, here)
        PROVE  /\ op[a].step = here /\ op'[a].step = "idle"
               /\ \A b \in Agent \ {a} : op'[b] = op[b]
    BY <1>3 DEF Done, Idle
  <1>4. CASE UNCHANGED factoryVars
    BY <1>4 DEF factoryVars, ValidInv, Valid
  <1>5. CASE FactoryRestart
    <2>1. \A a \in Agent : op'[a].step = "idle"
      BY <1>5 DEF FactoryRestart, Idle
    <2>2. QED
      BY <1>1, <1>5, <2>1 DEF FactoryRestart, ValidInv, Valid
  <1>6. ASSUME NEW a \in Agent, Set(a) \/ Ask(a) PROVE ValidInv'
    <2>1. PICK puts : Command(a, puts)
      BY <1>6 DEF Set, Ask
    <2>2. /\ op'[a].step = "mtd_read"
          /\ \A b \in Agent \ {a} : op'[b] = op[b]
      BY <2>1 DEF Command
    <2>3. QED
      BY <1>1, <2>1, <2>2 DEF Command, ValidInv, Valid
  <1>7. ASSUME NEW a \in Agent, FactoryStep(a) PROVE ValidInv'
    <2>1. CASE MtdRead(a)
      <3>1. readfile' = flash
        BY <1>1, <2>1 DEF MtdRead
      <3>2. QED
        BY <1>1, <1>2, <2>1, <3>1, NoFileIsNoBlock DEF MtdRead, ValidInv, Valid
    <2>2. CASE FileRead(a)
      <3>1. readfile # NoFile /\ Valid(readfile)
        BY <1>1, <1>2, <1>3, <2>2 DEF FileRead, ValidInv
      <3>2. block_factory'[a] = readfile /\ \A b \in Agent \ {a} : block_factory'[b] = block_factory[b]
        BY <2>2, <3>1 DEF FileRead
      <3>3. /\ op'[a].step \in {"idle", "modify"}
            /\ \A b \in Agent \ {a} : op'[b] = op[b]
        BY <1>2, <1>3, <2>2 DEF FileRead
      <3>4. QED
        BY <1>1, <2>2, <3>1, <3>2, <3>3 DEF FileRead, ValidInv, Valid
    <2>3. CASE Modify(a)
      <3>1. op[a].step = "modify" /\ op[a].puts \in Commands
        BY <1>2, <1>3, <2>3 DEF Modify
      <3>2. Valid(block_factory[a])
        BY <1>1, <3>1 DEF ValidInv
      <3>3. block_factory' = [block_factory EXCEPT ![a] = Put(block_factory[a], op[a].puts)]
        BY <2>3 DEF Modify
      <3>4. CASE CodeMatches(op[a].puts)
        <4>1. Valid(block_factory'[a])
          BY <3>1, <3>2, <3>3, <3>4, PutValid
        <4>2. op'[a].step = "open" /\ \A b \in Agent \ {a} : op'[b] = op[b]
          BY <1>2, <2>3, <3>4 DEF Modify
        <4>3. QED
          BY <1>1, <2>3, <3>3, <4>1, <4>2 DEF Modify, ValidInv, Valid
      <3>5. CASE ~CodeMatches(op[a].puts)
        <4>1. op'[a].step = "idle" /\ \A b \in Agent \ {a} : op'[b] = op[b]
          BY <1>3, <2>3, <3>5 DEF Modify
        <4>2. QED
          BY <1>1, <2>3, <3>3, <4>1 DEF Modify, ValidInv, Valid
      <3>6. QED
        BY <3>4, <3>5
    <2>4. CASE OpenFile(a)
      BY <1>1, <1>2, <2>4, BlankIsValid DEF OpenFile, ValidInv, Valid
    <2>5. CASE WriteFile(a)
      BY <1>1, <1>2, <2>5 DEF WriteFile, ValidInv, Valid
    <2>6. CASE Erase(a)
      BY <1>1, <1>2, <2>6, BlankIsValid DEF Erase, ValidInv, Valid
    <2>7. CASE Program(a)
      <3>1. writefile # NoFile
        BY <1>3, <2>7 DEF Program, FileInv
      <3>2. QED
        BY <1>1, <1>3, <2>7, <3>1 DEF Program, ValidInv, Valid
    <2>8. QED
      BY <1>7, <2>1, <2>2, <2>3, <2>4, <2>5, <2>6, <2>7 DEF FactoryStep
  <1>8. QED
    BY <1>4, <1>5, <1>6, <1>7 DEF FactoryMoves

(* However the commands of any number of processes interleave, and         *)
(* whenever the board restarts, the flash never holds an address with a    *)
(* wrong code, unless mtd_debug failed (at_cmd_table.c 2662).              *)
THEOREM MacsStayValid == Spec => []OnlyValidMac
  <1>1. Init => FactoryInv /\ ValidInv
    BY InitFactoryInv, InitValidInv
  <1>2. FactoryInv /\ ValidInv /\ [Next]_vars => (FactoryInv /\ ValidInv)'
    BY FactorySteps, StepFactoryInv, StepValidInv DEF FactoryInv
  <1>3. ValidInv => OnlyValidMac
    BY DEF ValidInv, Valid, OnlyValidMac
  <1>4. QED
    BY <1>1, <1>2, <1>3, PTL DEF Spec

-----------------------------------------------------------------------------
(* A command that is alone carries the whole block from the flash to the   *)
(* file and back.                                                          *)
AloneInv ==
  ~disturbed =>
    /\ \A a, b \in Agent : Busy(a) /\ Busy(b) => a = b
    /\ (\A a \in Agent : op[a].step # "program") => flash = expected
    /\ \A a \in Agent :
         /\ op[a].step = "file_read" => readfile = flash
         /\ op[a].step = "modify" => block_factory[a] = flash
         /\ op[a].step \in {"open", "write"} =>
              block_factory[a] = Put(expected, op[a].puts)
         /\ op[a].step \in {"erase", "program"} =>
              writefile = Put(expected, op[a].puts)

LEMMA IdleSteps == BlockTypes => \A a \in Agent : op[a].step # "idle" => Busy(a)
  BY DEF BlockTypes, Busy, Idle

LEMMA StepAloneInv == BlockTypes /\ AloneInv /\ FactoryMoves => AloneInv'
  <1> SUFFICES ASSUME BlockTypes, AloneInv, FactoryMoves, ~disturbed' PROVE AloneInv'
    BY DEF AloneInv
  <1> USE DEF BlockTypes
  <1>1. CASE UNCHANGED factoryVars
    BY <1>1 DEF factoryVars, AloneInv, Busy
  <1>2. CASE FactoryRestart
    <2>1. /\ ~disturbed /\ \A a \in Agent : op[a].step # "program"
          /\ UNCHANGED <<flash, expected>>
      BY <1>2 DEF FactoryRestart
    <2>2. \A a \in Agent : op'[a] = Idle /\ op'[a].step = "idle"
      BY <1>2 DEF FactoryRestart, Idle
    <2>3. QED
      BY <2>1, <2>2 DEF AloneInv, Busy
  <1>3. ASSUME NEW a \in Agent, Set(a) \/ Ask(a) PROVE AloneInv'
    <2>1. PICK puts : Command(a, puts)
      BY <1>3 DEF Set, Ask
    <2>2. /\ ~disturbed /\ \A b \in Agent : ~Busy(b)
          /\ op'[a].step = "mtd_read"
          /\ \A b \in Agent \ {a} : op'[b] = op[b]
          /\ UNCHANGED <<flash, expected>>
      BY <2>1 DEF Command
    <2>3. \A b \in Agent : op[b].step = "idle"
      BY <2>2, IdleSteps
    <2>4. QED
      BY <2>2, <2>3 DEF AloneInv, Busy
  <1>4. ASSUME NEW a \in Agent, FactoryStep(a) PROVE AloneInv'
    <2>1. ~disturbed
      BY <1>4 DEF FactoryStep, MtdRead, FileRead, Modify, OpenFile, WriteFile, Erase, Program
    <2>2. op[a].step # "idle"
      BY <1>4 DEF FactoryStep, MtdRead, FileRead, Modify, OpenFile, WriteFile, Erase, Program,
                  From, Done
    <2>3. \A b \in Agent \ {a} : op[b].step = "idle" /\ ~Busy(b)
      BY <2>1, <2>2, IdleSteps DEF AloneInv
    <2>4. \A b \in Agent \ {a} : op'[b] = op[b]
      BY <1>4 DEF FactoryStep, MtdRead, FileRead, Modify, OpenFile, WriteFile, Erase, Program,
                  From, Done
    <2>5. ASSUME \/ op'[a].step \in {"idle", "mtd_read"} /\ flash' = expected'
                 \/ op'[a].step = "file_read" /\ flash' = expected' /\ readfile' = flash'
                 \/ op'[a].step = "modify" /\ flash' = expected' /\ block_factory'[a] = flash'
                 \/ /\ op'[a].step \in {"open", "write"} /\ flash' = expected'
                    /\ block_factory'[a] = Put(expected', op'[a].puts)
                 \/ /\ op'[a].step = "erase" /\ flash' = expected'
                    /\ writefile' = Put(expected', op'[a].puts)
                 \/ /\ op'[a].step = "program"
                    /\ writefile' = Put(expected', op'[a].puts)
          PROVE  AloneInv'
      <3>1. \A b \in Agent \ {a} : op'[b].step = "idle" /\ ~Busy(b)'
        BY <2>3, <2>4 DEF Busy
      <3>2. QED
        BY <2>5, <3>1 DEF AloneInv
    <2>6. ASSUME NEW here, NEW next, From(a, here, next)
          PROVE  op[a].step = here /\ op'[a].step = next /\ op'[a].puts = op[a].puts
      BY <2>6 DEF From
    <2>7. ASSUME NEW here, Done(a, here)
          PROVE  op[a].step = here /\ op'[a].step = "idle"
      BY <2>7 DEF Done, Idle
    <2>8. op[a].step # "program" => flash = expected
      BY <2>1, <2>3 DEF AloneInv
    <2>9. CASE MtdRead(a)
      BY <2>1, <2>5, <2>6, <2>8, <2>9 DEF MtdRead
    <2>10. CASE FileRead(a)
      <3>1. op[a].step = "file_read" /\ readfile = flash /\ readfile # NoFile
        BY <2>1, <2>6, <2>7, <2>10, NoFileIsNoBlock DEF FileRead, AloneInv
      <3>2. block_factory'[a] = flash
        BY <2>10, <3>1 DEF FileRead
      <3>3. QED
        BY <2>5, <2>6, <2>7, <2>8, <2>10, <3>1, <3>2 DEF FileRead
    <2>11. CASE Modify(a)
      <3>1. op[a].step = "modify" /\ block_factory[a] = expected /\ flash = expected
        BY <2>1, <2>6, <2>7, <2>8, <2>11 DEF Modify, AloneInv
      <3>2. block_factory'[a] = Put(expected, op[a].puts)
        BY <2>11, <3>1 DEF Modify
      <3>3. QED
        BY <2>5, <2>6, <2>7, <2>11, <3>1, <3>2 DEF Modify
    <2>12. CASE OpenFile(a)
      BY <2>1, <2>5, <2>6, <2>8, <2>12 DEF OpenFile, AloneInv
    <2>13. CASE WriteFile(a)
      BY <2>1, <2>5, <2>6, <2>8, <2>13 DEF WriteFile, AloneInv
    <2>14. CASE Erase(a)
      BY <2>1, <2>5, <2>6, <2>8, <2>14 DEF Erase, AloneInv
    <2>15. CASE Program(a)
      BY <2>1, <2>5, <2>7, <2>15 DEF Program, AloneInv
    <2>16. QED
      BY <1>4, <2>9, <2>10, <2>11, <2>12, <2>13, <2>14, <2>15 DEF FactoryStep
  <1>5. QED
    BY <1>1, <1>2, <1>3, <1>4 DEF FactoryMoves

(* Between commands that did not overlap, were not cut off while they      *)
(* programmed the flash, and whose reads succeeded, the flash holds what   *)
(* was set, each field as it was set last (at_cmd_table.c 2645-2788).      *)
THEOREM FieldsStay == Spec => []FieldsKept
  <1>1. Init => FactoryInv /\ AloneInv
    <2> SUFFICES ASSUME Init PROVE FactoryInv /\ AloneInv
      OBVIOUS
    <2>1. \A a \in Agent : op[a] = Idle /\ op[a].step = "idle"
      BY DEF Init, FactoryInit, Idle
    <2>2. QED
      BY <2>1, InitFactoryInv DEF Init, FactoryInit, AloneInv, Busy
  <1>2. FactoryInv /\ AloneInv /\ [Next]_vars => (FactoryInv /\ AloneInv)'
    BY FactorySteps, StepFactoryInv, StepAloneInv DEF FactoryInv
  <1>3. AloneInv => FieldsKept
    BY DEF AloneInv, FieldsKept
  <1>4. QED
    BY <1>1, <1>2, <1>3, PTL DEF Spec
=============================================================================
