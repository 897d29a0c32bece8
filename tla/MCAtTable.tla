------------------------------ MODULE MCAtTable ------------------------------
(***************************************************************************)
(* Three parts that share nothing, one behaviour each: every command of    *)
(* the table of the AT interpreter, the texts of the socket threads        *)
(* (Texts) and the parameters of the serial line (SerialLine).             *)
(***************************************************************************)
EXTENDS MCAtCommand

CONSTANTS HexTexts, HexSize, LeadMax, Room, Width, Contents, Answers, MaxAnswers,
          Configured, Requested, Speeds, MaxPackets

VARIABLES side,
  hex, kind, content, htpchd, answer, came, rx, tty, torn, answers,
  port, copy, want, at, before, overlap, latest, packets

X == INSTANCE Texts
S == INSTANCE SerialLine

ASSUME TextSizes == X!TextsAssumption
ASSUME LineSettings == S!SerialLineAssumption

textVars == <<hex, kind, content, htpchd, answer, came, rx, tty, torn, answers>>
lineVars == <<port, copy, want, at, before, overlap, latest, packets>>

MCHexTexts ==
  {<<1, 2, 3, 4, 5, 6>>, <<10, 15, 0, 9, 7>>, <<3, 99, 4, 5>>, <<7, 8, 99, 1>>, << >>}
MCAnswers == [field : BOOLEAN, body : {<< >>, <<1>>, <<1, 2>>, <<3, 4, 5>>}]

Setting(baud, frame) ==
  [baud |-> baud, databit |-> frame[1], paritybit |-> frame[2], stopbit |-> frame[3]]
MCConfigured == {Setting(9600, <<8, "N", 1>>), Setting(14400, <<5, "O", 2>>)}
MCRequested ==
  {Setting(19200, <<7, "O", 2>>), Setting(14400, <<8, "E", 1>>),
   Setting(9600, <<7, "S", 2>>), Setting(19200, <<8, "M", 1>>)}

OnePacket  == hex = << >> /\ kind = "heart"
OneSetting == want["main"] = Setting(9600, <<8, "N", 1>>)
OneRequest == content = 1 /\ htpchd = FALSE /\ answer = [field |-> TRUE, body |-> << >>]

MCInit ==
  /\ Init
  /\ \/ side \in {"table", "line"} /\ OnePacket /\ OneRequest
     \/ side = "texts" /\ (OnePacket \/ OneRequest)
  /\ S!Init
  /\ side # "line" => OneSetting
  /\ X!Init

TableNext == side = "table" /\ Next /\ UNCHANGED <<side, textVars, lineVars>>
TextsNext == side = "texts" /\ X!Next /\ UNCHANGED <<side, vars, lineVars>>
LineNext  == side = "line" /\ S!Next /\ UNCHANGED <<side, vars, textVars>>

MCNext == TableNext \/ TextsNext \/ LineNext

MCSpec == MCInit /\ [][MCNext]_<<side, vars, textVars, lineVars>>

TextsRight == X!TextsRight
LineAsAsked == S!LineAsAsked
=============================================================================
