----------------------------- MODULE SerialLine -----------------------------
(***************************************************************************)
(* The parameters of the serial line: main sets them at start from the     *)
(* configuration (main.c 654), and any socket thread that hears a packet   *)
(* of RFC 2217 sets them again (utils.c 34).  Each reads the termios,      *)
(* changes its copy and writes it back, twice, with no lock, and what the  *)
(* program does not support it leaves as it finds it.                      *)
(***************************************************************************)
EXTENDS Integers

CONSTANTS Configured,   \* settings that AT+UART accepts
          Requested,    \* settings that packets carry
          Speeds,       \* name_arr
          MaxPackets    \* bound

(* A setting has baud, databit, paritybit and stopbit; the packets are     *)
(* numbered.                                                               *)
Parities == {"N", "O", "E", "M", "S"}
SerialLineAssumption ==
  /\ \A w \in Configured \cup Requested :
       w.databit \in 5 .. 8 /\ w.paritybit \in Parities /\ w.stopbit \in 1 .. 2
  /\ MaxPackets \in Nat

VARIABLES
  port,     \* the termios of the line
  copy,     \* the copy each thread works on
  want,     \* what each thread is to set, at first all the same
  at,       \* where each thread is
  before,   \* the termios when it began
  overlap,  \* another thread was setting meanwhile
  latest,   \* who finished last
  packets   \* packets heard

vars == <<port, copy, want, at, before, overlap, latest, packets>>

Setter == {"main", "A", "B"}
Busy(s) == at[s] # "idle"

(* How the port is found when it is opened: lines are edited and echoed.   *)
Opened == [speed |-> 9600, databit |-> 8, parenb |-> FALSE, parodd |-> FALSE,
           cstopb |-> FALSE, icanon |-> TRUE]

Init ==
  /\ port = Opened
  /\ \E w \in Configured : want = [s \in Setter |-> w]
  /\ at = [s \in Setter |-> IF s = "main" THEN "speed" ELSE "idle"]
  /\ copy = [s \in Setter |-> Opened] /\ before = copy
  /\ overlap = [s \in Setter |-> FALSE]
  /\ latest = "none" /\ packets = 0

Goto(s, here, there) == at[s] = here /\ at' = [at EXCEPT ![s] = there]

-----------------------------------------------------------------------------
(* A packet with the right sum is heard, whatever syncbaud says.           *)
xfrc2217(s) ==
  /\ s # "main" /\ packets < MaxPackets
  /\ Goto(s, "idle", "speed")
  /\ \E w \in Requested : want' = [want EXCEPT ![s] = w]
  /\ packets' = packets + 1
  /\ before' = [before EXCEPT ![s] = port]
  /\ overlap' = [t \in Setter |-> IF t = s THEN \E u \in Setter \ {s} : Busy(u)
                                  ELSE overlap[t] \/ Busy(t)]
  /\ UNCHANGED <<port, copy, latest>>

(* set_speed; a rate that is not in the table is left out, each rate that  *)
(* is in it is in it twice.                                                *)
SpeedGet(s) ==
  /\ Goto(s, "speed", IF want[s].baud \in Speeds THEN "set" ELSE "frame")
  /\ copy' = [copy EXCEPT ![s] = port]
  /\ UNCHANGED <<port, want, before, overlap, latest, packets>>

SpeedSet(s) ==
  /\ Goto(s, "set", "again") \/ Goto(s, "again", "frame")
  /\ port' = [copy[s] EXCEPT !.speed = want[s].baud]
  /\ UNCHANGED <<copy, want, before, overlap, latest, packets>>

-----------------------------------------------------------------------------
Supported(w) == w.databit \in {7, 8} /\ w.paritybit # "M"

(* Mutant: even parity does not take the flag of odd parity back. *)
FramedKeepsOdd(p, w) ==
  [p EXCEPT !.databit = w.databit,
            !.parenb  = w.paritybit \in {"O", "E"},
            !.parodd  = w.paritybit = "O" \/ @,
            !.cstopb  = w.stopbit = 2,
            !.icanon  = FALSE]

(* The switches of set_Parity: without a parity PARODD stays.              *)
Framed(p, w) ==
  [p EXCEPT !.databit = w.databit,
            !.parenb  = w.paritybit \in {"O", "E"},
            !.parodd  = w.paritybit = "O" \/ (@ /\ w.paritybit # "E"),
            !.cstopb  = w.stopbit = 2,
            !.icanon  = FALSE]

(* set_Parity; what is not supported returns before anything is written.   *)
FrameGet(s) ==
  /\ Goto(s, "frame", IF Supported(want[s]) THEN "write" ELSE "idle")
  /\ copy' = [copy EXCEPT ![s] = port]
  /\ latest' = IF Supported(want[s]) THEN latest ELSE s
  /\ UNCHANGED <<port, want, before, overlap, packets>>

FrameSet(s) ==
  /\ Goto(s, "write", "idle")
  /\ port' = Framed(copy[s], want[s])
  /\ latest' = s
  /\ UNCHANGED <<copy, want, before, overlap, packets>>

Next == \E s \in Setter :
  xfrc2217(s) \/ SpeedGet(s) \/ SpeedSet(s) \/ FrameGet(s) \/ FrameSet(s)

Spec == Init /\ [][Next]_vars

-----------------------------------------------------------------------------
(* What the line does with these flags. *)
Parity(p) == IF ~p.parenb THEN "N" ELSE IF p.parodd THEN "O" ELSE "E"
Frame(p)  == <<p.databit, Parity(p), IF p.cstopb THEN 2 ELSE 1>>
Asked(w)  == <<w.databit, IF w.paritybit = "S" THEN "N" ELSE w.paritybit, w.stopbit>>

(* Whatever was set before, a setting that no other ran into leaves the    *)
(* line as it asks, part by part: a rate or a frame that is not supported  *)
(* leaves that part as it was, and with the frame the echo that the port   *)
(* may have been opened with (main.c 304, 334, 360).                       *)
LineAsAsked ==
  latest \in Setter /\ ~Busy(latest) /\ ~overlap[latest] =>
    LET w   == want[latest]
        was == before[latest]
    IN  (\A s \in Setter : ~Busy(s)) =>
          /\ port.speed = IF w.baud \in Speeds THEN w.baud ELSE was.speed
          /\ Frame(port) = IF Supported(w) THEN Asked(w) ELSE Frame(was)
          /\ port.icanon = (was.icanon /\ ~Supported(w))
=============================================================================
