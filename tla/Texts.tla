------------------------------- MODULE Texts -------------------------------
(***************************************************************************)
(* The text the socket threads put together and take apart: hexadecimal    *)
(* login and heartbeat packets (public.c 120, tcpc.c, udp.c), the header   *)
(* of an HTTP request (httpdclient.c 61) and that of its answers (122),    *)
(* which come in as many pieces as the network makes of them.              *)
(***************************************************************************)
EXTENDS Integers, Sequences, SequencesExt

CONSTANTS HexTexts,     \* loginpkt or heartpkt as configured; a digit is its value
          HexSize,      \* sizeof(heart), sizeof(buffer): 80 bytes
          LeadMax,      \* digits of a login that goes before data, 80
          Room,         \* bytes dev_info.data has left after the header
          Width,        \* least digits of the length, 3 ("%3d")
          Contents,     \* numbers of serial bytes of a request
          Answers,      \* what servers answer: header and body
          MaxAnswers    \* bound

(* The sizes and the bound are positive.  A packet as configured has at    *)
(* most 127 digits (macros.h 46), fewer than fill the buffers.             *)
TextsAssumption ==
  /\ {HexSize, LeadMax, Room, Width, MaxAnswers} \cup Contents \subseteq Nat \ {0}
  /\ \A text \in HexTexts : text \in Seq(Nat) /\ Len(text) <= 2 * HexSize
  /\ \A a \in Answers : a.body \in Seq(Nat)

VARIABLES
  hex, kind,    \* a packet as configured: a heartbeat, or a login that opens or leads
  content,      \* serial bytes for a request
  htpchd,       \* TRUE: the header of an answer is taken off
  answer, came, \* the answer on its way; bytes of it received
  rx,           \* socket_rx.data: what a shorter piece leaves of a longer one
  tty,          \* what of this answer went to the serial line
  torn,         \* it came in more than one piece
  answers       \* answers begun

vars == <<hex, kind, content, htpchd, answer, came, rx, tty, torn, answers>>
asked == <<hex, kind, content, htpchd>>

Unknown == <<"unknown", 0>>

-----------------------------------------------------------------------------
IsHex(c) == c \in 0 .. 15
MinOf(a, b) == IF a < b THEN a ELSE b

(* Mutant: a pair that begins with a good digit is taken. *)
HexString2AscLoose(text, max) ==
  LET n    == MinOf(Len(text) \div 2, max)
      bad  == SelectInSeq(SubSeq(text, 1, 2 * n), LAMBDA c : ~IsHex(c))
      good == IF bad = 0 THEN n ELSE bad \div 2
  IN  [i \in 1 .. good |-> 16 * text[2 * i - 1] + text[2 * i]]

(* Pairs of digits up to the first bad one; an odd digit is left out.      *)
HexString2Asc(text, max) ==
  LET n    == MinOf(Len(text) \div 2, max)
      bad  == SelectInSeq(SubSeq(text, 1, 2 * n), LAMBDA c : ~IsHex(c))
      good == IF bad = 0 THEN n ELSE (bad - 1) \div 2
  IN  [i \in 1 .. good |-> 16 * text[2 * i - 1] + text[2 * i]]

(* A heartbeat is as long as its text could be converted, a login half as  *)
(* long as its text: the rest of it is 0 or, before data, whatever malloc  *)
(* returned.  Before data a long text is cut.                              *)
Heart(text) == HexString2Asc(text, HexSize)

Padded(text, rest) ==
  LET bytes == HexString2Asc(text, HexSize)
  IN  [i \in 1 .. Len(text) \div 2 |-> IF i <= Len(bytes) THEN bytes[i] ELSE rest]

tcp_login(text) == Padded(text, 0)
tcp_login_beforedata(text) == Padded(SubSeq(text, 1, MinOf(Len(text), LeadMax)), -1)

-----------------------------------------------------------------------------
(* The number in decimal, padded. *)
Decimal[n \in Nat] == IF n < 10 THEN <<n>> ELSE Append(Decimal[n \div 10], n % 10)

Digits(n) == [i \in 1 .. Width - Len(Decimal[n]) |-> 0] \o Decimal[n]

ValueOf(digits) == FoldLeft(LAMBDA n, d : 10 * n + d, 0, digits)

(* The bytes that go with a request. *)
Carried(n) == MinOf(Room, n)

(* The Content-Length: that of all the serial bytes, and the number that   *)
(* fits is written over its first digits.                                  *)
ContentLength(n) ==
  LET written == Digits(Carried(n))
  IN  ValueOf(written \o SubSeq(Digits(n), Len(written) + 1, Len(Digits(n))))

-----------------------------------------------------------------------------
(* An answer: the field with the length, the end of the header, the body.  *)
Text(a) == << <<IF a.field THEN "length" ELSE "other", Len(a.body)>>, <<"end", 0>> >>
           \o [i \in DOMAIN a.body |-> <<"body", a.body[i]>>]

IsLength(token) == token[1] = "length"

Init ==
  /\ hex \in HexTexts /\ kind \in {"heart", "open", "lead"}
  /\ content \in Contents
  /\ htpchd \in BOOLEAN
  /\ answer \in Answers /\ answers = 1
  /\ came = 0 /\ rx = << >> /\ tty = << >> /\ torn = FALSE

(* The length is looked for in all that socket_rx.data holds; the last     *)
(* bytes of the piece are taken for the body.  A body longer than the      *)
(* piece is copied from before the buffer, to past the end of another.     *)
httpd_rm_hdr(data, piece) ==
  LET field  == SelectInSeq(data, IsLength)
      length == data[field][2]
  IN  IF ~htpchd THEN piece
      ELSE IF field = 0 THEN << >>
      ELSE IF length > Len(piece) THEN [i \in 1 .. length |-> Unknown]
      ELSE SubSeq(piece, Len(piece) - length + 1, Len(piece))

(* A piece of the answer comes in and what is left of it goes out.         *)
Recv ==
  /\ came < Len(Text(answer))
  /\ \E n \in 1 .. Len(Text(answer)) - came :
       LET piece == SubSeq(Text(answer), came + 1, came + n)
           data  == piece \o SubSeq(rx, n + 1, Len(rx))
       IN  /\ came' = came + n
           /\ rx' = data
           /\ torn' = (torn \/ came + n < Len(Text(answer)))
           /\ tty' = tty \o httpd_rm_hdr(data, piece)
  /\ UNCHANGED <<asked, answer, answers>>

(* The next exchange; the buffer stays as it is. *)
NextAnswer ==
  /\ came > 0 /\ answers < MaxAnswers
  /\ answers' = answers + 1
  /\ answer' \in Answers
  /\ came' = 0 /\ tty' = << >> /\ torn' = FALSE
  /\ UNCHANGED <<asked, rx>>

Next == Recv \/ NextAnswer

Spec == Init /\ [][Next]_vars

-----------------------------------------------------------------------------
(* The digits of these bytes, two of each. *)
Spelled(bytes) ==
  [i \in 1 .. 2 * Len(bytes) |->
     IF i % 2 = 1 THEN bytes[(i + 1) \div 2] \div 16 ELSE bytes[i \div 2] % 16]

(* The bytes of a hexadecimal packet spell its text, all of it or up to    *)
(* the pair with the first bad digit; a login goes on after that (tcpc.c   *)
(* 186, 224).                                                              *)
HexRight ==
  LET packet == CASE kind = "heart" -> Heart(hex)
                  [] kind = "open"  -> tcp_login(hex)
                  [] kind = "lead"  -> tcp_login_beforedata(hex)
      size   == IF kind = "lead" THEN MinOf(Len(hex), LeadMax) ELSE Len(hex)
      bad    == SelectInSeq(hex, LAMBDA c : ~IsHex(c))
      good   == IF bad = 0 \/ bad > size THEN size \div 2 ELSE (bad - 1) \div 2
  IN  /\ Spelled(SubSeq(packet, 1, good)) = SubSeq(hex, 1, 2 * good)
      /\ Len(packet) = IF kind = "heart" THEN good ELSE size \div 2

(* A request says how many bytes follow it, if the number that fits has as *)
(* many digits as that of all the serial bytes (httpdclient.c 110).        *)
RequestRight ==
  Len(Digits(Carried(content))) = Len(Digits(content)) =>
    ContentLength(content) = Carried(content)

(* An answer that comes in one piece is passed on whole, or its body is;   *)
(* one that does not say its length is dropped, unless the buffer still    *)
(* holds the length of an answer before it (httpdclient.c 137, 143).       *)
AnswerRight ==
  LET all == Text(answer)
  IN  came = Len(all) =>
        /\ ~htpchd => tty = all
        /\ htpchd /\ ~torn /\ answer.field => tty = SubSeq(all, 3, Len(all))
        /\ htpchd /\ ~torn /\ ~answer.field =>
             tty = << >> \/ \E i \in Len(all) + 1 .. Len(rx) : IsLength(rx[i])

(* Packets, requests and answers say what they were made from. *)
TextsRight == HexRight /\ RequestRight /\ AnswerRight
=============================================================================
