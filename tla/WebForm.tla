------------------------------ MODULE WebForm ------------------------------
(***************************************************************************)
(* The text the CGI program works on (httpd_cgi.c): the form a browser     *)
(* posts is taken apart and saved, option by option or into a file, and    *)
(* the page that answers has its tags replaced by the options.  A form may *)
(* arrive cut off, when the connection ends early.  Bytes are numbers; a   *)
(* few texts the program looks for stand for one byte.  What other         *)
(* processes do to the options meanwhile: AtCommand.tla.                   *)
(***************************************************************************)
EXTENDS Integers, Sequences, FiniteSets, SequencesExt

CONSTANTS Forms,       \* what may be posted: [target, fields], fields of <<name, value>>
          Lines,       \* lines of pages: items <<"text", bytes>> and <<"tag", name>>
          Beyond,      \* bytes that may follow the end of the input
          OutSize,     \* sizeof(uci_buf), 128
          TextMax,     \* TEXTAREA_MAX_LEN
          InsteadSum   \* INSTEAD_SUM: tags of a line that are replaced

VARIABLES
  form, line,   \* what is posted, and the page that shall answer
  input,        \* what arrived
  beyond,       \* the byte after its end
  stage, hdr,      \* where the program is; the next field begins at hdr
  uci_buf,      \* the option as cgi2uci leaves it
  sets,         \* the texts given to "uci set", one after the other
  text,         \* the file a text area goes to
  failed,       \* that file could not be opened
  shown         \* the page that answers

formVars == <<form, line, input, beyond, stage, hdr, uci_buf, sets, text, failed, shown>>
posted == <<form, line, input, beyond>>

Space    == 32
Percent  == 37
Amp      == 38
Quote    == 39
Plus     == 43
Eq       == 61
Json     == 300     \* ".json"
HeadFlag == 301     \* "<!--#"
TailFlag == 302     \* "-->"

-----------------------------------------------------------------------------
(* What a browser makes of a form. *)
Hex(d) == IF d < 10 THEN 48 + d ELSE 55 + d
Letter == 48 .. 57 \cup 65 .. 90 \cup 97 .. 122 \cup {Json}
Encode(value) ==
  FlattenSeq([i \in DOMAIN value |->
    IF value[i] \in Letter THEN <<value[i]>>
    ELSE IF value[i] = Space THEN <<Plus>>
    ELSE <<Percent, Hex(value[i] \div 16), Hex(value[i] % 16)>>])
Field(f) == f[1] \o <<Eq>> \o Encode(f[2])
Posted(fields) ==
  FlattenSeq([i \in DOMAIN fields |->
    IF i = 1 THEN Field(fields[i]) ELSE <<Amp>> \o Field(fields[i])])

Byte  == 0 .. 255 \cup {Json}
Plain == Byte \ {Percent, Amp, Plus, Eq}

(* The sizes are positive; a form has a field; options have plain names;   *)
(* no page has the marks of a tag in its text, or a tag without a name.    *)
ASSUME WebFormAssumption ==
  /\ {OutSize, TextMax, InsteadSum} \subseteq Nat \ {0}
  /\ Beyond \subseteq Nat
  /\ \A f \in Forms :
       /\ f.target \in {"uci", "file", "json"}
       /\ f.fields \in Seq(Seq(Plain) \X Seq(Byte)) \ {<< >>}
  /\ \A l \in Lines : l \in Seq({"text"} \X Seq(Nat \ {HeadFlag, TailFlag})
                              \cup {"tag"} \X (Seq(Plain) \ {<< >>}))

First(s, from, b) ==
  LET k == SelectInSeq(SubSeq(s, from, Len(s)), LAMBDA x : x = b)
  IN  IF k = 0 THEN 0 ELSE from + k - 1

-----------------------------------------------------------------------------
ConfigHexDigit(c) ==
  IF c \in 48 .. 57 THEN c - 48
  ELSE IF c \in 97 .. 102 THEN c - 87
  ELSE IF c \in 65 .. 70 THEN c - 55
  ELSE 255

Octet(high, low) == (16 * ConfigHexDigit(high) + ConfigHexDigit(low)) % 256

(* A byte of the field, its end, and what lies beyond. *)
At(s, k) == IF k <= Len(s) THEN s[k] ELSE IF k = Len(s) + 1 THEN 0 ELSE beyond

(* From byte k on, "%xx" and "+" turned back. *)
cgi_string_convert(s) ==
  LET decoded[k \in 1 .. Len(s) + 3] ==
        IF k > Len(s) THEN << >>
        ELSE IF s[k] = Percent THEN <<Octet(At(s, k + 1), At(s, k + 2))>> \o decoded[k + 3]
        ELSE IF s[k] = Plus THEN <<Space>> \o decoded[k + 1]
        ELSE <<s[k]>> \o decoded[k + 1]
  IN  decoded[1]

(* The same, with the value put in quotes. *)
cgi2uci(s) ==
  LET eq == First(s, 1, Eq)
  IN  IF eq = 0 THEN cgi_string_convert(s) \o <<Quote>>
      ELSE cgi_string_convert(SubSeq(s, 1, eq - 1)) \o <<Eq, Quote>>
             \o cgi_string_convert(SubSeq(s, eq + 1, Len(s))) \o <<Quote>>

(* The field at hdr; an empty rest is none. *)
FieldEnd(s, from) == IF First(s, from, Amp) = 0 THEN Len(s) + 1 ELSE First(s, from, Amp)
FieldAt(s, from) == SubSeq(s, from, FieldEnd(s, from) - 1)

(* Bound: no field that leaves uci_buf too short for the quotes and NUL    *)
(* that cgi2uci adds (442); it would be written past its end.              *)
Fits(s) == Len(s) < OutSize => Len(cgi2uci(s)) < OutSize

FormInit ==
  /\ form \in Forms /\ line \in Lines /\ beyond \in Beyond
  /\ input \in {SubSeq(Posted(form.fields), 1, k) : k \in 0 .. Len(Posted(form.fields))}
  /\ \A from \in 1 .. Len(input) : (from = 1 \/ input[from - 1] = Amp) => Fits(FieldAt(input, from))
  /\ stage = "start" /\ hdr = 1 /\ uci_buf = << >> /\ sets = << >>
  /\ text = << >> /\ failed = FALSE /\ shown = << >>

-----------------------------------------------------------------------------
(* A form that mentions ".json" is a question for a page and is not saved. *)
DecodeAndProcessData ==
  /\ stage = "start"
  /\ stage' = IF Contains(input, Json)
           THEN (IF form.target = "json" THEN "page" ELSE "failed")
           ELSE (IF form.target = "json" THEN "failed" ELSE form.target)
  /\ UNCHANGED <<posted, hdr, uci_buf, sets, text, failed, shown>>

NextField == hdr' = FieldEnd(input, hdr) + 1

(* Mutant: a field that is too long is cut. *)
uci_httpd_convertCut ==
  /\ stage = "uci" /\ hdr <= Len(input)
  /\ LET field == FieldAt(input, hdr)
     IN  uci_buf' = cgi2uci(IF Len(field) < OutSize THEN field ELSE SubSeq(field, 1, OutSize - 3))
  /\ sets' = Append(sets, uci_buf')
  /\ NextField
  /\ UNCHANGED <<posted, stage, text, failed, shown>>

(* "uci set" of one field; one that is too long leaves uci_buf as it was.  *)
uci_httpd_convert ==
  /\ stage = "uci" /\ hdr <= Len(input)
  /\ LET field == FieldAt(input, hdr)
     IN  uci_buf' = IF Len(field) < OutSize THEN cgi2uci(field) ELSE uci_buf
  /\ sets' = Append(sets, uci_buf')
  /\ NextField
  /\ UNCHANGED <<posted, stage, text, failed, shown>>

(* One text area: the file is emptied, whatever is written.                *)
textarea_transform ==
  /\ stage = "file" /\ hdr <= Len(input)
  /\ LET field == FieldAt(input, hdr)
         eq    == First(field, 1, Eq)
         value == SubSeq(field, eq + 1, Len(field))
     IN  \/ eq = 0 /\ UNCHANGED <<text, failed>>
         \/ /\ eq # 0 /\ UNCHANGED failed
            /\ text' = IF Len(value) < TextMax THEN cgi_string_convert(value) ELSE << >>
         \/ eq # 0 /\ failed' = TRUE /\ UNCHANGED text
  /\ NextField
  /\ UNCHANGED <<posted, stage, uci_buf, sets, shown>>

EndOfForm ==
  /\ stage \in {"uci", "file"} /\ hdr > Len(input)
  /\ stage' = "page"
  /\ UNCHANGED <<posted, hdr, uci_buf, sets, text, failed, shown>>

-----------------------------------------------------------------------------
(* What "uci get" answers: the latest set of that name.                    *)
UciGet(name) ==
  LET start == name \o <<Eq, Quote>>
      k     == SelectLastInSeq(sets, LAMBDA s : IsPrefix(start, s))
  IN  IF k = 0 THEN << >> ELSE SubSeq(sets[k], Len(start) + 1, Len(sets[k]) - 1)

Source(item) == IF item[1] = "text" THEN item[2] ELSE <<HeadFlag>> \o item[2] \o <<TailFlag>>

(* The first INSTEAD_SUM tags of a line are replaced, up to one that is    *)
(* empty or has no end.                                                    *)
Rendered(s) ==
  LET page[p \in (1 .. Len(s) + 1) \X (0 .. InsteadSum)] ==
        LET from == p[1]
            n    == p[2]
            head == First(s, from, HeadFlag)
            tail == First(s, head, TailFlag)
        IN  IF n < InsteadSum /\ head # 0 /\ tail > head + 1
            THEN SubSeq(s, from, head - 1) \o UciGet(SubSeq(s, head + 1, tail - 1))
                   \o page[<<tail + 1, n + 1>>]
            ELSE SubSeq(s, from, Len(s))
  IN  page[<<1, 0>>]

GetHtmlWithSSI ==
  /\ stage = "page"
  /\ shown' = Rendered(FlattenSeq([i \in DOMAIN line |-> Source(line[i])]))
  /\ stage' = "done"
  /\ UNCHANGED <<posted, hdr, uci_buf, sets, text, failed>>

FormNext ==
  \/ DecodeAndProcessData \/ uci_httpd_convert \/ textarea_transform
  \/ EndOfForm \/ GetHtmlWithSSI

FormSpec == FormInit /\ [][FormNext]_formVars

-----------------------------------------------------------------------------
Complete == input = Posted(form.fields)

UciSet(f) == f[1] \o <<Eq, Quote>> \o f[2] \o <<Quote>>

(* The commands of the first n fields; a long one repeats the one before. *)
Commands(n) ==
  LET upTo[k \in 0 .. n] ==
        IF k = 0 THEN << >>
        ELSE Append(upTo[k - 1],
               IF Len(Field(form.fields[k])) < OutSize THEN UciSet(form.fields[k])
               ELSE IF k = 1 THEN << >> ELSE Last(upTo[k - 1]))
  IN  upTo[n]

(* Every option arrives in "uci set" as the user typed it, in order; of a  *)
(* form that was cut off, all but the last that arrived (httpd_cgi.c 272,  *)
(* 402; an option that is too long repeats the one before, 294).           *)
OptionsSaved ==
  stage = "done" /\ form.target = "uci" =>
    /\ Complete => sets = Commands(Len(form.fields))
    /\ Len(sets) <= Len(form.fields)
    /\ sets # << >> => Front(sets) = Commands(Len(sets) - 1)

(* The file holds the last text area, or nothing if that is too long (457).*)
TextSaved ==
  stage = "done" /\ form.target = "file" /\ Complete /\ ~failed =>
    LET value == Last(form.fields)[2]
    IN  text = IF Len(Encode(value)) < TextMax THEN value ELSE << >>

(* The page that answers shows what has just been saved, at the tags that  *)
(* are replaced (httpd_cgi.c 191, 241).                                    *)
Typed(name) ==
  LET k == SelectLastInSeq(form.fields,
             LAMBDA f : f[1] = name /\ Len(Field(f)) < OutSize)
  IN  IF k = 0 THEN << >> ELSE form.fields[k][2]

Tags(k) == Cardinality({i \in 1 .. k : line[i][1] = "tag"})

PageShown ==
  stage = "done" /\ form.target = "uci" /\ Complete =>
    shown = FlattenSeq([i \in DOMAIN line |->
              IF line[i][1] = "tag" /\ Tags(i) <= InsteadSum THEN Typed(line[i][2])
              ELSE Source(line[i])])

(* A form is saved as it was typed and shown as it was saved; only one     *)
(* that mentions ".json" is not saved at all (httpd_cgi.c 552).            *)
FormSaved ==
  /\ OptionsSaved /\ TextSaved /\ PageShown
  /\ stage = "failed" => Contains(input, Json) \/ form.target = "json"
=============================================================================
