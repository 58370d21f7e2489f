------------------------------ MODULE La16Text ------------------------------
(***************************************************************************)
(* From the text of a program to what its lines say (compiler/code.c,      *)
(* cmptok.c, parse.c and the readers of compiler.c, section.c and          *)
(* constant.c): comments go, tabs become blanks, lines are separated and   *)
(* cut into words, and every line is read.  Five places look at quotes,    *)
(* blanks and commas, each with rules of its own.                          *)
(*                                                                         *)
(* A text is a sequence of symbols: characters, and names, which stand for *)
(* several characters none of the passes looks at.                         *)
(***************************************************************************)
EXTENDS Integers, SequencesExt

CONSTANTS
  Sources,    \* sequences of written lines: their text, the items in it, what they mean
  Names,      \* the symbols that are names
  Ascii,      \* the byte of each character
  Digit,      \* the value of each digit
  Escape,     \* the byte of each character behind a backslash
  Registers,  \* register_table: names, in order
  Opcodes     \* opcode_table: names, in order

ASSUME SourcesAssumption ==
  \A s \in Sources :
    /\ s \in Seq({s[k] : k \in DOMAIN s})
    /\ \A k \in DOMAIN s : s[k].text \in Seq({s[k].text[i] : i \in DOMAIN s[k].text})

VARIABLES
  source,     \* what was written
  code,       \* the code buffer
  lines,      \* the token array, each with its subtokens
  said,       \* what the lines have been read as
  phase, at,
  section     \* "none", or the section a line is in: ".data", ".bss", or "lost"

tvars == <<source, code, lines, said, phase, at, section>>

Newline == {"\n", "\r"}
Quote   == {"\"", "'"}
Blank   == " "
Semi    == ";"

Extended(parts, c) == [parts EXCEPT ![Len(parts)] = Append(@, c)]

(* s without the symbols at cuts, in as many parts. *)
Parts(s, cuts) ==
  LET parts[k \in 0 .. Len(s)] ==
        IF k = 0 THEN << <<>> >>
        ELSE IF k \in cuts THEN Append(parts[k - 1], <<>>) ELSE Extended(parts[k - 1], s[k])
  IN  parts[Len(s)]

At(s, c)      == {k \in DOMAIN s : s[k] = c}
Pair(s, a, b) == {k \in At(s, a) : k < Len(s) /\ s[k + 1] = b}

(* s between its first and its last symbol that is not a blank. *)
Stripped(s) ==
  LET text == DOMAIN s \ At(s, Blank)
  IN  IF text = {} THEN <<>> ELSE SubSeq(s, Min(text), Max(text))

Init ==
  /\ source \in Sources
  /\ code = FlattenSeq([k \in DOMAIN source |-> source[k].text]) \o <<"\n", "\n">>
  /\ lines = <<>> /\ said = <<>>
  /\ phase = "comments" /\ at = 1 /\ section = "none"

-----------------------------------------------------------------------------
(* code_remove_comments: a text and where it is looked at. *)

From(s, from, places) == Min({k \in places : k >= from} \cup {Len(s) + 1})

Comment(s, from) == From(s, from, At(s, Semi) \cup Pair(s, "/", "*"))

(* Mutant of Indented: the comment goes, the blanks before it stay. *)
NotIndented(s, k) == k

(* A comment that is the first thing on its line takes its indentation with it. *)
Indented(s, k) ==
  LET first == Min({j \in 1 .. k : \A i \in j .. k - 1 : s[i] = Blank})
  IN  IF first = 1 \/ s[first - 1] = "\n" THEN first ELSE k

Looked(s, from) == [code |-> s, at |-> from]

Without(s, from, to) == Looked(SubSeq(s, 1, from - 1) \o SubSeq(s, to, Len(s)), from)

WithoutLineComment(s, k) == Without(s, Indented(s, k), From(s, k, At(s, "\n")))

WithoutBlockComment(s, k) ==
  LET close == From(s, k + 2, Pair(s, "*", "/")) + 2
  IN  Without(s, Indented(s, k), From(s, close, DOMAIN s \ At(s, Blank)))

Dropped(t) ==
  LET k == Comment(t.code, t.at)
  IN  IF k > Len(t.code) THEN t
      ELSE IF t.code[k] = Semi THEN WithoutLineComment(t.code, k)
      ELSE WithoutBlockComment(t.code, k)

Dropping(start) ==
  /\ phase = "comments" /\ Comment(code, at) <= Len(code) /\ code[Comment(code, at)] = start
  /\ LET t == Dropped(Looked(code, at)) IN code' = t.code /\ at' = t.at
  /\ UNCHANGED <<source, lines, said, phase, section>>

DropLineComment  == Dropping(Semi)
DropBlockComment == Dropping("/")

Pass(before, after) == phase = before /\ phase' = after /\ UNCHANGED <<source, said, section>>

(* code_replace_tab_with_spaces, behind the comments. *)
Untabbed(s) == [k \in DOMAIN s |-> IF s[k] = "\t" THEN Blank ELSE s[k]]

ReplaceTabs ==
  /\ Comment(code, at) > Len(code)
  /\ Pass("comments", "newlines")
  /\ code' = Untabbed(code) /\ at' = 1
  /\ UNCHANGED lines

(* Mutant of Collapsed: the text does not count as behind a newline at its start. *)
CollapsedFromStart(s) ==
  LET kept[k \in 0 .. Len(s)] ==
        IF k = 0 THEN <<>>
        ELSE IF s[k] \notin Newline THEN Append(kept[k - 1], s[k])
        ELSE IF k > 1 /\ s[k - 1] \in Newline THEN kept[k - 1]
        ELSE Append(kept[k - 1], "\n")
  IN  kept[Len(s)]

(* code_remove_newlines *)
Collapsed(s) ==
  LET kept[k \in 0 .. Len(s)] ==
        IF k = 0 THEN <<>>
        ELSE IF s[k] \notin Newline THEN Append(kept[k - 1], s[k])
        ELSE IF k = 1 \/ s[k - 1] \in Newline THEN kept[k - 1]
        ELSE Append(kept[k - 1], "\n")
  IN  kept[Len(s)]

RemoveNewlines ==
  /\ Pass("newlines", "lines")
  /\ code' = Collapsed(code)
  /\ UNCHANGED <<lines, at>>

(* Trimming a line never looks at its last character when that is its first. *)
Trimmed(s) ==
  LET t == Stripped(s) IN IF Len(t) = 1 /\ t[1] \notin Names THEN <<>> ELSE t

(* What ends without a newline is no line. *)
LinesIn(s) ==
  LET parts == Parts(s, At(s, "\n"))
  IN  [k \in 1 .. Len(parts) - 1 |-> Trimmed(parts[k])]

SplitLines ==
  /\ Pass("lines", "words")
  /\ LET texts == LinesIn(code)
     IN  lines' = [k \in DOMAIN texts |-> [text |-> texts[k], words |-> <<>>]]
  /\ UNCHANGED <<code, at>>

-----------------------------------------------------------------------------
(* cmptok: words end at blanks, except between quotes of one kind. *)

OpenQuote(s) ==
  LET open[k \in 0 .. Len(s)] ==
        IF k = 0 THEN "none"
        ELSE IF s[k] \notin Quote THEN open[k - 1]
        ELSE IF open[k - 1] = "none" THEN s[k]
        ELSE IF open[k - 1] = s[k] THEN "none" ELSE open[k - 1]
  IN  open

(* Mutant of Words: the token is cut at every blank. *)
WordsUnquoted(s) == SelectSeq(Parts(s, At(s, Blank)), LAMBDA w : w # <<>>)

Words(s) ==
  LET open == OpenQuote(s)
  IN  SelectSeq(Parts(s, {k \in At(s, Blank) : open[k] = "none"}), LAMBDA w : w # <<>>)

SplitWords ==
  /\ Pass("words", "reading")
  /\ lines' = [k \in DOMAIN lines |-> [lines[k] EXCEPT !.words = Words(lines[k].text)]]
  /\ UNCHANGED <<code, at>>

-----------------------------------------------------------------------------
(* parse_type *)

Value(type, value) == [type |-> type, value |-> value, bytes |-> <<>>]
NotAType == Value("string", 0)

Number(s, base) == FoldLeft(LAMBDA n, d : base * n + Digit[d], 0, s)

IsNumber(s, base) == \A k \in DOMAIN s : s[k] \in DOMAIN Digit /\ Digit[s[k]] < base

Prefixed(s, letter) == Len(s) >= 2 /\ s[1] = "0" /\ s[2] = letter

Between(s, quote) == Len(s) >= 3 /\ s[1] = quote /\ Last(s) = quote

Inside(s) == SubSeq(s, 2, Len(s) - 1)

(* The bytes of a buffer; escaped at the end or unknown to Escape, there are none. *)
Unescaped(s) ==
  FoldLeft(LAMBDA u, c :
    IF u.escaped
      THEN [ok |-> u.ok /\ c \in DOMAIN Escape, escaped |-> FALSE,
            bytes |-> IF c \in DOMAIN Escape THEN Append(u.bytes, Escape[c]) ELSE u.bytes]
      ELSE IF c = "\\" THEN [u EXCEPT !.escaped = TRUE]
      ELSE [u EXCEPT !.bytes = Append(@, Ascii[c])],
    [ok |-> TRUE, escaped |-> FALSE, bytes |-> <<>>], s)

Character(s) ==
  IF s[2] = "\\"
    THEN IF s[3] \in DOMAIN Escape THEN Value("char", Escape[s[3]]) ELSE NotAType
    ELSE IF Len(s) = 3 THEN Value("char", Ascii[s[2]]) ELSE NotAType

Buffer(s) ==
  LET u == Unescaped(Inside(s))
  IN  IF u.ok /\ ~u.escaped THEN [NotAType EXCEPT !.type = "buffer", !.bytes = u.bytes] ELSE NotAType

Parse(s) ==
  LET digits == SubSeq(s, 3, Len(s))
  IN  IF Prefixed(s, "x") /\ IsNumber(digits, 16) THEN Value("number", Number(digits, 16))
      ELSE IF Prefixed(s, "b") /\ IsNumber(digits, 2) THEN Value("number", Number(digits, 2))
      ELSE IF IsNumber(s, 10) THEN Value("number", Number(s, 10))
      ELSE IF Between(s, "'") THEN Character(s)
      ELSE IF Between(s, "\"") THEN Buffer(s) ELSE NotAType

-----------------------------------------------------------------------------
(* The readers. *)

(* Both searches stop short of the end of their table. *)
RegistersFound == {<<Registers[k]>> : k \in 1 .. Len(Registers) - 1}
OpcodesFound   == {<<Opcodes[k]>> : k \in 1 .. Len(Opcodes) - 2}

Operand(coding, value, name) == [coding |-> coding, value |-> value, name |-> name]
NONE == Operand("none", 0, <<>>)

(* la16_compiler_lowcodeline_parameter_parser; a buffer is its address. *)
ReadOperand(s) ==
  IF s = <<>> THEN NONE
  ELSE IF s \in RegistersFound THEN Operand("reg", 0, s)
  ELSE CASE Parse(s).type = "string" -> Operand("label", 0, s)
         [] Parse(s).type = "buffer" -> Operand("address", 0, <<>>)
         [] OTHER -> Operand("imm", Parse(s).value % 65536, <<>>)

Reading(is, name, operands, bytes) ==
  [is |-> is, name |-> name, operands |-> operands, bytes |-> bytes]

(* Mutant of ReadCode: the operands are the words. *)
ReadCodeByWords(text) ==
  LET ws == Words(text)
      operand(k) == IF k + 1 \in DOMAIN ws
                    THEN ReadOperand(SelectSeq(ws[k + 1], LAMBDA c : c # ",")) ELSE NONE
  IN  Reading("code", ws[1], <<operand(1), operand(2)>>, <<>>)

(* la16_compiler_lowcodeline: blanks and commas count wherever they are. *)
ReadCode(text) ==
  LET op   == Parts(text, At(text, Blank))[1]
      rest == SelectSeq(SubSeq(text, Len(op) + 2, Len(text)), LAMBDA c : c # Blank)
      part == Parts(rest, At(rest, ","))
      operand(k) == IF k \in DOMAIN part THEN ReadOperand(part[k]) ELSE NONE
  IN  Reading("code", op, <<operand(1), operand(2)>>, <<>>)

(* parse_csv_quoted: one flag for both kinds of quotes. *)
Chain(s) ==
  LET quoted(k) == Cardinality({j \in 1 .. k : s[j] \in Quote}) % 2 = 1
      items == Parts(s, {k \in At(s, ",") : ~quoted(k)})
  IN  [k \in DOMAIN items |-> Stripped(items[k])]

DataBytes(item, type) ==
  LET p == Parse(item)
  IN  IF p.type = "buffer" THEN p.bytes
      ELSE IF type = <<"dw">> THEN <<p.value % 256, (p.value \div 256) % 256>>
      ELSE <<p.value % 256>>

(* Mutant of ReadData: the words are joined with the blanks between them. *)
ReadDataFirst(ws) ==
  LET chain == Chain(ws[3])
  IN  Reading("data", ws[1], <<>>,
              FlattenSeq([k \in DOMAIN chain |-> DataBytes(chain[k], ws[2])]))

(* code_token_bind and the chain of code_token_section. *)
ReadData(ws) ==
  LET chain == Chain(FlattenSeq(SubSeq(ws, 3, Len(ws))))
  IN  Reading("data", ws[1], <<>>,
              FlattenSeq([k \in DOMAIN chain |-> DataBytes(chain[k], ws[2])]))

(* The bytes to reserve: 0 for a word that is none of the types; a buffer is its address. *)
ReadBss(ws) ==
  LET p == Parse(ws[2])
  IN  Reading("data", ws[1],
        <<IF p.type = "buffer" THEN Operand("address", 0, <<>>)
          ELSE Operand("imm", p.value % 65536, <<>>)>>, <<>>)

(* A line that is typed as data and that no pass looks at. *)
LOST == Reading("lost", <<>>, <<>>, <<>>)

(* code_token_constant: registers are no constants. *)
ReadConst(ws) ==
  LET p == Parse(ws[3])
  IN  Reading("const", ws[2],
        <<IF p.type = "string" THEN Operand("label", 0, ws[3])
          ELSE Operand("imm", p.value % 65536, <<>>)>>, <<>>)

-----------------------------------------------------------------------------
(***************************************************************************)
(* The lines in order: the types of code_tokengen, and what their pass     *)
(* reads.  The type pass knows only whether a section is open; what it     *)
(* types as data is read by code_token_section, in an unbroken run behind  *)
(* the line of a .data or .bss section, and otherwise by nobody.           *)
(***************************************************************************)

Kind(ws, opened) ==
  IF Len(ws) = 1 /\ Last(ws[1]) = ":" THEN "label"
  ELSE IF Len(ws) = 2 /\ ws[1] = <<"section">> THEN "section"
  ELSE IF Len(ws) = 3 /\ ws[1] = <<"const">> THEN "const"
  ELSE IF opened # "none" THEN "data" ELSE "code"

Opened(name) ==
  IF name = <<".data">> THEN ".data" ELSE IF name = <<".bss">> THEN ".bss" ELSE "lost"

(* Mutant of SectionAfter: a constant does not end the run of data. *)
SectionAfterConst(opened, kind, ws) ==
  IF kind = "label" THEN "none" ELSE IF kind = "section" THEN Opened(ws[2]) ELSE opened

(* A label closes a section, anything else that is not data loses the rest of it. *)
SectionAfter(opened, kind, ws) ==
  IF kind = "label" THEN "none"
  ELSE IF kind = "section" THEN Opened(ws[2])
  ELSE IF kind = "data" \/ opened = "none" THEN opened ELSE "lost"

(* The words that are read without asking whether they are there. *)
Missing(ws, opened) ==
  ws = <<>> \/ (Kind(ws, opened) = "data" /\ opened # "lost" /\ Len(ws) < 2)

Legal(kind, opened, ws) ==
  CASE kind = "data" /\ opened = ".data" -> ws[2] \in {<<"db">>, <<"dw">>}
    [] kind = "const" -> Parse(ws[3]).type # "buffer"
    [] kind = "code"  -> ws[1] \in OpcodesFound
    [] OTHER          -> TRUE

Reads(kind, opened, line) ==
  CASE kind = "label" -> Reading("label", line.words[1], <<>>, <<>>)
    [] kind = "data"  -> IF opened = ".data" THEN ReadData(line.words)
                         ELSE IF opened = ".bss" THEN ReadBss(line.words) ELSE LOST
    [] kind = "const" -> ReadConst(line.words)
    [] kind = "code"  -> ReadCode(line.text)
    [] OTHER          -> Reading("section", line.words[2], <<>>, <<>>)

Untouched == UNCHANGED <<source, code, lines>>

ReadLine ==
  /\ phase = "reading" /\ at' = at + 1
  /\ at <= Len(lines) /\ ~Missing(lines[at].words, section)
  /\ LET kind == Kind(lines[at].words, section)
     IN  IF Legal(kind, section, lines[at].words)
         THEN /\ said' = Append(said, Reads(kind, section, lines[at]))
              /\ section' = SectionAfter(section, kind, lines[at].words)
              /\ UNCHANGED phase
         ELSE phase' = "rejected" /\ UNCHANGED <<said, section>>
  /\ Untouched

(* A word that is not there is read from behind the array of the words. *)
ReadNoWord ==
  /\ phase = "reading" /\ at <= Len(lines) /\ Missing(lines[at].words, section)
  /\ phase' = "undefined"
  /\ Untouched /\ UNCHANGED <<said, section, at>>

Assembled ==
  /\ phase = "reading" /\ at > Len(lines)
  /\ phase' = "over"
  /\ Untouched /\ UNCHANGED <<said, section, at>>

Over == phase \in {"over", "rejected", "undefined"} /\ UNCHANGED tvars

Next ==
  \/ DropLineComment \/ DropBlockComment \/ ReplaceTabs \/ RemoveNewlines
  \/ SplitLines \/ SplitWords \/ ReadLine \/ ReadNoWord \/ Assembled \/ Over

Spec == Init /\ [][Next]_tvars

-----------------------------------------------------------------------------
(***************************************************************************)
(* What is written: each part of a source means a reading, "nothing", or   *)
(* "gap", for the lines that the passes leave without a word.              *)
(***************************************************************************)
Written ==
  LET written[k \in 0 .. Len(source)] ==
        IF k = 0 THEN <<>>
        ELSE IF source[k].means.is = "nothing" THEN written[k - 1]
        ELSE Append(written[k - 1], source[k])
  IN  written[Len(source)]

(* Items that the passes leave in one piece. *)
Has(s, symbols) == \E k \in DOMAIN s : s[k] \in symbols
Whole(item)     == ~Has(Inside(item), Quote \cup {Semi}) /\ Pair(Inside(item), "/", "*") = {}
OneWord(item)   == Whole(item) /\ ~Has(Inside(item), {Blank, ","})

Items(is)  == UNION {ToSet(source[k].items) : k \in {j \in DOMAIN source : source[j].means.is = is}}
TidyText   == \A is \in {"code", "data", "const"} : \A i \in Items(is) : Whole(i)
TidyCode   == \A i \in Items("code") : OneWord(i)
Findable   == \A k \in DOMAIN source :
                /\ \A i \in ToSet(source[k].items) : i # <<Last(Registers)>>
                /\ source[k].means.is = "code" => source[k].means.name \in OpcodesFound

-----------------------------------------------------------------------------
(* A part of the source by itself: its comments one after the other, its lines. *)
Uncommenting(s) ==
  LET t[n \in 0 .. Len(s)] == IF n = 0 THEN Looked(s, 1) ELSE Dropped(t[n - 1])
  IN  t

Uncommented(s) == Uncommenting(s)[Len(s)].code
Alone(s)       == LinesIn(Collapsed(Untabbed(Uncommented(s))))

(* The part ends with a newline, and so does, in it, every comment it opens. *)
OpenAt(t, k) == t.code[k] = "/" /\ \A j \in Pair(t.code, "*", "/") : j < k + 2
Closed(s) ==
  /\ s = <<>> \/ s[Len(s)] = "\n"
  /\ LET u == Uncommenting(s)
     IN  \A n \in 0 .. Len(s) :
           LET k == Comment(u[n].code, u[n].at) IN k <= Len(u[n].code) => ~OpenAt(u[n], k)

AllClosed == \A k \in DOMAIN source : Closed(source[k].text)

(* A section reaches from its line to the next label. *)
InSection(k) ==
  \E j \in 1 .. k - 1 :
    Written[j].means.is = "section" /\ \A i \in j + 1 .. k - 1 : Written[i].means.is # "label"

(* What is placed of it reaches to the first line that is not data. *)
RightBehind(name, k) ==
  \E j \in 1 .. k - 1 :
    /\ Written[j].means.is = "section" /\ Written[j].means.name = <<name>>
    /\ \A i \in j + 1 .. k - 1 : Written[i].means.is = "data"

SectionOf(k) ==
  IF ~InSection(k) THEN "none"
  ELSE IF RightBehind(".data", k) THEN ".data"
  ELSE IF RightBehind(".bss", k) THEN ".bss" ELSE "lost"

(* What becomes of the k-th line: data behind a constant, or in a section of *)
(* another name, is lost.                                                    *)
Arriving(k) ==
  IF Written[k].means.is = "data" /\ SectionOf(k) = "lost" THEN LOST ELSE Written[k].means

SaidAsWritten(kinds) ==
  /\ phase # "rejected"
  /\ \A k \in DOMAIN said : Written[k].means.is \in kinds => said[k] = Arriving(k)

(* The only line of the k-th part, by itself, is read as what becomes of it. *)
ReadAlone(k) ==
  LET text   == Alone(Written[k].text)[1]
      ws     == Words(text)
      opened == SectionOf(k)
      kind   == Kind(ws, opened)
  IN  IF Written[k].means.is = "gap" THEN ws = <<>>
      ELSE /\ ~Missing(ws, opened) /\ kind = Written[k].means.is /\ Legal(kind, opened, ws)
           /\ Reads(kind, opened, [text |-> text, words |-> ws]) = Arriving(k)

LinesReadAlone ==
  /\ AllClosed
  /\ \A k \in DOMAIN source :
       Len(Alone(source[k].text)) = IF source[k].means.is = "nothing" THEN 0 ELSE 1
  /\ \A k \in DOMAIN Written : ReadAlone(k)

(***************************************************************************)
(* The lines of a text are the lines of its parts, one after the other, as *)
(* long as every part closes its comments and its last line: nothing of a  *)
(* part, its comments, blank lines, tabs or line ends, reaches into the    *)
(* next, and the files given to the assembler, which are joined before     *)
(* anything is looked at, have the lines they have by themselves.          *)
(***************************************************************************)
LinesStandAlone ==
  phase = "words" /\ AllClosed =>
    [k \in DOMAIN lines |-> lines[k].text] = FlattenSeq([k \in DOMAIN source |-> Alone(source[k].text)])

(***************************************************************************)
(* A line whose items have no quote, comma, blank or start of a comment    *)
(* inside is, by itself, read as it was written: what the passes and the   *)
(* readers do to it depends on nothing but the section it is in. A line of *)
(* data that its section loses is not read.                                *)
(***************************************************************************)
TidyLinesReadAlone == phase = "words" /\ TidyText /\ TidyCode /\ Findable => LinesReadAlone

(***************************************************************************)
(* Every line that was written arrives as one line with words, whatever    *)
(* indentation, comments, blank lines and line ends are around it, and no  *)
(* line without words arrives (the type pass reads the first word of every *)
(* line unasked) except where the text has one of the known gaps: a line   *)
(* of blanks, a comment indented with tabs, a line of one character.       *)
(* A quoted start of a comment may swallow lines and is left out.          *)
(***************************************************************************)
LinesHaveWords ==
  phase = "reading" /\ TidyText =>
    [k \in DOMAIN lines |-> lines[k].words = <<>>] = [k \in DOMAIN Written |-> Written[k].means.is = "gap"]

(***************************************************************************)
(* A program whose lines, each by itself, read as written is read as       *)
(* written: its lines one after the other, none doubled, rejected or taken *)
(* for the other kind of line after a label or a section, to the end or to *)
(* the first line without words. The lines it loses are the data behind a  *)
(* constant in their section and the data of sections other than .data and *)
(* .bss, all of them and no others; nothing is reported of them.           *)
(***************************************************************************)
ReadInOrder ==
  LinesReadAlone =>
    /\ phase # "rejected"
    /\ \A k \in DOMAIN said : said[k] = Arriving(k)
    /\ phase = "over" => Len(said) = Len(Written)
    /\ phase = "undefined" => Written[Len(said) + 1].means.is = "gap"

(***************************************************************************)
(* The bytes of the data, the sizes reserved and the values of the         *)
(* constants are the ones written, quoted blanks and commas included, as   *)
(* long as no item has a quote or the start of a comment inside: the words *)
(* of cmptok, joined again, and the chain of parse_csv_quoted then agree.  *)
(* The data that a section loses is excepted, and no other.                *)
(***************************************************************************)
DataAsWritten == TidyText /\ Findable => SaidAsWritten({"data", "const"})

(***************************************************************************)
(* An instruction has the opcode and the operands that were written, with  *)
(* any blanks and comments around them, as long as no operand is a quoted  *)
(* blank or comma and no name is the last of its table: the reader of      *)
(* operands goes over the line and not over its words.                     *)
(***************************************************************************)
CodeAsWritten == TidyCode /\ Findable => SaidAsWritten({"code", "label"})
=============================================================================
