----------------------------- MODULE MCLa16Text -----------------------------
(***************************************************************************)
(* Programs of a data section with one or two items, a constant and one    *)
(* instruction, with every layout around one of the lines; and programs of *)
(* two sections of any name, with data and constants in every order.       *)
(***************************************************************************)
EXTENDS La16Text

MCAscii == ("a" :> 97) @@ ("b" :> 98) @@ ("n" :> 110) @@ ("x" :> 120) @@ ("0" :> 48) @@
           ("1" :> 49) @@ (" " :> 32) @@ ("," :> 44) @@ (";" :> 59) @@ ("'" :> 39) @@ ("\"" :> 34) @@
           ("/" :> 47) @@ ("*" :> 42)
MCDigit  == ("0" :> 0) @@ ("1" :> 1) @@ ("a" :> 10) @@ ("b" :> 11)
MCEscape == ("n" :> 10) @@ ("b" :> 8) @@ ("0" :> 0) @@ ("\\" :> 92) @@ ("'" :> 39)
MCRegisters == <<"r0", "r1", "elb">>
MCOpcodes   == <<"mov", "hlt", "crctxhndlset", "crexchndlset">>
MCNames == ToSet(MCRegisters) \cup ToSet(MCOpcodes) \cup
           {"_f", "text", "key", "db", "dw", "section", ".data", ".bss", ".rodata", "const"}

-----------------------------------------------------------------------------
(* What may be written in an item, and what it means. *)

Item(text, coding, value, bytes) == [text |-> text, coding |-> coding, value |-> value, bytes |-> bytes]

Imm(text, value)    == Item(text, "imm", value, <<>>)
String(text, bytes) == Item(text, "buffer", 0, bytes)

Literal ==
  {Imm(<<"0", "x", "1", "b">>, 27), Imm(<<"0", "b", "1", "1">>, 3), Imm(<<"1", "0">>, 10),
   Imm(<<"0", "x", "1", "0", "0">>, 256), Imm(<<"'", "a", "'">>, 97), Imm(<<"'", "\\", "n", "'">>, 10),
   Imm(<<"'", " ", "'">>, 32), Imm(<<"'", ",", "'">>, 44), Imm(<<"'", ";", "'">>, 59),
   Imm(<<"'", "\\", "'", "'">>, 39)}
Text ==
  {String(<<"\"", "a", " ", ",", "b", "\"">>, <<97, 32, 44, 98>>),
   String(<<"\"", "0", "\\", "0", "\\", "\\", "\"">>, <<48, 0, 92>>),
   String(<<"\"", "a", "'", "b", "\"">>, <<97, 39, 98>>),
   String(<<"\"", "a", ";", "\"">>, <<97, 59>>),
   String(<<"\"", "/", "*", "b", "\"">>, <<47, 42, 98>>), String(<<"\"", "*", "/", "\"">>, <<42, 47>>)}
Named == {Item(<<r>>, "reg", 0, <<>>) : r \in ToSet(MCRegisters)} \cup {Item(<<"_f">>, "label", 0, <<>>)}

Bytes(item, type) ==
  IF item.coding = "buffer" THEN item.bytes
  ELSE IF type = "dw" THEN <<item.value % 256, item.value \div 256>> ELSE <<item.value % 256>>

Meant(item) == Operand(item.coding, item.value, IF item.coding = "imm" THEN <<>> ELSE item.text)

-----------------------------------------------------------------------------
(* Lines, and the layout of a line. *)

Joined(ss, glue) == FlattenSeq([k \in DOMAIN ss |-> IF k = 1 THEN ss[k] ELSE glue \o ss[k]])

Line(text, items, means) == [text |-> text, items |-> items, means |-> means]
Nothing(text) == Line(text, <<>>, Reading("nothing", <<>>, <<>>, <<>>))
Gap(text)     == Line(text, <<>>, Reading("gap", <<>>, <<>>, <<>>))

Comma  == {<<",">>, <<" ", ",">>, <<",", "\t">>}
Gaps   == {<<" ">>, <<"\t", " ">>, <<" ", "/", "*", " ", "'", ";", "*", "/", " ">>}
Lead   == {<<>>, <<" ", " ">>, <<"\t">>, <<" ", "/", "*", "\n", "*", "/", " ">>}
Trail  == {<<>>, <<" ">>, <<" ", ";", "\"">>, <<"\t", "/", "*", ",", "*", "/", " ">>}
End    == {<<"\n">>, <<"\r", "\n">>}
Before == {Nothing(<<>>), Nothing(<<"\n">>), Nothing(<<"\r", "\n">>),
           Nothing(<<" ", " ", ";", "'", "/", "*", "\n">>),
           Nothing(<<" ", "/", "*", ";", "\n", "/", "*", "/", " ", "\n">>),
           Nothing(<<"/", "*", "/", " ", "*", "/", "\n">>),
           Gap(<<" ", "\n">>), Gap(<<"\t", ";", "\n">>), Gap(<<" ", "a", "\n">>)}

Layout == [lead : Lead, gap : Gaps, comma : Comma, trail : Trail, end : End]
Simple == [lead |-> <<>>, gap |-> <<" ">>, comma |-> <<",", " ">>, trail |-> <<>>, end |-> <<"\n">>]

Laid(l, head, items, means) ==
  LET texts == [k \in DOMAIN items |-> items[k].text]
  IN  Line(l.lead \o Joined(Append(head, Joined(texts, l.comma)), l.gap) \o l.trail \o l.end, texts, means)

DataLine(l, type, items) ==
  Laid(l, << <<"text">>, <<type>> >>, items,
       Reading("data", <<"text">>, <<>>, FlattenSeq([k \in DOMAIN items |-> Bytes(items[k], type)])))

ConstLine(l, item) ==
  Laid(l, << <<"const">>, <<"key">> >>, <<item>>, Reading("const", <<"key">>, <<Meant(item)>>, <<>>))

CodeLine(l, op, items) ==
  LET operand(k) == IF k \in DOMAIN items THEN Meant(items[k]) ELSE NONE
  IN  Laid(l, << <<op>> >>, items, Reading("code", <<op>>, <<operand(1), operand(2)>>, <<>>))

Section(name) == Line(<<"section", " ", name, "\n">>, <<>>, Reading("section", <<name>>, <<>>, <<>>))
SectionLine   == Section(".data")

BssLine(l, item) == Laid(l, << <<"text">> >>, <<item>>, Reading("data", <<"text">>, <<Meant(item)>>, <<>>))
LabelLine   == Line(<<"_f", ":", "\n">>, <<>>, Reading("label", <<"_f", ":">>, <<>>, <<>>))

Some(S) == {<<>>} \cup {<<a>> : a \in S} \cup {<<a, b>> : a, b \in S}

AnyData == {DataLine(Simple, t, i) : t \in {"db", "dw"}, i \in Some(Literal \cup Text) \ {<<>>}}
AnyCode == {CodeLine(Simple, op, i) : op \in {"mov", "crexchndlset"}, i \in Some(Literal \cup Named)}
AnyConst == {ConstLine(Simple, i) : i \in Literal}

AText    == CHOOSE t \in Text : t.bytes = <<97, 32, 44, 98>>
Register == CHOOSE n \in Named : n.text = <<"r0">>
ABlank   == CHOOSE n \in Literal : n.value = 32

LaidData == {DataLine(l, "dw", <<AText, ABlank>>) : l \in Layout}
LaidCode == {CodeLine(l, "mov", <<Register, Imm(<<"1", "0">>, 10)>>) : l \in Layout}

(* A section of up to n lines, each a constant or data that fits it. *)
Fitting(name, d) ==
  LET item == Imm(<<"0", "x", d>>, MCDigit[d])
  IN  {ConstLine(Simple, item), IF name = ".bss" THEN BssLine(Simple, item) ELSE DataLine(Simple, "db", <<item>>)}
Bodies(name, n) ==
  IF n = 0 THEN {<<>>}
  ELSE IF n = 1 THEN {<<a>> : a \in Fitting(name, "a")}
  ELSE IF n = 2 THEN {<<a, b>> : a \in Fitting(name, "a"), b \in Fitting(name, "b")}
  ELSE {<<a, b, c>> : a \in Fitting(name, "a"), b \in Fitting(name, "b"), c \in Fitting(name, "1")}
Sections(n) ==
  UNION {{<<Section(name)>> \o b : b \in UNION {Bodies(name, m) : m \in 0 .. n}} : name \in {".data", ".bss", ".rodata"}}

MCSources ==
  {b \o c \o <<LabelLine, CodeLine(Simple, "hlt", <<>>)>> : b \in Sections(3), c \in {<<>>} \cup Sections(2)} \cup
  {<<SectionLine, d, LabelLine, CodeLine(Simple, "mov", <<Register>>)>> : d \in AnyData} \cup
  {<<LabelLine, c, CodeLine(Simple, "hlt", <<>>)>> : c \in AnyCode \cup AnyConst} \cup
  {<<SectionLine, b, d, LabelLine>> : b \in Before, d \in LaidData} \cup
  {<<LabelLine, b, c>> : b \in Before, c \in LaidCode}
=============================================================================
