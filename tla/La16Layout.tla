----------------------------- MODULE La16Layout -----------------------------
(***************************************************************************)
(* The passes of the assembler over the lines of a program (compile.c):    *)
(* one types the lines and gives the code its addresses, one collects the  *)
(* labels, one places the data, one looks up _start, one evaluates the     *)
(* constants and the last places the code and resolves its operands.  They *)
(* share tables and agree on addresses by convention only.                 *)
(*                                                                         *)
(* A line is what the tokenizer makes of it: its kind, the name it defines *)
(* or refers to, its size.  Its text is left out.                          *)
(***************************************************************************)
EXTENDS Integers, Sequences

CONSTANTS
  Programs,   \* the sequences of lines to assemble
  None        \* no name

ASSUME ProgramsAssumption ==
  \A p \in Programs :
    /\ p \in Seq({p[k] : k \in DOMAIN p})
    /\ \A k \in DOMAIN p : p[k].size \in Nat /\ (p[k].kind = "scoped" => p[k].name # None)

NOT_FOUND == 65536                 \* COMPILER_LABEL_NOT_FOUND
W16(x)    == x % 65536
HEADER    == 4                     \* "image has to stay alligned"
MEMORY    == 65536                 \* addresses of the image, and of the machine
GivenUp   == {"error", "crashed", "overrun"}

(* Names of labels: a scoped label carries the name of its scope. *)
Plain(name)        == <<name, None>>
Scoped(scope, dot) == <<scope, dot>>

(***************************************************************************)
(* Lines: "label" defines name, "scoped" defines dot in the scope it is    *)
(* in, "section" opens section name, "const" defines name as ref, "data"   *)
(* defines name and takes size bytes, "code" is an instruction and "call"  *)
(* the pseudo-instruction with size arguments to move; the operand of both *)
(* is ref, a pair of a name and a dotted name, one of them None.           *)
(***************************************************************************)
CodeLine(ref) == [kind |-> "code", name |-> None, size |-> 0, ref |-> ref]
NoRef == <<None, None>>

VARIABLES
  source,     \* the lines
  token,      \* the token array: typed, addressed lines
  label,      \* the label array
  constant,   \* the constant array
  image,      \* the parts of the image that are placed, as extents
  entry,      \* the first word of the image
  uaddr,      \* image_uaddr: where the next part goes, 16 bits wide
  textStart,  \* image_text_start, 16 bits wide
  phase,      \* the pass at work
  at,         \* index of the line or token it looks at
  addr,       \* address of the next instruction in the text
  mode,       \* section_mode while typing; the section being placed
  scope       \* name of the label above the token

passVars == <<phase, at, addr, mode, scope>>
tables   == <<token, label, constant>>
output   == <<image, entry, uaddr, textStart>>
lvars    == <<source, tables, output, passVars>>

Init ==
  /\ source \in Programs
  /\ token = <<>> /\ label = <<>> /\ constant = <<>>
  /\ image = {} /\ entry = 0 /\ uaddr = HEADER /\ textStart = 0
  /\ phase = "types" /\ at = 1 /\ addr = 0 /\ mode = None /\ scope = None

Passing(p, list)  == phase = p /\ at <= Len(list)
PassOver(p, list) == phase = p /\ at > Len(list)
NextItem  == at' = at + 1 /\ UNCHANGED phase
Turn(p)   == phase' = p /\ at' = 1 /\ mode' = None /\ scope' = None /\ UNCHANGED addr
Fail(how) == phase' = how /\ UNCHANGED at

-----------------------------------------------------------------------------
(* code_tokengen: types and addresses. *)

Token(type, address, line) == [type |-> type, addr |-> address, line |-> line]

ScopeAvailable == \E k \in DOMAIN token : token[k].type = "label"

(* push and mov for each argument, bl, pop for each argument. *)
CallTokens(line) ==
  [k \in 1 .. 3 * line.size + 1 |->
     Token("asm", W16(addr + 4 * (k - 1)),
           CodeLine(IF k = 2 * line.size + 1 THEN line.ref ELSE NoRef))]

Types(tokens) ==
  /\ token' = token \o tokens
  /\ NextItem
  /\ UNCHANGED <<source, label, constant, output, scope>>

TypeLine ==
  /\ Passing("types", source)
  /\ LET line == source[at]
     IN  \/ /\ line.kind = "label" \/ (line.kind = "scoped" /\ ScopeAvailable)
            /\ Types(<<Token(line.kind, addr, line)>>)
            /\ mode' = None
            /\ UNCHANGED addr
         \/ /\ line.kind = "section"
            /\ Types(<<Token("section", 0, line)>>)
            /\ mode' = "section"
            /\ UNCHANGED addr
         \/ /\ line.kind = "const"
            /\ Types(<<Token("const", 0, line)>>)
            /\ UNCHANGED <<addr, mode>>
         \/ /\ line.kind \in {"data", "code", "call"} /\ mode = "section"
            /\ Types(<<Token("data", 0, line)>>)
            /\ UNCHANGED <<addr, mode>>
         \/ /\ line.kind \in {"data", "code"} /\ mode # "section"
            /\ Types(<<Token("asm", addr, line)>>)
            /\ addr' = W16(addr + 4)
            /\ UNCHANGED mode
         \/ /\ line.kind = "call" /\ mode # "section"
            /\ Types(CallTokens(line))
            /\ addr' = W16(addr + 4 * (3 * line.size + 1))
            /\ UNCHANGED mode

NoScope ==
  /\ Passing("types", source)
  /\ source[at].kind = "scoped" /\ ~ScopeAvailable
  /\ Fail("error")
  /\ UNCHANGED <<source, tables, output, addr, mode, scope>>

TypesOver ==
  /\ PassOver("types", source)
  /\ Turn("labels")
  /\ UNCHANGED <<source, tables, output>>

-----------------------------------------------------------------------------
(* code_token_label: the labels of the text, relative to its start. *)

Label(name, address, rel) == [name |-> name, addr |-> address, rel |-> rel]

IsDefined(name) == \E k \in DOMAIN label : label[k].name = name

AddLabel(name, address, rel) == label' = Append(label, Label(name, address, rel))

CollectLabel ==
  /\ Passing("labels", token)
  /\ LET t    == token[at]
         name == IF t.type = "label" THEN Plain(t.line.name) ELSE Scoped(scope, t.line.name)
     IN  IF t.type \notin {"label", "scoped"}
         THEN NextItem /\ UNCHANGED <<label, scope>>
         ELSE IF IsDefined(name)
         THEN Fail("error") /\ UNCHANGED <<label, scope>>
         ELSE /\ AddLabel(name, t.addr, TRUE)
              /\ scope' = IF t.type = "label" THEN t.line.name ELSE scope
              /\ NextItem
  /\ UNCHANGED <<source, token, constant, output, addr, mode>>

LabelsOver ==
  /\ PassOver("labels", token)
  /\ Turn("sections")
  /\ UNCHANGED <<source, tables, output>>

-----------------------------------------------------------------------------
(* code_token_section: the data, from the header on. *)

Extent(from, size, k, value) == [from |-> from, size |-> size, token |-> k, value |-> value]

Place(size, value) ==
  /\ image' = image \cup {Extent(uaddr, size, at, value)}
  /\ uaddr' = W16(uaddr + size)

(***************************************************************************)
(* Initialised data that crosses the end of the image may leave the array: *)
(* an item that begins below it is written to its end, over image_uaddr    *)
(* and what lies behind; one that begins at 0 again is written there.      *)
(***************************************************************************)
MayOverrun(size) == mode = ".data" /\ uaddr + size > MEMORY

(***************************************************************************)
(* A token that is not data ends the section; what follows is not placed.  *)
(* Code under .data ends the assembler; under .bss it would reserve an     *)
(* arbitrary number of bytes, and Programs have none there.                *)
(***************************************************************************)
PlaceData ==
  /\ Passing("sections", token)
  /\ LET t == token[at]
     IN  IF t.type = "section"
         THEN /\ mode' = IF t.line.name \in {".data", ".bss"} THEN t.line.name ELSE None
              /\ NextItem
              /\ UNCHANGED <<label, image, uaddr>>
         ELSE IF t.type # "data" \/ mode = None
         THEN /\ mode' = None
              /\ NextItem
              /\ UNCHANGED <<label, image, uaddr>>
         ELSE IF t.line.kind # "data"
         THEN /\ Fail("error")
              /\ UNCHANGED <<label, image, uaddr, mode>>
         ELSE /\ AddLabel(Plain(t.line.name), uaddr, FALSE)
              /\ Place(t.line.size, 0)
              /\ NextItem \/ (MayOverrun(t.line.size) /\ Fail("overrun"))
              /\ UNCHANGED mode
  /\ UNCHANGED <<source, token, constant, entry, textStart, addr, scope>>

AlignedDown(a) == (a \div 4) * 4           \* mutant of Aligned
Aligned(a) == ((a + 3) \div 4) * 4

SectionsOver ==
  /\ PassOver("sections", token)
  /\ uaddr' = W16(Aligned(uaddr))
  /\ textStart' = W16(Aligned(uaddr))
  /\ Turn("start")
  /\ UNCHANGED <<source, tables, image, entry>>

-----------------------------------------------------------------------------
(* Lookups: the first label of that name, then the first constant. *)

First(list, name) ==
  CHOOSE k \in DOMAIN list : /\ list[k].name = name
                             /\ \A j \in 1 .. k - 1 : list[j].name # name

LabelLookup(name) ==
  IF ~IsDefined(name) THEN NOT_FOUND
  ELSE LET l == label[First(label, name)]
       IN  l.addr + IF l.rel THEN textStart ELSE 0

ConstantLookup(name) ==
  IF \E k \in DOMAIN constant : constant[k].name = name
    THEN constant[First(constant, name)].value
    ELSE NOT_FOUND

(* Mutant of InsertStart: the label's address, without the start of the text. *)
InsertStartRelative ==
  /\ phase = "start"
  /\ entry' = IF IsDefined(Plain("_start")) THEN label[First(label, Plain("_start"))].addr ELSE 0
  /\ Turn("constants")
  /\ UNCHANGED <<source, tables, image, uaddr, textStart>>

(* code_token_label_insert_start: the lookup's result is cut to 16 bits    *)
(* before the comparison.                                                  *)
InsertStart ==
  /\ phase = "start"
  /\ LET start == W16(LabelLookup(Plain("_start")))
     IN  IF start = 65535
         THEN Fail("error") /\ UNCHANGED <<entry, addr, mode, scope>>
         ELSE entry' = start /\ Turn("constants")
  /\ UNCHANGED <<source, tables, image, uaddr, textStart>>

IsScoped(ref) == ref[2] # None

(* code_token_constant: the value is a number or a label, without a scope. *)
EvaluateConstant ==
  /\ Passing("constants", token)
  /\ LET t     == token[at]
         value == IF t.line.ref = NoRef THEN t.line.size ELSE LabelLookup(t.line.ref)
     IN  IF t.type # "const"
         THEN NextItem /\ UNCHANGED constant
         ELSE IF IsScoped(t.line.ref)
         THEN Fail("crashed") /\ UNCHANGED constant
         ELSE IF value = NOT_FOUND
         THEN Fail("error") /\ UNCHANGED constant
         ELSE /\ constant' = Append(constant, [name |-> Plain(t.line.name), value |-> W16(value)])
              /\ NextItem
  /\ UNCHANGED <<source, token, label, output, addr, mode, scope>>

ConstantsOver ==
  /\ PassOver("constants", token)
  /\ Turn("emit")
  /\ UNCHANGED <<source, tables, output>>

-----------------------------------------------------------------------------
(* la16_compiler_lowlevel: the code. *)

TargetInFirst(ref) ==                      \* mutant of Target: the first scope
  IF IsScoped(ref) THEN Scoped(label[1].name[1], ref[2]) ELSE ref

(* A dotted operand is looked up in the scope of its line. *)
Target(ref) == IF IsScoped(ref) THEN Scoped(scope, ref[2]) ELSE ref

Resolve(ref) ==
  IF ref = NoRef THEN 0
  ELSE IF LabelLookup(Target(ref)) # NOT_FOUND THEN W16(LabelLookup(Target(ref)))
  ELSE ConstantLookup(ref)

EmitLine ==
  /\ Passing("emit", token)
  /\ LET t == token[at]
     IN  IF t.type = "label"
         THEN scope' = t.line.name /\ NextItem /\ UNCHANGED <<image, uaddr>>
         ELSE IF t.type # "asm"
         THEN NextItem /\ UNCHANGED <<image, uaddr, scope>>
         ELSE IF t.line.kind # "code"
         THEN Fail("error") /\ UNCHANGED <<image, uaddr, scope>>
         ELSE IF IsScoped(t.line.ref) /\ scope = None
         THEN Fail("crashed") /\ UNCHANGED <<image, uaddr, scope>>
         ELSE IF Resolve(t.line.ref) = NOT_FOUND
         THEN Fail("error") /\ UNCHANGED <<image, uaddr, scope>>
         ELSE /\ Place(4, Resolve(t.line.ref))
              /\ NextItem
              /\ UNCHANGED scope
  /\ UNCHANGED <<source, tables, entry, textStart, addr, mode>>

EmitOver ==
  /\ PassOver("emit", token)
  /\ phase' = "written"
  /\ UNCHANGED <<source, tables, output, at, addr, mode, scope>>

Ended ==
  /\ phase \in {"written"} \cup GivenUp
  /\ UNCHANGED lvars

Next ==
  \/ TypeLine \/ NoScope \/ TypesOver
  \/ CollectLabel \/ LabelsOver
  \/ PlaceData \/ SectionsOver
  \/ InsertStart
  \/ EvaluateConstant \/ ConstantsOver
  \/ EmitLine \/ EmitOver
  \/ Ended

Spec == Init /\ [][Next]_lvars

-----------------------------------------------------------------------------
(***************************************************************************)
(* The assembler has no check for an image that is too large: image_uaddr  *)
(* wraps and the rest goes over the header.  So what is said of an image   *)
(* is said of one whose parts end with the last multiple of 4 that 16 bits *)
(* hold, or before it: past it, the rounding of the start of the text      *)
(* wraps, and so does the address behind the last instruction.             *)
(***************************************************************************)
ImageFits == \A e \in image : e.from + e.size <= MEMORY - 4

(* The numbers of constants fit a word; a larger one is cut to 16 bits.    *)
NumbersFit == \A k \in DOMAIN token : token[k].type = "const" => token[k].line.size < 65536

(* Where a name is defined, by the program text alone. *)

Above(k)  == {j \in 1 .. k : token[j].type = "label"}
Owner(k)  == token[CHOOSE j \in Above(k) : \A i \in Above(k) : i <= j].line.name

PlaceOf(k) == (CHOOSE e \in image : e.token = k).from

(* The address of the first instruction at or after token k. *)
CodeAfter(k) ==
  LET code == {j \in k .. Len(token) : token[j].type = "asm"}
  IN  IF code = {} THEN uaddr ELSE PlaceOf(CHOOSE j \in code : \A i \in code : j <= i)

(* Token k is a definition of ref as a line in the scope of token j sees   *)
(* it, and value is what it stands for.                                    *)
Means(k, ref, j, value) ==
  LET t == token[k]
  IN  \/ /\ t.type = "label" /\ ref = Plain(t.line.name)
         /\ value = CodeAfter(k)
      \/ /\ t.type = "scoped" /\ IsScoped(ref) /\ ref[2] = t.line.name
         /\ Above(j) # {} /\ Owner(k) = Owner(j)
         /\ value = CodeAfter(k)
      \/ /\ t.type = "data" /\ ref = Plain(t.line.name)
         /\ \E e \in image : e.token = k /\ value = e.from
      \/ /\ t.type = "const" /\ ref = Plain(t.line.name)
         /\ \/ t.line.ref = NoRef /\ value = t.line.size
            \/ \E i \in DOMAIN token :
                 \/ /\ token[i].type = "label" /\ t.line.ref = Plain(token[i].line.name)
                    /\ value = CodeAfter(i)
                 \/ /\ token[i].type = "data" /\ t.line.ref = Plain(token[i].line.name)
                    /\ \E e \in image : e.token = i /\ value = e.from

(***************************************************************************)
(* In an image that fits and is written out, every operand leads to what   *)
(* it names: to the place where the last pass put the instruction after    *)
(* the label, or the data, although addresses were given before calls were *)
(* expanded around them and before the data was placed, and a dotted name  *)
(* leads to the label of its own function.                                 *)
(***************************************************************************)
OperandsResolve ==
  phase = "written" /\ ImageFits /\ NumbersFit =>
    \A e \in image :
      LET t == token[e.token]
      IN  t.type = "asm" /\ t.line.ref # NoRef =>
            \E k \in DOMAIN token : Means(k, t.line.ref, e.token, e.value)

(* The lines that give the machine a place named _start. *)
Starts ==
  {k \in DOMAIN token :
     /\ token[k].line.name = "_start"
     /\ token[k].type = "label" \/ (token[k].type = "data" /\ \E e \in image : e.token = k)}

(***************************************************************************)
(* The machine begins where the program says _start, after the data and    *)
(* with the calls expanded in front of it, when the image fits.  A program *)
(* without one is not turned down: NOT_FOUND is cut to 16 bits before it   *)
(* is compared, and the machine begins with the header.                    *)
(***************************************************************************)
EntryIsStart ==
  phase = "written" /\ ImageFits =>
    IF Starts = {} THEN entry = 0
    ELSE \E k \in Starts : Means(k, Plain("_start"), k, entry)

(***************************************************************************)
(* No two parts of an image that fits overlap, none reaches into the       *)
(* header, and all lie below the length that is written out, although no   *)
(* step checks that there is room.                                         *)
(***************************************************************************)
PartsApart ==
  ImageFits =>
    \A e \in image :
      /\ HEADER <= e.from /\ e.from + e.size <= uaddr
      /\ \A f \in image : e.token # f.token =>
           e.from + e.size <= f.from \/ f.from + f.size <= e.from
=============================================================================
