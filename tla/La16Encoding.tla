---------------------------- MODULE La16Encoding ----------------------------
(***************************************************************************)
(* The 32 bits of an instruction: how the assembler packs a code line into *)
(* them (compiler.c over bitwalker.h) and how the core unpacks them        *)
(* (core.c over bitwalker.h).  The two agree on the layout by convention   *)
(* only: each has its own switch on the mode.                              *)
(*                                                                         *)
(* A number is the function of its bits, the least significant first, and  *)
(* the buffer of a bitwalker on a little-endian host is one such function. *)
(***************************************************************************)
EXTENDS Integers

CONSTANTS
  Opcode,      \* opcodes of code lines
  Immediate,   \* values of numbers, labels and constants in code lines
  RegNumber,   \* numbers of registers in code lines
  Data         \* words that no code line was assembled to

Bit    == {0, 1}
Index  == 0 .. 15                \* bits of an unsigned short
Short  == [Index -> Bit]
Place  == 0 .. 31                \* bits of an instruction
Word32 == [Place -> Bit]
Zero   == [k \in Index |-> 0]

Fits(value, width) == \A k \in Index : k >= width => value[k] = 0

ASSUME OpcodeAssumption    == Opcode \subseteq Short /\ \A v \in Opcode : Fits(v, 8)
ASSUME ImmediateAssumption == Immediate \subseteq Short
ASSUME RegNumberAssumption == RegNumber \subseteq Short /\ \A v \in RegNumber : Fits(v, 5)
ASSUME DataAssumption      == Data \subseteq Word32

Operand(kind, value) == [kind |-> kind, value |-> value]
NoOperand == Operand("none", Zero)

(* The modes, LA16_PARAMETER_CODING_COMBINATION_*. *)
NONE      == 0
REG       == 1
REG_REG   == 2
IMM16     == 3
IMM16_REG == 4
REG_IMM16 == 5
IMM8_IMM8 == 6

ModeBits(mode) ==
  [k \in Index |-> IF k = 0 THEN mode % 2
                   ELSE IF k = 1 THEN (mode \div 2) % 2
                   ELSE IF k = 2 THEN (mode \div 4) % 2 ELSE 0]

-----------------------------------------------------------------------------
(* bitwalker.h: a write or read that would pass the end does nothing. *)

InCapacity(at, width) == (at + width + 7) \div 8 <= 4

Put(bits, at, value, width) ==
  [k \in Place |-> IF InCapacity(at, width) /\ k - at \in 0 .. width - 1 /\ value[k - at] = 1
                   THEN 1 ELSE bits[k]]

Get(bits, at, width) ==
  [k \in Index |-> IF InCapacity(at, width) /\ k < width THEN bits[at + k] ELSE 0]

-----------------------------------------------------------------------------
(* The assembler. *)

(* A line whose first operand is empty has mode NONE, whatever the second. *)
ModeOf(a, b) ==
  CASE a.kind = "reg" /\ b.kind = "none" -> REG
    [] a.kind = "reg" /\ b.kind = "reg"  -> REG_REG
    [] a.kind = "reg" /\ b.kind = "imm"  -> REG_IMM16
    [] a.kind = "imm" /\ b.kind = "none" -> IMM16
    [] a.kind = "imm" /\ b.kind = "reg"  -> IMM16_REG
    [] a.kind = "imm" /\ b.kind = "imm"  -> IMM8_IMM8
    [] OTHER                             -> NONE

(* Mutant of Width: two immediates are given sixteen bits each. *)
WidthWithoutImm8(mode, kind) ==
  CASE kind = "none" -> 0
    [] kind = "reg"  -> 5
    [] kind = "imm"  -> 16

(* How many bits each operand takes. *)
Width(mode, kind) ==
  CASE kind = "none" -> 0
    [] kind = "reg"  -> 5
    [] kind = "imm"  -> IF mode = IMM8_IMM8 THEN 8 ELSE 16

(* An operand that does not fit ends the assembler; 16 bits always fit. *)
Accepted(line) ==
  LET mode == ModeOf(line.a, line.b)
  IN  mode # NONE => /\ Fits(line.a.value, Width(mode, line.a.kind))
                     /\ Fits(line.b.value, Width(mode, line.b.kind))

FIRST == 11      \* the operands come after eight bits of opcode and three of mode

Header(opcode, mode) ==
  Put(Put([k \in Place |-> 0], 0, opcode, 8), 8, ModeBits(mode), 3)

Encoded(line) ==
  LET mode   == ModeOf(line.a, line.b)
      header == Header(line.opcode, mode)
      wa     == Width(mode, line.a.kind)
  IN  IF mode = NONE THEN header
      ELSE Put(Put(header, FIRST, line.a.value, wa),
               FIRST + wa, line.b.value, Width(mode, line.b.kind))

-----------------------------------------------------------------------------
(* The core. *)

RegAtByte(bits, at)    == Operand("reg", Get(bits, at, 8))     \* mutant of RegAt
RegAt(bits, at)        == Operand("reg", Get(bits, at, 5))
ImmAt(bits, at, width) == Operand("imm", Get(bits, at, width))
ImmZero                == Operand("imm", Zero)

(* A parameter the mode does not give is a zeroed immediate. *)
Params(bits, mode) ==
  CASE mode = ModeBits(REG)       -> <<RegAt(bits, FIRST), ImmZero>>
    [] mode = ModeBits(REG_REG)   -> <<RegAt(bits, FIRST), RegAt(bits, FIRST + 5)>>
    [] mode = ModeBits(IMM16)     -> <<ImmAt(bits, FIRST, 16), ImmZero>>
    [] mode = ModeBits(IMM16_REG) -> <<ImmAt(bits, FIRST, 16), RegAt(bits, FIRST + 16)>>
    [] mode = ModeBits(REG_IMM16) -> <<RegAt(bits, FIRST), ImmAt(bits, FIRST + 5, 16)>>
    [] mode = ModeBits(IMM8_IMM8) -> <<ImmAt(bits, FIRST, 8), ImmAt(bits, FIRST + 8, 8)>>
    [] OTHER                      -> <<ImmZero, ImmZero>>

(* Mutant of Regs: the second register is not kept. *)
RegsFirstOnly(p) ==
  <<IF p[1].kind = "reg" THEN p[1].value ELSE IF p[2].kind = "reg" THEN p[2].value ELSE Zero,
    Zero>>

(* op.reg[]: the first register read is reg[0], whichever operand it is. *)
Regs(p) ==
  <<IF p[1].kind = "reg" THEN p[1].value ELSE IF p[2].kind = "reg" THEN p[2].value ELSE Zero,
    IF p[1].kind = "reg" /\ p[2].kind = "reg" THEN p[2].value ELSE Zero>>

(* Registers 30 and 31, el and elb. *)
AboveEL0(reg) == \A k \in 1 .. 4 : reg[k] = 1

Decoded(bits) ==
  LET p == Params(bits, Get(bits, 8, 3))
      r == Regs(p)
  IN  [opcode |-> Get(bits, 0, 8), a |-> p[1], b |-> p[2],
       privileged |-> AboveEL0(r[1]) \/ AboveEL0(r[2])]

-----------------------------------------------------------------------------
VARIABLES
  line,     \* the code line being assembled
  phase,    \* where the instruction is on its way
  word,     \* its 32 bits
  op        \* what the core makes of them

evars == <<line, phase, word, op>>

NoLine == [opcode |-> Zero, a |-> NoOperand, b |-> NoOperand]

Param == {NoOperand} \cup {Operand("reg", v) : v \in RegNumber}
                     \cup {Operand("imm", v) : v \in Immediate}

Init ==
  /\ op = Decoded([k \in Place |-> 0])
  /\ \/ /\ line \in [opcode : Opcode, a : Param, b : Param]
        /\ phase = "line"
        /\ word = [k \in Place |-> 0]
     \/ /\ line = NoLine
        /\ phase = "data"
        /\ word \in Data

Assemble ==
  /\ phase = "line"
  /\ Accepted(line)
  /\ word' = Encoded(line)
  /\ phase' = "code"
  /\ UNCHANGED <<line, op>>

Reject ==
  /\ phase = "line"
  /\ ~Accepted(line)
  /\ phase' = "rejected"
  /\ UNCHANGED <<line, word, op>>

(* The core runs code and data alike. *)
Decode ==
  /\ phase \in {"code", "data"}
  /\ op' = Decoded(word)
  /\ phase' = IF phase = "code" THEN "decoded" ELSE "data decoded"
  /\ UNCHANGED <<line, word>>

Finished ==
  /\ phase \in {"rejected", "decoded", "data decoded"}
  /\ UNCHANGED evars

Next == Assemble \/ Reject \/ Decode \/ Finished

Spec == Init /\ [][Next]_evars

-----------------------------------------------------------------------------
(***************************************************************************)
(* What the core executes is the line the assembler was given: the opcode, *)
(* and each operand with its kind and value, a missing second operand      *)
(* being zero.  A line with a second operand and no first is left out: the *)
(* assembler drops its operand.                                            *)
(***************************************************************************)
Meant(operand) == IF operand.kind = "none" THEN ImmZero ELSE operand

DecodesAsAssembled ==
  phase = "decoded" /\ (line.a.kind = "none" => line.b.kind = "none") =>
    /\ op.opcode = line.opcode
    /\ op.a = Meant(line.a)
    /\ op.b = Meant(line.b)

(***************************************************************************)
(* Whatever the 32 bits, the check of op.reg[] that core.c makes for user  *)
(* code sees every operand that is a register beyond EL0_MAX, in whichever *)
(* position and mode, and sees no other.  La16Core states the check on the *)
(* operands.                                                               *)
(***************************************************************************)
Privileged(operand) == operand.kind = "reg" /\ AboveEL0(operand.value)
PrivilegeSeen ==
  phase \in {"decoded", "data decoded"} =>
    (op.privileged <=> Privileged(op.a) \/ Privileged(op.b))

(***************************************************************************)
(* Whatever the 32 bits, the decoded operands are among those of           *)
(* La16Core's Instr: a register number has five bits, and two immediates   *)
(* share sixteen.                                                          *)
(***************************************************************************)
OperandsInRange ==
  phase \in {"decoded", "data decoded"} =>
    /\ \A o \in {op.a, op.b} : o.kind = "reg" => Fits(o.value, 5)
    /\ op.a.kind = "imm" /\ op.b.kind = "imm" =>
         op.b.value = Zero \/ (Fits(op.a.value, 8) /\ Fits(op.b.value, 8))
=============================================================================
