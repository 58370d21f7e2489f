---------------------------- MODULE MCLa16Kernel ----------------------------
(***************************************************************************)
(* Kernel code at the edges of the machine: every instruction, on operands *)
(* that wrap, divide by zero, shift by too much and name the pages, words  *)
(* and handlers at the ends of their tables.                               *)
(***************************************************************************)
EXTENDS La16Safety, MCLa16

(* malloc() may hand out a table of zeros or one full of old words. *)
OldWords == {[n \in 0 .. WORD - 1 |-> w] : w \in {0, 250}}

BinaryOp == (AluOp \cup {"in", "out", "ldb", "stb", "ldw", "stw", "mov", "swp", "swpz",
             "inc", "dec", "not", "cmp", "intset", "vpset", "vpget", "vpflgset", "vpflgget"})
UnaryOp  == {"push", "pop", "jmp", "je", "jne", "jlt", "jgt", "jle", "jge", "bl",
             "int", "ppcnt", "ppktrrset", "vpaddr", "hlt", "nop", "ret", "intret", "illegal"}

EveryInstruction ==
  {I(op, a, b) : op \in BinaryOp, a \in {R(R0), R(SP)}, b \in {R(RR)}} \cup
  {I(op, a, Z) : op \in UnaryOp, a \in {R(R0), R(SP)}}

(* Two operands, a comparison, any instruction, then one that may meet what *)
(* it left behind.                                                          *)
EdgeCode == Program(
  From(8, << All("mov", {R(R0)}, {Imm(v) : v \in {0, 1, 127, 254, 255}}),
             All("mov", {R(RR)}, {Imm(v) : v \in {0, 18, 128, 253, 255}}),
             {I("cmp", R(R0), R(RR))} >>) @@
  From(20, << EveryInstruction,
              {I(op, R(R0), Z) : op \in {"int", "push", "pop", "ret"}} >>))
=============================================================================
