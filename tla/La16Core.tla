------------------------------ MODULE La16Core ------------------------------
(***************************************************************************)
(* One core at work (core.c): fetch, decode, dispatch, and the machine's   *)
(* life around it.                                                         *)
(*                                                                         *)
(* The four bytes of an instruction are not modelled: Code says which      *)
(* instructions the bytes at an address may decode to.  With all of Instr  *)
(* at every address it covers every image and every program that writes    *)
(* over itself, and the two bytes the fetch may take from beyond the end   *)
(* of the memory.                                                          *)
(***************************************************************************)
EXTENDS La16Ic

CONSTANT Code

-----------------------------------------------------------------------------
(* The instructions that decoding can yield. *)

(* Opcodes with no entry in opfunc_table are "illegal". *)
Op == {"hlt", "nop", "in", "out", "ldb", "stb", "ldw", "stw", "mov", "swp",
       "swpz", "push", "pop", "inc", "dec", "not", "jmp", "cmp", "je", "jne",
       "jlt", "jgt", "jle", "jge", "bl", "ret", "int", "intset", "intret",
       "ppcnt", "ppktrrset", "vpset", "vpget", "vpflgset", "vpflgget",
       "vpaddr", "illegal"} \cup AluOp

ImmOperand == [kind : {"imm"}, val : Word]
RegOperand == [kind : {"reg"}, val : Reg]
Operand    == ImmOperand \cup RegOperand

(* The six parameter modes and NONE; a missing parameter is a zeroed       *)
(* immediate, and two immediates share the sixteen bits of one.            *)
Coded(a, b) ==
  \/ b.kind = "reg"
  \/ a.kind = "reg"
  \/ b.val = 0
  \/ a.val \in Byte /\ b.val \in Byte

Instr == {i \in [op : Op, a : Operand, b : Operand] : Coded(i.a, i.b)}

ASSUME CodeAssumption == Code \in [Word -> SUBSET Instr]

(* Registers above EL0_MAX are out of reach of EL0, in either position. *)
IsBeyondEL(o)   == o.kind = "reg" /\ o.val > EL    \* mutant of IsPrivileged
IsPrivileged(o) == o.kind = "reg" /\ o.val > EL0_MAX
Permitted(i)    == rl[EL] = EL0 => ~IsPrivileged(i.a) /\ ~IsPrivileged(i.b)

(* The fetch asks for two bytes of its four. *)
FetchGranted == Access(rl[EL], rl[PC], EXEC, 2)

-----------------------------------------------------------------------------
(* instruction/core.c; an illegal opcode is printed and runs as hlt. *)

Hlt(i) ==
  /\ i.op \in {"hlt", "illegal"}
  /\ Refuse("halt")

Nop(i) ==
  /\ i.op = "nop"
  /\ RegisterStep(rl)

Execute(i) ==
  \/ Hlt(i) \/ Nop(i)
  \/ In(i) \/ Out(i)
  \/ Ldb(i) \/ Stb(i) \/ Ldw(i) \/ Stw(i)
  \/ Mov(i) \/ Swp(i) \/ Swpz(i) \/ Push(i) \/ Pop(i)
  \/ Alu(i) \/ DivisionTrap(i) \/ IncDec(i) \/ Not(i)
  \/ Jump(i) \/ Cmp(i) \/ Bl(i) \/ Ret(i)
  \/ Interrupt(i) \/ Intset(i) \/ Intret(i)
  \/ Ppcnt(i) \/ Ppktrrset(i) \/ Vpset(i) \/ Vpget(i)
  \/ Vpflgset(i) \/ Vpflgget(i) \/ Vpaddr(i)

-----------------------------------------------------------------------------
(* The loop of la16_core_execute_thread. *)

Running == exec = "running" /\ term = "none"

FetchFault ==
  /\ Running
  /\ ~FetchGranted
  /\ Refuse("bad_access")

PrivilegeFault ==
  /\ Running
  /\ FetchGranted
  /\ \E i \in Code[rl[PC]] : ~Permitted(i)
  /\ Refuse("permission")

Instruct ==
  /\ Running
  /\ FetchGranted
  /\ \E i \in Code[rl[PC]] : Permitted(i) /\ Execute(i)

(* main() has returned or the process was killed. *)
Done ==
  /\ exec \in {"returned", "killed"}
  /\ UNCHANGED vars

Next ==
  \/ LoadImage \/ RejectImage \/ StartCore \/ StopCore
  \/ FetchFault \/ PrivilegeFault \/ Instruct
  \/ Done

Spec == Init /\ [][Next]_vars
=============================================================================
