----------------------------- MODULE MCLa16User -----------------------------
(***************************************************************************)
(* A machine of 17 pages of 15 bytes runs a kernel that sets up the page   *)
(* tables and a handler and drops to user level, where a short program of  *)
(* arbitrary instructions runs.  The kernel's and the user's choices are   *)
(* the sets in the tables below; the programs end in hlt.                  *)
(***************************************************************************)
EXTENDS La16Safety, MCLa16

(* Pages 8 and 9 hold the user's code; the data is on pages 11, 12 and 16. *)
Boot(flags11, flags12, phys12, stacks) ==
  From(8, << {I("mov", R(R0), Imm(15))},
             {I("vpflgset", Imm(8), R(R0))},
             {I("vpflgset", Imm(9), R(R0))},
             {I("vpflgset", Imm(16), R(R0))},
             {I("mov", R(R0), Imm(11))},
             {I("vpset", Imm(11), R(R0))},
             All("mov", {R(R0)}, {Imm(f) : f \in flags11}),
             {I("vpflgset", Imm(11), R(R0))},
             All("mov", {R(R0)}, {Imm(f) : f \in flags12}),
             {I("vpflgset", Imm(12), R(R0))},
             All("mov", {R(R0)}, {Imm(p) : p \in phys12}),
             {I("vpset", Imm(12), R(R0))},
             {I("mov", R(R0), Imm(200))},
             {I("intset", Imm(1), R(R0))},
             {I("mov", R(R0), Imm(216))},
             {I("intset", Imm(2), R(R0))},
             All("mov", {R(SP)}, {Imm(s) : s \in stacks}),
             {I("jmp", Imm(116), Z)} >>) @@
  From(116, << {I("mov", R(EL), Z)} >>)

-----------------------------------------------------------------------------
(* Reads, writes, pushes and calls across the boundary of pages 11 and 12, *)
(* at the edges of the memory and at the word with no second byte.         *)
MemoryMenu ==
  All("stw", {Imm(a) : a \in {0, 178, 179, 180, 253, 254, 255}}, {R(SP)}) \cup
  All("stb", {Imm(179), Imm(180), R(SP)}, {R(SP)}) \cup
  All("ldw", {R(R0)}, {Imm(179), Imm(180), R(SP)}) \cup
  All("ldb", {R(R0), R(PC)}, {Imm(179), Imm(254)}) \cup
  All("push", {R(SP)}, {Z}) \cup All("pop", {R(RR), R(SP)}, {Z}) \cup
  All("bl", {Imm(132), R(SP)}, {Z}) \cup All("ret", {Z}, {Z}) \cup
  All("mov", {R(SP), R(FP)}, {Imm(1), Imm(188)})

(* A first instruction may lead to the program below. *)
MemoryProgram ==
  (120 :> MemoryMenu \cup All("jmp", {Imm(136)}, {Z})) @@
  (124 :> MemoryMenu) @@ (128 :> All("ret", {Z}, {Z}))

-----------------------------------------------------------------------------
(* Interrupts, returns from interrupts that never happened, kernel         *)
(* registers and kernel instructions in the hands of the user.             *)
ElevationMenu ==
  All("int", {Imm(1), Imm(3)}, {Z}) \cup
  All("intret", {Z}, {Z}) \cup All("ret", {Z}, {Z}) \cup
  All("mov", {R(EL), R(ELB)}, {Imm(1)}) \cup
  All("mov", {R(R0)}, {R(ELB)}) \cup
  All("mov", {R(FP), R(SP)}, {Imm(184), Imm(3)}) \cup
  {I(op, R(R0), Imm(1)) : op \in {"ppcnt", "ppktrrset", "vpset", "vpget", "vpflgset",
                                  "vpflgget", "vpaddr", "intset", "in", "out"}}

(* The handler of interrupt 1 may raise interrupt 2 before it returns. *)
HandlerMenu ==
  All("intret", {Z}, {Z}) \cup All("ret", {Z}, {Z}) \cup All("int", {Imm(2)}, {Z}) \cup
  All("mov", {R(EL)}, {Imm(0), Imm(2)})

ElevationProgram ==
  [a \in {136, 140, 144} |-> ElevationMenu] @@
  (200 :> HandlerMenu) @@ (204 :> All("intret", {Z}, {Z})) @@
  (216 :> All("intret", {Z}, {Z}) \cup All("mov", {R(EL)}, {Imm(0)}))

UserCode == Program(Boot({7, 6}, {7, 4, 3}, {12, 3}, {178, 179, 184, 186, 5}) @@
                    MemoryProgram @@ ElevationProgram)
=============================================================================
