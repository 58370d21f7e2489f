---------------------------- MODULE MCLa16Frames ----------------------------
(***************************************************************************)
(* A user program of two functions, f which calls g, interrupted at any    *)
(* point by a handler with a function of its own, and which makes system   *)
(* calls of the guest kernel.  Each slot of the code offers a choice of    *)
(* instructions.                                                           *)
(***************************************************************************)
EXTENDS LaosInt, MCLa16

(* The user's code is on pages 8 to 10, its stack on pages 13 to 16. *)
Kernel ==
  From(8, << {I("mov", R(R0), Imm(15))},
             {I("vpflgset", Imm(8), R(R0))},
             {I("vpflgset", Imm(9), R(R0))},
             {I("vpflgset", Imm(10), R(R0))},
             {I("mov", R(R0), Imm(7))},
             {I("vpflgset", Imm(13), R(R0))},
             {I("vpflgset", Imm(14), R(R0))},
             {I("vpflgset", Imm(15), R(R0))},
             {I("vpflgset", Imm(16), R(R0))},
             {I("mov", R(R0), Imm(80))},
             {I("intset", Imm(1), R(R0))},
             {I("mov", R(R0), Imm(INTHANDLER))},
             {I("intset", Imm(2), R(R0))},
             {I("jmp", Imm(116), Z)} >>) @@
  From(116, << {I("mov", R(EL), Z)} >>)

F == Imm(136)
G == Imm(152)
H == Imm(100)

Handler1(more) ==
  From(80, << All("mov", {R(R0)}, {Imm(77)}) \cup All("push", {R(R0)}, {Z}),
              All("bl", {H}, {Z}) \cup All("cmp", {R(R0)}, {Imm(9)}) \cup more,
              {I("intret", Z, Z)} >>) @@
  From(100, << {I("swp", R(R0), R(CF))}, {I("ret", Z, Z)} >>)

User ==
  From(120, << All("push", {R(R0)}, {Z}) \cup All("int", {Imm(1)}, {Z}),
               All("mov", {R(R0)}, {Imm(21), R(SP)}) \cup All("bl", {G}, {Z}),
               All("bl", {F, R(R0)}, {Z}) >>) @@
  From(136, << All("push", {Imm(43)}, {Z}) \cup All("mov", {R(R0)}, {Imm(0), Imm(1), Imm(3)}),
               All("bl", {G}, {Z}) \cup All("int", {Imm(1), Imm(2)}, {Z}),
               All("ret", {Z}, {Z}) \cup All("pop", {R(CF)}, {Z}),
               {I("ret", Z, Z)} >>) @@
  From(152, << All("stw", {R(SP), R(FP), Imm(253)}, {R(R0)}) \cup All("mov", {R(R1)}, {Imm(53)}),
               All("int", {Imm(1), Imm(2)}, {Z}) \cup All("push", {R(FP)}, {Z}),
               {I("ret", Z, Z)} >>)

Services == From(INTHANDLER, [k \in DOMAIN Inthandler |-> {Inthandler[k]}])

CallingCode   == Program(Kernel @@ User @@ Services @@ Handler1({}))
ReentrantCode == Program(Kernel @@ User @@ Services @@ Handler1(All("int", {Imm(1)}, {Z})))
=============================================================================
