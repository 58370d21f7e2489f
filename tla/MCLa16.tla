------------------------------- MODULE MCLa16 -------------------------------
(***************************************************************************)
(* What the checked instances share: a machine with bytes of four bits,    *)
(* and how a program is written down as a function from addresses.         *)
(***************************************************************************)
EXTENDS La16Core, Sequences, TLC

I(op, a, b) == [op |-> op, a |-> a, b |-> b]
Z           == Imm(0)
All(op, as, bs) == {I(op, a, b) : a \in as, b \in bs}

(* Any code: hlt wherever the table says nothing. *)
Program(table) ==
  [addr \in 0 .. WORD - 1 |-> IF addr \in DOMAIN table THEN table[addr] ELSE {I("hlt", Z, Z)}]

MCImages  == {[a \in 0 .. MEM_SIZE - 1 |-> IF a = 0 THEN 8 ELSE 0]}   \* entry point 8
MCIntInit == {[n \in 0 .. WORD - 1 |-> 0]}

(* One set of instructions after the other, from an address on. *)
From(start, sets) ==
  [addr \in {start + 4 * (k - 1) : k \in DOMAIN sets} |-> sets[(addr - start) \div 4 + 1]]
=============================================================================
