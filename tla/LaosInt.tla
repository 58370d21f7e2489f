------------------------------ MODULE LaosInt -------------------------------
(***************************************************************************)
(* The guest kernel's system calls (asm/laos/kint.l16) on the machine: the *)
(* handler of interrupt 0x80 is code like any other, which relies on the   *)
(* frame that int leaves on the stack of the program, on the signed        *)
(* comparison and on arithmetic on pc.                                     *)
(*                                                                         *)
(* asked holds r0 and r1 at the last interrupt, served what the handler    *)
(* has done on the serial port since then.                                 *)
(***************************************************************************)
EXTENDS La16Frames

CONSTANT INTHANDLER        \* address of _inthandler

VARIABLES asked, served

ivars == <<fvars, asked, served>>

R1  == R0 + 1
END == INTHANDLER + 44     \* of intret

Line(op, a, b) == [op |-> op, a |-> a, b |-> b]
To(line)       == Imm(INTHANDLER + 4 * line)
SYS_out == 0
SYS_in  == 1

(* Mutant of Inthandler: the default case is taken from SYS_max on. *)
InthandlerBelowMax ==
  << Line("cmp", R(R0), Imm(SYS_in)),
     Line("jge", To(11), Imm(0)),
     Line("mul", R(R0), Imm(4)),
     Line("add", R(PC), R(R0)),
     Line("jmp", To(6), Imm(0)),
     Line("jmp", To(9), Imm(0)),
     Line("and", R(R1), Imm(BYTE - 1)),
     Line("out", Imm(SERIAL), R(R1)),
     Line("jmp", To(11), Imm(0)),
     Line("in", R(RR), Imm(SERIAL)),
     Line("jmp", To(11), Imm(0)),
     Line("intret", Imm(0), Imm(0)) >>

(* _inthandler, a jump table behind an addition to pc. *)
Inthandler ==
  << Line("cmp", R(R0), Imm(SYS_in)),
     Line("jgt", To(11), Imm(0)),
     Line("mul", R(R0), Imm(4)),
     Line("add", R(PC), R(R0)),
     Line("jmp", To(6), Imm(0)),
     Line("jmp", To(9), Imm(0)),
     Line("and", R(R1), Imm(BYTE - 1)),
     Line("out", Imm(SERIAL), R(R1)),
     Line("jmp", To(11), Imm(0)),
     Line("in", R(RR), Imm(SERIAL)),
     Line("jmp", To(11), Imm(0)),
     Line("intret", Imm(0), Imm(0)) >>

(* Where the kernel is loaded its handler is, and nothing else; a handler  *)
(* at 0 is none.                                                           *)
HandlerLines == {INTHANDLER + 4 * k : k \in 0 .. 11}

ASSUME HandlerAssumption ==
  /\ INTHANDLER \in Nat /\ INTHANDLER > 0 /\ END + 4 < WORD
  /\ \A k \in 0 .. 11 : Code[INTHANDLER + 4 * k] = {Inthandler[k + 1]}

(* A refused in or out does nothing on the port. *)
Serve(i) ==
  /\ asked'  = IF i.op = "int" THEN <<rl[R0], rl[R1]>> ELSE asked
  /\ served' = IF i.op = "int" THEN <<>>
               ELSE IF rl[EL] = EL0 THEN served
               ELSE IF i.op = "out" THEN Append(served, <<"out", Low(Val(i.b))>>)
               ELSE IF i.op = "in"  THEN Append(served, <<"in", Low(rl'[i.a.val])>>)
               ELSE served

IInit == FInit /\ asked = <<0, 0>> /\ served = <<>>

IInstruct == Running /\ FetchGranted /\ \E i \in Code[rl[PC]] : FExecute(i) /\ Serve(i)

INext ==
  \/ (LoadImage \/ RejectImage \/ StartCore \/ StopCore \/ Done) /\ UNCHANGED <<calls, asked, served>>
  \/ IInstruct
  \/ FStop /\ UNCHANGED <<asked, served>>

ISpec == IInit /\ [][INext]_ivars

-----------------------------------------------------------------------------
(* A step from elsewhere, or from intret, to a line of the handler. *)
ComesToHandler ==
  /\ rl' # rl /\ term' = "none"
  /\ rl'[PC] \in HandlerLines /\ rl[PC] \notin HandlerLines \ {END}

(***************************************************************************)
(* Programs come to the lines of the handler only by calls, and by an      *)
(* interrupt only to the first: the jump table adds to pc unchecked, and   *)
(* its entries rely on the comparison before it.                           *)
(***************************************************************************)
EnteredByCalls ==
  [][ComesToHandler =>
       Len(calls') > Len(calls) /\ (Head(calls').by = "int" => rl'[PC] = INTHANDLER)]_ivars

(***************************************************************************)
(* A system call whose number is not negative returns having done what it  *)
(* is for, once, and nothing else: 0 has written the low byte of r1 as it  *)
(* was at the interrupt, 1 has read a byte, which is in rr although every  *)
(* other register is restored, and any other number has done nothing.      *)
(***************************************************************************)
SystemCallsServed ==
  [][rl[PC] = END /\ Len(calls') < Len(calls) /\ Signed(asked[1]) >= 0 =>
       /\ asked[1] = SYS_out => served = << <<"out", Low(asked[2])>> >>
       /\ asked[1] = SYS_in  => served = << <<"in", Low(rl'[RR])>> >>
       /\ asked[1] \notin {SYS_out, SYS_in} => served = <<>>]_ivars
=============================================================================
