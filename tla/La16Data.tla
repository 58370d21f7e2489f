------------------------------ MODULE La16Data ------------------------------
(***************************************************************************)
(* The instructions that move data between registers, memory, stack and    *)
(* the serial port (instruction/data.c), and the arithmetic and logic unit *)
(* (instruction/arithmetic.c).                                             *)
(***************************************************************************)
EXTENDS La16Mpp

CanRead(addr, width)  == Access(rl[EL], addr, READ, width)
CanWrite(addr, width) == Access(rl[EL], addr, WRITE, width)

SetSPUnwrapped(regs, val) == [regs EXCEPT ![SP] = val]     \* mutant of SetSP
SetSP(regs, val) == [regs EXCEPT ![SP] = W(val)]

(* A step that touches registers only. *)
RegisterStep(regs) ==
  /\ Retire(regs)
  /\ UNCHANGED <<mem, tables, term, exec>>

Mov(i) ==
  /\ i.op = "mov"
  /\ RegisterStep(Store(rl, i.a, Val(i.b)))

Swp(i) ==
  /\ i.op = "swp"
  /\ RegisterStep(Store(Store(rl, i.a, Val(i.b)), i.b, Val(i.a)))

Swpz(i) ==
  /\ i.op = "swpz"
  /\ RegisterStep(Store(Store(rl, i.a, Val(i.b)), i.b, 0))

(* The destination loses its high byte whether or not the read is granted. *)
Ldb(i) ==
  /\ i.op = "ldb"
  /\ LET granted == CanRead(Val(i.b), 1)
     IN  /\ Retire(Store(rl, i.a, IF granted THEN mem[Val(i.b)] ELSE Low(Val(i.a))))
         /\ FaultUnless(granted)
  /\ UNCHANGED <<mem, tables, exec>>

Ldw(i) ==
  /\ i.op = "ldw"
  /\ LET granted == CanRead(Val(i.b), 2)
     IN  /\ Retire(IF granted THEN Store(rl, i.a, Word16At(Val(i.b))) ELSE rl)
         /\ FaultUnless(granted)
  /\ UNCHANGED <<mem, tables, exec>>

Stb(i) ==
  /\ i.op = "stb"
  /\ LET granted == CanWrite(Val(i.a), 1)
     IN  /\ mem' = IF granted THEN WithByte(Val(i.a), Val(i.b)) ELSE mem
         /\ FaultUnless(granted)
  /\ Retire(rl)
  /\ UNCHANGED <<tables, exec>>

Stw(i) ==
  /\ i.op = "stw"
  /\ LET granted == CanWrite(Val(i.a), 2)
     IN  /\ mem' = IF granted THEN WithWord(Val(i.a), Val(i.b)) ELSE mem
         /\ FaultUnless(granted)
  /\ Retire(rl)
  /\ UNCHANGED <<tables, exec>>

(* The stack pointer moves whether or not the access is granted. *)
Push(i) ==
  /\ i.op = "push"
  /\ LET granted == CanWrite(rl[SP], 2)
     IN  /\ mem' = IF granted THEN WithWord(rl[SP], Val(i.a)) ELSE mem
         /\ FaultUnless(granted)
  /\ Retire(SetSP(rl, rl[SP] - 2))
  /\ UNCHANGED <<tables, exec>>

Pop(i) ==
  /\ i.op = "pop"
  /\ LET top     == W(rl[SP] + 2)
         granted == CanRead(top, 2)
         popped  == SetSP(rl, top)
     IN  /\ Retire(IF granted THEN Store(popped, i.a, Word16At(top)) ELSE popped)
         /\ FaultUnless(granted)
  /\ UNCHANGED <<mem, tables, exec>>

(***************************************************************************)
(* One byte of standard input replaces the low byte of the destination; at *)
(* the end of the input read() leaves it alone, which the choice of the    *)
(* byte covers.  Other ports do nothing.                                   *)
(***************************************************************************)
SERIAL == 0

In(i) ==
  /\ i.op = "in"
  /\ IF rl[EL] = EL0
       THEN Refuse("permission")
       ELSE IF Val(i.b) = SERIAL
       THEN \E char \in Byte : RegisterStep(Store(rl, i.a, High(Val(i.a)) * BYTE + char))
       ELSE RegisterStep(rl)

Out(i) ==
  /\ i.op = "out"
  /\ IF rl[EL] = EL0 THEN Refuse("permission") ELSE RegisterStep(rl)

-----------------------------------------------------------------------------
(* Arithmetic: C's int is two words wide, the result is cut to a word. *)

(* What the proofs need to know of ^. *)
ASSUME PowerAssumption == \A k \in 0 .. 2 * BITS : 2 ^ (k + 1) = 2 * 2 ^ k

WordBit   == 0 .. 2 * BITS - 1
Bit(x, k) == (x \div 2 ^ k) % 2
Abs(x)    == IF x < 0 THEN -x ELSE x
Sign(x)   == IF x < 0 THEN -1 ELSE IF x = 0 THEN 0 ELSE 1

(* The shift count is taken modulo the width of int, as x86 and arm64 do   *)
(* where C leaves it undefined.                                            *)
ShiftCount(y) == y % (4 * BITS)

AluOp == {"add", "sub", "mul", "div", "idiv", "and", "or", "xor",
          "shr", "shl", "ror", "rol"}

(* v is what op computes of x and y.  A division by zero that does not     *)
(* raise a signal (arm64) gives 0.                                         *)
AluResult(op, x, y) == {v \in Word :
  \/ op = "add"  /\ v = W(x + y)
  \/ op = "sub"  /\ v = W(x - y)
  \/ op = "mul"  /\ v = W(x * y)
  \/ op = "div"  /\ v = IF y = 0 THEN 0 ELSE x \div y
  \/ op = "idiv" /\ v = IF y = 0 THEN 0
                        ELSE W(Sign(Signed(x)) * Sign(Signed(y))
                                 * (Abs(Signed(x)) \div Abs(Signed(y))))
  \/ op = "and"  /\ \A k \in WordBit : Bit(v, k) = Bit(x, k) * Bit(y, k)
  \/ op = "or"   /\ \A k \in WordBit : Bit(v, k) = 1 - (1 - Bit(x, k)) * (1 - Bit(y, k))
  \/ op = "xor"  /\ \A k \in WordBit : Bit(v, k) = (Bit(x, k) + Bit(y, k)) % 2
  \/ op = "shr"  /\ v = x \div 2 ^ ShiftCount(y)
  \/ op = "shl"  /\ v = W(x * 2 ^ ShiftCount(y))
  \/ op = "ror"  /\ v = x \div 2
  \/ op = "rol"  /\ v = W(x * 2)}

Alu(i) ==
  /\ i.op \in AluOp
  /\ \E v \in AluResult(i.op, Val(i.a), Val(i.b)) : RegisterStep(Store(rl, i.a, v))

(* A division by zero raises SIGFPE on x86: the process ends. *)
DivisionTrap(i) ==
  /\ i.op \in {"div", "idiv"}
  /\ Val(i.b) = 0
  /\ exec' = "killed"
  /\ UNCHANGED <<rl, mem, tables, term>>

(* Both operands, one after the other. *)
Step(regs, o, by) == Store(regs, o, W(ValIn(regs, o) + by))

IncDec(i) ==
  /\ i.op \in {"inc", "dec"}
  /\ LET by == IF i.op = "inc" THEN 1 ELSE -1
     IN  RegisterStep(Step(Step(rl, i.a, by), i.b, by))

(* The negation of the first operand goes to the second. *)
Not(i) ==
  /\ i.op = "not"
  /\ RegisterStep(Store(rl, i.b, IF Val(i.a) = 0 THEN 1 ELSE 0))
=============================================================================
