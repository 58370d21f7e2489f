-------------------------- MODULE La16FramesProofs --------------------------
(***************************************************************************)
(* The frames that bl, ret, int and intret keep on the stack implement the *)
(* abstract call stack, for every size of word and every number of saved   *)
(* registers, whatever a program that follows the convention runs between; *)
(* and the handler of the guest kernel, entered through such a frame,      *)
(* serves the system calls of every program that comes to it by calls.     *)
(***************************************************************************)
EXTENDS LaosInt, La16Proofs, Induction

(* The stack pointer of the caller suspended in frame k, before its call. *)
FrameTop(k) == FrameAt[k] + 2 * FRAME + (IF calls[k].by = "int" THEN 2 ELSE 0)

(* Frames lie one above the other, in steps of words, and inside the       *)
(* memory; the running code's stack is below the nearest.                  *)
FramesApart ==
  /\ \A k \in 1 .. Depth : FrameAt[k] \in Nat /\ FrameTop(k) + 2 <= MEM_SIZE
  /\ \A j, k \in 1 .. Depth : j < k => FrameTop(j) <= FrameAt[k]
  /\ \A k \in 1 .. Depth - 1 : (FrameAt[k + 1] - FrameAt[k]) % 2 = 0
  /\ calls # <<>> => rl[SP] <= rl[FP] /\ (rl[FP] - rl[SP]) % 2 = 0

(* An interrupt's frame has the stack pointer on top of it. *)
StackPointersSaved ==
  \A k \in 1 .. Depth : calls[k].by = "int" => Word16At(FrameTop(k)) = FrameTop(k)

(* The elevation at which the code entered through frame k runs. *)
LevelIn(call) == IF call.by = "int" THEN EL1 ELSE call.el

ElevationsFollow ==
  /\ calls # <<>> => rl[EL] = LevelIn(calls[1])
  /\ \A k \in 1 .. Depth - 1 : calls[k].el = LevelIn(calls[k + 1])

(* At most one interrupt is being handled, and elb is its elevation. *)
OneInterrupt ==
  \A k \in 1 .. Depth : calls[k].by = "int" =>
    /\ rl[ELB] = calls[k].el
    /\ \A j \in 1 .. Depth : calls[j].by = "int" => j = k

CallsType ==
  /\ calls \in Seq([by : {"bl", "int"}, el : Word])
  /\ exec = "allocated" => calls = <<>>

FramesInv ==
  /\ TypeOK /\ CallsType
  /\ FramesApart /\ StackPointersSaved
  /\ ElevationsFollow /\ OneInterrupt

-----------------------------------------------------------------------------
(* Following fp from frame to frame. *)

FrameAtUnfolds ==
  FrameAt = [k \in Nat |-> IF k <= 1 THEN rl[FP] ELSE CallersFp(FrameAt[k - 1])]

(* The recursion has a solution: any two of its initial pieces agree, and  *)
(* every piece can be prolonged.                                           *)
LEMMA FrameAtExists == FrameAtUnfolds
<1> DEFINE Piece(g, n) ==
      g = [k \in 0 .. n |-> IF k <= 1 THEN rl[FP] ELSE CallersFp(g[k - 1])]
<1>1. ASSUME NEW n \in Nat, NEW g, Piece(g, n), NEW k \in 0 .. n
      PROVE  g[k] = IF k <= 1 THEN rl[FP] ELSE CallersFp(g[k - 1])
  <2> DEFINE h == [j \in 0 .. n |-> IF j <= 1 THEN rl[FP] ELSE CallersFp(g[j - 1])]
  <2>1. h[k] = IF k <= 1 THEN rl[FP] ELSE CallersFp(g[k - 1])
    OBVIOUS
  <2>2. g = h
    BY <1>1
  <2> HIDE DEF h
  <2> QED
    BY <2>1, <2>2
<1>2. \A n \in Nat : \E g : Piece(g, n)
  <2> DEFINE S == {n \in Nat : \E g : Piece(g, n)}
  <2>1. 0 \in S
    <3>1. Piece([k \in 0 .. 0 |-> rl[FP]], 0)
      OBVIOUS
    <3> QED
      BY <3>1
  <2>2. ASSUME NEW n \in Nat, n \in S PROVE n + 1 \in S
    <3>1. PICK g : Piece(g, n)
      BY <2>2
    <3> DEFINE h == [k \in 0 .. n + 1 |-> IF k <= n THEN g[k] ELSE
                                            IF k <= 1 THEN rl[FP] ELSE CallersFp(g[k - 1])]
    <3>2. \A k \in 0 .. n + 1 : h[k] = IF k <= 1 THEN rl[FP] ELSE CallersFp(h[k - 1])
      <4> SUFFICES ASSUME NEW k \in 0 .. n + 1
                   PROVE  h[k] = IF k <= 1 THEN rl[FP] ELSE CallersFp(h[k - 1])
        OBVIOUS
      <4>1. k > 1 => h[k - 1] = g[k - 1]
        OBVIOUS
      <4>2. CASE k <= n
        <5>1. k \in 0 .. n
          BY <4>2
        <5>2. h[k] = g[k]
          BY <4>2
        <5> HIDE DEF Piece, h
        <5> QED
          BY <1>1, <3>1, <4>1, <5>1, <5>2
      <4>3. CASE k > n
        <5>1. h[k] = IF k <= 1 THEN rl[FP] ELSE CallersFp(g[k - 1])
          BY <4>3
        <5> HIDE DEF h
        <5> QED
          BY <4>1, <5>1
      <4> QED
        BY <4>2, <4>3
    <3>3. Piece(h, n + 1)
      BY <3>2
    <3> HIDE DEF h, Piece
    <3> QED
      BY <3>3
  <2>3. Nat \subseteq S
    <3> HIDE DEF S
    <3> QED
      BY <2>1, <2>2, NatBySets
  <2> HIDE DEF Piece
  <2> QED
    BY <2>3
<1>3. \A m, n \in Nat : m <= n => \A g, h : Piece(g, m) /\ Piece(h, n) => \A k \in 0 .. m : g[k] = h[k]
  <2> HIDE DEF Piece
  <2> SUFFICES ASSUME NEW m \in Nat, NEW n \in Nat, m <= n, NEW g, NEW h, Piece(g, m), Piece(h, n)
               PROVE  \A k \in 0 .. m : g[k] = h[k]
    OBVIOUS
  <2>1. \A k \in 0 .. m : /\ g[k] = IF k <= 1 THEN rl[FP] ELSE CallersFp(g[k - 1])
                          /\ h[k] = IF k <= 1 THEN rl[FP] ELSE CallersFp(h[k - 1])
    <3>1. \A k \in 0 .. m : k \in 0 .. n
      OBVIOUS
    <3> QED
      BY <1>1, <3>1
  <2>2. \A k \in 1 .. m - 1 : g[k] = h[k] => g[k + 1] = h[k + 1]
    <3> SUFFICES ASSUME NEW k \in 1 .. m - 1, g[k] = h[k] PROVE g[k + 1] = h[k + 1]
      OBVIOUS
    <3>1. k + 1 \in 0 .. m /\ ~(k + 1 <= 1) /\ (k + 1) - 1 = k
      OBVIOUS
    <3> QED
      BY <2>1, <3>1
  <2>3. g[0] = h[0] /\ (m > 0 => g[1] = h[1])
    BY <2>1
  <2>4. \A k \in 1 .. m : g[k] = h[k]
    BY <2>2, <2>3, AgreeByLinks
  <2>5. \A k \in 0 .. m : k = 0 \/ k \in 1 .. m
    OBVIOUS
  <2> QED
    BY <2>3, <2>4, <2>5
<1> DEFINE Solves(f) == f = [k \in Nat |-> IF k <= 1 THEN rl[FP] ELSE CallersFp(f[k - 1])]
           p == [n \in Nat |-> CHOOSE g : Piece(g, n)]
           f0 == [n \in Nat |-> p[n][n]]
<1>4. \A n \in Nat : Piece(p[n], n)
  <2> HIDE DEF Piece
  <2> QED
    BY <1>2
<1>5. \A n \in Nat : f0[n] = IF n <= 1 THEN rl[FP] ELSE CallersFp(f0[n - 1])
  <2> HIDE DEF Piece, p
  <2> SUFFICES ASSUME NEW n \in Nat
               PROVE  f0[n] = IF n <= 1 THEN rl[FP] ELSE CallersFp(f0[n - 1])
    OBVIOUS
  <2>1. f0[n] = IF n <= 1 THEN rl[FP] ELSE CallersFp(p[n][n - 1])
    BY <1>1, <1>4
  <2>2. n > 1 => p[n - 1][n - 1] = p[n][n - 1]
    BY <1>3, <1>4
  <2>3. n > 1 => f0[n - 1] = p[n - 1][n - 1]
    OBVIOUS
  <2> HIDE DEF f0
  <2> QED
    BY <2>1, <2>2, <2>3
<1>6. Solves(f0)
  BY <1>5
<1> HIDE DEF Solves, f0
<1>7. FrameAt = CHOOSE f : Solves(f)
  BY DEF FrameAt, Solves
<1> QED
  BY <1>6, <1>7 DEF Solves, FrameAtUnfolds

(* The same after a step. *)
LEMMA FrameAtNext == FrameAtUnfolds'
  BY FrameAtExists, PTL

(* The nearest frame is the one at fp, the next is where it says. *)
LEMMA FrameLinks ==
  /\ FrameAt[1] = rl[FP] /\ FrameAt'[1] = rl'[FP]
  /\ \A k \in Nat \ {0} : FrameAt[k + 1] = CallersFp(FrameAt[k])
  /\ \A k \in Nat \ {0} : (FrameAt[k + 1] = CallersFp(FrameAt[k]))'
<1>1. \A k \in Nat : FrameAt[k] = IF k <= 1 THEN rl[FP] ELSE CallersFp(FrameAt[k - 1])
  BY FrameAtExists DEF FrameAtUnfolds
<1>2. \A k \in Nat : FrameAt'[k] = IF k <= 1 THEN rl'[FP] ELSE CallersFp(FrameAt[k - 1])'
  BY FrameAtNext DEF FrameAtUnfolds
<1>3. \A k \in Nat \ {0} : k + 1 \in Nat /\ ~(k + 1 <= 1) /\ (k + 1) - 1 = k
  OBVIOUS
<1>4. \A k \in Nat \ {0} : FrameAt[k + 1] = CallersFp(FrameAt[k])
  BY <1>1, <1>3
<1>5. \A k \in Nat \ {0} : FrameAt'[k + 1] = CallersFp(FrameAt[k])'
  <2> SUFFICES ASSUME NEW k \in Nat \ {0} PROVE FrameAt'[k + 1] = CallersFp(FrameAt[k])'
    OBVIOUS
  <2>1. FrameAt'[k + 1] = CallersFp(FrameAt[(k + 1) - 1])'
    BY <1>2, <1>3
  <2> QED
    BY <2>1, <1>3
<1> QED
  BY <1>1, <1>2, <1>4, <1>5

(***************************************************************************)
(* The frames after a step are those of g if g begins at the new fp and    *)
(* follows the links that the new memory holds.                            *)
(***************************************************************************)
LEMMA FramesAfter ==
  ASSUME NEW n \in Nat, NEW g, n > 0 => g[1] = rl'[FP],
         \A k \in 1 .. n - 1 : \A fp : fp = g[k] => g[k + 1] = CallersFp(fp)'
  PROVE  \A k \in 1 .. n : FrameAt'[k] = g[k]
<1>1. ASSUME NEW k \in 1 .. n - 1, FrameAt'[k] = g[k]
      PROVE  FrameAt'[k + 1] = g[k + 1]
  <2>1. PICK fp : fp = g[k]
    OBVIOUS
  <2>2. FrameAt'[k + 1] = CallersFp(FrameAt[k])'
    BY FrameLinks
  <2>3. CallersFp(FrameAt[k])' = CallersFp(fp)'
    BY <1>1, <2>1 DEF CallersFp, Word16At
  <2> QED
    BY <2>1, <2>2, <2>3
<1> QED
  BY <1>1, FrameLinks, AgreeByLinks

-----------------------------------------------------------------------------
(* What a frame holds. *)

(***************************************************************************)
(* Word k of a series of granted pushes can be read at sp - 2k, and what   *)
(* is above the stack pointer stays as it is.                              *)
(***************************************************************************)
LEMMA PushedWords ==
  ASSUME TypeOK, NEW el \in Word, NEW sp \in Word, NEW n \in Nat, n > 0,
         NEW words \in [0 .. n - 1 -> Word],
         2 * n <= sp, PushesGranted(el, sp, n), mem' = Pushed(el, sp, n, words)
  PROVE  /\ sp + 2 <= MEM_SIZE
         /\ \A k \in 0 .. n - 1 : Word16At(sp - 2 * k)' = words[k]
         /\ \A a \in Addr : a >= sp + 2 => mem'[a] = mem[a]
<1>0. WORD \in Nat /\ MEM_SIZE = WORD - 1 /\ sp \in Nat /\ sp < WORD
  BY SizeFacts DEF Word
<1>1. sp + 2 <= MEM_SIZE
  <2>1. PushGranted(el, sp, 0) /\ sp - 2 * 0 = sp
    BY <1>0 DEF PushesGranted
  <2>2. W(sp) = sp
    BY <1>0 DEF W
  <2> QED
    BY <2>1, <2>2, AccessBounds DEF PushGranted
<1>2. ASSUME NEW a \in Addr, a <= sp + 1 PROVE W(sp + 1 - a) = sp + 1 - a
  <2>1. sp + 1 - a \in 0 .. WORD - 1
    BY <1>0, <1>1, <1>2 DEF Addr
  <2> QED
    BY <2>1, <1>0 DEF W
<1>3. ASSUME NEW a \in Addr, a >= sp + 2 PROVE mem'[a] = mem[a]
  <2> DEFINE depth == W(sp + 1 - a)
  <2>1. depth = sp + 1 - a + WORD
    BY <1>0, <1>3 DEF Addr, W
  <2>2. ~(depth \div 2 < n)
    <3>1. depth \in Nat /\ depth >= 2 * n
      BY <1>0, <1>3, <2>1 DEF Addr
    <3> HIDE DEF depth
    <3> QED
      BY <3>1
  <2> QED
    BY <2>2 DEF Pushed
<1>4. ASSUME NEW k \in 0 .. n - 1 PROVE Word16At(sp - 2 * k)' = words[k]
  <2> DEFINE lo == sp - 2 * k
  <2>1. lo \in Addr /\ lo + 1 \in Addr /\ lo <= sp + 1 /\ lo + 1 <= sp + 1
    BY <1>0, <1>1 DEF Addr
  <2>2. W(sp + 1 - lo) = 2 * k + 1 /\ W(sp + 1 - (lo + 1)) = 2 * k
    BY <1>2, <2>1, <1>0
  <2>3. /\ (2 * k + 1) \div 2 = k /\ (2 * k) \div 2 = k
        /\ (2 * k + 1) % 2 = 1 /\ (2 * k) % 2 = 0 /\ k < n
    OBVIOUS
  <2>4. PushGranted(el, sp, k)
    BY DEF PushesGranted
  <2> HIDE DEF lo
  <2>5. mem'[lo] = Low(words[k]) /\ mem'[lo + 1] = High(words[k])
    BY <2>1, <2>2, <2>3, <2>4 DEF Pushed
  <2>6. words[k] \in Word
    OBVIOUS
  <2>7. Low(words[k]) + BYTE * High(words[k]) = words[k]
    <3>1. \A w \in Nat, b \in Nat \ {0} : (w % b) + b * (w \div b) = w
      OBVIOUS
    <3>2. words[k] \in Nat /\ BYTE \in Nat \ {0}
      BY <2>6, <1>0, SizeAssumption DEF Word
    <3> QED
      BY <3>1, <3>2 DEF Low, High
  <2> QED
    BY <2>5, <2>7 DEF Word16At, lo
<1> QED
  BY <1>1, <1>3, <1>4

(* The bytes of a frame, and their addresses without wrap-around. *)
LEMMA SlotAddresses ==
  ASSUME NEW fp \in Nat, fp + 2 * FRAME + 2 <= MEM_SIZE, NEW k \in FrameSlot
  PROVE  /\ SlotAddr(fp, k) = fp + 2 * (FRAME - k)
         /\ SlotAddr(fp, k) \in Addr /\ SlotAddr(fp, k) + 1 \in Addr
         /\ SlotAddr(fp, k) >= fp + 2
<1>1. /\ FRAME \in Nat /\ MEM_SIZE = WORD - 1 /\ WORD \in Nat
      /\ k \in 0 .. FRAME - 1
  BY SizeFacts, FrameFacts DEF FrameSlot
<1>2. fp + 2 * (FRAME - k) \in Nat /\ fp + 2 * (FRAME - k) + 2 <= MEM_SIZE
      /\ fp + 2 * (FRAME - k) >= fp + 2
  BY <1>1
<1>3. SlotAddr(fp, k) = fp + 2 * (FRAME - k)
  BY <1>1, <1>2 DEF SlotAddr, W
<1> QED
  BY <1>1, <1>2, <1>3 DEF Addr

(* A frame holds registers, and its context is one that a program can see. *)
LEMMA ContextTypes ==
  ASSUME TypeOK, NEW fp \in Nat, NEW call \in [by : {"bl", "int"}, el : Word],
         fp + 2 * FRAME + 2 <= MEM_SIZE,
         call.by = "int" => Word16At(fp + 2 * FRAME + 2) \in Word
  PROVE  /\ ContextIn(call, fp) \in MachineContext
         /\ \A k \in FrameSlot : Word16At(SlotAddr(fp, k)) \in Word
<1>1. \A k \in FrameSlot : Word16At(SlotAddr(fp, k)) \in Word
  BY SlotAddresses, TwoBytes DEF TypeOK, Word16At
<1>2. \A r \in SavedReg : SlotOf(r) \in FrameSlot
  BY SizeAssumption DEF SavedReg, SlotOf, FrameSlot, FRAME, PC, CF, FP, R0, RR
<1>3. 0 \in FrameSlot
  BY FrameFacts DEF FrameSlot
<1>4. \A w \in Word : W(w + 4) \in Word
  BY WordMod DEF Word
<1>5. CallersSp(call.by, fp) \in Word
  <2>1. fp + 2 * FRAME \in Word
    BY FrameFacts, SizeFacts DEF Word
  <2> QED
    BY <2>1 DEF CallersSp
<1>6. \A r \in Observed : ContextIn(call, fp)[r] \in Word
  BY <1>1, <1>2, <1>3, <1>4, <1>5 DEF ContextIn, Observed
<1> QED
  BY <1>1, <1>6 DEF MachineContext, ContextIn

(* A frame is unharmed by steps that change only what lies below it. *)
LEMMA FrameSurvives ==
  ASSUME NEW low \in Nat, \A a \in Addr : a >= low + 2 => mem'[a] = mem[a],
         NEW fp \in Nat, low <= fp, NEW call \in [by : {"bl", "int"}, el : Word],
         fp + 2 * FRAME + (IF call.by = "int" THEN 2 ELSE 0) + 2 <= MEM_SIZE
  PROVE  /\ ContextIn(call, fp)' = ContextIn(call, fp)
         /\ CallersFp(fp)' = CallersFp(fp)
         /\ call.by = "int" => Word16At(fp + 2 * FRAME + 2)' = Word16At(fp + 2 * FRAME + 2)
<1>1. fp + 2 * FRAME + 2 <= MEM_SIZE /\ FRAME \in Nat
  BY FrameFacts, SizeFacts
<1>2. \A k \in FrameSlot : Word16At(SlotAddr(fp, k))' = Word16At(SlotAddr(fp, k))
  <2> SUFFICES ASSUME NEW k \in FrameSlot
               PROVE  Word16At(SlotAddr(fp, k))' = Word16At(SlotAddr(fp, k))
    OBVIOUS
  <2>1. \A a \in {SlotAddr(fp, k), SlotAddr(fp, k) + 1} : a \in Addr /\ a >= low + 2
    BY <1>1, SlotAddresses DEF Addr
  <2> QED
    BY <2>1 DEF Word16At
<1>3. call.by = "int" => Word16At(fp + 2 * FRAME + 2)' = Word16At(fp + 2 * FRAME + 2)
  <2> SUFFICES ASSUME call.by = "int"
               PROVE  Word16At(fp + 2 * FRAME + 2)' = Word16At(fp + 2 * FRAME + 2)
    OBVIOUS
  <2>1. \A a \in {fp + 2 * FRAME + 2, fp + 2 * FRAME + 3} : a \in Addr /\ a >= low + 2
    BY <1>1, SizeFacts DEF Addr
  <2>2. (fp + 2 * FRAME + 2) + 1 = fp + 2 * FRAME + 3
    BY <1>1
  <2> QED
    BY <2>1, <2>2 DEF Word16At
<1>4. \A r \in SavedReg : SlotOf(r) \in FrameSlot
  BY SizeAssumption DEF SavedReg, SlotOf, FrameSlot, FRAME, PC, CF, FP, R0, RR
<1>5. 0 \in FrameSlot /\ FRAME - 1 \in FrameSlot
  BY FrameFacts DEF FrameSlot
<1>6. CallersSp(call.by, fp)' = CallersSp(call.by, fp)
  BY <1>3 DEF CallersSp
<1>7. \A r \in Observed : ContextIn(call, fp)'[r] = ContextIn(call, fp)[r]
  BY <1>2, <1>4, <1>5, <1>6 DEF ContextIn, Observed
<1> QED
  BY <1>2, <1>3, <1>5, <1>7 DEF ContextIn, CallersFp

-----------------------------------------------------------------------------
(* Steps that neither call nor return. *)

(* A register file, whatever the words in it. *)
IsRegs(regs) == regs = [r \in Reg |-> regs[r]]

(* Storing to an operand leaves every other register alone. *)
LEMMA StoreKeeps ==
  ASSUME NEW regs, IsRegs(regs), NEW o \in Operand, NEW v, NEW r \in Reg, o # R(r)
  PROVE  IsRegs(Store(regs, o, v)) /\ Store(regs, o, v)[r] = regs[r]
BY DEF IsRegs, Store, Operand, ImmOperand, RegOperand, R

(* Moving past an instruction leaves all but the program counter alone. *)
LEMMA RetireKeeps ==
  ASSUME NEW regs, IsRegs(regs), Retire(regs), NEW r \in Reg, r # PC
  PROVE  rl'[r] = regs[r]
BY DEF IsRegs, Retire

(***************************************************************************)
(* A register that an instruction does not name, other than the program    *)
(* counter and the comparison flags, keeps its value unless the            *)
(* instruction is one of those that move it by themselves.                 *)
(***************************************************************************)
LEMMA UnnamedKept ==
  ASSUME TypeOK, NEW i, i.a \in Operand, i.b \in Operand, Execute(i),
         i.op \notin {"bl", "int", "ret", "intret", "push", "pop", "stb", "stw"},
         NEW r \in Reg \ {PC, CF}, i.a # R(r), i.b # R(r)
  PROVE  rl'[r] = rl[r] /\ mem' = mem
<1>1. IsRegs(rl)
  BY DEF TypeOK, IsRegs
<1>2. ASSUME NEW regs, IsRegs(regs), regs[r] = rl[r], Retire(regs) PROVE rl'[r] = rl[r]
  BY <1>2, RetireKeeps
<1>3. ASSUME NEW o \in {i.a, i.b}, NEW v, Retire(Store(rl, o, v)) PROVE rl'[r] = rl[r]
  BY <1>1, <1>2, <1>3, StoreKeeps
<1>4. ASSUME NEW v, NEW u, Retire(Store(Store(rl, i.a, v), i.b, u)) PROVE rl'[r] = rl[r]
  <2>1. IsRegs(Store(rl, i.a, v)) /\ Store(rl, i.a, v)[r] = rl[r]
    BY <1>1, StoreKeeps
  <2>2. IsRegs(Store(Store(rl, i.a, v), i.b, u)) /\ Store(Store(rl, i.a, v), i.b, u)[r] = rl[r]
    BY <2>1, StoreKeeps
  <2> QED
    BY <1>2, <1>4, <2>2
<1>5. Retire(rl) => rl'[r] = rl[r]
  BY <1>1, <1>2
<1>6. CASE Hlt(i) \/ Nop(i) \/ In(i) \/ Out(i)
  BY <1>3, <1>5, <1>6 DEF Hlt, Nop, In, Out, Refuse, RegisterStep
<1>7. CASE Mov(i) \/ Swp(i) \/ Swpz(i) \/ Not(i)
  BY <1>3, <1>4, <1>7 DEF Mov, Swp, Swpz, Not, RegisterStep
<1>8. CASE Ldb(i) \/ Ldw(i)
  BY <1>3, <1>5, <1>8 DEF Ldb, Ldw
<1>9. CASE Alu(i) \/ DivisionTrap(i)
  BY <1>3, <1>9 DEF Alu, DivisionTrap, RegisterStep
<1>10. CASE IncDec(i)
  BY <1>4, <1>10 DEF IncDec, Step, RegisterStep
<1>11. CASE Cmp(i) \/ Jump(i)
  <2>1. \A v : IsRegs([rl EXCEPT ![CF] = v]) /\ [rl EXCEPT ![CF] = v][r] = rl[r]
    BY <1>1 DEF IsRegs
  <2>2. \A v : IsRegs(Goto(rl, v)) /\ Goto(rl, v)[r] = rl[r]
    BY <1>1 DEF IsRegs, Goto
  <2> QED
    BY <1>2, <1>5, <1>11, <2>1, <2>2 DEF Cmp, Jump, RegisterStep
<1>12. CASE \/ Intset(i) \/ Ppcnt(i) \/ Ppktrrset(i) \/ Vpset(i) \/ Vpget(i)
            \/ Vpflgset(i) \/ Vpflgget(i) \/ Vpaddr(i)
  BY <1>3, <1>5, <1>12
  DEF Intset, Ppcnt, Ppktrrset, Vpset, Vpget, Vpflgset, Vpflgget, Vpaddr, Refuse
<1> QED
  BY <1>6, <1>7, <1>8, <1>9, <1>10, <1>11, <1>12
     DEF Execute, Bl, Ret, Interrupt, Intret, Push, Pop, Stb, Stw

(* The instruction that runs is the one that was decoded. *)
LEMMA ExecutesOp ==
  ASSUME NEW i, Execute(i)
  PROVE  /\ i.op = "push" => Push(i)
         /\ i.op = "pop" => Pop(i)
         /\ i.op = "stb" => Stb(i)
         /\ i.op = "stw" => Stw(i)
         /\ i.op = "bl" => Bl(i)
         /\ i.op = "ret" => Ret(i)
         /\ i.op = "int" => Interrupt(i)
         /\ i.op = "intret" => Intret(i)
BY DEF Execute, Hlt, Nop, In, Out, Ldb, Stb, Ldw, Stw, Mov, Swp, Swpz, Push, Pop, Alu, AluOp,
       DivisionTrap, IncDec, Not, Jump, Cmp, Bl, Ret, Interrupt, Intset, Intret, Ppcnt,
       Ppktrrset, Vpset, Vpget, Vpflgset, Vpflgget, Vpaddr

(* What is in range is not cut. *)
LEMMA InRange == ASSUME NEW x \in Nat, x < WORD PROVE W(x) = x
BY SizeFacts DEF W

(* The named registers are different ones. *)
LEMMA RegistersDiffer ==
  /\ \A r \in {SP, FP, CF, EL, ELB} : r # PC
  /\ SP # FP /\ SP # CF /\ FP # CF
  /\ \A r \in {PC, SP, FP, CF} : r # EL /\ r # ELB
  /\ EL # ELB
BY SizeAssumption DEF PC, SP, FP, CF, EL, ELB, RR, R0

(***************************************************************************)
(* Within the convention an instruction that neither calls nor returns     *)
(* leaves the frames alone, and all that the machine needs to find them.   *)
(***************************************************************************)
LEMMA WorkKeeps ==
  ASSUME FramesInv, NEW i, i.a \in Operand, i.b \in Operand, Disciplined(i), Execute(i),
         i.op \notin {"bl", "int", "ret", "intret"}
  PROVE  /\ rl'[FP] = rl[FP] /\ rl'[ELB] = rl[ELB]
         /\ calls # <<>> => /\ rl'[EL] = rl[EL]
                            /\ rl'[SP] <= rl'[FP] /\ (rl'[FP] - rl'[SP]) % 2 = 0
                            /\ \A a \in Addr : a >= rl[FP] + 2 => mem'[a] = mem[a]
<1> USE RegistersDiffer, RegisterNumbers
<1>0. /\ TypeOK /\ IsRegs(rl) /\ WORD \in Nat
      /\ rl[SP] \in Nat /\ rl[FP] \in Nat /\ rl[SP] < WORD /\ rl[FP] < WORD
      /\ calls # <<>> => rl[SP] <= rl[FP] /\ (rl[FP] - rl[SP]) % 2 = 0
  <2>1. TypeOK /\ rl \in [Reg -> Word]
    BY DEF FramesInv, TypeOK
  <2>2. rl[SP] \in Word /\ rl[FP] \in Word /\ IsRegs(rl)
    BY <2>1 DEF IsRegs
  <2>3. calls # <<>> => rl[SP] <= rl[FP] /\ (rl[FP] - rl[SP]) % 2 = 0
    BY DEF FramesInv, FramesApart
  <2> QED
    BY <2>1, <2>2, <2>3, SizeFacts DEF Word
<1>a. ASSUME NEW addr \in Word, NEW v, NEW a \in Addr, NEW top \in Nat
      PROVE  /\ addr + 1 <= top /\ a >= top => WithByte(addr, v)[a] = mem[a]
             /\ addr + 2 <= top /\ a >= top => WithWord(addr, v)[a] = mem[a]
  <2>1. addr \in Nat /\ a \in Nat
    BY SizeFacts DEF Addr, Word
  <2> QED
    BY <1>0, <2>1, StoredBytes
<1>1. ASSUME NEW o \in Operand, FreeRegister(o)
      PROVE  /\ o # R(FP) /\ o # R(ELB)
             /\ calls # <<>> => o # R(SP) /\ o # R(EL)
  BY <1>1 DEF FreeRegister, R
<1>2. CASE i.op \notin {"push", "pop", "stb", "stw"}
  <2>1. FreeRegister(i.a) /\ FreeRegister(i.b)
    BY <1>2 DEF Disciplined
  <2>2. ASSUME NEW r \in {SP, FP, EL, ELB}, i.a # R(r), i.b # R(r) PROVE rl'[r] = rl[r]
    BY <1>0, <1>2, <2>2, UnnamedKept
  <2>3. rl'[FP] = rl[FP] /\ rl'[ELB] = rl[ELB]
    BY <1>1, <2>1, <2>2
  <2>4. calls # <<>> => rl'[SP] = rl[SP] /\ rl'[EL] = rl[EL]
    BY <1>1, <2>1, <2>2
  <2>5. mem' = mem
    BY <1>0, <1>1, <1>2, <2>1, UnnamedKept
  <2> QED
    BY <1>0, <2>3, <2>4, <2>5
<1>3. CASE i.op \in {"stb", "stw"}
  <2>1. Stb(i) \/ Stw(i)
    BY <1>3, ExecutesOp
  <2>2. Retire(rl)
    BY <2>1 DEF Stb, Stw
  <2>3. \A r \in {SP, FP, EL, ELB} : rl'[r] = rl[r]
    BY <1>0, <2>2, RetireKeeps
  <2>4. Val(i.a) \in Word /\ Val(i.a) \in Nat
    BY <1>0, OperandFacts, SizeFacts DEF Word
  <2>5. ASSUME calls # <<>>, NEW a \in Addr, a >= rl[FP] + 2 PROVE mem'[a] = mem[a]
    <3>1. CASE i.op = "stb"
      <4>1. Val(i.a) + 1 <= rl[FP] + 2 /\ mem' \in {mem, WithByte(Val(i.a), Val(i.b))}
        BY <2>5, <3>1, ExecutesOp DEF Disciplined, BelowFrames, Stb
      <4> QED
        BY <1>0, <1>a, <2>4, <2>5, <4>1
    <3>2. CASE i.op = "stw"
      <4>1. Val(i.a) + 2 <= rl[FP] + 2 /\ mem' \in {mem, WithWord(Val(i.a), Val(i.b))}
        BY <2>5, <3>2, ExecutesOp DEF Disciplined, BelowFrames, Stw
      <4> QED
        BY <1>0, <1>a, <2>4, <2>5, <4>1
    <3> QED
      BY <1>3, <3>1, <3>2
  <2> QED
    BY <1>0, <2>3, <2>5
<1>4. CASE i.op = "push"
  <2>1. Push(i) /\ rl[SP] >= 2 /\ BelowFrames(rl[SP], 2)
    BY <1>4, ExecutesOp DEF Disciplined, Room
  <2>2. W(rl[SP] - 2) = rl[SP] - 2
    BY <1>0, <2>1 DEF W
  <2>3. IsRegs(SetSP(rl, rl[SP] - 2)) /\ SetSP(rl, rl[SP] - 2)[SP] = rl[SP] - 2
        /\ \A r \in {FP, EL, ELB} : SetSP(rl, rl[SP] - 2)[r] = rl[r]
    BY <1>0, <2>2 DEF SetSP, IsRegs
  <2>4. rl'[SP] = rl[SP] - 2 /\ \A r \in {FP, EL, ELB} : rl'[r] = rl[r]
    BY <2>1, <2>3, RetireKeeps DEF Push
  <2>5. ASSUME calls # <<>>, NEW a \in Addr, a >= rl[FP] + 2 PROVE mem'[a] = mem[a]
    <3>1. rl[SP] + 2 <= rl[FP] + 2 /\ rl[SP] \in Word
      BY <2>1, <2>5, <1>0 DEF BelowFrames, TypeOK
    <3>2. mem' \in {mem, WithWord(rl[SP], Val(i.a))}
      BY <2>1 DEF Push
    <3> QED
      BY <1>0, <1>a, <2>5, <3>1, <3>2
  <2> QED
    BY <1>0, <2>4, <2>5
<1>5. CASE i.op = "pop"
  <2>1. Pop(i) /\ FreeRegister(i.a) /\ (calls # <<>> => rl[SP] < rl[FP])
    BY <1>5, ExecutesOp DEF Disciplined
  <2> DEFINE popped == SetSP(rl, W(rl[SP] + 2))
  <2>2. IsRegs(popped) /\ (\A r \in {FP, EL, ELB} : popped[r] = rl[r])
        /\ popped[SP] = W(W(rl[SP] + 2))
    BY <1>0 DEF SetSP, IsRegs
  <2>3. calls # <<>> => W(W(rl[SP] + 2)) = rl[SP] + 2 /\ rl[SP] + 2 <= rl[FP]
    <3> SUFFICES ASSUME calls # <<>>
                 PROVE  W(W(rl[SP] + 2)) = rl[SP] + 2 /\ rl[SP] + 2 <= rl[FP]
      OBVIOUS
    <3>1. rl[SP] + 2 <= rl[FP]
      BY <1>0, <2>1
    <3>2. rl[SP] + 2 \in Nat /\ rl[SP] + 2 < WORD
      BY <1>0, <3>1
    <3>3. W(rl[SP] + 2) = rl[SP] + 2
      BY <3>2, InRange
    <3> QED
      BY <3>1, <3>3
  <2> HIDE DEF popped
  <2>4. PICK v : Retire(Store(popped, i.a, v)) \/ Retire(popped)
    BY <2>1 DEF Pop, popped
  <2>5. /\ \A r \in {FP, ELB} : rl'[r] = popped[r]
        /\ calls # <<>> => \A r \in {SP, EL} : rl'[r] = popped[r]
    <3>1. ASSUME NEW r \in {SP, FP, EL, ELB}, i.a # R(r) PROVE rl'[r] = popped[r]
      <4>1. IsRegs(Store(popped, i.a, v)) /\ Store(popped, i.a, v)[r] = popped[r]
        BY <2>2, <3>1, StoreKeeps
      <4> QED
        BY <2>2, <2>4, <4>1, RetireKeeps
    <3> QED
      BY <1>1, <2>1, <3>1
  <2>6. mem' = mem
    BY <2>1 DEF Pop
  <2> QED
    BY <1>0, <2>2, <2>3, <2>5, <2>6
<1> QED
  BY <1>2, <1>3, <1>4, <1>5

-----------------------------------------------------------------------------
(* The frames of a state and of the next. *)

Call == [by : {"bl", "int"}, el : Word]

(* What the invariant says of one frame. *)
LEMMA FrameInMemory ==
  ASSUME FramesInv, NEW k \in 1 .. Depth
  PROVE  /\ calls[k] \in Call /\ FrameAt[k] \in Nat /\ rl[FP] <= FrameAt[k]
         /\ FrameAt[k] + 2 * FRAME + (IF calls[k].by = "int" THEN 2 ELSE 0) + 2 <= MEM_SIZE
         /\ CallersSp(calls[k].by, FrameAt[k]) = FrameTop(k)
         /\ InFrame(k) \in MachineContext
<1>1. calls[k] \in Call /\ 1 \in 1 .. Depth /\ Depth \in Nat /\ k \in Nat
  <2>1. calls \in Seq(Call) /\ Depth = Len(calls)
    BY DEF FramesInv, CallsType, Call, Depth
  <2>2. Len(calls) \in Nat
    BY <2>1
  <2>3. k \in 1 .. Len(calls) /\ k \in Nat /\ 1 \in 1 .. Len(calls)
    BY <2>1, <2>2
  <2>4. calls[k] \in Call
    BY <2>1, <2>3
  <2> QED
    BY <2>1, <2>2, <2>3, <2>4
<1>2. /\ FrameAt[k] \in Nat /\ FrameTop(k) + 2 <= MEM_SIZE
      /\ FrameAt[1] \in Nat /\ (k # 1 => FrameTop(1) <= FrameAt[k])
  BY <1>1 DEF FramesInv, FramesApart
<1>3. FRAME \in Nat /\ MEM_SIZE \in Nat /\ FrameAt[1] = rl[FP]
  BY FrameFacts, FrameLinks, SizeFacts
<1>4. rl[FP] <= FrameAt[k]
  BY <1>1, <1>2, <1>3 DEF FrameTop
<1>5. FrameTop(k) \in Word
  BY <1>2, <1>3, SizeFacts DEF FrameTop, Word
<1>6. calls[k].by = "int" => Word16At(FrameAt[k] + 2 * FRAME + 2) = FrameTop(k)
  BY DEF FramesInv, StackPointersSaved, FrameTop
<1>7. calls[k].by \in {"bl", "int"}
  BY <1>1 DEF Call
<1>8. CallersSp(calls[k].by, FrameAt[k]) = FrameTop(k)
  BY <1>2, <1>3, <1>6, <1>7 DEF CallersSp, FrameTop
<1>9. FrameAt[k] + 2 * FRAME + 2 <= MEM_SIZE
  BY <1>2, <1>3 DEF FrameTop
<1>10. InFrame(k) \in MachineContext
  BY <1>1, <1>2, <1>5, <1>6, <1>9, ContextTypes DEF InFrame, Call, FramesInv
<1> QED
  BY <1>1, <1>2, <1>4, <1>8, <1>10 DEF FrameTop

(* What is above the running code's frame pointer stays. *)
AboveKept == calls # <<>> => \A a \in Addr : a >= rl[FP] + 2 => mem'[a] = mem[a]

(* A frame that is still in use, now as number j, holds what it held. *)
LEMMA FrameKept ==
  ASSUME FramesInv, AboveKept, NEW k \in 1 .. Depth,
         NEW j, calls'[j] = calls[k], FrameAt'[j] = FrameAt[k]
  PROVE  /\ InFrame(j)' = InFrame(k)
         /\ FrameTop(j)' = FrameTop(k)
         /\ (calls[j].by = "int" => Word16At(FrameTop(j)) = FrameTop(j))'
<1>1. PICK call \in Call, fp \in Nat : call = calls[k] /\ fp = FrameAt[k]
  BY FrameInMemory
<1>2. /\ rl[FP] \in Nat /\ rl[FP] <= fp
      /\ \A a \in Addr : a >= rl[FP] + 2 => mem'[a] = mem[a]
      /\ fp + 2 * FRAME + (IF call.by = "int" THEN 2 ELSE 0) + 2 <= MEM_SIZE
  <2>1. calls # <<>>
    BY DEF FramesInv, CallsType, Depth
  <2>2. rl[FP] \in Nat
    BY RegisterNumbers, SizeFacts DEF FramesInv, TypeOK, Word
  <2> QED
    BY <1>1, <2>1, <2>2, FrameInMemory DEF AboveKept
<1>3. /\ ContextIn(call, fp)' = ContextIn(call, fp)
      /\ call.by = "int" => Word16At(fp + 2 * FRAME + 2)' = Word16At(fp + 2 * FRAME + 2)
  BY <1>2, FrameSurvives DEF Call
<1>4. InFrame(k) = ContextIn(call, fp)
  BY <1>1 DEF InFrame
<1>5. InFrame(j)' = ContextIn(call, fp)'
  BY <1>1 DEF InFrame, ContextIn, CallersSp, Word16At
<1>6. FrameTop(j)' = FrameTop(k) /\ FrameTop(k) = fp + 2 * FRAME + (IF call.by = "int" THEN 2 ELSE 0)
  BY <1>1 DEF FrameTop
<1>7. call.by = "int" => Word16At(fp + 2 * FRAME + 2) = fp + 2 * FRAME + 2
  BY <1>1, <1>6 DEF FramesInv, StackPointersSaved
<1>8. (calls[j].by = "int" => Word16At(FrameTop(j)) = FrameTop(j))'
  <2> SUFFICES ASSUME call.by = "int" PROVE Word16At(FrameTop(j))' = FrameTop(j)'
    BY <1>1
  <2>1. PICK top : top = FrameTop(j)' /\ top = fp + 2 * FRAME + 2
    BY <1>6
  <2>2. Word16At(top)' = top
    BY <1>3, <1>7, <2>1
  <2>3. Word16At(FrameTop(j))' = Word16At(top)'
    BY <2>1 DEF Word16At
  <2> QED
    BY <2>1, <2>2, <2>3
<1> QED
  BY <1>3, <1>4, <1>5, <1>6, <1>8

(* A link that is above the running code's frame pointer stays. *)
LEMMA LinkKept ==
  ASSUME FramesInv, AboveKept, NEW k \in 1 .. Depth, NEW fp, fp = FrameAt[k]
  PROVE  FrameAt[k + 1] = CallersFp(fp)'
<1>1. PICK call \in Call : call = calls[k]
  BY FrameInMemory
<1>2. /\ rl[FP] \in Nat /\ rl[FP] <= fp /\ fp \in Nat
      /\ \A a \in Addr : a >= rl[FP] + 2 => mem'[a] = mem[a]
      /\ fp + 2 * FRAME + (IF call.by = "int" THEN 2 ELSE 0) + 2 <= MEM_SIZE
  <2>1. calls # <<>>
    BY DEF FramesInv, CallsType, Depth
  <2>2. rl[FP] \in Nat
    BY RegisterNumbers, SizeFacts DEF FramesInv, TypeOK, Word
  <2> QED
    BY <1>1, <2>1, <2>2, FrameInMemory DEF AboveKept
<1>3. CallersFp(fp)' = CallersFp(fp)
  BY <1>2, FrameSurvives DEF Call
<1>4. FrameAt[k + 1] = CallersFp(FrameAt[k])
  BY FrameLinks DEF Depth
<1> QED
  BY <1>3, <1>4

Frames == [k \in 1 .. Depth |-> InFrame(k)]

(* A typed state's registers are a context. *)
LEMMA RunningContextType == TypeOK => RunningContext \in MachineContext
BY RegisterNumbers DEF TypeOK, RunningContext, MachineContext, Observed

(* The suspended contexts are a sequence of contexts. *)
LEMMA FramesType ==
  ASSUME FramesInv
  PROVE  /\ Depth \in Nat /\ calls \in Seq(Call) /\ (calls = <<>> <=> Depth = 0)
         /\ Frames \in Seq(MachineContext) /\ Len(Frames) = Depth
<1>1. calls \in Seq(Call) /\ Depth = Len(calls)
  BY DEF FramesInv, CallsType, Call, Depth
<1>2. Depth \in Nat /\ (calls = <<>> <=> Depth = 0)
  BY <1>1
<1>3. \A k \in 1 .. Depth : InFrame(k) \in MachineContext
  BY FrameInMemory
<1> QED
  BY <1>1, <1>2, <1>3 DEF Frames

(***************************************************************************)
(* A step that works: the calls, fp, elb and the frames stay as they are,  *)
(* and so do the elevation and the discipline of sp within a call.         *)
(***************************************************************************)
Works ==
  /\ TypeOK' /\ calls' = calls /\ (exec' = "allocated" => exec = "allocated")
  /\ calls # <<>> => /\ rl'[FP] = rl[FP] /\ rl'[ELB] = rl[ELB] /\ rl'[EL] = rl[EL]
                     /\ rl'[SP] <= rl'[FP] /\ (rl'[FP] - rl'[SP]) % 2 = 0
  /\ AboveKept

LEMMA WorksImplements ==
  ASSUME FramesInv, Works
  PROVE  FramesInv' /\ Stack!Work
<1>1. /\ Depth' = Depth /\ Depth \in Nat /\ calls \in Seq(Call)
      /\ calls' = calls /\ (calls = <<>> <=> Depth = 0)
  BY FramesType DEF Works, Depth
<1>2. \A k \in 1 .. Depth : FrameAt'[k] = FrameAt[k]
  <2>1. Depth > 0 => FrameAt[1] = rl'[FP]
    BY <1>1, FrameLinks DEF Works
  <2>2. \A k \in 1 .. Depth - 1 : \A fp : fp = FrameAt[k] => FrameAt[k + 1] = CallersFp(fp)'
    BY <1>1, LinkKept DEF Works
  <2> QED
    BY <1>1, <2>1, <2>2, FramesAfter
<1>3. \A k \in 1 .. Depth :
        /\ InFrame(k)' = InFrame(k) /\ FrameTop(k)' = FrameTop(k)
        /\ (calls[k].by = "int" => Word16At(FrameTop(k)) = FrameTop(k))'
  BY <1>1, <1>2, FrameKept DEF Works
<1>4. CallsType'
  BY <1>1 DEF FramesInv, CallsType, Works
<1>5. FramesApart'
  BY <1>1, <1>2, <1>3 DEF FramesInv, FramesApart, Works
<1>6. StackPointersSaved'
  BY <1>1, <1>3 DEF StackPointersSaved
<1>7. ElevationsFollow' /\ OneInterrupt'
  <2>1. ElevationsFollow'
    BY <1>1 DEF FramesInv, ElevationsFollow, LevelIn, Works
  <2>2. OneInterrupt'
    BY <1>1 DEF FramesInv, OneInterrupt, Works
  <2> QED
    BY <2>1, <2>2
<1>8. Frames' = Frames
  BY <1>1, <1>3 DEF Frames
<1>9. RunningContext' \in MachineContext
  <2>1. TypeOK' => (RunningContext \in MachineContext)'
    BY RunningContextType, PTL
  <2> QED
    BY <2>1 DEF Works, MachineContext
<1> QED
  BY <1>4, <1>5, <1>6, <1>7, <1>8, <1>9 DEF FramesInv, Works, Stack!Work, Frames

-----------------------------------------------------------------------------
(***************************************************************************)
(* A step that enters code through a new frame at fp: the registers are in *)
(* the frame's words, and what lay above the stack pointer stays.          *)
(***************************************************************************)
Enters(call, fp) ==
  /\ TypeOK' /\ call \in Call /\ fp \in Nat
  /\ exec # "allocated" /\ exec' = exec /\ calls' = <<call>> \o calls
  /\ call.by = "int" => ~Handling
  /\ call.el = rl[EL] /\ rl'[EL] = LevelIn(call)
  /\ rl'[ELB] = IF call.by = "int" THEN rl[EL] ELSE rl[ELB]
  /\ rl'[FP] = fp /\ rl'[SP] = fp
  /\ \A r \in (R0 .. RR - 1) \cup {CF} : rl'[r] = rl[r]
  /\ rl[SP] = fp + 2 * FRAME + (IF call.by = "int" THEN 2 ELSE 0) /\ rl[SP] + 2 <= MEM_SIZE
  /\ \A k \in FrameSlot : Word16At(fp + 2 * (FRAME - k))' = rl[RegIn(k)]
  /\ call.by = "int" => Word16At(fp + 2 * FRAME + 2)' = rl[SP]
  /\ \A a \in Addr : a >= rl[SP] + 2 => mem'[a] = mem[a]

(* The new frame holds the context that was running. *)
LEMMA NewFrame ==
  ASSUME FramesInv, NEW call, NEW fp, Enters(call, fp)
  PROVE  CallersFp(fp)' = rl[FP] /\ ContextIn(call, fp)' = Resumable(RunningContext)
<1>1. fp \in Nat /\ fp + 2 * FRAME + 2 <= MEM_SIZE /\ FRAME \in Nat /\ FRAME >= 4
  BY FrameFacts, SizeFacts DEF Enters
<1>2. \A k \in FrameSlot : Word16At(SlotAddr(fp, k))' = rl[RegIn(k)]
  <2>1. \A k \in FrameSlot : SlotAddr(fp, k) = fp + 2 * (FRAME - k)
    BY <1>1, SlotAddresses
  <2> QED
    BY <2>1 DEF Enters
<1>3. RegIn(FRAME - 1) = FP /\ FRAME - 1 \in FrameSlot
  BY <1>1 DEF RegIn, FrameSlot
<1>4. CallersFp(fp)' = rl[FP]
  BY <1>2, <1>3 DEF CallersFp
<1>5. \A r \in SavedReg : SlotOf(r) \in FrameSlot /\ RegIn(SlotOf(r)) = r
  BY SizeAssumption DEF SavedReg, SlotOf, RegIn, FrameSlot, FRAME, PC, CF, FP, R0, RR
<1>6. \A r \in SavedReg : Word16At(SlotAddr(fp, SlotOf(r)))' = rl[r]
  BY <1>2, <1>5
<1>7. SlotOf(PC) = 0 /\ PC \in SavedReg
  BY DEF SlotOf, SavedReg
<1>8. CallersSp(call.by, fp)' = rl[SP]
  <2>1. call.by \in {"bl", "int"}
    BY DEF Enters, Call
  <2>2. CASE call.by = "bl"
    BY <1>1, <2>2 DEF CallersSp, Enters
  <2>3. CASE call.by = "int"
    BY <2>3 DEF CallersSp, Enters
  <2> QED
    BY <2>1, <2>2, <2>3
<1>9. \A r \in Observed : ContextIn(call, fp)'[r] = IF r = PC THEN W(rl[PC] + 4) ELSE rl[r]
  <2>1. PC # EL /\ PC # SP
    BY RegistersDiffer
  <2>2. call.el = rl[EL]
    BY DEF Enters
  <2> QED
    BY <1>6, <1>7, <1>8, <2>1, <2>2 DEF ContextIn, Observed
<1>10. PC \in Observed
  BY <1>7 DEF Observed
<1>11. Resumable(RunningContext) = [r \in Observed |-> IF r = PC THEN W(rl[PC] + 4) ELSE rl[r]]
  BY <1>10 DEF Resumable, RunningContext
<1>12. ContextIn(call, fp)' = [r \in Observed |-> ContextIn(call, fp)'[r]]
  BY DEF ContextIn
<1> QED
  BY <1>4, <1>9, <1>11, <1>12

(* Where the frames are after such a step: each has one number more. *)
LEMMA FramesMove ==
  ASSUME FramesInv, NEW call, NEW fp, Enters(call, fp)
  PROVE  /\ Depth' = Depth + 1 /\ calls' \in Seq(Call) /\ calls'[1] = call
         /\ \A k \in 1 .. Depth : calls'[k + 1] = calls[k] /\ FrameAt'[k + 1] = FrameAt[k]
         /\ FrameAt'[1] = fp
         /\ rl[SP] \in Nat /\ (calls # <<>> => rl[SP] <= rl[FP])
         /\ AboveKept
<1>1. /\ Depth \in Nat /\ calls \in Seq(Call) /\ (calls = <<>> <=> Depth = 0)
      /\ Depth = Len(calls)
  BY FramesType DEF Depth
<1>2. call \in Call /\ calls' = <<call>> \o calls
  BY DEF Enters
<1>3. /\ calls' \in Seq(Call) /\ Len(calls') = Depth + 1 /\ calls'[1] = call
      /\ \A k \in 1 .. Depth : calls'[k + 1] = calls[k]
  <2>1. <<call>> \in Seq(Call) /\ Len(<<call>>) = 1 /\ <<call>>[1] = call
    BY <1>2
  <2>2. calls' \in Seq(Call) /\ Len(calls') = 1 + Len(calls)
    BY <1>1, <1>2, <2>1
  <2>3. \A k \in 1 .. Len(calls') : calls'[k] = IF k <= 1 THEN <<call>>[k] ELSE calls[k - 1]
    BY <1>1, <1>2, <2>1
  <2> QED
    BY <1>1, <2>1, <2>2, <2>3
<1>4. Depth' = Depth + 1
  BY <1>3 DEF Depth
<1>5. rl[SP] \in Nat /\ rl[FP] \in Nat /\ (calls # <<>> => rl[SP] <= rl[FP])
  BY RegisterNumbers, SizeFacts DEF FramesInv, TypeOK, FramesApart, Word
<1>6. AboveKept
  BY <1>5, SizeFacts DEF Enters, AboveKept, Addr
<1> DEFINE g == [k \in 1 .. Depth + 1 |-> IF k = 1 THEN fp ELSE FrameAt[k - 1]]
<1>7. g[1] = fp /\ \A k \in 1 .. Depth : g[k + 1] = FrameAt[k]
  BY <1>1
<1>8. \A k \in 1 .. (Depth + 1) - 1 : \A at : at = g[k] => g[k + 1] = CallersFp(at)'
  <2> HIDE DEF g
  <2> SUFFICES ASSUME NEW k \in 1 .. Depth, NEW at, at = g[k] PROVE FrameAt[k] = CallersFp(at)'
    BY <1>1, <1>7
  <2>1. CASE k = 1
    BY <1>7, <2>1, NewFrame, FrameLinks
  <2>2. CASE k # 1
    <3>1. k - 1 \in 1 .. Depth /\ (k - 1) + 1 = k
      BY <1>1, <2>2
    <3>2. at = FrameAt[k - 1]
      BY <1>7, <3>1
    <3> QED
      BY <1>6, <3>1, <3>2, LinkKept
  <2> QED
    BY <2>1, <2>2
<1>9. \A k \in 1 .. Depth + 1 : FrameAt'[k] = g[k]
  <2>1. g[1] = rl'[FP] /\ Depth + 1 \in Nat
    BY <1>1, <1>7 DEF Enters
  <2> HIDE DEF g
  <2> QED
    BY <1>8, <2>1, FramesAfter
<1>10. FrameAt'[1] = fp /\ \A k \in 1 .. Depth : FrameAt'[k + 1] = FrameAt[k]
  <2> HIDE DEF g
  <2>1. 1 \in 1 .. Depth + 1 /\ \A k \in 1 .. Depth : k + 1 \in 1 .. Depth + 1
    BY <1>1
  <2> QED
    BY <1>7, <1>9, <2>1
<1> QED
  BY <1>3, <1>4, <1>5, <1>6, <1>10

LEMMA EntersImplements ==
  ASSUME FramesInv, NEW call, NEW fp, Enters(call, fp)
  PROVE  FramesInv' /\ Stack!Call
<1>1. /\ Depth \in Nat /\ (calls = <<>> <=> Depth = 0) /\ FRAME \in Nat
      /\ Depth' = Depth + 1 /\ calls' \in Seq(Call) /\ calls'[1] = call
      /\ \A k \in 1 .. Depth : calls'[k + 1] = calls[k] /\ FrameAt'[k + 1] = FrameAt[k]
      /\ FrameAt'[1] = fp
      /\ rl[SP] \in Nat /\ (calls # <<>> => rl[SP] <= rl[FP])
  BY FramesType, FramesMove, FrameFacts
<1>2. \A k \in 1 .. Depth : /\ InFrame(k + 1)' = InFrame(k)
                            /\ FrameTop(k + 1)' = FrameTop(k)
                            /\ (calls[k + 1].by = "int" => Word16At(FrameTop(k + 1)) = FrameTop(k + 1))'
  BY FramesMove, FrameKept
<1>3. FrameTop(1)' = rl[SP] /\ InFrame(1)' = Resumable(RunningContext)
  <2>1. FrameTop(1)' = fp + 2 * FRAME + (IF call.by = "int" THEN 2 ELSE 0)
    BY <1>1 DEF FrameTop
  <2>2. InFrame(1)' = ContextIn(call, fp)'
    BY <1>1 DEF InFrame, ContextIn, CallersSp, Word16At
  <2> QED
    BY <2>1, <2>2, NewFrame DEF Enters
<1>4. \A k \in 1 .. Depth' : k = 1 \/ (k - 1 \in 1 .. Depth /\ (k - 1) + 1 = k)
  BY <1>1
<1>5. TypeOK' /\ CallsType'
  BY <1>1 DEF CallsType, Call, Enters
<1>6. FramesApart'
  <2>1. \A k \in 1 .. Depth : /\ FrameAt[k] \in Nat /\ FrameTop(k) + 2 <= MEM_SIZE
                              /\ rl[SP] <= FrameAt[k]
    <3>1. rl[FP] \in Nat /\ (Depth # 0 => calls # <<>>)
      BY <1>1, RegisterNumbers, SizeFacts DEF FramesInv, TypeOK, Word
    <3>2. \A k \in 1 .. Depth : rl[FP] <= FrameAt[k]
      BY FrameInMemory
    <3>3. \A k \in 1 .. Depth : FrameAt[k] \in Nat /\ FrameTop(k) + 2 <= MEM_SIZE
      BY DEF FramesInv, FramesApart
    <3> QED
      BY <1>1, <3>1, <3>2, <3>3
  <2>2. \A k \in 1 .. Depth' : FrameAt'[k] \in Nat /\ FrameTop(k)' + 2 <= MEM_SIZE
    <3> SUFFICES ASSUME NEW k \in 1 .. Depth'
                 PROVE  FrameAt'[k] \in Nat /\ FrameTop(k)' + 2 <= MEM_SIZE
      OBVIOUS
    <3>1. CASE k = 1
      BY <1>1, <1>3, <3>1 DEF Enters
    <3>2. CASE k # 1
      <4>1. PICK j \in 1 .. Depth : k = j + 1
        BY <1>4, <3>2
      <4>2. FrameAt'[j + 1] = FrameAt[j] /\ FrameTop(j + 1)' = FrameTop(j)
        BY <1>1, <1>2
      <4> QED
        BY <2>1, <4>1, <4>2
    <3> QED
      BY <3>1, <3>2
  <2>3. \A j, k \in 1 .. Depth' : j < k => FrameTop(j)' <= FrameAt'[k]
    <3> SUFFICES ASSUME NEW j \in 1 .. Depth', NEW k \in 1 .. Depth', j < k
                 PROVE  FrameTop(j)' <= FrameAt'[k]
      OBVIOUS
    <3>1. PICK l \in 1 .. Depth : k = l + 1 /\ FrameAt'[k] = FrameAt[l]
      <4>1. k # 1
        BY <1>1
      <4> QED
        BY <1>1, <1>4, <4>1
    <3>2. CASE j = 1
      BY <1>3, <2>1, <3>1, <3>2
    <3>3. CASE j # 1
      <4>1. PICK m \in 1 .. Depth : j = m + 1 /\ FrameTop(j)' = FrameTop(m)
        BY <1>2, <1>4, <3>3
      <4>2. m < l
        BY <1>1, <3>1, <4>1
      <4> QED
        BY <3>1, <4>1, <4>2 DEF FramesInv, FramesApart
    <3> QED
      BY <3>2, <3>3
  <2>4. \A k \in 1 .. Depth' - 1 : (FrameAt'[k + 1] - FrameAt'[k]) % 2 = 0
    <3> SUFFICES ASSUME NEW k \in 1 .. Depth' - 1
                 PROVE  (FrameAt'[k + 1] - FrameAt'[k]) % 2 = 0
      OBVIOUS
    <3>1. k \in 1 .. Depth /\ FrameAt'[k + 1] = FrameAt[k]
      BY <1>1
    <3>2. CASE k = 1
      <4>1. (rl[FP] - rl[SP]) % 2 = 0 /\ rl[FP] \in Nat /\ FrameAt[1] = rl[FP]
        BY <1>1, <3>1, FrameLinks, RegisterNumbers, SizeFacts
           DEF FramesInv, FramesApart, TypeOK, Word
      <4>3. fp \in Nat
        BY DEF Enters
      <4>2. rl[SP] = fp + 2 * FRAME \/ rl[SP] = fp + 2 * FRAME + 2
        BY <1>1, <4>3 DEF Enters
      <4>4. (rl[FP] - fp) % 2 = 0
        BY <1>1, <4>1, <4>2, <4>3
      <4> QED
        BY <1>1, <3>1, <3>2, <4>1, <4>4
    <3>3. CASE k # 1
      <4>1. PICK l \in 1 .. Depth - 1 : k = l + 1 /\ FrameAt'[k] = FrameAt[l]
        BY <1>1, <3>1, <3>3
      <4> QED
        BY <3>1, <4>1 DEF FramesInv, FramesApart
    <3> QED
      BY <3>2, <3>3
  <2>5. rl'[SP] <= rl'[FP] /\ (rl'[FP] - rl'[SP]) % 2 = 0
    BY DEF Enters
  <2> QED
    BY <2>2, <2>3, <2>4, <2>5 DEF FramesApart
<1>7. StackPointersSaved'
  <2> SUFFICES ASSUME NEW k \in 1 .. Depth'
               PROVE  (calls[k].by = "int" => Word16At(FrameTop(k)) = FrameTop(k))'
    BY DEF StackPointersSaved
  <2>1. CASE k = 1
    <3>1. PICK top : top = rl[SP] /\ top = FrameTop(1)'
      BY <1>3
    <3>2. call.by = "int" => Word16At(top)' = top
      <4>1. fp \in Nat
        BY DEF Enters
      <4>2. call.by = "int" => top = fp + 2 * FRAME + 2
        BY <1>1, <3>1, <4>1 DEF Enters
      <4> QED
        BY <3>1, <4>2 DEF Enters, Word16At
    <3>3. Word16At(FrameTop(1))' = Word16At(top)'
      BY <3>1 DEF Word16At
    <3> QED
      BY <1>1, <2>1, <3>1, <3>2, <3>3
  <2>2. CASE k # 1
    BY <1>2, <1>4, <2>2
  <2> QED
    BY <2>1, <2>2
<1>8. ElevationsFollow'
  <2>1. \A k \in 1 .. Depth' - 1 : calls'[k].el = LevelIn(calls'[k + 1])
    <3> SUFFICES ASSUME NEW k \in 1 .. Depth PROVE calls'[k].el = LevelIn(calls[k])
      BY <1>1
    <3>1. CASE k = 1
      BY <1>1, <3>1 DEF FramesInv, ElevationsFollow, Enters
    <3>2. CASE k # 1
      <4>1. PICK l \in 1 .. Depth - 1 : k = l + 1
        BY <1>1, <3>2
      <4>2. calls'[k] = calls[l]
        BY <1>1, <4>1
      <4> QED
        BY <4>1, <4>2 DEF FramesInv, ElevationsFollow
    <3> QED
      BY <3>1, <3>2
  <2>2. rl'[EL] = LevelIn(calls'[1])
    BY <1>1 DEF Enters
  <2> QED
    BY <2>1, <2>2 DEF ElevationsFollow, LevelIn
<1>9. OneInterrupt'
  <2>1. call.by = "int" => \A k \in 1 .. Depth : calls[k].by # "int"
    BY DEF Enters, Handling
  <2> SUFFICES ASSUME NEW k \in 1 .. Depth', calls'[k].by = "int"
               PROVE  /\ rl'[ELB] = calls'[k].el
                      /\ \A j \in 1 .. Depth' : calls'[j].by = "int" => j = k
    BY DEF OneInterrupt
  <2>2. CASE k = 1
    <3>1. \A j \in 1 .. Depth' : j # 1 => calls'[j].by # "int"
      <4> SUFFICES ASSUME NEW j \in 1 .. Depth', j # 1 PROVE calls'[j].by # "int"
        OBVIOUS
      <4>1. PICK m \in 1 .. Depth : j = m + 1 /\ calls'[j] = calls[m]
        BY <1>1, <1>4
      <4> QED
        BY <1>1, <2>1, <2>2, <4>1
    <3> QED
      BY <1>1, <2>2, <3>1 DEF Enters
  <2>3. CASE k # 1
    <3>1. PICK l \in 1 .. Depth : k = l + 1 /\ calls'[k] = calls[l]
      BY <1>1, <1>4, <2>3
    <3>2. call.by # "int"
      BY <2>1, <3>1
    <3>3. rl'[ELB] = calls'[k].el
      BY <3>1, <3>2 DEF FramesInv, OneInterrupt, Enters
    <3>4. ASSUME NEW j \in 1 .. Depth', calls'[j].by = "int" PROVE j = k
      <4>1. j # 1
        BY <1>1, <3>2, <3>4
      <4>2. PICK m \in 1 .. Depth : j = m + 1 /\ calls'[j] = calls[m]
        BY <1>1, <1>4, <4>1
      <4>3. m = l
        BY <3>1, <3>4, <4>2 DEF FramesInv, OneInterrupt
      <4> QED
        BY <3>1, <4>2, <4>3
    <3> QED
      BY <3>3, <3>4
  <2> QED
    BY <2>2, <2>3
<1>10. RunningContext' \in MachineContext
  <2>1. TypeOK' => (RunningContext \in MachineContext)'
    BY RunningContextType, PTL
  <2> QED
    BY <2>1 DEF Enters, MachineContext
<1>11. Arguments(RunningContext)' = Arguments(RunningContext)
  <2>1. (R0 .. RR - 1) \cup {CF} \subseteq Observed
    BY DEF Observed, SavedReg
  <2> QED
    BY <2>1 DEF Arguments, RunningContext, Enters
<1>12. Frames' = <<Resumable(RunningContext)>> \o Frames
  <2>1. Resumable(RunningContext) = InFrame(1)'
    BY <1>3
  <2>2. Frames' = [k \in 1 .. Depth + 1 |-> InFrame(k)']
    BY <1>1 DEF Frames
  <2>3. PICK top : top = InFrame(1)'
    OBVIOUS
  <2>4. Len(<<top>>) = 1 /\ <<top>>[1] = top
    OBVIOUS
  <2>5. Len(Frames) = Depth /\ \A k \in 1 .. Depth : Frames[k] = InFrame(k)
    BY <1>1, FramesType DEF Frames
  <2>6. <<top>> \o Frames = [k \in 1 .. 1 + Depth |-> IF k <= 1 THEN <<top>>[k] ELSE Frames[k - 1]]
    BY <1>1, <2>4, <2>5
  <2>7. ASSUME NEW k \in 1 .. Depth + 1
        PROVE  InFrame(k)' = IF k <= 1 THEN <<top>>[k] ELSE Frames[k - 1]
    <3>1. CASE k = 1
      BY <2>3, <2>4, <3>1
    <3>2. CASE k # 1
      <4>1. PICK j \in 1 .. Depth : k = j + 1
        BY <1>1, <1>4, <3>2
      <4>2. InFrame(j + 1)' = InFrame(j) /\ k - 1 = j /\ ~(k <= 1)
        BY <1>1, <1>2, <4>1
      <4> QED
        BY <2>5, <4>1, <4>2
    <3> QED
      BY <3>1, <3>2
  <2> QED
    BY <1>1, <2>1, <2>2, <2>3, <2>6, <2>7
<1> QED
  BY <1>5, <1>6, <1>7, <1>8, <1>9, <1>10, <1>11, <1>12
     DEF FramesInv, Stack!Call, Frames

(* What linking sets: sp, fp and the program counter. *)
LEMMA LinkedKeeps ==
  ASSUME NEW regs, IsRegs(regs), NEW sp, NEW o, Retire(Linked(regs, sp, o))
  PROVE  /\ rl'[SP] = sp /\ rl'[FP] = sp
         /\ \A r \in Reg \ {PC, SP, FP} : rl'[r] = regs[r]
<1> DEFINE framed == [regs EXCEPT ![SP] = sp, ![FP] = sp]
<1>1. /\ IsRegs(framed) /\ framed[SP] = sp /\ framed[FP] = sp
      /\ \A r \in Reg \ {SP, FP} : framed[r] = regs[r]
  BY RegistersDiffer, RegisterNumbers DEF IsRegs
<1> HIDE DEF framed
<1>2. PICK target : Retire(Goto(framed, target))
  BY DEF Linked, framed
<1>3. IsRegs(Goto(framed, target)) /\ \A r \in Reg \ {PC} : Goto(framed, target)[r] = framed[r]
  BY <1>1 DEF IsRegs, Goto
<1>4. \A r \in Reg \ {PC} : rl'[r] = framed[r]
  BY <1>2, <1>3, RetireKeeps
<1>5. SP \in Reg \ {PC} /\ FP \in Reg \ {PC}
  BY RegistersDiffer, RegisterNumbers
<1> QED
  BY <1>1, <1>4, <1>5

(* The registers that are passed to a callee. *)
LEMMA PassedRegisters ==
  \A r \in (R0 .. RR - 1) \cup {CF} : r \in Reg \ {PC, SP, FP} /\ r # EL /\ r # ELB
BY SizeAssumption DEF PC, SP, FP, CF, EL, ELB, RR, R0, Reg

(* The registers that a call saves. *)
LEMMA CallerState ==
  ASSUME TypeOK
  PROVE  /\ IsRegs(rl) /\ rl \in RegFile
         /\ \A r \in Reg : rl[r] \in Word /\ rl[r] \in Nat /\ rl[r] < WORD
         /\ {PC, SP, FP, CF, EL, ELB} \subseteq Reg
         /\ FRAME \in Nat /\ FRAME >= 4 /\ WORD \in Nat
<1>1. rl \in [Reg -> Word]
  BY DEF TypeOK
<1>2. IsRegs(rl) /\ rl \in RegFile
  BY <1>1 DEF IsRegs, RegFile
<1>3. WORD \in Nat /\ \A r \in Reg : rl[r] \in Word /\ rl[r] \in Nat /\ rl[r] < WORD
  BY <1>1, SizeFacts DEF Word
<1> QED
  BY <1>2, <1>3, FrameFacts, RegisterNumbers

(* bl enters through the frame it builds. *)
LEMMA BlEnters ==
  ASSUME FramesInv, TypeOK', NEW i, Running, Disciplined(i), Execute(i), Logged(i), i.op = "bl"
  PROVE  \E call, fp : Enters(call, fp)
<1>1. TypeOK
  BY DEF FramesInv
<1>2. PICK sp \in Word, el \in Word : sp = rl[SP] /\ el = rl[EL]
  BY <1>1, CallerState
<1>3. sp \in Nat /\ sp < WORD /\ FRAME \in Nat /\ FRAME >= 4 /\ WORD \in Nat
  BY <1>1, <1>2, CallerState
<1>4. PICK words \in [0 .. FRAME - 1 -> Word] : words = SavedWords(rl)
  BY <1>1, CallerState, SavedWordsType
<1>5. /\ 2 * FRAME <= sp /\ PushesGranted(el, sp, FRAME)
      /\ mem' = Pushed(el, sp, FRAME, words)
      /\ Retire(Linked(rl, W(sp - 2 * FRAME), i.a)) /\ exec' = exec
  BY <1>2, <1>4, ExecutesOp DEF Disciplined, Room, Bl
<1>6. PICK fp \in Nat : fp = sp - 2 * FRAME /\ W(sp - 2 * FRAME) = fp
  <2>1. sp - 2 * FRAME \in Nat /\ sp - 2 * FRAME < WORD
    BY <1>3, <1>5
  <2> QED
    BY <2>1, InRange
<1>7. rl'[SP] = fp /\ rl'[FP] = fp /\ \A r \in Reg \ {PC, SP, FP} : rl'[r] = rl[r]
  BY <1>1, <1>5, <1>6, CallerState, LinkedKeeps
<1>8. /\ sp + 2 <= MEM_SIZE
      /\ \A k \in 0 .. FRAME - 1 : Word16At(sp - 2 * k)' = words[k]
      /\ \A a \in Addr : a >= sp + 2 => mem'[a] = mem[a]
  <2>1. FRAME > 0
    BY <1>3
  <2> QED
    BY <1>1, <1>3, <1>5, <2>1, PushedWords
<1> DEFINE call == [by |-> "bl", el |-> el]
<1>9. \A k \in FrameSlot : Word16At(fp + 2 * (FRAME - k))' = rl[RegIn(k)]
  <2> SUFFICES ASSUME NEW k \in FrameSlot PROVE Word16At(fp + 2 * (FRAME - k))' = rl[RegIn(k)]
    OBVIOUS
  <2>1. k \in 0 .. FRAME - 1 /\ fp + 2 * (FRAME - k) = sp - 2 * k
    BY <1>3, <1>6 DEF FrameSlot
  <2>2. words[k] = rl[RegIn(k)]
    BY <1>4 DEF SavedWords
  <2> QED
    BY <1>8, <2>1, <2>2
<1>10. /\ call \in Call /\ call.by = "bl" /\ call.el = rl[EL]
       /\ calls' = <<call>> \o calls /\ exec # "allocated"
  BY <1>2 DEF Call, Logged, Running
<1>11. /\ rl'[EL] = rl[EL] /\ rl'[ELB] = rl[ELB]
       /\ \A r \in (R0 .. RR - 1) \cup {CF} : rl'[r] = rl[r]
  BY <1>7, RegistersDiffer, RegisterNumbers, PassedRegisters
<1>12. sp = fp + 2 * FRAME
  BY <1>3, <1>6
<1> HIDE DEF call
<1>13. Enters(call, fp)
  BY <1>2, <1>3, <1>5, <1>7, <1>8, <1>9, <1>10, <1>11, <1>12 DEF Enters, LevelIn
<1> QED
  BY <1>13

(***************************************************************************)
(* An interrupt that the convention allows enters through its frame, with  *)
(* the stack pointer on top, provided that none is being handled.          *)
(***************************************************************************)
LEMMA IntEnters ==
  ASSUME ~Reentrant, FramesInv, TypeOK', NEW i, Running, Disciplined(i), Execute(i), Logged(i),
         i.op = "int"
  PROVE  \E call, fp : Enters(call, fp)
<1>1. TypeOK
  BY DEF FramesInv
<1>2. PICK sp \in Word, el \in Word : sp = rl[SP] /\ el = rl[EL]
  BY <1>1, CallerState
<1>3. sp \in Nat /\ sp < WORD /\ FRAME \in Nat /\ FRAME >= 4 /\ WORD \in Nat /\ EL1 \in Word
  BY <1>1, <1>2, CallerState, SmallWords
<1>4. PICK words \in [0 .. (FRAME + 1) - 1 -> Word] : words = InterruptWords
  BY <1>1, InterruptWordsType
<1>5. /\ 2 * (FRAME + 1) <= sp /\ PushesGranted(EL1, sp, FRAME + 1)
      /\ mem' = Pushed(EL1, sp, FRAME + 1, words)
      /\ Retire(Linked(Elevated, W(sp - 2 * (FRAME + 1)), Imm(Handler(i)))) /\ exec' = exec
      /\ ~Handling
  BY <1>2, <1>4, ExecutesOp DEF Disciplined, Room, Interrupt
<1>6. PICK fp \in Nat : fp = sp - 2 * (FRAME + 1) /\ W(sp - 2 * (FRAME + 1)) = fp
  <2>1. sp - 2 * (FRAME + 1) \in Nat /\ sp - 2 * (FRAME + 1) < WORD
    BY <1>3, <1>5
  <2> QED
    BY <2>1, InRange
<1>7. rl'[SP] = fp /\ rl'[FP] = fp /\ \A r \in Reg \ {PC, SP, FP} : rl'[r] = Elevated[r]
  <2>1. IsRegs(Elevated)
    BY <1>1, CallerState DEF IsRegs, Elevated
  <2> QED
    BY <1>5, <1>6, <2>1, LinkedKeeps
<1>8. /\ sp + 2 <= MEM_SIZE
      /\ \A k \in 0 .. (FRAME + 1) - 1 : Word16At(sp - 2 * k)' = words[k]
      /\ \A a \in Addr : a >= sp + 2 => mem'[a] = mem[a]
  <2>1. FRAME + 1 \in Nat /\ FRAME + 1 > 0
    BY <1>3
  <2> QED
    BY <1>1, <1>3, <1>5, <2>1, PushedWords
<1> DEFINE call == [by |-> "int", el |-> el]
<1>9. \A k \in FrameSlot : Word16At(fp + 2 * (FRAME - k))' = rl[RegIn(k)]
  <2> SUFFICES ASSUME NEW k \in FrameSlot PROVE Word16At(fp + 2 * (FRAME - k))' = rl[RegIn(k)]
    OBVIOUS
  <2>1. /\ k + 1 \in 0 .. (FRAME + 1) - 1 /\ fp + 2 * (FRAME - k) = sp - 2 * (k + 1)
        /\ k + 1 \in 0 .. FRAME /\ k + 1 # 0 /\ (k + 1) - 1 = k
    BY <1>3, <1>6 DEF FrameSlot
  <2>2. words[k + 1] = rl[RegIn(k)]
    BY <1>4, <2>1 DEF InterruptWords
  <2> QED
    BY <1>8, <2>1, <2>2
<1>10. /\ call \in Call /\ call.by = "int" /\ call.el = rl[EL]
       /\ calls' = <<call>> \o calls /\ exec # "allocated"
  BY <1>2 DEF Call, Logged, Running
<1>11. /\ rl'[EL] = EL1 /\ rl'[ELB] = rl[EL]
       /\ \A r \in (R0 .. RR - 1) \cup {CF} : rl'[r] = rl[r]
  <2>1. /\ Elevated[EL] = EL1 /\ Elevated[ELB] = rl[EL]
        /\ \A r \in Reg \ {EL, ELB} : Elevated[r] = rl[r]
    BY <1>1, CallerState, RegistersDiffer DEF Elevated, IsRegs
  <2> QED
    BY <1>7, <2>1, RegistersDiffer, RegisterNumbers, PassedRegisters
<1>12. sp = fp + 2 * FRAME + 2
  BY <1>3, <1>6
<1>13. Word16At(fp + 2 * FRAME + 2)' = rl[SP]
  <2>1. 0 \in 0 .. (FRAME + 1) - 1 /\ 0 \in 0 .. FRAME /\ fp + 2 * FRAME + 2 = sp - 2 * 0
    BY <1>3, <1>12
  <2>2. words[0] = rl[SP]
    BY <1>4, <2>1 DEF InterruptWords
  <2> QED
    BY <1>8, <2>1, <2>2
<1> HIDE DEF call
<1>14. Enters(call, fp)
  BY <1>2, <1>3, <1>5, <1>7, <1>8, <1>9, <1>10, <1>11, <1>12, <1>13 DEF Enters, LevelIn
<1> QED
  BY <1>14

-----------------------------------------------------------------------------
(* A step that leaves through the nearest frame, giving back its context. *)
Leaves ==
  /\ TypeOK' /\ calls # <<>> /\ calls' = Tail(calls) /\ mem' = mem /\ exec' = exec
  /\ rl'[ELB] = rl[ELB]
  /\ \A r \in Observed : rl'[r] = InFrame(1)[r]

(* Where the frames are after such a step: each has one number less. *)
LEMMA FramesMoveBack ==
  ASSUME FramesInv, Leaves
  PROVE  /\ Depth \in Nat /\ Depth >= 1 /\ Depth' = Depth - 1 /\ calls' \in Seq(Call)
         /\ \A k \in 1 .. Depth - 1 : calls'[k] = calls[k + 1] /\ FrameAt'[k] = FrameAt[k + 1]
         /\ rl'[FP] = FrameAt[2] /\ rl'[SP] = FrameTop(1) /\ rl'[EL] = calls[1].el
         /\ AboveKept
<1>1. /\ Depth \in Nat /\ calls \in Seq(Call) /\ calls # <<>> /\ Depth # 0 /\ Depth = Len(calls)
      /\ calls' = Tail(calls)
  BY FramesType DEF Depth, Leaves
<1>2. /\ calls' \in Seq(Call) /\ Len(calls') = Len(calls) - 1
      /\ \A k \in 1 .. Len(calls) - 1 : calls'[k] = calls[k + 1]
  BY <1>1
<1>3. Depth' = Depth - 1 /\ Depth >= 1
  BY <1>1, <1>2 DEF Depth
<1>4. AboveKept
  BY DEF Leaves, AboveKept
<1>5. SlotOf(FP) = FRAME - 1 /\ {FP, SP, EL} \subseteq Observed
  BY RegistersDiffer DEF SlotOf, Observed, SavedReg
<1>6. PICK call \in Call, fp \in Nat : call = calls[1] /\ fp = FrameAt[1]
  <2>1. 1 \in 1 .. Depth
    BY <1>1
  <2> QED
    BY <2>1, FrameInMemory
<1>7. /\ rl'[FP] = CallersFp(fp) /\ rl'[SP] = CallersSp(call.by, fp) /\ rl'[EL] = call.el
  <2>1. InFrame(1) = ContextIn(call, fp)
    BY <1>6 DEF InFrame
  <2>2. /\ ContextIn(call, fp)[FP] = CallersFp(fp)
        /\ ContextIn(call, fp)[SP] = CallersSp(call.by, fp)
        /\ ContextIn(call, fp)[EL] = call.el
    BY <1>5, RegistersDiffer DEF ContextIn, CallersFp
  <2> QED
    BY <1>5, <2>1, <2>2 DEF Leaves
<1>8. rl'[FP] = FrameAt[2] /\ rl'[SP] = FrameTop(1) /\ rl'[EL] = calls[1].el
  <2>1. FrameAt[1 + 1] = CallersFp(FrameAt[1])
    BY FrameLinks
  <2>2. CallersSp(calls[1].by, FrameAt[1]) = FrameTop(1)
    BY <1>3, FrameInMemory
  <2> QED
    BY <1>6, <1>7, <2>1, <2>2
<1> DEFINE g == [k \in 1 .. Depth - 1 |-> FrameAt[k + 1]]
<1>9. \A k \in 1 .. (Depth - 1) - 1 : \A at : at = g[k] => g[k + 1] = CallersFp(at)'
  <2> SUFFICES ASSUME NEW k \in 1 .. (Depth - 1) - 1, NEW at, at = g[k]
               PROVE  g[k + 1] = CallersFp(at)'
    OBVIOUS
  <2>1. k + 1 \in 1 .. Depth /\ at = FrameAt[k + 1] /\ g[k + 1] = FrameAt[(k + 1) + 1]
    BY <1>1
  <2> HIDE DEF g
  <2> QED
    BY <1>4, <2>1, LinkKept
<1>10. \A k \in 1 .. Depth - 1 : FrameAt'[k] = g[k]
  <2>1. Depth - 1 \in Nat /\ (Depth - 1 > 0 => g[1] = rl'[FP])
    BY <1>1, <1>8
  <2> HIDE DEF g
  <2> QED
    BY <1>9, <2>1, FramesAfter
<1>11. \A k \in 1 .. Depth - 1 : FrameAt'[k] = FrameAt[k + 1]
  BY <1>10
<1> QED
  BY <1>1, <1>2, <1>3, <1>4, <1>8, <1>11

LEMMA LeavesImplements ==
  ASSUME FramesInv, Leaves
  PROVE  FramesInv' /\ Stack!Return
<1>1. /\ Depth \in Nat /\ Depth >= 1 /\ Depth' = Depth - 1 /\ calls' \in Seq(Call)
      /\ \A k \in 1 .. Depth - 1 : calls'[k] = calls[k + 1] /\ FrameAt'[k] = FrameAt[k + 1]
      /\ rl'[FP] = FrameAt[2] /\ rl'[SP] = FrameTop(1) /\ rl'[EL] = calls[1].el
      /\ FRAME \in Nat
  BY FramesMoveBack, FrameFacts
<1>2. \A k \in 1 .. Depth - 1 : k + 1 \in 1 .. Depth
  BY <1>1
<1>3. \A k \in 1 .. Depth - 1 : /\ InFrame(k)' = InFrame(k + 1)
                                /\ FrameTop(k)' = FrameTop(k + 1)
                                /\ (calls[k].by = "int" => Word16At(FrameTop(k)) = FrameTop(k))'
  BY <1>1, <1>2, FramesMoveBack, FrameKept
<1>4. TypeOK' /\ CallsType'
  <2>1. exec # "allocated"
    BY DEF FramesInv, CallsType, Leaves
  <2> QED
    BY <1>1, <2>1 DEF CallsType, Call, Leaves
<1>5. FramesApart'
  <2>1. \A k \in 1 .. Depth' : FrameAt'[k] \in Nat /\ FrameTop(k)' + 2 <= MEM_SIZE
    BY <1>1, <1>2, <1>3 DEF FramesInv, FramesApart
  <2>2. \A j, k \in 1 .. Depth' : j < k => FrameTop(j)' <= FrameAt'[k]
    <3> SUFFICES ASSUME NEW j \in 1 .. Depth', NEW k \in 1 .. Depth', j < k
                 PROVE  FrameTop(j)' <= FrameAt'[k]
      OBVIOUS
    <3>1. j + 1 \in 1 .. Depth /\ k + 1 \in 1 .. Depth /\ j + 1 < k + 1
      BY <1>1
    <3>2. FrameTop(j)' = FrameTop(j + 1) /\ FrameAt'[k] = FrameAt[k + 1]
      BY <1>1, <1>3
    <3> QED
      BY <3>1, <3>2 DEF FramesInv, FramesApart
  <2>3. \A k \in 1 .. Depth' - 1 : (FrameAt'[k + 1] - FrameAt'[k]) % 2 = 0
    <3> SUFFICES ASSUME NEW k \in 1 .. Depth' - 1 PROVE (FrameAt'[k + 1] - FrameAt'[k]) % 2 = 0
      OBVIOUS
    <3>1. k + 1 \in 1 .. Depth - 1
      BY <1>1
    <3>2. FrameAt'[k] = FrameAt[k + 1] /\ FrameAt'[k + 1] = FrameAt[(k + 1) + 1]
      BY <1>1, <3>1
    <3> QED
      BY <3>1, <3>2 DEF FramesInv, FramesApart
  <2>4. Depth' >= 1 => rl'[SP] <= rl'[FP] /\ (rl'[FP] - rl'[SP]) % 2 = 0
    <3> SUFFICES ASSUME Depth' >= 1 PROVE rl'[SP] <= rl'[FP] /\ (rl'[FP] - rl'[SP]) % 2 = 0
      OBVIOUS
    <3>1. 1 \in 1 .. Depth - 1 /\ 1 \in 1 .. Depth /\ 2 \in 1 .. Depth /\ 1 + 1 = 2
      BY <1>1
    <3>2. /\ FrameTop(1) <= FrameAt[2] /\ (FrameAt[2] - FrameAt[1]) % 2 = 0
          /\ FrameAt[1] \in Nat /\ FrameAt[2] \in Nat
      BY <3>1 DEF FramesInv, FramesApart
    <3>3. FrameTop(1) = FrameAt[1] + 2 * FRAME \/ FrameTop(1) = FrameAt[1] + 2 * FRAME + 2
      BY <1>1, <3>2 DEF FrameTop
    <3>4. (FrameAt[2] - FrameTop(1)) % 2 = 0
      BY <1>1, <3>2, <3>3
    <3> QED
      BY <1>1, <3>2, <3>4
  <2>5. calls' # <<>> => Depth' >= 1
    BY <1>1 DEF Depth
  <2> QED
    BY <2>1, <2>2, <2>3, <2>4, <2>5 DEF FramesApart
<1>6. StackPointersSaved'
  BY <1>1, <1>3 DEF StackPointersSaved
<1>7. ElevationsFollow'
  <2>1. calls' # <<>> => rl'[EL] = LevelIn(calls'[1])
    <3>1. calls' # <<>> => 1 \in 1 .. Depth - 1
      BY <1>1 DEF Depth
    <3> QED
      BY <1>1, <3>1 DEF FramesInv, ElevationsFollow
  <2>2. \A k \in 1 .. Depth' - 1 : calls'[k].el = LevelIn(calls'[k + 1])
    <3> SUFFICES ASSUME NEW k \in 1 .. Depth' - 1 PROVE calls'[k].el = LevelIn(calls'[k + 1])
      OBVIOUS
    <3>1. k + 1 \in 1 .. Depth - 1 /\ k \in 1 .. Depth - 1
      BY <1>1
    <3>2. calls'[k] = calls[k + 1] /\ calls'[k + 1] = calls[(k + 1) + 1]
      BY <1>1, <3>1
    <3> QED
      BY <3>1, <3>2 DEF FramesInv, ElevationsFollow
  <2> QED
    BY <2>1, <2>2 DEF ElevationsFollow, LevelIn
<1>8. OneInterrupt'
  <2> SUFFICES ASSUME NEW k \in 1 .. Depth', calls'[k].by = "int"
               PROVE  /\ rl'[ELB] = calls'[k].el
                      /\ \A j \in 1 .. Depth' : calls'[j].by = "int" => j = k
    BY DEF OneInterrupt
  <2>1. k + 1 \in 1 .. Depth /\ calls'[k] = calls[k + 1]
    BY <1>1
  <2>2. rl'[ELB] = calls'[k].el
    BY <2>1 DEF FramesInv, OneInterrupt, Leaves
  <2>3. ASSUME NEW j \in 1 .. Depth', calls'[j].by = "int" PROVE j = k
    <3>1. j + 1 \in 1 .. Depth /\ calls'[j] = calls[j + 1]
      BY <1>1
    <3>2. j + 1 = k + 1
      BY <2>1, <2>3, <3>1 DEF FramesInv, OneInterrupt
    <3> QED
      BY <1>1, <3>2
  <2> QED
    BY <2>2, <2>3
<1>9. RunningContext' = Head(Frames)
  <2>1. Head(Frames) = InFrame(1)
    BY <1>1, FramesType DEF Frames
  <2>2. \A r \in Observed : RunningContext'[r] = InFrame(1)[r]
    BY DEF RunningContext, Leaves
  <2>3. InFrame(1) = [r \in Observed |-> InFrame(1)[r]]
    BY DEF InFrame, ContextIn
  <2>4. RunningContext' = [r \in Observed |-> RunningContext'[r]]
    BY DEF RunningContext
  <2> QED
    BY <2>1, <2>2, <2>3, <2>4
<1>10. Frames' = Tail(Frames)
  <2>1. Frames' = [k \in 1 .. Depth - 1 |-> InFrame(k)']
    BY <1>1 DEF Frames
  <2>2. \A k \in 1 .. Depth : Frames[k] = InFrame(k)
    BY DEF Frames
  <2>3. Tail(Frames) = [k \in 1 .. Depth - 1 |-> Frames[k + 1]]
    <3>1. PICK s \in Seq(MachineContext) : s = Frames /\ Len(s) = Depth /\ s # <<>>
      BY <1>1, FramesType
    <3>2. /\ Tail(s) \in Seq(MachineContext) /\ Len(Tail(s)) = Len(s) - 1
          /\ \A k \in 1 .. Len(s) - 1 : Tail(s)[k] = s[k + 1]
      BY <3>1
    <3>3. PICK t \in Seq(MachineContext) : t = Tail(s)
      BY <3>2
    <3>4. t = [k \in 1 .. Len(t) |-> t[k]]
      OBVIOUS
    <3> QED
      BY <3>1, <3>2, <3>3, <3>4
  <2>4. \A k \in 1 .. Depth - 1 : InFrame(k)' = Frames[k + 1]
    BY <1>2, <1>3, <2>2
  <2> QED
    BY <2>1, <2>3, <2>4
<1>11. Frames # <<>>
  BY <1>1, FramesType
<1> QED
  BY <1>4, <1>5, <1>6, <1>7, <1>8, <1>9, <1>10, <1>11
     DEF FramesInv, Stack!Return, Frames

(* What the pops find in a frame at fp, when all are granted. *)
LEMMA ReturnedWords ==
  ASSUME TypeOK, NEW el \in Word, NEW fp \in Nat, fp + 2 * FRAME + 2 <= MEM_SIZE,
         PopsGranted(el, fp)
  PROVE  /\ IsRegs(Returned(el, fp)) /\ Returned(el, fp)[SP] = fp + 2 * FRAME
         /\ \A r \in SavedReg : Returned(el, fp)[r] = Word16At(SlotAddr(fp, SlotOf(r)))
         /\ Returned(el, fp)[EL] = rl[EL] /\ Returned(el, fp)[ELB] = rl[ELB]
<1>1. FRAME \in Nat /\ fp + 2 * FRAME \in Nat /\ fp + 2 * FRAME < WORD
  BY FrameFacts, SizeFacts
<1>2. W(fp + 2 * FRAME) = fp + 2 * FRAME
  BY <1>1, InRange
<1>3. \A r \in SavedReg : r \in Reg /\ r # SP /\ SlotOf(r) \in FrameSlot
  BY SizeAssumption, RegisterNumbers
     DEF SavedReg, SlotOf, FrameSlot, FRAME, PC, SP, CF, FP, R0, RR
<1>4. EL \notin SavedReg /\ ELB \notin SavedReg /\ {SP, EL, ELB} \subseteq Reg /\ SP # EL /\ SP # ELB
  BY SizeAssumption DEF SavedReg, Reg, PC, SP, CF, FP, EL, ELB, R0, RR
<1> QED
  BY <1>2, <1>3, <1>4 DEF Returned, IsRegs, PopsGranted

(* The program counter moves past the instruction. *)
LEMMA RetireMovesOn == ASSUME NEW regs, IsRegs(regs), Retire(regs) PROVE rl'[PC] = W(regs[PC] + 4)
BY RegisterNumbers DEF IsRegs, Retire

(* The nearest frame, and what a return by the call's own kind needs.      *)
LEMMA NearestFrame ==
  ASSUME FramesInv, calls # <<>>
  PROVE  /\ calls[1] \in Call /\ Head(calls) = calls[1] /\ TypeOK
         /\ rl[FP] \in Nat /\ rl[FP] + 2 * FRAME + 2 <= MEM_SIZE
         /\ calls[1].by = "int" => rl[FP] + 2 * FRAME + 2 + 2 <= MEM_SIZE
         /\ InFrame(1) = ContextIn(calls[1], rl[FP])
         /\ rl[EL] = LevelIn(calls[1]) /\ rl[EL] \in Word
         /\ calls[1].by = "int" => rl[ELB] = calls[1].el
<1>1. 1 \in 1 .. Depth /\ Head(calls) = calls[1]
  BY FramesType
<1>2. FrameAt[1] = rl[FP]
  BY FrameLinks
<1>3. /\ calls[1] \in Call /\ rl[FP] \in Nat
      /\ rl[FP] + 2 * FRAME + (IF calls[1].by = "int" THEN 2 ELSE 0) + 2 <= MEM_SIZE
  BY <1>1, <1>2, FrameInMemory
<1>4. FRAME \in Nat /\ MEM_SIZE \in Nat
  BY FrameFacts, SizeFacts
<1>5. TypeOK /\ rl[EL] \in Word
  BY CallerState DEF FramesInv
<1> QED
  BY <1>1, <1>2, <1>3, <1>4, <1>5 DEF InFrame, FramesInv, ElevationsFollow, OneInterrupt

(* ret leaves through the frame that a bl has built. *)
LEMMA RetLeaves ==
  ASSUME FramesInv, TypeOK', NEW i, Disciplined(i), Execute(i), Logged(i), i.op = "ret"
  PROVE  Leaves
<1>1. /\ calls # <<>> /\ calls[1].by = "bl" /\ PopsGranted(rl[EL], rl[FP])
      /\ Retire(Returned(rl[EL], rl[FP])) /\ mem' = mem /\ exec' = exec
      /\ calls' = Tail(calls)
  BY NearestFrame, ExecutesOp DEF Disciplined, Ret, Logged
<1>2. PICK fp \in Nat, el \in Word : fp = rl[FP] /\ el = rl[EL]
  BY <1>1, NearestFrame
<1>3. /\ TypeOK /\ fp + 2 * FRAME + 2 <= MEM_SIZE /\ calls[1].el = rl[EL]
      /\ InFrame(1) = ContextIn(calls[1], fp)
  BY <1>1, <1>2, NearestFrame DEF LevelIn
<1> DEFINE back == Returned(el, fp)
<1>4. /\ IsRegs(back) /\ back[SP] = fp + 2 * FRAME
      /\ \A r \in SavedReg : back[r] = Word16At(SlotAddr(fp, SlotOf(r)))
      /\ back[EL] = rl[EL] /\ back[ELB] = rl[ELB]
  BY <1>1, <1>2, <1>3, ReturnedWords
<1>5. Retire(back)
  BY <1>1, <1>2
<1> HIDE DEF back
<1>6. rl'[PC] = W(back[PC] + 4) /\ \A r \in Reg \ {PC} : rl'[r] = back[r]
  BY <1>4, <1>5, RetireMovesOn, RetireKeeps
<1>7. rl'[ELB] = rl[ELB] /\ rl'[EL] = calls[1].el /\ rl'[SP] = fp + 2 * FRAME
  BY <1>3, <1>4, <1>6, RegistersDiffer, RegisterNumbers
<1>8. ASSUME NEW r \in Observed PROVE rl'[r] = ContextIn(calls[1], fp)[r]
  <2>1. CASE r \in {EL, SP}
    BY <1>1, <1>7, <2>1, RegistersDiffer DEF ContextIn, CallersSp, Observed
  <2>2. CASE r = PC
    BY <1>4, <1>6, <2>2, RegistersDiffer DEF ContextIn, Observed, SavedReg, SlotOf
  <2>3. CASE r \notin {EL, SP, PC}
    <3>1. r \in SavedReg /\ r \in Reg \ {PC}
      BY <2>3, RegisterNumbers DEF Observed
    <3> QED
      BY <1>4, <1>6, <2>3, <3>1 DEF ContextIn
  <2> QED
    BY <2>1, <2>2, <2>3
<1> QED
  BY <1>1, <1>3, <1>7, <1>8 DEF Leaves

(* intret leaves through the frame that an int has built. *)
LEMMA IntretLeaves ==
  ASSUME FramesInv, TypeOK', NEW i, Disciplined(i), Execute(i), Logged(i), i.op = "intret"
  PROVE  Leaves
<1>1. /\ calls # <<>> /\ calls[1].by = "int" /\ Intret(i) /\ calls' = Tail(calls)
  BY NearestFrame, ExecutesOp DEF Disciplined, Logged
<1>2. PICK fp \in Nat : fp = rl[FP]
  BY <1>1, NearestFrame
<1>3. /\ TypeOK /\ fp + 2 * FRAME + 2 + 2 <= MEM_SIZE /\ rl[EL] = EL1 /\ EL1 \in Word
      /\ calls[1].el = rl[ELB] /\ InFrame(1) = ContextIn(calls[1], fp)
      /\ FRAME \in Nat
  BY <1>1, <1>2, NearestFrame, SmallWords, FrameFacts DEF LevelIn
<1>4. MEM_SIZE \in Nat /\ MEM_SIZE < WORD /\ fp + 2 * FRAME + 2 <= MEM_SIZE
  BY <1>3, SizeFacts
<1>5. ASSUME NEW a \in Nat, a + 2 <= MEM_SIZE PROVE PopGranted(EL1, a)
  BY <1>4, <1>5, SizeFacts DEF PopGranted, Access
<1>6. PopsGranted(EL1, fp)
  <2> SUFFICES ASSUME NEW k \in FrameSlot PROVE PopGranted(EL1, SlotAddr(fp, k))
    BY DEF PopsGranted
  <2>1. SlotAddr(fp, k) = fp + 2 * (FRAME - k) /\ SlotAddr(fp, k) \in Nat /\ k \in Nat
    BY <1>3, <1>4, SlotAddresses DEF FrameSlot, Addr
  <2>2. PICK a \in Nat : a = SlotAddr(fp, k)
    BY <2>1
  <2>3. a + 2 <= MEM_SIZE
    BY <1>3, <1>4, <2>1, <2>2
  <2> QED
    BY <1>5, <2>2, <2>3
<1> DEFINE back == Returned(EL1, fp)
           top  == fp + 2 * FRAME + 2
<1>7. /\ IsRegs(back) /\ back[SP] = fp + 2 * FRAME
      /\ \A r \in SavedReg : back[r] = Word16At(SlotAddr(fp, SlotOf(r)))
      /\ back[ELB] = rl[ELB]
  BY <1>3, <1>4, <1>6, ReturnedWords
<1>8. W(back[SP] + 2) = top /\ PopGranted(EL1, top)
  <2>1. top \in Nat /\ top + 2 <= MEM_SIZE
    BY <1>3
  <2>2. top < WORD /\ back[SP] + 2 = top
    <3>1. WORD \in Nat
      BY SizeFacts
    <3> HIDE DEF back
    <3> QED
      BY <1>4, <1>7, <2>1, <3>1
  <2> HIDE DEF top, back
  <2> QED
    BY <1>5, <2>1, <2>2, InRange
<1> DEFINE given == [back EXCEPT ![SP] = Word16At(top), ![EL] = rl[ELB]]
<1>9. Retire(given) /\ mem' = mem /\ exec' = exec
  BY <1>1, <1>2, <1>3, <1>8 DEF Intret
<1>10. /\ IsRegs(given) /\ given[SP] = Word16At(top) /\ given[EL] = rl[ELB]
       /\ \A r \in Reg \ {SP, EL} : given[r] = back[r]
  <2> HIDE DEF back, top
  <2> QED
    BY <1>7, RegistersDiffer, RegisterNumbers DEF IsRegs
<1> HIDE DEF back, given
<1>11. rl'[PC] = W(given[PC] + 4) /\ \A r \in Reg \ {PC} : rl'[r] = given[r]
  BY <1>9, <1>10, RetireMovesOn, RetireKeeps
<1>12. rl'[ELB] = rl[ELB] /\ rl'[EL] = calls[1].el /\ rl'[SP] = Word16At(top)
  BY <1>3, <1>7, <1>10, <1>11, RegistersDiffer, RegisterNumbers
<1>13. ASSUME NEW r \in Observed PROVE rl'[r] = ContextIn(calls[1], fp)[r]
  <2>1. CASE r \in {EL, SP}
    BY <1>1, <1>12, <2>1, RegistersDiffer DEF ContextIn, CallersSp, Observed
  <2>2. CASE r = PC
    BY <1>7, <1>10, <1>11, <2>2, RegistersDiffer, RegisterNumbers
       DEF ContextIn, Observed, SavedReg, SlotOf
  <2>3. CASE r \notin {EL, SP, PC}
    <3>1. r \in SavedReg /\ r \in Reg
      BY <2>3, RegisterNumbers DEF Observed
    <3> QED
      BY <1>7, <1>10, <1>11, <2>3, <3>1 DEF ContextIn
  <2> QED
    BY <2>1, <2>2, <2>3
<1> QED
  BY <1>1, <1>3, <1>9, <1>12, <1>13 DEF Leaves

-----------------------------------------------------------------------------
(* The steps of the specification. *)

(* No instruction takes main() back to where it has no image. *)
LEMMA ExecutionGoesOn == ASSUME NEW i, Execute(i) PROVE exec' \in {exec, "killed"}
<1>1. CASE Hlt(i) \/ Nop(i) \/ In(i) \/ Out(i)
  BY <1>1 DEF Hlt, Nop, In, Out, Refuse, RegisterStep
<1>2. CASE Ldb(i) \/ Stb(i) \/ Ldw(i) \/ Stw(i) \/ Push(i) \/ Pop(i)
  BY <1>2 DEF Ldb, Stb, Ldw, Stw, Push, Pop
<1>3. CASE \/ Mov(i) \/ Swp(i) \/ Swpz(i) \/ Alu(i) \/ DivisionTrap(i) \/ IncDec(i) \/ Not(i)
           \/ Jump(i) \/ Cmp(i)
  BY <1>3 DEF Mov, Swp, Swpz, Alu, DivisionTrap, IncDec, Step, Not, Jump, Cmp, RegisterStep
<1>4. CASE Bl(i) \/ Ret(i) \/ Interrupt(i) \/ Intset(i) \/ Intret(i)
  BY <1>4 DEF Bl, Ret, Interrupt, Intset, Intret, Refuse
<1>5. CASE \/ Ppcnt(i) \/ Ppktrrset(i) \/ Vpset(i) \/ Vpget(i)
           \/ Vpflgset(i) \/ Vpflgget(i) \/ Vpaddr(i)
  BY <1>5 DEF Ppcnt, Ppktrrset, Vpset, Vpget, Vpflgset, Vpflgget, Vpaddr, Refuse
<1> QED
  BY <1>1, <1>2, <1>3, <1>4, <1>5 DEF Execute

(* The convention only leaves steps of the machine out. *)
LEMMA ConventionRestricts == [FNext]_fvars => [Next]_vars
BY DEF FNext, FInstruct, FExecute, FStop, Next, Instruct, fvars

(* Every step enters, leaves or works. *)
LEMMA StepKinds ==
  ASSUME ~Reentrant, FramesInv, [FNext]_fvars
  PROVE  (\E call, fp : Enters(call, fp)) \/ Leaves \/ Works
<1>0. TypeOK' /\ TypeOK /\ (exec = "allocated" => calls = <<>>)
  BY ConventionRestricts, NextType DEF FramesInv, CallsType
<1>a. calls # <<>> => rl[SP] <= rl[FP] /\ (rl[FP] - rl[SP]) % 2 = 0
  BY DEF FramesInv, FramesApart
<1>1. CASE LoadImage /\ calls' = calls
  BY <1>0, <1>1 DEF LoadImage, Works, AboveKept
<1>2. CASE (RejectImage \/ StartCore \/ StopCore \/ Done) /\ calls' = calls
  BY <1>0, <1>a, <1>2 DEF RejectImage, StartCore, StopCore, Done, vars, Works, AboveKept
<1>3. CASE UNCHANGED fvars
  BY <1>0, <1>a, <1>3 DEF fvars, vars, Works, AboveKept
<1>4. CASE FInstruct
  <2>1. PICK i \in Code[rl[PC]] : Disciplined(i) /\ Execute(i) /\ Logged(i) /\ Running
    BY <1>4 DEF FInstruct, FExecute
  <2>2. i.a \in Operand /\ i.b \in Operand
    BY <1>0, InstrType, RegisterNumbers DEF TypeOK
  <2>3. CASE i.op = "bl"
    BY <1>0, <2>1, <2>3, BlEnters
  <2>4. CASE i.op = "int"
    BY <1>0, <2>1, <2>4, IntEnters
  <2>5. CASE i.op = "ret"
    BY <1>0, <2>1, <2>5, RetLeaves
  <2>6. CASE i.op = "intret"
    BY <1>0, <2>1, <2>6, IntretLeaves
  <2>7. CASE i.op \notin {"bl", "int", "ret", "intret"}
    <3>1. calls' = calls
      BY <2>1, <2>7 DEF Logged
    <3>2. exec' \in {exec, "killed"}
      BY <2>1, ExecutionGoesOn
    <3>3. /\ rl'[FP] = rl[FP] /\ rl'[ELB] = rl[ELB]
          /\ calls # <<>> => /\ rl'[EL] = rl[EL]
                             /\ rl'[SP] <= rl'[FP] /\ (rl'[FP] - rl'[SP]) % 2 = 0
                             /\ \A a \in Addr : a >= rl[FP] + 2 => mem'[a] = mem[a]
      BY <2>1, <2>2, <2>7, WorkKeeps
    <3> QED
      BY <1>0, <3>1, <3>2, <3>3 DEF Works, AboveKept
  <2> QED
    BY <2>3, <2>4, <2>5, <2>6, <2>7
<1> QED
  BY <1>1, <1>2, <1>3, <1>4 DEF FNext, FStop

(* The frames of the next state, and the step of the abstract call stack. *)
LEMMA StepImplements ==
  ASSUME ~Reentrant, FramesInv, [FNext]_fvars
  PROVE  FramesInv' /\ Stack!Next
BY StepKinds, EntersImplements, LeavesImplements, WorksImplements DEF Stack!Next

(* There are no frames at first. *)
LEMMA InitImplements == FInit => FramesInv /\ Stack!Init
<1> SUFFICES ASSUME FInit PROVE FramesInv /\ Stack!Init
  OBVIOUS
<1>1. TypeOK /\ calls = <<>> /\ Depth = 0
  BY InitType DEF FInit, Depth
<1>2. FramesInv
  BY <1>1 DEF FramesInv, CallsType, FramesApart, StackPointersSaved, ElevationsFollow, OneInterrupt
<1>3. Frames = <<>>
  BY <1>1 DEF Frames
<1>4. RunningContext \in MachineContext
  BY <1>1, RunningContextType
<1> QED
  BY <1>2, <1>3, <1>4 DEF Stack!Init, Frames

(***************************************************************************)
(* Of a program that follows the convention and raises no interrupt while  *)
(* one is handled: bl and int suspend the running context, ret and intret  *)
(* resume the one suspended last, exactly as it was and at its elevation,  *)
(* and no step of a callee or a handler touches a suspended one; whatever  *)
(* the page tables, the handlers, the images and the instructions.         *)
(***************************************************************************)
THEOREM FramesImplementCallStack == ASSUME ~Reentrant PROVE FSpec => ImplementsCallStack
<1>1. FInit => FramesInv /\ Stack!Init
  BY InitImplements
<1>2. FramesInv /\ [FNext]_fvars
        => FramesInv' /\ [Stack!Next]_<<RunningContext, [k \in 1 .. Depth |-> InFrame(k)]>>
  BY StepImplements
<1> QED
  BY <1>1, <1>2, PTL DEF FSpec, ImplementsCallStack, Stack!Spec

(***************************************************************************)
(* And every return continues at the elevation of the call: what ic.c:95   *)
(* says of intret holds as long as handlers are not interrupted.           *)
(***************************************************************************)
THEOREM ElevationComesBack == ASSUME ~Reentrant PROVE FSpec => ElevationBackToBefore
<1> DEFINE Back == Len(calls') < Len(calls) => rl'[EL] = Head(calls).el
<1>1. FInit => FramesInv
  BY InitImplements
<1>2. FramesInv /\ [FNext]_fvars => FramesInv' /\ [Back]_fvars
  <2> SUFFICES ASSUME FramesInv, [FNext]_fvars PROVE FramesInv' /\ Back
    OBVIOUS
  <2>1. FramesInv' /\ Depth \in Nat /\ calls \in Seq(Call) /\ Depth = Len(calls)
    BY StepImplements, FramesType DEF Depth
  <2>2. CASE \E call, fp : Enters(call, fp)
    <3>1. Depth' = Depth + 1
      BY <2>2, FramesMove
    <3> QED
      BY <2>1, <3>1 DEF Depth
  <2>3. CASE Leaves
    BY <2>1, <2>3, FramesMoveBack
  <2>4. CASE Works
    BY <2>1, <2>4 DEF Works
  <2> QED
    BY <2>2, <2>3, <2>4, StepKinds
<1> QED
  BY <1>1, <1>2, PTL DEF FSpec, ElevationBackToBefore

-----------------------------------------------------------------------------
(***************************************************************************)
(* The system calls (LaosInt): what is known of the registers at each line *)
(* of the handler, from the interrupt to intret.                           *)
(***************************************************************************)
AtLine(k) == rl[PC] = INTHANDLER + 4 * k

(* What the comparison with SYS_max leaves in cf. *)
Compared ==
  IF Signed(asked[1]) = SYS_in THEN CMP_Z
  ELSE IF Signed(asked[1]) < SYS_in THEN CMP_L ELSE CMP_G

(* The call is served when the handler returns. *)
Served(read) ==
  /\ asked[1] = SYS_out => served = << <<"out", Low(asked[2])>> >>
  /\ asked[1] = SYS_in  => served = << <<"in", Low(read)>> >>
  /\ asked[1] \notin {SYS_out, SYS_in} => served = <<>>

(* What holds before line k. *)
Before(k) ==
  /\ k \in 0 .. 2 => rl[R0] = asked[1]
  /\ k = 1 => rl[CF] = Compared
  /\ k \in {2, 3} => asked[1] \in {SYS_out, SYS_in}
  /\ k = 3 => rl[R0] = 4 * asked[1]
  /\ k \in {4, 6, 7, 8} => asked[1] = SYS_out
  /\ k \in {5, 9, 10} => asked[1] = SYS_in
  /\ k \in {0, 1, 2, 3, 4, 6} => rl[R1] = asked[2]
  /\ k = 7 => Low(rl[R1]) = Low(asked[2])
  /\ k \in {0, 1, 2, 3, 4, 5, 6, 7, 9} => served = <<>>
  /\ k \in {8, 10, 11} => Served(rl[RR])

(* An interrupt's frame is the nearest, and its number is not negative. *)
Serving == calls # <<>> /\ Head(calls).by = "int" /\ Signed(asked[1]) >= 0

ServiceInv ==
  /\ TypeOK
  /\ calls \in Seq(Call)
  /\ asked \in Word \X Word
  /\ exec \in {"allocated", "loaded"} => term = "none" /\ rl[PC] \notin HandlerLines
  /\ term = "none" /\ Serving => \A k \in 0 .. 11 : AtLine(k) => Before(k)

-----------------------------------------------------------------------------
(* Powers of two and bits. *)

Power(k) == 2 ^ k

LEMMA PowerDoubles ==
  /\ Power(0) = 1
  /\ \A k \in Nat : k < 2 * BITS => Power(k + 1) = 2 * Power(k)
BY PowerAssumption, SizeAssumption DEF Power

LEMMA PowerType == \A k \in 0 .. 2 * BITS : Power(k) \in Nat \ {0}
<1> DEFINE S == {k \in Nat : k <= 2 * BITS => Power(k) \in Nat \ {0}}
<1>1. 0 \in S
  BY PowerDoubles
<1>2. ASSUME NEW k \in Nat, k \in S PROVE k + 1 \in S
  <2> SUFFICES ASSUME k + 1 <= 2 * BITS PROVE Power(k + 1) \in Nat \ {0}
    OBVIOUS
  <2>1. 2 * BITS \in Nat
    BY SizeAssumption
  <2>2. k < 2 * BITS /\ k <= 2 * BITS
    BY <2>1
  <2>3. Power(k) \in Nat \ {0} /\ Power(k + 1) = 2 * Power(k)
    BY <1>2, <2>2, PowerDoubles
  <2>4. PICK p \in Nat \ {0} : p = Power(k)
    BY <2>3
  <2> QED
    BY <2>3, <2>4
<1>3. Nat \subseteq S
  <2> HIDE DEF S
  <2> QED
    BY <1>1, <1>2, NatBySets
<1>4. \A k \in 0 .. 2 * BITS : k \in Nat /\ k <= 2 * BITS
  BY SizeAssumption
<1> QED
  BY <1>3, <1>4

(* The provers' arithmetic of quotients and remainders, with a name. *)
LEMMA DivisionUnique ==
  ASSUME NEW d \in Nat \ {0}, NEW q \in Nat, NEW r \in 0 .. d - 1
  PROVE  (d * q + r) \div d = q /\ (d * q + r) % d = r
OBVIOUS

(* One more bit. *)
LEMMA OneMoreBit ==
  ASSUME NEW p \in Nat \ {0}, NEW v \in Nat
  PROVE  v % (2 * p) = (v % p) + p * ((v \div p) % 2)
<1>1. PICK q \in Nat, r \in 0 .. p - 1 : v = p * q + r
  <2>1. v \div p \in Nat /\ v % p \in 0 .. p - 1 /\ v = p * (v \div p) + (v % p)
    OBVIOUS
  <2> QED
    BY <2>1
<1>2. v \div p = q /\ v % p = r
  BY <1>1, DivisionUnique
<1>3. PICK h \in Nat, b \in {0, 1} : q = 2 * h + b
  <2>1. q \div 2 \in Nat /\ q % 2 \in {0, 1} /\ q = 2 * (q \div 2) + (q % 2)
    OBVIOUS
  <2> QED
    BY <2>1
<1>4. q % 2 = b
  BY <1>3
<1>5. p * q = (2 * p) * h + p * b
  BY <1>3
<1>6. PICK s \in 0 .. 2 * p - 1 : s = p * b + r
  BY <1>3
<1>7. v = (2 * p) * h + s /\ 2 * p \in Nat \ {0}
  BY <1>1, <1>5, <1>6
<1>8. v % (2 * p) = s
  BY <1>7, DivisionUnique
<1> QED
  BY <1>2, <1>4, <1>6, <1>8

(* A greater power of two is a multiple of a smaller one. *)
LEMMA PowerDivides ==
  \A n \in 0 .. BITS : \A k \in 0 .. n : \E q \in Nat \ {0} : Power(n) = q * Power(k)
<1> DEFINE S == {n \in Nat : n <= BITS => \A k \in 0 .. n : \E q \in Nat \ {0} : Power(n) = q * Power(k)}
<1>0. BITS \in Nat /\ \A n \in Nat : n <= BITS => Power(n) \in Nat \ {0}
  BY PowerType, SizeAssumption
<1>1. 0 \in S
  <2>1. \A k \in 0 .. 0 : k = 0
    OBVIOUS
  <2>2. Power(0) = 1 * Power(0)
    BY PowerDoubles
  <2> QED
    BY <2>1, <2>2
<1>2. ASSUME NEW n \in Nat, n \in S PROVE n + 1 \in S
  <2> SUFFICES ASSUME n + 1 <= BITS, NEW k \in 0 .. n + 1
               PROVE  \E q \in Nat \ {0} : Power(n + 1) = q * Power(k)
    OBVIOUS
  <2>1. n < 2 * BITS /\ n <= BITS
    BY <1>0
  <2>2. Power(n + 1) = 2 * Power(n)
    BY <2>1, PowerDoubles
  <2>3. CASE k = n + 1
    <3>1. Power(n + 1) \in Nat \ {0}
      BY <1>0
    <3>2. Power(n + 1) = 1 * Power(k)
      BY <2>3, <3>1
    <3> QED
      BY <3>2
  <2>4. CASE k # n + 1
    <3>1. k \in 0 .. n
      BY <2>4
    <3>2. PICK q \in Nat \ {0} : Power(n) = q * Power(k)
      BY <1>2, <2>1, <3>1
    <3>3. PICK p \in Nat : p = Power(k)
      BY <1>0, <2>1, <3>1
    <3>4. Power(n + 1) = (2 * q) * p
      BY <2>2, <3>2, <3>3
    <3>5. 2 * q \in Nat \ {0}
      OBVIOUS
    <3> QED
      BY <3>3, <3>4, <3>5
  <2> QED
    BY <2>3, <2>4
<1>3. Nat \subseteq S
  <2> HIDE DEF S
  <2> QED
    BY <1>1, <1>2, NatBySets
<1>4. \A n \in 0 .. BITS : n \in Nat /\ n <= BITS
  BY <1>0
<1> QED
  BY <1>3, <1>4

(* All the low bits of the greatest byte are set. *)
LEMMA MaskBits == ASSUME NEW k \in 0 .. BITS - 1 PROVE Bit(BYTE - 1, k) = 1
<1>0. BITS \in Nat /\ k \in Nat /\ k + 1 \in 0 .. BITS /\ BITS \in 0 .. BITS /\ k < 2 * BITS
      /\ BYTE = Power(BITS)
  BY SizeAssumption DEF Power
<1>1. PICK q \in Nat \ {0} : Power(BITS) = q * Power(k + 1)
  BY <1>0, PowerDivides
<1>2. PICK p \in Nat \ {0} : p = Power(k)
  BY <1>0, PowerType
<1>3. BYTE = q * (2 * p)
  BY <1>0, <1>1, <1>2, PowerDoubles
<1>4. PICK odd \in Nat, r \in 0 .. p - 1 : odd = 2 * q - 1 /\ r = p - 1
  OBVIOUS
<1>5. BYTE - 1 = p * odd + r
  BY <1>3, <1>4
<1>6. (BYTE - 1) \div p = odd
  BY <1>5, DivisionUnique
<1>7. odd % 2 = 1
  BY <1>4
<1> QED
  BY <1>2, <1>6, <1>7 DEF Bit, Power

(* Masking with the greatest byte leaves the low byte. *)
LEMMA MaskKeepsLow ==
  ASSUME NEW x \in Word, NEW v \in AluResult("and", x, BYTE - 1) PROVE Low(v) = Low(x)
<1>0. /\ v \in Nat /\ x \in Nat /\ BITS \in Nat /\ BYTE = Power(BITS)
      /\ \A k \in WordBit : Bit(v, k) = Bit(x, k) * Bit(BYTE - 1, k)
  BY SizeFacts, SizeAssumption DEF AluResult, Word, Power
<1> DEFINE S == {n \in Nat : n <= BITS => v % Power(n) = x % Power(n)}
<1>1. 0 \in S
  <2>1. v % 1 = 0 /\ x % 1 = 0
    BY <1>0
  <2> QED
    BY <2>1, PowerDoubles
<1>2. ASSUME NEW n \in Nat, n \in S PROVE n + 1 \in S
  <2> SUFFICES ASSUME n + 1 <= BITS PROVE v % Power(n + 1) = x % Power(n + 1)
    OBVIOUS
  <2>1. n \in 0 .. BITS - 1 /\ n \in WordBit /\ n < 2 * BITS /\ n \in 0 .. 2 * BITS
    BY <1>0 DEF WordBit
  <2>2. PICK p \in Nat \ {0} : p = Power(n)
    BY <2>1, PowerType
  <2>3. Power(n + 1) = 2 * p
    BY <2>1, <2>2, PowerDoubles
  <2>4. v % p = x % p
    <3>1. n <= BITS
      BY <1>0
    <3> QED
      BY <1>2, <2>2, <3>1
  <2>5. Bit(x, n) \in {0, 1} /\ Bit(v, n) = Bit(x, n) * 1
    <3>1. Bit(x, n) = (x \div p) % 2 /\ x \div p \in Nat
      BY <1>0, <2>2 DEF Bit, Power
    <3> QED
      BY <1>0, <2>1, <3>1, MaskBits
  <2>6. (v \div p) % 2 = (x \div p) % 2
    BY <2>2, <2>5 DEF Bit, Power
  <2>7. /\ v % (2 * p) = (v % p) + p * ((v \div p) % 2)
        /\ x % (2 * p) = (x % p) + p * ((x \div p) % 2)
    BY <1>0, OneMoreBit
  <2> QED
    BY <2>3, <2>4, <2>6, <2>7
<1>3. BITS \in S
  <2> HIDE DEF S
  <2> QED
    BY <1>0, <1>1, <1>2, NatBySets
<1> QED
  BY <1>0, <1>3 DEF Low

-----------------------------------------------------------------------------
(* The lines of the handler. *)

(* Lines are addresses of the memory, and different ones. *)
LEMMA LineAddresses ==
  /\ \A k \in 0 .. 12 : INTHANDLER + 4 * k \in Word
  /\ \A j, k \in 0 .. 11 : INTHANDLER + 4 * j = INTHANDLER + 4 * k => j = k
  /\ HandlerLines = {INTHANDLER + 4 * k : k \in 0 .. 11}
  /\ END = INTHANDLER + 4 * 11
BY HandlerAssumption, SizeFacts DEF END, Word, HandlerLines

(* The instruction at a line. *)
LEMMA LineHolds ==
  ASSUME NEW k \in 0 .. 11, AtLine(k), NEW i \in Code[rl[PC]] PROVE i = Inthandler[k + 1]
BY HandlerAssumption DEF AtLine

(* What runs is what was decoded, of the handler's operations. *)
LEMMA ServicesOp ==
  ASSUME NEW i, Execute(i)
  PROVE  /\ i.op = "cmp" => Cmp(i)
         /\ i.op \in {"jmp", "jgt"} => Jump(i)
         /\ i.op \in {"mul", "add", "and"} => Alu(i)
         /\ i.op = "out" => Out(i)
         /\ i.op = "in" => In(i)
BY DEF Execute, Hlt, Nop, In, Out, Ldb, Stb, Ldw, Stw, Mov, Swp, Swpz, Push, Pop, Alu, AluOp,
       DivisionTrap, IncDec, Not, Jump, Cmp, Bl, Ret, Interrupt, Intset, Intret, Ppcnt,
       Ppktrrset, Vpset, Vpget, Vpflgset, Vpflgget, Vpaddr

(* One line after the other. *)
LEMMA NextLine ==
  ASSUME NEW regs, IsRegs(regs), NEW k \in 0 .. 10, regs[PC] = INTHANDLER + 4 * k, Retire(regs)
  PROVE  AtLine(k + 1)' /\ \A r \in Reg \ {PC} : rl'[r] = regs[r]
<1>1. PICK a \in Nat : a = INTHANDLER + 4 * k
  BY HandlerAssumption
<1>2. a + 4 = INTHANDLER + 4 * (k + 1) /\ a + 4 < WORD
  BY <1>1, LineAddresses, SizeFacts, HandlerAssumption DEF Word
<1>3. rl'[PC] = a + 4
  BY <1>1, <1>2, RetireMovesOn, InRange
<1> QED
  BY <1>2, <1>3, RetireKeeps DEF AtLine

(* A jump to a line. *)
LEMMA JumpToLine ==
  ASSUME TypeOK, NEW j \in 0 .. 11, Retire(Goto(rl, INTHANDLER + 4 * j))
  PROVE  AtLine(j)' /\ \A r \in Reg \ {PC} : rl'[r] = rl[r]
<1>1. PICK t \in Word : t = INTHANDLER + 4 * j
  BY LineAddresses
<1>2. rl \in RegFile /\ Goto(rl, t) \in RegFile /\ IsRegs(Goto(rl, t))
      /\ \A r \in Reg \ {PC} : Goto(rl, t)[r] = rl[r]
  BY GotoType DEF TypeOK, RegFile, IsRegs, Goto
<1>3. rl'[PC] = t
  BY <1>1, <1>2, GotoArrives
<1> QED
  BY <1>1, <1>2, <1>3, RetireKeeps DEF AtLine

(* The registers of the handler. *)
LEMMA ServiceRegisters ==
  /\ {R0, R1, RR, CF, PC} \subseteq Reg
  /\ R0 # PC /\ R1 # PC /\ RR # PC /\ R0 # CF /\ R1 # CF /\ R0 # R1 /\ PC # CF /\ RR # R0
BY SizeAssumption DEF R0, R1, RR, CF, PC, Reg, ELB, EL

(* A line that writes one register. *)
LEMMA LineWrites ==
  ASSUME TypeOK, NEW k \in 0 .. 10, AtLine(k), NEW r \in Reg \ {PC}, NEW v,
         Retire([rl EXCEPT ![r] = v])
  PROVE  /\ AtLine(k + 1)' /\ rl'[r] = v
         /\ \A q \in Reg \ {PC, r} : rl'[q] = rl[q]
<1> DEFINE regs == [rl EXCEPT ![r] = v]
<1>1. IsRegs(regs) /\ regs[PC] = rl[PC] /\ regs[r] = v /\ \A q \in Reg \ {r} : regs[q] = rl[q]
  BY RegisterNumbers DEF TypeOK, IsRegs
<1>2. Retire(regs)
  OBVIOUS
<1> HIDE DEF regs
<1> QED
  BY <1>1, <1>2, NextLine DEF AtLine

(* A line that writes none. *)
LEMMA LinePasses ==
  ASSUME TypeOK, NEW k \in 0 .. 10, AtLine(k), Retire(rl)
  PROVE  AtLine(k + 1)' /\ \A q \in Reg \ {PC} : rl'[q] = rl[q]
<1>1. IsRegs(rl)
  BY DEF TypeOK, IsRegs
<1> QED
  BY <1>1, NextLine DEF AtLine

(* cmp r0, SYS_max *)
LEMMA CmpLine ==
  ASSUME TypeOK, AtLine(0), NEW i, i = Inthandler[1], Execute(i)
  PROVE  /\ AtLine(1)' /\ rl'[R0] = rl[R0] /\ rl'[R1] = rl[R1]
         /\ rl'[CF] = IF Signed(rl[R0]) = SYS_in THEN CMP_Z
                      ELSE IF Signed(rl[R0]) < SYS_in THEN CMP_L ELSE CMP_G
<1>1. /\ i.op = "cmp" /\ i.a = R(R0) /\ i.b = Imm(SYS_in)
      /\ Val(i.a) = rl[R0] /\ Val(i.b) = SYS_in
  BY DEF Inthandler, Line, R, Imm, Val, ValIn
<1>2. Signed(SYS_in) = SYS_in
  BY SizeFacts DEF Signed, SYS_in
<1> DEFINE flag == IF Signed(rl[R0]) = SYS_in THEN CMP_Z
                   ELSE IF Signed(rl[R0]) < SYS_in THEN CMP_L ELSE CMP_G
<1>3. Retire([rl EXCEPT ![CF] = flag])
  BY <1>1, <1>2, ServicesOp DEF Cmp, RegisterStep
<1> HIDE DEF flag
<1>4. AtLine(0 + 1)' /\ rl'[CF] = flag /\ \A q \in Reg \ {PC, CF} : rl'[q] = rl[q]
  BY <1>3, LineWrites, ServiceRegisters
<1> QED
  BY <1>4, ServiceRegisters DEF flag

(* jgt *)
LEMMA JgtLine ==
  ASSUME TypeOK, AtLine(1), NEW i, i = Inthandler[2], Execute(i)
  PROVE  /\ \A q \in Reg \ {PC} : rl'[q] = rl[q]
         /\ HasFlag(rl[CF], CMP_G) => AtLine(11)'
         /\ ~HasFlag(rl[CF], CMP_G) => AtLine(2)'
<1>1. i.op = "jgt" /\ Val(i.a) = INTHANDLER + 4 * 11
  BY DEF Inthandler, Line, To, Imm, Val, ValIn
<1>2. Retire(IF HasFlag(rl[CF], CMP_G) THEN Goto(rl, INTHANDLER + 4 * 11) ELSE rl)
  BY <1>1, ServicesOp DEF Jump, Taken, RegisterStep
<1>3. CASE HasFlag(rl[CF], CMP_G)
  BY <1>2, <1>3, JumpToLine
<1>4. CASE ~HasFlag(rl[CF], CMP_G)
  <2>1. AtLine(1 + 1)' /\ \A q \in Reg \ {PC} : rl'[q] = rl[q]
    BY <1>2, <1>4, LinePasses
  <2> QED
    BY <1>4, <2>1
<1> QED
  BY <1>3, <1>4

(* mul r0, 4: the number of a service is small. *)
LEMMA MulLine ==
  ASSUME TypeOK, AtLine(2), NEW i, i = Inthandler[3], Execute(i), rl[R0] \in {SYS_out, SYS_in}
  PROVE  AtLine(3)' /\ rl'[R0] = 4 * rl[R0] /\ rl'[R1] = rl[R1]
<1>1. /\ i.op = "mul" /\ i.a = R(R0) /\ Val(i.a) = rl[R0] /\ Val(i.b) = 4
      /\ i.a.kind = "reg" /\ i.a.val = R0
  BY DEF Inthandler, Line, R, Imm, Val, ValIn
<1>2. PICK v : v \in AluResult("mul", rl[R0], 4) /\ Retire(Store(rl, i.a, v))
  BY <1>1, ServicesOp DEF Alu, RegisterStep
<1>3. v = W(rl[R0] * 4)
  BY <1>2 DEF AluResult
<1>4. v = 4 * rl[R0]
  <2>1. rl[R0] * 4 \in {0, 4} /\ rl[R0] * 4 = 4 * rl[R0]
    BY DEF SYS_out, SYS_in
  <2>2. \A x \in {0, 4} : W(x) = x
    BY InRange, SizeFacts
  <2> QED
    BY <1>3, <2>1, <2>2
<1>5. Retire([rl EXCEPT ![R0] = v])
  BY <1>1, <1>2 DEF Store
<1>6. AtLine(2 + 1)' /\ rl'[R0] = v /\ \A q \in Reg \ {PC, R0} : rl'[q] = rl[q]
  BY <1>5, LineWrites, ServiceRegisters
<1> QED
  BY <1>4, <1>6, ServiceRegisters

(* add pc, r0: to an entry of the jump table. *)
LEMMA AddLine ==
  ASSUME TypeOK, AtLine(3), NEW i, i = Inthandler[4], Execute(i),
         NEW n \in {SYS_out, SYS_in}, rl[R0] = 4 * n
  PROVE  AtLine(4 + n)' /\ \A q \in Reg \ {PC} : rl'[q] = rl[q]
<1>1. /\ i.op = "add" /\ i.a = R(PC) /\ Val(i.a) = rl[PC] /\ Val(i.b) = rl[R0]
      /\ i.a.kind = "reg" /\ i.a.val = PC
  BY DEF Inthandler, Line, R, Imm, Val, ValIn
<1>2. PICK v : v \in AluResult("add", rl[PC], rl[R0]) /\ Retire(Store(rl, i.a, v))
  BY <1>1, ServicesOp DEF Alu, RegisterStep
<1>3. v = W(rl[PC] + rl[R0])
  BY <1>2 DEF AluResult
<1>4. n \in {0, 1} /\ 3 + n \in 0 .. 10 /\ (3 + n) + 1 = 4 + n
  BY DEF SYS_out, SYS_in
<1>5. v = INTHANDLER + 4 * (3 + n)
  <2>1. rl[PC] + rl[R0] = INTHANDLER + 4 * (3 + n)
    BY <1>4, HandlerAssumption DEF AtLine
  <2>2. INTHANDLER + 4 * (3 + n) \in Nat /\ INTHANDLER + 4 * (3 + n) < WORD
    BY <1>4, LineAddresses, SizeFacts DEF Word
  <2> QED
    BY <1>3, <2>1, <2>2, InRange
<1> DEFINE regs == [rl EXCEPT ![PC] = v]
<1>6. IsRegs(regs) /\ regs[PC] = v /\ \A q \in Reg \ {PC} : regs[q] = rl[q]
  BY RegisterNumbers DEF TypeOK, IsRegs
<1>7. Retire(regs)
  BY <1>1, <1>2 DEF Store
<1> HIDE DEF regs
<1>8. AtLine((3 + n) + 1)' /\ \A q \in Reg \ {PC} : rl'[q] = regs[q]
  BY <1>4, <1>5, <1>6, <1>7, NextLine
<1> QED
  BY <1>4, <1>6, <1>8

(* The jumps of the table and the ends of the services. *)
LEMMA JmpLine ==
  ASSUME TypeOK, NEW k \in {4, 5, 8, 10}, AtLine(k), NEW i, i = Inthandler[k + 1], Execute(i)
  PROVE  /\ AtLine(IF k = 4 THEN 6 ELSE IF k = 5 THEN 9 ELSE 11)'
         /\ \A q \in Reg \ {PC} : rl'[q] = rl[q]
<1> DEFINE j == IF k = 4 THEN 6 ELSE IF k = 5 THEN 9 ELSE 11
<1>1. i.op = "jmp" /\ Val(i.a) = INTHANDLER + 4 * j
  BY DEF Inthandler, Line, To, Imm, Val, ValIn
<1>2. j \in 0 .. 11
  OBVIOUS
<1> HIDE DEF j
<1>3. Retire(Goto(rl, INTHANDLER + 4 * j))
  BY <1>1, ServicesOp DEF Jump, Taken, RegisterStep
<1>4. AtLine(j)' /\ \A q \in Reg \ {PC} : rl'[q] = rl[q]
  BY <1>2, <1>3, JumpToLine
<1> QED
  BY <1>4 DEF j

(* and r1, 0xff *)
LEMMA AndLine ==
  ASSUME TypeOK, AtLine(6), NEW i, i = Inthandler[7], Execute(i)
  PROVE  AtLine(7)' /\ Low(rl'[R1]) = Low(rl[R1])
<1>1. /\ i.op = "and" /\ Val(i.a) = rl[R1] /\ Val(i.b) = BYTE - 1
      /\ i.a.kind = "reg" /\ i.a.val = R1
  BY DEF Inthandler, Line, R, Imm, Val, ValIn
<1>2. PICK v \in AluResult("and", rl[R1], BYTE - 1) : Retire(Store(rl, i.a, v))
  BY <1>1, ServicesOp DEF Alu, RegisterStep
<1>3. Low(v) = Low(rl[R1])
  BY MaskKeepsLow, ServiceRegisters DEF TypeOK
<1>4. Retire([rl EXCEPT ![R1] = v])
  BY <1>1, <1>2 DEF Store
<1>5. AtLine(6 + 1)' /\ rl'[R1] = v
  BY <1>4, LineWrites, ServiceRegisters
<1> QED
  BY <1>3, <1>5

(* out and in go on to the next line, and stop the core if refused. *)
LEMMA OutLine ==
  ASSUME TypeOK, AtLine(7), NEW i, i = Inthandler[8], Execute(i)
  PROVE  AtLine(8)' /\ i.op = "out" /\ Val(i.b) = rl[R1] /\ (term' = "none" => rl[EL] # EL0)
<1>1. i.op = "out" /\ Val(i.b) = rl[R1]
  BY DEF Inthandler, Line, R, Val, ValIn
<1>2. Retire(rl) /\ (term' = "none" => rl[EL] # EL0)
  BY <1>1, ServicesOp DEF Out, Refuse, RegisterStep, Fault
<1>3. AtLine(7 + 1)'
  BY <1>2, LinePasses
<1> QED
  BY <1>1, <1>2, <1>3

LEMMA InLine ==
  ASSUME TypeOK, AtLine(9), NEW i, i = Inthandler[10], Execute(i)
  PROVE  AtLine(10)' /\ i.op = "in" /\ i.a.val = RR /\ (term' = "none" => rl[EL] # EL0)
<1>1. i.op = "in" /\ i.a.kind = "reg" /\ i.a.val = RR
  BY DEF Inthandler, Line, R
<1>2. Retire(rl) \/ \E v : Retire([rl EXCEPT ![RR] = v])
  BY <1>1, ServicesOp DEF In, Refuse, RegisterStep, Store
<1>3. term' = "none" => rl[EL] # EL0
  BY <1>1, ServicesOp DEF In, Refuse, Fault
<1>4. CASE Retire(rl)
  <2>1. AtLine(9 + 1)'
    BY <1>4, LinePasses
  <2> QED
    BY <1>1, <1>3, <2>1
<1>5. CASE \E v : Retire([rl EXCEPT ![RR] = v])
  <2>1. PICK v : Retire([rl EXCEPT ![RR] = v])
    BY <1>5
  <2>2. AtLine(9 + 1)'
    BY <2>1, LineWrites, ServiceRegisters
  <2> QED
    BY <1>1, <1>3, <2>2
<1> QED
  BY <1>2, <1>4, <1>5

-----------------------------------------------------------------------------
(* The invariant. *)

(* A line keeps what the next one relies on. *)
LEMMA LineServes ==
  ASSUME TypeOK, asked \in Word \X Word, Signed(asked[1]) >= 0,
         NEW k \in 0 .. 10, AtLine(k), Before(k),
         NEW i, i = Inthandler[k + 1], Execute(i), Serve(i), term' = "none"
  PROVE  asked' = asked /\ \E j \in 0 .. 11 : AtLine(j)' /\ Before(j)'
<1> USE DEF SYS_out, SYS_in
<1>1. i.op \notin {"int", "bl", "ret", "intret"} /\ (i.op \in {"out", "in"} => k \in {7, 9})
  <2>1. i.op = <<"cmp", "jgt", "mul", "add", "jmp", "jmp", "and", "out", "jmp", "in", "jmp">>[k + 1]
    BY DEF Inthandler, Line
  <2> QED
    BY <2>1
<1>2. asked' = asked /\ (k \notin {7, 9} => served' = served)
  BY <1>1 DEF Serve
<1>3. PICK n \in Word, r \in Word : asked = <<n, r>>
  OBVIOUS
<1>4. CASE k = 0
  <2>1. /\ rl[R0] = n /\ rl[R1] = r /\ served = <<>> /\ AtLine(0)
    BY <1>3, <1>4 DEF Before
  <2>2. AtLine(1)' /\ rl'[R0] = n /\ rl'[R1] = r /\ rl'[CF] = Compared
    BY <1>3, <1>4, <2>1, CmpLine DEF Compared
  <2>3. Before(1)'
    BY <1>2, <1>3, <1>4, <2>1, <2>2 DEF Before, Compared
  <2> QED
    BY <1>2, <2>2, <2>3
<1>5. CASE k = 1
  <2>1. /\ rl[R0] = n /\ rl[R1] = r /\ served = <<>> /\ AtLine(1) /\ rl[CF] = Compared
    BY <1>3, <1>5 DEF Before
  <2>2. rl'[R0] = n /\ rl'[R1] = r
    BY <1>5, <2>1, JgtLine, ServiceRegisters
  <2>3. n \in {0, 1} <=> ~HasFlag(rl[CF], CMP_G)
    <3>1. ~HasFlag(CMP_Z, CMP_G) /\ ~HasFlag(CMP_L, CMP_G) /\ HasFlag(CMP_G, CMP_G)
      BY DEF HasFlag, CMP_Z, CMP_L, CMP_G
    <3>2. n \in {0, 1} <=> Signed(n) <= 1
      BY <1>3, SizeFacts DEF Signed, Word
    <3>3. Signed(n) \in Int
      BY SizeFacts DEF Signed, Word
    <3> QED
      BY <1>3, <2>1, <3>1, <3>2, <3>3 DEF Compared
  <2>4. CASE n \in {0, 1}
    <3>1. AtLine(2)'
      BY <1>5, <2>1, <2>3, <2>4, JgtLine
    <3>2. Before(2)'
      BY <1>2, <1>3, <1>5, <2>1, <2>2, <2>4 DEF Before
    <3> QED
      BY <1>2, <3>1, <3>2
  <2>5. CASE n \notin {0, 1}
    <3>1. AtLine(11)'
      BY <1>5, <2>1, <2>3, <2>5, JgtLine
    <3>2. Before(11)'
      BY <1>2, <1>3, <1>5, <2>1, <2>5 DEF Before, Served
    <3> QED
      BY <1>2, <3>1, <3>2
  <2> QED
    BY <2>4, <2>5
<1>6. CASE k = 2
  <2>1. rl[R0] = n /\ n \in {0, 1} /\ rl[R1] = r /\ served = <<>> /\ AtLine(2)
    BY <1>3, <1>6 DEF Before
  <2>2. AtLine(3)' /\ rl'[R0] = 4 * n /\ rl'[R1] = r
    BY <1>6, <2>1, MulLine
  <2>3. Before(3)'
    BY <1>2, <1>3, <1>6, <2>1, <2>2 DEF Before
  <2> QED
    BY <1>2, <2>2, <2>3
<1>7. CASE k = 3
  <2>1. rl[R0] = 4 * n /\ n \in {0, 1} /\ rl[R1] = r /\ served = <<>> /\ AtLine(3)
    BY <1>3, <1>7 DEF Before
  <2>2. AtLine(4 + n)' /\ rl'[R1] = r
    BY <1>7, <2>1, AddLine, ServiceRegisters
  <2>3. CASE n = 0
    <3>1. 4 + n = 4
      BY <2>3
    <3>2. Before(4)'
      BY <1>2, <1>3, <1>7, <2>1, <2>2, <2>3 DEF Before
    <3> QED
      BY <1>2, <2>2, <3>1, <3>2
  <2>4. CASE n = 1
    <3>1. 4 + n = 5
      BY <2>4
    <3>2. Before(5)'
      BY <1>2, <1>3, <1>7, <2>1, <2>2, <2>4 DEF Before
    <3> QED
      BY <1>2, <2>2, <3>1, <3>2
  <2> QED
    BY <2>1, <2>3, <2>4
<1>8. CASE k = 4
  <2>1. AtLine(4) /\ asked[1] = 0 /\ rl[R1] = asked[2] /\ served = <<>>
    BY <1>8 DEF Before
  <2>2. AtLine(6)' /\ rl'[R1] = rl[R1]
    BY <1>8, <2>1, JmpLine, ServiceRegisters
  <2>3. Before(6)'
    BY <1>2, <1>8, <2>1, <2>2 DEF Before
  <2> QED
    BY <1>2, <2>2, <2>3
<1>9. CASE k = 5
  <2>1. AtLine(5) /\ asked[1] = 1 /\ served = <<>>
    BY <1>9 DEF Before
  <2>2. AtLine(9)'
    BY <1>9, <2>1, JmpLine
  <2>3. Before(9)'
    BY <1>2, <1>9, <2>1 DEF Before
  <2> QED
    BY <1>2, <2>2, <2>3
<1>10. CASE k = 6
  <2>1. AtLine(6) /\ asked[1] = 0 /\ rl[R1] = asked[2] /\ served = <<>>
    BY <1>10 DEF Before
  <2>2. AtLine(7)' /\ Low(rl'[R1]) = Low(asked[2])
    BY <1>10, <2>1, AndLine
  <2>3. Before(7)'
    BY <1>2, <1>10, <2>1, <2>2 DEF Before
  <2> QED
    BY <1>2, <2>2, <2>3
<1>11. CASE k = 7
  <2>1. AtLine(7) /\ asked[1] = 0 /\ Low(rl[R1]) = Low(asked[2]) /\ served = <<>>
    BY <1>11 DEF Before
  <2>2. AtLine(8)' /\ i.op = "out" /\ Val(i.b) = rl[R1] /\ rl[EL] # EL0
    BY <1>11, <2>1, OutLine
  <2>3. served' = << <<"out", Low(asked[2])>> >>
    BY <2>1, <2>2 DEF Serve
  <2>4. Before(8)'
    BY <1>2, <2>1, <2>3 DEF Before, Served
  <2> QED
    BY <1>2, <2>2, <2>4
<1>12. CASE k = 8
  <2>1. AtLine(8) /\ asked[1] = 0 /\ Served(rl[RR])
    BY <1>12 DEF Before
  <2>2. AtLine(11)'
    BY <1>12, <2>1, JmpLine
  <2>3. Before(11)'
    BY <1>2, <1>12, <2>1 DEF Before, Served
  <2> QED
    BY <1>2, <2>2, <2>3
<1>13. CASE k = 9
  <2>1. AtLine(9) /\ asked[1] = 1 /\ served = <<>>
    BY <1>13 DEF Before
  <2>2. AtLine(10)' /\ i.op = "in" /\ i.a.val = RR /\ rl[EL] # EL0
    BY <1>13, <2>1, InLine
  <2>3. served' = << <<"in", Low(rl'[RR])>> >>
    BY <2>1, <2>2 DEF Serve
  <2>4. Before(10)'
    BY <1>2, <2>1, <2>3 DEF Before, Served
  <2> QED
    BY <1>2, <2>2, <2>4
<1>14. CASE k = 10
  <2>1. AtLine(10) /\ asked[1] = 1 /\ Served(rl[RR])
    BY <1>14 DEF Before
  <2>2. AtLine(11)' /\ rl'[RR] = rl[RR]
    BY <1>14, <2>1, JmpLine, ServiceRegisters
  <2>3. Before(11)'
    BY <1>2, <1>14, <2>1, <2>2 DEF Before, Served
  <2> QED
    BY <1>2, <2>2, <2>3
<1> QED
  BY <1>4, <1>5, <1>6, <1>7, <1>8, <1>9, <1>10, <1>11, <1>12, <1>13, <1>14

(* The calls remembered after an instruction, and the kind of a new one. *)
LEMMA CallsMove ==
  ASSUME TypeOK, calls \in Seq(Call), NEW i, Disciplined(i), Logged(i)
  PROVE  /\ calls' \in Seq(Call)
         /\ Len(calls') > Len(calls) => Head(calls').by = i.op /\ i.op \in {"bl", "int"}
         /\ i.op \notin {"bl", "int", "ret", "intret"} => calls' = calls
<1>1. CASE i.op \in {"bl", "int"}
  <2>1. PICK c \in Call : c = [by |-> i.op, el |-> rl[EL]]
    BY <1>1, RegisterNumbers DEF Call, TypeOK
  <2>2. calls' = <<c>> \o calls /\ c.by = i.op
    BY <1>1, <2>1 DEF Logged
  <2>3. calls' \in Seq(Call) /\ Head(calls') = c
    BY <2>2
  <2> QED
    BY <1>1, <2>2, <2>3
<1>2. CASE i.op \in {"ret", "intret"}
  <2>1. calls # <<>> /\ calls' = Tail(calls)
    BY <1>2 DEF Disciplined, Logged
  <2>2. calls' \in Seq(Call) /\ Len(calls') = Len(calls) - 1 /\ Len(calls) \in Nat
    BY <2>1
  <2> QED
    BY <1>2, <2>2
<1>3. CASE i.op \notin {"bl", "int", "ret", "intret"}
  BY <1>3 DEF Logged
<1> QED
  BY <1>1, <1>2, <1>3

(* An interrupt leaves the registers to the handler that the program set. *)
LEMMA InterruptPasses ==
  ASSUME TypeOK, NEW i, i.op = "int", Disciplined(i), Execute(i)
  PROVE  rl'[R0] = rl[R0] /\ rl'[R1] = rl[R1]
<1>1. Interrupt(i) /\ Handler(i) # 0 /\ StackUsable
  BY ExecutesOp DEF Disciplined
<1>2. Retire(Linked(Elevated, W(rl[SP] - 2 * (FRAME + 1)), Imm(Handler(i))))
  BY <1>1 DEF Interrupt
<1>3. IsRegs(Elevated) /\ \A r \in Reg \ {EL, ELB} : Elevated[r] = rl[r]
  BY DEF TypeOK, IsRegs, Elevated
<1>4. \A r \in Reg \ {PC, SP, FP} : rl'[r] = Elevated[r]
  BY <1>2, <1>3, LinkedKeeps
<1>5. {R0, R1} \subseteq Reg \ {PC, SP, FP, EL, ELB}
  BY SizeAssumption DEF R0, R1, RR, PC, SP, FP, Reg, ELB, EL
<1> QED
  BY <1>3, <1>4, <1>5

(* A return from an interrupt leaves rr, which frames do not hold. *)
LEMMA IntretLeavesRR == ASSUME TypeOK, NEW i, i.op = "intret", Execute(i) PROVE rl'[RR] = rl[RR]
<1>1. RR \in Reg /\ RR \notin SavedReg \cup {PC, SP, EL}
  BY SizeAssumption DEF SavedReg, RR, R0, PC, SP, CF, FP, Reg, ELB, EL
<1>2. PICK el \in Word : el = rl[EL]
  BY RegisterNumbers DEF TypeOK
<1>3. Intret(i)
  BY ExecutesOp
<1> DEFINE back == Returned(el, rl[FP])
<1>4. IsRegs(back) /\ back[RR] = rl[RR]
  BY <1>1 DEF Returned, IsRegs
<1>5. PICK sp : Retire([back EXCEPT ![SP] = sp, ![EL] = rl[ELB]])
  BY <1>2, <1>3 DEF Intret
<1> HIDE DEF back
<1>6. /\ IsRegs([back EXCEPT ![SP] = sp, ![EL] = rl[ELB]])
      /\ [back EXCEPT ![SP] = sp, ![EL] = rl[ELB]][RR] = rl[RR]
  BY <1>1, <1>4 DEF IsRegs
<1> QED
  BY <1>1, <1>5, <1>6, RetireKeeps

(* The promise of EnteredByCalls and of SystemCallsServed for one step. *)
Entry ==
  ComesToHandler =>
    Len(calls') > Len(calls) /\ (Head(calls').by = "int" => rl'[PC] = INTHANDLER)

Exit == rl[PC] = END /\ Len(calls') < Len(calls) /\ Signed(asked[1]) >= 0 => Served(rl'[RR])

(* Instructions. *)
LEMMA InstructionServes ==
  ASSUME ServiceInv, TypeOK', Entry, IInstruct
  PROVE  ServiceInv' /\ Exit
<1>1. PICK i \in Code[rl[PC]] : Disciplined(i) /\ Execute(i) /\ Logged(i) /\ Serve(i)
  BY DEF IInstruct, FExecute
<1>2. /\ TypeOK /\ term = "none" /\ exec = "running" /\ calls \in Seq(Call)
      /\ asked \in Word \X Word /\ \A k \in 0 .. 11 : Serving /\ AtLine(k) => Before(k)
  BY DEF ServiceInv, IInstruct, Running
<1>3. calls' \in Seq(Call) /\ asked' \in Word \X Word /\ exec' \in {"running", "killed"}
  BY <1>1, <1>2, CallsMove, ExecutionGoesOn, ServiceRegisters DEF Serve, TypeOK
<1>4. CASE rl[PC] \in HandlerLines \ {END}
  <2>1. PICK k \in 0 .. 10 : AtLine(k)
    BY <1>4, LineAddresses DEF AtLine
  <2>2. i = Inthandler[k + 1]
    BY <1>1, <2>1, LineHolds
  <2>3. i.op \notin {"int", "bl", "ret", "intret"}
    <3>1. i.op = <<"cmp", "jgt", "mul", "add", "jmp", "jmp", "and", "out", "jmp", "in", "jmp">>[k + 1]
      BY <2>2 DEF Inthandler, Line
    <3> QED
      BY <3>1
  <2>4. calls' = calls
    BY <1>1, <1>2, <2>3, CallsMove
  <2>5. ASSUME term' = "none", Serving', NEW l \in 0 .. 11, AtLine(l)' PROVE Before(l)'
    <3>1. asked' = asked
      BY <1>1, <2>3 DEF Serve
    <3>2. Serving /\ Signed(asked[1]) >= 0
      BY <2>4, <2>5, <3>1 DEF Serving
    <3>3. Before(k)
      BY <1>2, <2>1, <3>2
    <3>4. PICK j \in 0 .. 11 : AtLine(j)' /\ Before(j)'
      BY <1>1, <1>2, <2>1, <2>2, <2>5, <3>2, <3>3, LineServes
    <3>5. l = j
      BY <2>5, <3>4, LineAddresses DEF AtLine
    <3> QED
      BY <3>4, <3>5
  <2> QED
    BY <1>3, <1>4, <2>4, <2>5 DEF ServiceInv, Exit
<1>5. CASE rl[PC] \notin HandlerLines \ {END}
  <2>1. Exit
    <3> SUFFICES ASSUME rl[PC] = END, Len(calls') < Len(calls), Signed(asked[1]) >= 0
                 PROVE  Served(rl'[RR])
      BY DEF Exit
    <3>1. AtLine(11) /\ i = Inthandler[11 + 1]
      BY <1>1, LineAddresses, LineHolds DEF AtLine
    <3>2. i.op = "intret"
      BY <3>1 DEF Inthandler, Line
    <3>3. Serving
      BY <1>1, <3>2 DEF Disciplined, Serving
    <3>4. Served(rl[RR])
      BY <1>2, <3>1, <3>3 DEF Before
    <3> QED
      BY <1>1, <1>2, <3>2, <3>4, IntretLeavesRR
  <2>2. ASSUME term' = "none", Serving', NEW l \in 0 .. 11, AtLine(l)' PROVE Before(l)'
    <3>1. rl'[PC] \in HandlerLines
      BY <2>2, LineAddresses DEF AtLine
    <3>2. CASE rl' = rl
      <4>1. rl[PC] = END
        BY <1>5, <3>1, <3>2
      <4>2. AtLine(11) /\ i = Inthandler[11 + 1]
        BY <1>1, <4>1, LineAddresses, LineHolds DEF AtLine
      <4>3. i.op = "intret"
        BY <4>2 DEF Inthandler, Line
      <4>4. l = 11 /\ asked' = asked /\ served' = served
        BY <1>1, <2>2, <3>2, <4>1, <4>3, LineAddresses DEF AtLine, Serve
      <4>5. Serving
        BY <1>1, <2>2, <4>3, <4>4 DEF Disciplined, Serving
      <4> QED
        BY <1>2, <3>2, <4>2, <4>4, <4>5 DEF Before, Served
    <3>3. CASE rl' # rl
      <4>1. Len(calls') > Len(calls) /\ (Head(calls').by = "int" => rl'[PC] = INTHANDLER)
        BY <1>5, <2>2, <3>1, <3>3 DEF Entry, ComesToHandler
      <4>2. Head(calls').by = "int" /\ i.op = "int" /\ rl'[PC] = INTHANDLER
        BY <1>1, <1>2, <2>2, <4>1, CallsMove DEF Serving
      <4>3. l = 0
        BY <2>2, <4>2, HandlerAssumption DEF AtLine
      <4>4. /\ asked' = <<rl[R0], rl[R1]>> /\ served' = <<>>
            /\ rl'[R0] = rl[R0] /\ rl'[R1] = rl[R1]
        BY <1>1, <1>2, <4>2, InterruptPasses DEF Serve
      <4> QED
        BY <4>3, <4>4 DEF Before
    <3> QED
      BY <3>2, <3>3
  <2> QED
    BY <1>3, <2>1, <2>2 DEF ServiceInv
<1> QED
  BY <1>4, <1>5

(* The other steps. *)
LEMMA OtherStepsServe ==
  ASSUME ServiceInv, TypeOK', Entry, UNCHANGED <<calls, asked, served>>,
         LoadImage \/ RejectImage \/ StartCore \/ StopCore \/ Done \/ UNCHANGED vars
  PROVE  ServiceInv' /\ Exit
<1>1. /\ calls \in Seq(Call) /\ asked \in Word \X Word /\ Len(calls) \in Nat
      /\ exec \in {"allocated", "loaded"} => term = "none" /\ rl[PC] \notin HandlerLines
  BY DEF ServiceInv
<1>2. Exit
  BY <1>1 DEF Exit
<1>3. CASE LoadImage
  <2>1. exec = "allocated" /\ term' = term
    BY <1>3 DEF LoadImage
  <2>2. rl'[PC] \notin HandlerLines
    <3>1. rl' = rl => rl'[PC] \notin HandlerLines
      BY <1>1, <2>1
    <3>2. rl' # rl => rl'[PC] \notin HandlerLines
      BY <1>1, <2>1 DEF Entry, ComesToHandler
    <3> QED
      BY <3>1, <3>2
  <2> QED
    BY <1>1, <1>2, <2>1, <2>2, LineAddresses DEF ServiceInv, AtLine
<1>4. CASE StartCore
  <2>1. rl' = rl /\ exec = "loaded" /\ exec' = "running"
    BY <1>4 DEF StartCore
  <2>2. \A k \in 0 .. 11 : ~AtLine(k)'
    BY <1>1, <2>1, LineAddresses DEF AtLine
  <2> QED
    BY <1>1, <1>2, <2>1, <2>2 DEF ServiceInv
<1>5. CASE RejectImage \/ StopCore \/ Done \/ UNCHANGED vars
  <2>1. rl' = rl /\ term' = term /\ (exec' = exec \/ exec' = "returned")
    BY <1>5 DEF RejectImage, StopCore, Done, vars
  <2> QED
    BY <1>1, <1>2, <2>1 DEF ServiceInv, AtLine, Before, Served, Serving, Compared
<1> QED
  BY <1>3, <1>4, <1>5

(* Every step. *)
LEMMA StepServes ==
  ASSUME ServiceInv, [INext]_ivars, [Entry]_ivars PROVE ServiceInv' /\ [Exit]_ivars
<1>1. CASE UNCHANGED ivars
  <2>1. UNCHANGED vars /\ UNCHANGED <<calls, asked, served>>
    BY <1>1 DEF ivars, fvars
  <2>2. Entry /\ TypeOK'
    BY <2>1 DEF vars, Entry, ComesToHandler, ServiceInv, TypeOK
  <2> QED
    BY <2>1, <2>2, OtherStepsServe
<1>2. CASE INext /\ ~ UNCHANGED ivars
  <2>1. TypeOK'
    <3>1. [Next]_vars
      BY <1>2 DEF INext, IInstruct, FExecute, FStop, Next, Instruct, fvars
    <3> QED
      BY <3>1, NextType DEF ServiceInv
  <2>2. CASE IInstruct
    BY <1>2, <2>1, <2>2, InstructionServes
  <2>3. CASE (LoadImage \/ RejectImage \/ StartCore \/ StopCore \/ Done) /\ UNCHANGED <<calls, asked, served>>
    BY <1>2, <2>1, <2>3, OtherStepsServe
  <2>4. CASE FStop /\ UNCHANGED <<asked, served>>
    BY <1>2, <2>4 DEF FStop, ivars
  <2> QED
    BY <1>2, <2>2, <2>3, <2>4 DEF INext
<1> QED
  BY <1>1, <1>2

(* Nothing is being served at first. *)
LEMMA InitServes == IInit => ServiceInv
<1> SUFFICES ASSUME IInit PROVE ServiceInv
  OBVIOUS
<1>1. TypeOK /\ rl[PC] = 0 /\ term = "none" /\ calls = <<>> /\ asked = <<0, 0>>
  BY InitType, RegistersDiffer, RegisterNumbers DEF IInit, FInit, Init
<1>2. 0 \in Word /\ 0 \notin HandlerLines
  BY SmallWords, HandlerAssumption DEF HandlerLines
<1> QED
  BY <1>1, <1>2 DEF ServiceInv, Serving

(***************************************************************************)
(* For every size of word, every image and every code around the handler:  *)
(* if programs come to its lines by calls only, an interrupt to the first, *)
(* then a system call whose number is not negative returns having done     *)
(* what it is for, once, and nothing else (kint.l16).                      *)
(***************************************************************************)
THEOREM SystemCallsAreServed == ISpec /\ EnteredByCalls => SystemCallsServed
<1> DEFINE Promise ==
      rl[PC] = END /\ Len(calls') < Len(calls) /\ Signed(asked[1]) >= 0 =>
        /\ asked[1] = SYS_out => served = << <<"out", Low(asked[2])>> >>
        /\ asked[1] = SYS_in  => served = << <<"in", Low(rl'[RR])>> >>
        /\ asked[1] \notin {SYS_out, SYS_in} => served = <<>>
<1>1. IInit => ServiceInv
  BY InitServes
<1>2. ServiceInv /\ [INext]_ivars /\ [Entry]_ivars => ServiceInv' /\ [Promise]_ivars
  BY StepServes DEF Exit, Served
<1> QED
  BY <1>1, <1>2, PTL DEF ISpec, EnteredByCalls, Entry, SystemCallsServed

(***************************************************************************)
(* The services change nothing of what calls and interrupts promise.       *)
(***************************************************************************)
THEOREM ServicesImplementCallStack == ASSUME ~Reentrant PROVE ISpec => ImplementsCallStack
<1>1. IInit => FInit
  BY DEF IInit
<1>2. [INext]_ivars => [FNext]_fvars
  BY DEF INext, IInstruct, FNext, FInstruct, ivars
<1> QED
  BY <1>1, <1>2, FramesImplementCallStack, PTL DEF ISpec, FSpec
=============================================================================
