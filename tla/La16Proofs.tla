----------------------------- MODULE La16Proofs -----------------------------
(***************************************************************************)
(* What holds of the machine for every size of word, page and memory that  *)
(* SizeAssumption allows, and whatever its bytes decode to.                *)
(*                                                                         *)
(* Typed:  TypeOK is inductive, instruction by instruction; the lemmas     *)
(*   *Type and *Types say what each helper and each instruction keeps.     *)
(* AccessesInBounds:  a fact about Access alone (AccessBounds): the only   *)
(*   bytes without a page entry are the last ones, which it refuses.       *)
(* TablesBelongToKernel, ElevationIsGuarded:  a case split on the          *)
(*   instruction of one step from a typed state at user level.             *)
(* WritesAreFlagged:  the bytes that a step changes are those of granted   *)
(*   accesses, word by word of a call, also of one that faults on the way. *)
(***************************************************************************)
EXTENDS La16Safety, TLAPS

(* The sizes that the assumption fixes, and that the last page is not full. *)
LEMMA SizeFacts ==
  /\ WORD \in Nat /\ WORD >= 256
  /\ PAGE_SIZE \in Nat /\ PAGE_SIZE >= 15
  /\ PAGE_CNT = BYTE + 1
  /\ MEM_SIZE = WORD - 1
<1>. USE SizeAssumption DEF WORD, PAGE_SIZE, PAGE_CNT, MEM_SIZE
<1>1. WORD \in Nat /\ WORD >= 256
  OBVIOUS
<1>2. PAGE_SIZE \in Nat /\ PAGE_SIZE >= 15
  OBVIOUS
<1>3. WORD - 1 = (BYTE + 1) * PAGE_SIZE
  OBVIOUS
<1>3a. \A d \in Nat \ {0}, q \in Nat : (q * d) \div d = q
  OBVIOUS
<1>4. PAGE_CNT = BYTE + 1
  BY <1>2, <1>3, <1>3a
<1>5. QED
  BY <1>1, <1>2, <1>3, <1>4

(* A result cut to 16 bits is a word. *)
LEMMA WordMod == ASSUME NEW x \in Int PROVE W(x) \in Word
BY SizeFacts DEF W, Word

(* The low half of any number is a byte. *)
LEMMA LowByte == ASSUME NEW x \in Int PROVE Low(x) \in Byte
BY SizeAssumption DEF Low, Byte

(* The high half of a word is a byte. *)
LEMMA HighByte == ASSUME NEW x \in Word PROVE High(x) \in Byte
BY SizeAssumption DEF High, Byte, Word, WORD

(* Two bytes make a word. *)
LEMMA TwoBytes == ASSUME NEW l \in Byte, NEW h \in Byte PROVE l + BYTE * h \in Word
BY SizeAssumption DEF Byte, Word, WORD

-----------------------------------------------------------------------------
(* Registers and operands. *)

RegFile == [Reg -> Word]

(* The named registers are registers. *)
LEMMA RegisterNumbers ==
  /\ {PC, SP, FP, CF, R0, RR, EL, ELB} \subseteq Reg
  /\ R0 .. RR - 1 \subseteq Reg
  /\ SavedReg \subseteq Reg
BY SizeAssumption DEF PC, SP, FP, CF, R0, RR, EL, ELB, Reg, SavedReg

(* An operand's value is a word. *)
LEMMA ValType == ASSUME NEW regs \in RegFile, NEW o \in Operand PROVE ValIn(regs, o) \in Word
BY DEF RegFile, ValIn, Operand, ImmOperand, RegOperand

(* Storing a word in an operand leaves a register file. *)
LEMMA StoreType ==
  ASSUME NEW regs \in RegFile, NEW o \in Operand, NEW v \in Word
  PROVE  Store(regs, o, v) \in RegFile
BY DEF RegFile, Store, Operand, ImmOperand, RegOperand

(* So does moving the program counter past an instruction. *)
LEMMA RetireType ==
  ASSUME NEW regs \in RegFile, Retire(regs) PROVE rl' \in RegFile
<1>1. W(regs[PC] + 4) \in Word
  BY WordMod, RegisterNumbers DEF RegFile, Word
<1>2. QED
  BY <1>1, RegisterNumbers DEF RegFile, Retire

(* So does a jump. *)
LEMMA GotoType ==
  ASSUME NEW regs \in RegFile, NEW target \in Word PROVE Goto(regs, target) \in RegFile
<1>1. W(target - 4) \in Word
  BY WordMod DEF Word
<1>2. QED
  BY <1>1, RegisterNumbers DEF RegFile, Goto

(* So does moving the stack pointer, which wraps. *)
LEMMA SetSPType ==
  ASSUME NEW regs \in RegFile, NEW x \in Int PROVE SetSP(regs, x) \in RegFile
<1>1. W(x) \in Word
  BY WordMod
<1>2. QED
  BY <1>1, RegisterNumbers DEF RegFile, SetSP

-----------------------------------------------------------------------------
(* Memory. *)

(* An entry of zero grants nothing. *)
LEMMA NoFlags == \A f \in {MAPPED, READ, WRITE, EXEC} : ~HasFlag(0, f)
BY DEF HasFlag, MAPPED, READ, WRITE, EXEC

(* Where the bytes of a word at the end of memory lie. *)
LEMMA LastPages ==
  /\ PageOf(WORD - 1) = BYTE + 1
  /\ PageOf(WORD - 2) = BYTE
<1>. USE SizeAssumption DEF WORD, PAGE_SIZE, PageOf
<1>1. \A d \in Nat \ {0}, q \in Nat, r \in Nat : r < d => (q * d + r) \div d = q
  OBVIOUS
<1>2. WORD - 1 = (BYTE + 1) * PAGE_SIZE + 0
  OBVIOUS
<1>3. WORD - 2 = BYTE * PAGE_SIZE + (BYTE - 2)
  OBVIOUS
<1>4. BYTE - 2 \in Nat /\ BYTE - 2 < PAGE_SIZE /\ PAGE_SIZE \in Nat \ {0}
  OBVIOUS
<1>5. QED
  BY <1>1, <1>2, <1>3, <1>4

(***************************************************************************)
(* Whatever the page tables hold, a granted access ends inside the memory: *)
(* at user level the last byte has no page entry, and the word before it   *)
(* crosses into that missing entry.                                        *)
(***************************************************************************)
LEMMA AccessBounds ==
  ASSUME NEW el \in Word, NEW addr \in Word, NEW vprot \in {MAPPED, READ, WRITE, EXEC},
         NEW width \in {1, 2}, Access(el, addr, vprot, width)
  PROVE  addr + width <= MEM_SIZE
<1>. USE SizeFacts
<1>1. CASE el = EL1
  BY <1>1 DEF Access
<1>2. CASE el # EL1
  <2>1. BYTE + 1 \notin VPage
    BY SizeAssumption DEF VPage
  <2>2. addr # WORD - 1
    BY <1>2, <2>1, LastPages, NoFlags DEF Access, FlagsOf
  <2>3. ASSUME width = 2, addr = WORD - 2 PROVE FALSE
    <3>1. W(addr + 1) = WORD - 1
      BY <2>3 DEF W
    <3>2. SecondPageFlagged(addr, vprot)
      BY <1>2, <2>3 DEF Access
    <3>3. PageOf(W(addr + 1)) # PageOf(addr)
      BY <2>3, <3>1, LastPages, SizeAssumption
    <3>4. QED
      BY <3>1, <3>2, <3>3, <2>1, LastPages, NoFlags DEF SecondPageFlagged, FlagsOf
  <2>4. QED
    BY <2>2, <2>3 DEF Word
<1>3. QED
  BY <1>1, <1>2

(* A granted read of a byte reads the memory. *)
LEMMA ReadByte ==
  ASSUME TypeOK, NEW el \in Word, NEW addr \in Word, Access(el, addr, READ, 1)
  PROVE  mem[addr] \in Word
<1>1. addr + 1 <= MEM_SIZE
  BY AccessBounds
<1>2. addr \in Addr
  BY <1>1, SizeFacts DEF Addr, Word
<1>3. Byte \subseteq Word
  BY SizeAssumption DEF Byte, Word, WORD
<1>4. QED
  BY <1>2, <1>3 DEF TypeOK

(* A granted read of a word reads the memory. *)
LEMMA ReadWord ==
  ASSUME TypeOK, NEW el \in Word, NEW addr \in Word, Access(el, addr, READ, 2)
  PROVE  Word16At(addr) \in Word
<1>1. addr + 2 <= MEM_SIZE
  BY AccessBounds
<1>2. addr \in Addr /\ addr + 1 \in Addr
  BY <1>1, SizeFacts DEF Addr, Word
<1>3. QED
  BY <1>2, TwoBytes DEF TypeOK, Word16At

(* A granted write leaves memory of the same size. *)
LEMMA WriteType ==
  ASSUME TypeOK, NEW addr \in Word, NEW v \in Word
  PROVE  /\ WithByte(addr, v) \in [Addr -> Byte]
         /\ WithWord(addr, v) \in [Addr -> Byte]
<1>1. Low(v) \in Byte /\ High(v) \in Byte
  BY LowByte, HighByte DEF Word
<1>2. QED
  BY <1>1 DEF TypeOK, WithByte, WithWord

(* Pushing any number of words leaves memory of the same size. *)
LEMMA PushedType ==
  ASSUME TypeOK, NEW el \in Word, NEW sp \in Word, NEW n \in Nat,
         NEW words \in [0 .. n - 1 -> Word]
  PROVE  Pushed(el, sp, n, words) \in [Addr -> Byte]
<1> SUFFICES ASSUME NEW a \in Addr PROVE Pushed(el, sp, n, words)[a] \in Byte
  BY DEF Pushed
<1> DEFINE depth == W(sp + 1 - a)
           k     == depth \div 2
<1>1. depth \in Word
  <2>1. sp + 1 - a \in Int
    BY SizeFacts DEF Addr, Word
  <2>2. QED
    BY <2>1, WordMod
<1>2. k \in Nat
  BY <1>1 DEF Word
<1>3. ASSUME k < n PROVE Low(words[k]) \in Byte /\ High(words[k]) \in Byte
  <2>1. words[k] \in Word
    BY <1>2, <1>3
  <2>2. QED
    BY <2>1, LowByte, HighByte DEF Word
<1>4. mem[a] \in Byte
  BY DEF TypeOK
<1>5. QED
  BY <1>3, <1>4 DEF Pushed

(* A call saves at least the four registers that it sets. *)
LEMMA FrameFacts == FRAME \in Nat /\ FRAME >= 4
BY SizeAssumption DEF FRAME

(* bl saves words. *)
LEMMA SavedWordsType ==
  ASSUME NEW regs \in RegFile PROVE SavedWords(regs) \in [0 .. FRAME - 1 -> Word]
<1>1. \A k \in FrameSlot : RegIn(k) \in Reg
  BY RegisterNumbers, SizeAssumption DEF FrameSlot, FRAME, RegIn, Reg, ELB, EL, RR, R0
<1>2. QED
  BY <1>1 DEF SavedWords, RegFile, FrameSlot

(* int saves words. *)
LEMMA InterruptWordsType ==
  ASSUME TypeOK PROVE InterruptWords \in [0 .. (FRAME + 1) - 1 -> Word]
<1>1. \A k \in 1 .. FRAME : RegIn(k - 1) \in Reg
  BY RegisterNumbers, SizeAssumption DEF FRAME, RegIn, Reg, ELB, EL, RR, R0
<1>2. 0 .. (FRAME + 1) - 1 = 0 .. FRAME
  BY FrameFacts
<1>3. \A k \in 0 .. FRAME : k # 0 => k \in 1 .. FRAME
  BY FrameFacts
<1>4. \A k \in 0 .. FRAME : (IF k = 0 THEN rl[SP] ELSE rl[RegIn(k - 1)]) \in Word
  BY <1>1, <1>3, RegisterNumbers DEF TypeOK
<1>5. QED
  BY <1>2, <1>4 DEF InterruptWords

(* bl leaves a register file. *)
LEMMA LinkedType ==
  ASSUME NEW regs \in RegFile, NEW sp \in Word, NEW o \in Operand
  PROVE  Linked(regs, sp, o) \in RegFile
<1>1. [regs EXCEPT ![SP] = sp, ![FP] = sp] \in RegFile
  BY RegisterNumbers DEF RegFile
<1>2. QED
  BY <1>1, ValType, GotoType DEF Linked

(* A resolved address is a word. *)
LEMMA PhysAddrType ==
  ASSUME TypeOK, NEW addr \in Word PROVE PhysAddr(addr) \in Word
<1>1. PAGE_SIZE \in Nat \ {0} /\ addr \in Nat
  BY SizeFacts DEF Word
<1>2. PageOf(addr) \in Nat
  BY <1>1 DEF PageOf
<1>3. OffsetOf(addr) \in Int
  BY <1>1, <1>2 DEF OffsetOf
<1>4. PhysPage(PageOf(addr)) \in Int
  <2>1. \A p \in VPage : page[p] \in Int
    BY SizeFacts DEF TypeOK, Word
  <2>2. QED
    BY <2>1, LowByte, SizeAssumption DEF PhysPage, Byte
<1>5. QED
  BY <1>1, <1>3, <1>4, WordMod DEF PhysAddr

(* ret leaves a register file. *)
LEMMA ReturnedType ==
  ASSUME TypeOK, NEW el \in Word, NEW fp \in Word PROVE Returned(el, fp) \in RegFile
<1> SUFFICES ASSUME NEW r \in Reg PROVE Returned(el, fp)[r] \in Word
  BY DEF Returned, RegFile
<1>1. FRAME \in Nat
  BY SizeAssumption DEF FRAME
<1>2. W(fp + 2 * FRAME) \in Word
  BY <1>1, WordMod DEF Word
<1>3. SlotAddr(fp, SlotOf(r)) \in Word
  <2>1. SlotOf(r) \in Int
    BY <1>1 DEF SlotOf, Reg
  <2>2. QED
    BY <1>1, <2>1, WordMod DEF SlotAddr, Word
<1>4. rl[r] \in Word
  BY DEF TypeOK
<1>5. PopGranted(el, SlotAddr(fp, SlotOf(r))) => Word16At(SlotAddr(fp, SlotOf(r))) \in Word
  BY <1>3, ReadWord DEF PopGranted
<1>6. QED
  BY <1>2, <1>4, <1>5 DEF Returned

-----------------------------------------------------------------------------
(* The steps of the machine. *)

(* A decoded instruction has operands the core knows. *)
LEMMA InstrType ==
  ASSUME NEW w \in Word, NEW i \in Code[w]
  PROVE  i.a \in Operand /\ i.b \in Operand
BY CodeAssumption DEF Instr

(* An instruction that only computes registers keeps the type. *)
LEMMA RegisterStepType ==
  ASSUME TypeOK, NEW regs \in RegFile, RegisterStep(regs) PROVE TypeOK'
BY RetireType DEF TypeOK, RegFile, RegisterStep, tables

(* A refused instruction keeps the type. *)
LEMMA RefuseType ==
  ASSUME TypeOK, NEW flag \in Term, Refuse(flag) PROVE TypeOK'
BY RetireType DEF TypeOK, RegFile, Refuse, Fault, tables

(* The flag after an access is a flag. *)
LEMMA FaultType ==
  ASSUME TypeOK, NEW granted, FaultUnless(granted) PROVE term' \in Term
BY DEF TypeOK, FaultUnless, Term

(* What every instruction starts from. *)
LEMMA OperandFacts ==
  ASSUME TypeOK, NEW i, i.a \in Operand, i.b \in Operand
  PROVE  /\ rl \in RegFile
         /\ Val(i.a) \in Word /\ Val(i.b) \in Word
         /\ \A r \in {PC, SP, FP, CF, EL, ELB} : rl[r] \in Word
<1>1. rl \in RegFile
  BY DEF TypeOK, RegFile
<1>2. QED
  BY <1>1, ValType, RegisterNumbers DEF Val, RegFile

(* The constants that instructions store are words. *)
LEMMA SmallWords ==
  /\ {0, 1, EL1, CMP_Z, CMP_L, CMP_G, PAGE_CNT} \subseteq Word
  /\ Byte \subseteq Word
<1>1. BYTE + 1 < WORD
  BY SizeAssumption DEF WORD
<1>2. QED
  BY <1>1, SizeFacts, SizeAssumption DEF Word, Byte, EL1, CMP_Z, CMP_L, CMP_G

(* The serial port's instructions keep the type. *)
LEMMA IoTypes ==
  ASSUME TypeOK, NEW i, i.a \in Operand, i.b \in Operand, Hlt(i) \/ Nop(i) \/ In(i) \/ Out(i)
  PROVE  TypeOK'
<1>. USE OperandFacts
<1>0. "halt" \in Term /\ "permission" \in Term
  BY DEF Term
<1>1. CASE Hlt(i)
  BY <1>0, <1>1, RefuseType DEF Hlt
<1>2. CASE Nop(i)
  BY <1>2, RegisterStepType DEF Nop
<1>3. CASE In(i)
  <2>1. CASE rl[EL] = EL0
    BY <1>0, <1>3, <2>1, RefuseType DEF In
  <2>2. CASE rl[EL] # EL0 /\ Val(i.b) # SERIAL
    BY <1>3, <2>2, RegisterStepType DEF In
  <2>3. CASE rl[EL] # EL0 /\ Val(i.b) = SERIAL
    <3>1. PICK char \in Byte : RegisterStep(Store(rl, i.a, High(Val(i.a)) * BYTE + char))
      BY <1>3, <2>3 DEF In
    <3>2. High(Val(i.a)) * BYTE + char \in Word
      <4>1. High(Val(i.a)) \in Byte
        BY HighByte
      <4>2. High(Val(i.a)) * BYTE + char = char + BYTE * High(Val(i.a))
        BY <4>1, SizeAssumption DEF Byte
      <4>3. QED
        BY <4>1, <4>2, TwoBytes
    <3>3. QED
      BY <3>1, <3>2, StoreType, RegisterStepType
  <2>4. QED
    BY <2>1, <2>2, <2>3
<1>4. CASE Out(i)
  BY <1>0, <1>4, RefuseType, RegisterStepType DEF Out
<1>5. QED
  BY <1>1, <1>2, <1>3, <1>4

(* mov, swp and swpz keep the type. *)
LEMMA MoveTypes ==
  ASSUME TypeOK, NEW i, i.a \in Operand, i.b \in Operand, Mov(i) \/ Swp(i) \/ Swpz(i)
  PROVE  TypeOK'
<1>. USE OperandFacts, SmallWords
<1>1. CASE Mov(i)
  BY <1>1, StoreType, RegisterStepType DEF Mov
<1>2. CASE Swp(i)
  BY <1>2, StoreType, RegisterStepType DEF Swp
<1>3. CASE Swpz(i)
  BY <1>3, StoreType, RegisterStepType DEF Swpz
<1>4. QED
  BY <1>1, <1>2, <1>3

(* Loads keep the type. *)
LEMMA LoadTypes ==
  ASSUME TypeOK, NEW i, i.a \in Operand, i.b \in Operand, Ldb(i) \/ Ldw(i)
  PROVE  TypeOK'
<1>. USE OperandFacts, SmallWords
<1>1. CASE Ldb(i)
  <2>2. CanRead(Val(i.b), 1) => mem[Val(i.b)] \in Word
    BY ReadByte DEF CanRead
  <2>3. Low(Val(i.a)) \in Word
    <3>1. Val(i.a) \in Int
      BY SizeFacts DEF Word
    <3>2. QED
      BY <3>1, LowByte
  <2>4. rl' \in RegFile
    BY <1>1, <2>2, <2>3, StoreType, RetireType DEF Ldb
  <2>5. QED
    BY <1>1, <2>4, FaultType DEF Ldb, TypeOK, RegFile, tables
<1>2. CASE Ldw(i)
  <2>1. CanRead(Val(i.b), 2) => Word16At(Val(i.b)) \in Word
    BY ReadWord DEF CanRead
  <2>2. rl' \in RegFile
    BY <1>2, <2>1, StoreType, RetireType DEF Ldw
  <2>3. QED
    BY <1>2, <2>2, FaultType DEF Ldw, TypeOK, RegFile, tables
<1>3. QED
  BY <1>1, <1>2

(* Stores keep the type. *)
LEMMA StoreTypes ==
  ASSUME TypeOK, NEW i, i.a \in Operand, i.b \in Operand, Stb(i) \/ Stw(i)
  PROVE  TypeOK'
<1>. USE OperandFacts
<1>1. mem' \in [Addr -> Byte]
  BY WriteType DEF Stb, Stw, TypeOK
<1>2. rl' \in RegFile
  BY RetireType DEF Stb, Stw
<1>3. term' \in Term
  BY FaultType DEF Stb, Stw
<1>4. QED
  BY <1>1, <1>2, <1>3 DEF Stb, Stw, TypeOK, RegFile, tables

(* push and pop keep the type. *)
LEMMA StackTypes ==
  ASSUME TypeOK, NEW i, i.a \in Operand, i.b \in Operand, Push(i) \/ Pop(i)
  PROVE  TypeOK'
<1>. USE OperandFacts
<1>1. CASE Push(i)
  <2>1. mem' \in [Addr -> Byte]
    BY <1>1, WriteType DEF Push, TypeOK
  <2>2. SetSP(rl, rl[SP] - 2) \in RegFile
    BY SetSPType DEF Word
  <2>3. rl' \in RegFile
    BY <1>1, <2>2, RetireType DEF Push
  <2>4. QED
    BY <1>1, <2>1, <2>3, FaultType DEF Push, TypeOK, RegFile, tables
<1>2. CASE Pop(i)
  <2>. DEFINE top == W(rl[SP] + 2)
  <2>1. top \in Word
    BY WordMod DEF Word
  <2>2. SetSP(rl, top) \in RegFile
    BY <2>1, SetSPType DEF Word
  <2>3. CanRead(top, 2) => Word16At(top) \in Word
    BY <2>1, ReadWord DEF CanRead
  <2>4. rl' \in RegFile
    BY <1>2, <2>2, <2>3, StoreType, RetireType DEF Pop
  <2>5. QED
    BY <1>2, <2>4, FaultType DEF Pop, TypeOK, RegFile, tables
<1>3. QED
  BY <1>1, <1>2

(* Arithmetic keeps the type. *)
LEMMA ArithmeticTypes ==
  ASSUME TypeOK, NEW i, i.a \in Operand, i.b \in Operand,
         Alu(i) \/ DivisionTrap(i) \/ IncDec(i) \/ Not(i) \/ Cmp(i)
  PROVE  TypeOK'
<1>. USE OperandFacts, SmallWords
<1>1. CASE Alu(i)
  BY <1>1, StoreType, RegisterStepType DEF Alu, AluResult
<1>2. CASE DivisionTrap(i)
  BY <1>2 DEF DivisionTrap, TypeOK, tables
<1>3. CASE IncDec(i)
  <2>1. \A regs \in RegFile, o \in Operand, by \in {1, -1} : Step(regs, o, by) \in RegFile
    <3>1. SUFFICES ASSUME NEW regs \in RegFile, NEW o \in Operand, NEW by \in {1, -1}
                   PROVE  Step(regs, o, by) \in RegFile
      OBVIOUS
    <3>2. W(ValIn(regs, o) + by) \in Word
      BY ValType, WordMod DEF Word
    <3>3. QED
      BY <3>2, StoreType DEF Step
  <2>2. QED
    BY <1>3, <2>1, RegisterStepType DEF IncDec
<1>4. CASE Not(i)
  BY <1>4, StoreType, RegisterStepType DEF Not
<1>5. CASE Cmp(i)
  <2>1. PICK v \in {CMP_Z, CMP_L, CMP_G} : RegisterStep([rl EXCEPT ![CF] = v])
    BY <1>5 DEF Cmp
  <2>2. [rl EXCEPT ![CF] = v] \in RegFile
    BY RegisterNumbers DEF RegFile
  <2>3. QED
    BY <2>1, <2>2, RegisterStepType
<1>6. QED
  BY <1>1, <1>2, <1>3, <1>4, <1>5

(* Comparisons, jumps, calls and returns keep the type. *)
LEMMA JumpTypes ==
  ASSUME TypeOK, NEW i, i.a \in Operand, i.b \in Operand, Jump(i) \/ Bl(i) \/ Ret(i)
  PROVE  TypeOK'
<1>. USE OperandFacts
<1>1. CASE Jump(i)
  BY <1>1, GotoType, RegisterStepType DEF Jump
<1>2. CASE Bl(i)
  <2>1. SavedWords(rl) \in [0 .. FRAME - 1 -> Word]
    BY SavedWordsType
  <2>2. mem' \in [Addr -> Byte]
    BY <1>2, <2>1, FrameFacts, PushedType DEF Bl
  <2>3. W(rl[SP] - 2 * FRAME) \in Word
    BY FrameFacts, SizeFacts, WordMod DEF Word
  <2>4. rl' \in RegFile
    BY <1>2, <2>3, LinkedType, RetireType DEF Bl
  <2>5. QED
    BY <1>2, <2>2, <2>4, FaultType DEF Bl, TypeOK, RegFile, tables
<1>3. CASE Ret(i)
  <2>1. rl' \in RegFile
    BY <1>3, ReturnedType, RetireType DEF Ret
  <2>2. QED
    BY <1>3, <2>1, FaultType DEF Ret, TypeOK, RegFile, tables
<1>4. QED
  BY <1>1, <1>2, <1>3

(* int, intset and intret keep the type. *)
LEMMA InterruptTypes ==
  ASSUME TypeOK, NEW i, i.a \in Operand, i.b \in Operand,
         Interrupt(i) \/ Intset(i) \/ Intret(i)
  PROVE  TypeOK'
<1>. USE OperandFacts, SmallWords
<1>0. "bad_access" \in Term /\ "permission" \in Term
  BY DEF Term
<1>1. CASE Interrupt(i)
  <2>1. Handler(i) \in Word
    BY DEF Handler, TypeOK
  <2>2. [rl EXCEPT ![ELB] = rl[EL]] \in RegFile /\ Elevated \in RegFile
    BY RegisterNumbers DEF RegFile, Elevated
  <2>3. CASE Handler(i) = 0
    BY <1>0, <1>1, <2>3, RefuseType DEF Interrupt
  <2>4. CASE Handler(i) # 0 /\ ~StackUsable
    <3>1. rl' \in RegFile
      BY <1>1, <2>2, <2>4, RetireType DEF Interrupt
    <3>2. QED
      BY <1>0, <1>1, <2>4, <3>1 DEF Interrupt, Fault, TypeOK, RegFile, tables
  <2>5. CASE Handler(i) # 0 /\ StackUsable
    <3>1. InterruptWords \in [0 .. (FRAME + 1) - 1 -> Word]
      BY InterruptWordsType
    <3>2. FRAME + 1 \in Nat
      BY FrameFacts
    <3>3. mem' \in [Addr -> Byte]
      BY <1>1, <2>5, <3>1, <3>2, PushedType DEF Interrupt
    <3>4. W(rl[SP] - 2 * (FRAME + 1)) \in Word
      BY FrameFacts, SizeFacts, WordMod DEF Word
    <3>5. Imm(Handler(i)) \in Operand
      BY <2>1 DEF Imm, Operand, ImmOperand
    <3>6. rl' \in RegFile
      BY <1>1, <2>2, <2>5, <3>4, <3>5, LinkedType, RetireType DEF Interrupt
    <3>7. QED
      BY <1>1, <2>5, <3>3, <3>6, FaultType DEF Interrupt, TypeOK, RegFile, tables
  <2>6. QED
    BY <2>3, <2>4, <2>5
<1>2. CASE Intset(i)
  <2>1. CASE rl[EL] = EL0
    BY <1>0, <1>2, <2>1, RefuseType DEF Intset
  <2>2. CASE rl[EL] # EL0
    <3>1. rl' \in RegFile
      BY <1>2, <2>2, RetireType DEF Intset
    <3>2. QED
      BY <1>2, <2>2, <3>1 DEF Intset, TypeOK, RegFile
  <2>3. QED
    BY <2>1, <2>2
<1>3. CASE Intret(i)
  <2>. DEFINE back == Returned(rl[EL], rl[FP])
              top  == W(back[SP] + 2)
              granted == PopGranted(rl[EL], top)
              sp   == IF granted THEN Word16At(top) ELSE top
  <2>1. back \in RegFile
    BY ReturnedType
  <2>2. top \in Word
    <3>1. back[SP] \in Int
      BY <2>1, RegisterNumbers, SizeFacts DEF RegFile, Word
    <3>2. QED
      BY <3>1, WordMod
  <2>3. sp \in Word
    BY <2>2, ReadWord DEF PopGranted
  <2>4. [back EXCEPT ![SP] = sp, ![EL] = rl[ELB]] \in RegFile
    BY <2>1, <2>3, RegisterNumbers DEF RegFile
  <2>5. rl' \in RegFile
    BY <1>3, <2>4, RetireType DEF Intret
  <2>6. QED
    BY <1>3, <2>5, FaultType DEF Intret, TypeOK, RegFile, tables
<1>4. QED
  BY <1>1, <1>2, <1>3

(* The page instructions keep the type. *)
LEMMA PageTypes ==
  ASSUME TypeOK, NEW i, i.a \in Operand, i.b \in Operand,
         \/ Ppcnt(i) \/ Ppktrrset(i) \/ Vpset(i) \/ Vpget(i)
         \/ Vpflgset(i) \/ Vpflgget(i) \/ Vpaddr(i)
  PROVE  TypeOK'
<1>. USE OperandFacts, SmallWords
<1>0. "permission" \in Term
  BY DEF Term
<1>1. ASSUME Refuse("permission") PROVE TypeOK'
  BY <1>0, <1>1, RefuseType
<1>2. ASSUME NEW v \in Word, Retire(Store(rl, i.a, v)), UNCHANGED <<mem, tables, term, exec>>
      PROVE  TypeOK'
  BY <1>2, StoreType, RegisterStepType DEF RegisterStep
<1>3. CASE Ppcnt(i)
  BY <1>1, <1>2, <1>3 DEF Ppcnt
<1>4. CASE Ppktrrset(i)
  BY <1>1, <1>4, RegisterStepType DEF Ppktrrset, RegisterStep
<1>5. CASE Vpset(i)
  <2>1. CASE PagePermitted(Val(i.a))
    <3>1. rl' \in RegFile
      BY <1>5, <2>1, RetireType DEF Vpset
    <3>2. QED
      BY <1>5, <2>1, <3>1 DEF Vpset, TypeOK, RegFile
  <2>2. QED
    BY <1>1, <1>5, <2>1 DEF Vpset
<1>6. CASE Vpget(i)
  <2>1. PagePermitted(Val(i.b)) => page[Val(i.b)] \in Word
    BY DEF PagePermitted, TypeOK
  <2>2. QED
    BY <1>1, <1>2, <1>6, <2>1 DEF Vpget
<1>7. CASE Vpflgset(i)
  <2>1. CASE PagePermitted(Val(i.a))
    <3>1. rl' \in RegFile
      BY <1>7, <2>1, RetireType DEF Vpflgset
    <3>2. Low(Val(i.b)) \in Byte
      BY LowByte, SizeFacts DEF Word
    <3>3. QED
      BY <1>7, <2>1, <3>1, <3>2 DEF Vpflgset, TypeOK, RegFile
  <2>2. QED
    BY <1>1, <1>7, <2>1 DEF Vpflgset
<1>8. CASE Vpflgget(i)
  <2>1. PagePermitted(Val(i.b)) => pageu[Val(i.b)] \in Word
    BY DEF PagePermitted, TypeOK
  <2>2. QED
    BY <1>1, <1>2, <1>8, <2>1 DEF Vpflgget
<1>9. CASE Vpaddr(i)
  <2>1. (IF Resolves(Val(i.a)) THEN PhysAddr(Val(i.a)) ELSE 0) \in Word
    BY PhysAddrType
  <2>2. QED
    BY <1>1, <1>2, <1>9, <2>1 DEF Vpaddr
<1>10. QED
  BY <1>3, <1>4, <1>5, <1>6, <1>7, <1>8, <1>9
-----------------------------------------------------------------------------
(* Theorems. *)

(* What LoadImage reads from the image is a word, and so is the stack      *)
(* pointer main.c sets.                                                    *)
LEMMA LoadTypesOK == ASSUME TypeOK, LoadImage PROVE TypeOK'
<1>1. PICK image \in Images :
        /\ mem' = image
        /\ rl' = [rl EXCEPT ![PC] = image[0] + BYTE * image[1], ![SP] = MEM_SIZE - 2]
  BY DEF LoadImage
<1>2. image \in [Addr -> Byte]
  BY ImageAssumption
<1>3. 0 \in Addr /\ 1 \in Addr
  BY SizeFacts DEF Addr
<1>4. image[0] + BYTE * image[1] \in Word
  BY <1>2, <1>3, TwoBytes
<1>5. MEM_SIZE - 2 \in Word
  BY SizeFacts DEF Word
<1>6. rl' \in [Reg -> Word]
  BY <1>1, <1>4, <1>5, RegisterNumbers DEF TypeOK
<1>7. QED
  BY <1>1, <1>2, <1>6 DEF LoadImage, TypeOK, tables

(* The initial state has every field in its type.                          *)
LEMMA InitType == Init => TypeOK
<1>1. EL1 \in Word /\ 0 \in Word /\ 0 \in Byte
  BY SmallWords, SizeAssumption DEF Byte
<1>2. QED
  BY <1>1, IntInitAssumption DEF Init, TypeOK, Term

(* Every step of the machine keeps every field in its type.                *)
LEMMA NextType == TypeOK /\ [Next]_vars => TypeOK'
<1> SUFFICES ASSUME TypeOK, [Next]_vars PROVE TypeOK'
  OBVIOUS
<1>0. rl[PC] \in Word
  BY RegisterNumbers DEF TypeOK
<1>1. CASE LoadImage
  BY <1>1, LoadTypesOK
<1>2. CASE RejectImage
  BY <1>2 DEF RejectImage, TypeOK, tables
<1>3. CASE StartCore
  BY <1>3 DEF StartCore, TypeOK, tables, Term
<1>4. CASE StopCore
  BY <1>4 DEF StopCore, TypeOK, tables
<1>5. CASE FetchFault
  BY <1>5, RefuseType DEF FetchFault, Term
<1>6. CASE PrivilegeFault
  BY <1>6, RefuseType DEF PrivilegeFault, Term
<1>7. CASE Instruct
  <2>1. PICK i \in Code[rl[PC]] : Execute(i)
    BY <1>7 DEF Instruct
  <2>2. i.a \in Operand /\ i.b \in Operand
    BY <1>0, InstrType
  <2>3. QED
    BY <2>1, <2>2, IoTypes, MoveTypes, LoadTypes, StoreTypes, StackTypes,
       ArithmeticTypes, JumpTypes, InterruptTypes, PageTypes DEF Execute
<1>8. CASE Done
  BY <1>8 DEF Done, TypeOK, vars, tables
<1>9. CASE UNCHANGED vars
  BY <1>9 DEF TypeOK, vars, tables
<1>10. QED
  BY <1>1, <1>2, <1>3, <1>4, <1>5, <1>6, <1>7, <1>8, <1>9 DEF Next

(***************************************************************************)
(* Whatever image is loaded and whatever its bytes decode to, every        *)
(* register stays a word, every byte a byte, and the memory and the tables *)
(* keep their size: no instruction leaves a register unwrapped or writes   *)
(* outside an array.                                                       *)
(***************************************************************************)
THEOREM Typed == Spec => []TypeOK
BY InitType, NextType, PTL DEF Spec

(***************************************************************************)
(* Every access that la16_mpp_access grants lies inside the memory.        *)
(***************************************************************************)
THEOREM AccessesInBounds == Spec => []GrantedAccessInBounds
<1>1. TypeOK => GrantedAccessInBounds
  BY AccessBounds, RegisterNumbers DEF TypeOK, GrantedAccessInBounds
<1>2. QED
  BY <1>1, Typed, PTL

-----------------------------------------------------------------------------
(* User level. *)

(* An operand that EL0 may name is not a kernel register. *)
LEMMA StoreKeepsKernelRegisters ==
  ASSUME NEW regs \in RegFile, NEW o \in Operand, ~IsPrivileged(o), NEW v
  PROVE  Store(regs, o, v)[EL] = regs[EL] /\ Store(regs, o, v)[ELB] = regs[ELB]
BY SizeAssumption
DEF RegFile, Store, IsPrivileged, Operand, ImmOperand, RegOperand, EL0_MAX, EL, ELB, RR, R0

(* Moving the program counter leaves the kernel registers alone. *)
LEMMA RetireKeepsKernelRegisters ==
  ASSUME NEW regs \in RegFile, Retire(regs)
  PROVE  rl'[EL] = regs[EL] /\ rl'[ELB] = regs[ELB]
BY SizeAssumption DEF Retire, RegFile, PC, EL, ELB, RR, R0

(* So does ret, which restores none of them. *)
LEMMA ReturnKeepsKernelRegisters ==
  ASSUME NEW el, NEW fp
  PROVE  Returned(el, fp)[EL] = rl[EL] /\ Returned(el, fp)[ELB] = rl[ELB]
<1>1. EL \in Reg /\ ELB \in Reg
  BY RegisterNumbers
<1>2. {EL, ELB} \cap (SavedReg \cup {SP}) = {}
  BY SizeAssumption DEF SavedReg, PC, SP, FP, CF, EL, ELB, RR, R0
<1>3. QED
  BY <1>1, <1>2 DEF Returned

(***************************************************************************)
(* No step that starts at user level changes the page tables or the        *)
(* interrupt handlers.                                                     *)
(***************************************************************************)
LEMMA UserKeepsTables == [Next]_vars => UserStepKeepsTables
<1> SUFFICES ASSUME [Next]_vars, rl[EL] = EL0 PROVE UNCHANGED tables
  BY DEF UserStepKeepsTables, AtUser
<1>1. CASE Instruct
  <2>1. PICK i \in Code[rl[PC]] : Execute(i)
    BY <1>1 DEF Instruct
  <2>2. CASE Intset(i)
    BY <2>2 DEF Intset, Refuse
  <2>3. CASE Vpset(i) \/ Vpflgset(i)
    BY <2>3 DEF Vpset, Vpflgset, PagePermitted, Refuse, EL0, EL1
  <2>4. CASE ~Intset(i) /\ ~Vpset(i) /\ ~Vpflgset(i)
    BY <2>1, <2>4
    DEF Execute, Hlt, Nop, In, Out, Ldb, Stb, Ldw, Stw, Mov, Swp, Swpz, Push, Pop, Alu,
        DivisionTrap, IncDec, Not, Jump, Cmp, Bl, Ret, Interrupt, Intret, Ppcnt,
        Ppktrrset, Vpget, Vpflgget, Vpaddr, Refuse, RegisterStep
  <2>5. QED
    BY <2>2, <2>3, <2>4
<1>2. CASE ~Instruct
  BY <1>2 DEF Next, LoadImage, RejectImage, StartCore, StopCore, FetchFault,
              PrivilegeFault, Refuse, Done, vars, tables
<1>3. QED
  BY <1>1, <1>2

(* User code changes neither the page tables nor the interrupt handlers. *)
THEOREM TablesBelongToKernel == Spec => UserStepsKeepTables
BY UserKeepsTables, PTL DEF Spec, UserStepsKeepTables

(***************************************************************************)
(* A jump and the 4 that the loop adds cancel out, also across the end of  *)
(* the address space.                                                      *)
(***************************************************************************)
LEMMA GotoArrives ==
  ASSUME NEW regs \in RegFile, NEW target \in Word, Retire(Goto(regs, target))
  PROVE  rl'[PC] = target
<1>1. W(W(target - 4) + 4) = target
  <2>1. CASE target >= 4
    BY <2>1, SizeFacts DEF W, Word
  <2>2. CASE target < 4
    <3>1. W(target - 4) = target - 4 + WORD
      BY <2>2, SizeFacts DEF W, Word
    <3>2. QED
      BY <2>2, <3>1, SizeFacts DEF W, Word
  <2>3. QED
    BY <2>1, <2>2, SizeFacts DEF Word
<1>2. PC \in Reg
  BY RegisterNumbers
<1>3. QED
  BY <1>1, <1>2 DEF Retire, Goto, RegFile

(* Calls leave the kernel registers alone, and go where they are told.     *)
LEMMA LinkedArrives ==
  ASSUME NEW regs \in RegFile, NEW sp \in Word, NEW o \in Operand, Retire(Linked(regs, sp, o))
  PROVE  /\ rl'[EL] = regs[EL] /\ rl'[ELB] = regs[ELB]
         /\ o.kind = "imm" => rl'[PC] = o.val
<1>. DEFINE framed == [regs EXCEPT ![SP] = sp, ![FP] = sp]
<1>1. framed \in RegFile
  BY RegisterNumbers DEF RegFile
<1>2. ValIn(framed, o) \in Word
  BY <1>1, ValType
<1>3. Goto(framed, ValIn(framed, o)) \in RegFile
  BY <1>1, <1>2, GotoType
<1>4. Goto(framed, ValIn(framed, o))[EL] = regs[EL] /\ Goto(framed, ValIn(framed, o))[ELB] = regs[ELB]
  BY SizeAssumption, RegisterNumbers DEF Goto, RegFile, PC, SP, FP, EL, ELB, RR, R0
<1>5. rl'[PC] = ValIn(framed, o)
  BY <1>1, <1>2, GotoArrives DEF Linked
<1>6. QED
  BY <1>3, <1>4, <1>5, RetireKeepsKernelRegisters DEF Linked, ValIn

(* An instruction other than int and intret, permitted at user level.      *)
LEMMA OtherStepsKeepElevation ==
  ASSUME TypeOK, rl[EL] = EL0, NEW i, i.a \in Operand, i.b \in Operand,
         Permitted(i), Execute(i), ~Interrupt(i), ~Intret(i)
  PROVE  rl'[EL] = rl[EL] /\ rl'[ELB] = rl[ELB]
<1>. DEFINE Kept == rl'[EL] = rl[EL] /\ rl'[ELB] = rl[ELB]
<1>. USE OperandFacts, SmallWords
<1>0. ~IsPrivileged(i.a) /\ ~IsPrivileged(i.b)
  BY DEF Permitted
<1>1. ASSUME NEW regs \in RegFile, Retire(regs), regs[EL] = rl[EL], regs[ELB] = rl[ELB]
      PROVE  Kept
  BY <1>1, RetireKeepsKernelRegisters
<1>2. ASSUME NEW o \in {i.a, i.b}, NEW v \in Word, Retire(Store(rl, o, v)) PROVE Kept
  BY <1>0, <1>1, <1>2, StoreType, StoreKeepsKernelRegisters
<1>3. ASSUME NEW v \in Word, NEW u \in Word, Retire(Store(Store(rl, i.a, v), i.b, u)) PROVE Kept
  <2>1. PICK first \in RegFile :
          /\ first = Store(rl, i.a, v)
          /\ first[EL] = rl[EL] /\ first[ELB] = rl[ELB]
    <3>1. Store(rl, i.a, v) \in RegFile
      BY StoreType
    <3>2. Store(rl, i.a, v)[EL] = rl[EL] /\ Store(rl, i.a, v)[ELB] = rl[ELB]
      BY <1>0, StoreKeepsKernelRegisters
    <3>3. QED
      BY <3>1, <3>2
  <2>2. /\ Store(first, i.b, u) \in RegFile
        /\ Store(first, i.b, u)[EL] = rl[EL] /\ Store(first, i.b, u)[ELB] = rl[ELB]
    BY <1>0, <2>1, StoreType, StoreKeepsKernelRegisters
  <2>3. QED
    BY <1>1, <1>3, <2>1, <2>2
<1>4. ASSUME Retire(rl) PROVE Kept
  BY <1>1, <1>4
<1>5. CASE Hlt(i) \/ Nop(i) \/ In(i) \/ Out(i) \/ Stb(i) \/ Stw(i)
  BY <1>4, <1>5 DEF Hlt, Nop, In, Out, Stb, Stw, Refuse, RegisterStep
<1>6. CASE Mov(i) \/ Swp(i) \/ Swpz(i) \/ Not(i)
  BY <1>2, <1>3, <1>6 DEF Mov, Swp, Swpz, Not, RegisterStep
<1>7. CASE Ldb(i)
  <2>1. CanRead(Val(i.b), 1) => mem[Val(i.b)] \in Word
    BY ReadByte DEF CanRead
  <2>2. Low(Val(i.a)) \in Word
    <3>1. Val(i.a) \in Int
      BY SizeFacts DEF Word
    <3>2. QED
      BY <3>1, LowByte
  <2>3. QED
    BY <1>2, <1>7, <2>1, <2>2 DEF Ldb
<1>8. CASE Ldw(i)
  <2>1. CanRead(Val(i.b), 2) => Word16At(Val(i.b)) \in Word
    BY ReadWord DEF CanRead
  <2>2. QED
    BY <1>2, <1>4, <1>8, <2>1 DEF Ldw
<1>9. ASSUME NEW x \in Int
      PROVE  /\ SetSP(rl, x) \in RegFile
             /\ SetSP(rl, x)[EL] = rl[EL] /\ SetSP(rl, x)[ELB] = rl[ELB]
  BY SetSPType, SizeAssumption DEF SetSP, RegFile, SP, EL, ELB, RR, R0
<1>10. CASE Push(i)
  <2>1. rl[SP] - 2 \in Int
    BY SizeFacts DEF Word
  <2>2. QED
    BY <1>1, <1>9, <1>10, <2>1 DEF Push
<1>11. CASE Pop(i)
  <2>. DEFINE top == W(rl[SP] + 2)
  <2>1. top \in Word /\ top \in Int
    BY WordMod, SizeFacts DEF Word
  <2>2. CanRead(top, 2) => Word16At(top) \in Word
    BY <2>1, ReadWord DEF CanRead
  <2>3. ASSUME NEW v \in Word
        PROVE  /\ Store(SetSP(rl, top), i.a, v) \in RegFile
               /\ Store(SetSP(rl, top), i.a, v)[EL] = rl[EL]
               /\ Store(SetSP(rl, top), i.a, v)[ELB] = rl[ELB]
    <3>1. PICK popped \in RegFile :
            /\ popped = SetSP(rl, top)
            /\ popped[EL] = rl[EL] /\ popped[ELB] = rl[ELB]
      BY <1>9, <2>1
    <3>2. /\ Store(popped, i.a, v) \in RegFile
          /\ Store(popped, i.a, v)[EL] = rl[EL]
          /\ Store(popped, i.a, v)[ELB] = rl[ELB]
      BY <1>0, <3>1, StoreType, StoreKeepsKernelRegisters
    <3>3. QED
      BY <3>1, <3>2
  <2>4. QED
    BY <1>1, <1>9, <1>11, <2>1, <2>2, <2>3 DEF Pop
<1>12. CASE Alu(i)
  BY <1>2, <1>12 DEF Alu, AluResult, RegisterStep
<1>13. CASE DivisionTrap(i)
  BY <1>13 DEF DivisionTrap
<1>14. CASE IncDec(i)
  <2>1. \A regs \in RegFile, o \in {i.a, i.b}, by \in {1, -1} :
          /\ Step(regs, o, by) \in RegFile
          /\ Step(regs, o, by)[EL] = regs[EL] /\ Step(regs, o, by)[ELB] = regs[ELB]
    <3>1. SUFFICES ASSUME NEW regs \in RegFile, NEW o \in {i.a, i.b}, NEW by \in {1, -1}
                   PROVE  /\ Step(regs, o, by) \in RegFile
                          /\ Step(regs, o, by)[EL] = regs[EL]
                          /\ Step(regs, o, by)[ELB] = regs[ELB]
      OBVIOUS
    <3>2. ValIn(regs, o) + by \in Int
      BY ValType, SizeFacts DEF Word
    <3>3. o \in Operand /\ ~IsPrivileged(o)
      BY <1>0
    <3>4. PICK v \in Word : v = W(ValIn(regs, o) + by)
      BY <3>2, WordMod
    <3>5. /\ Store(regs, o, v) \in RegFile
          /\ Store(regs, o, v)[EL] = regs[EL] /\ Store(regs, o, v)[ELB] = regs[ELB]
      BY <3>3, StoreType, StoreKeepsKernelRegisters
    <3>6. QED
      BY <3>4, <3>5 DEF Step
  <2>2. QED
    BY <1>1, <1>14, <2>1 DEF IncDec, RegisterStep
<1>15. CASE Cmp(i)
  <2>1. PICK v \in {CMP_Z, CMP_L, CMP_G} : RegisterStep([rl EXCEPT ![CF] = v])
    BY <1>15 DEF Cmp
  <2>2. /\ [rl EXCEPT ![CF] = v] \in RegFile
        /\ [rl EXCEPT ![CF] = v][EL] = rl[EL] /\ [rl EXCEPT ![CF] = v][ELB] = rl[ELB]
    BY SizeAssumption, RegisterNumbers DEF RegFile, CF, EL, ELB, RR, R0
  <2>3. QED
    BY <1>1, <2>1, <2>2 DEF RegisterStep
<1>16. CASE Jump(i)
  <2>1. /\ Goto(rl, Val(i.a)) \in RegFile
        /\ Goto(rl, Val(i.a))[EL] = rl[EL] /\ Goto(rl, Val(i.a))[ELB] = rl[ELB]
    BY GotoType, SizeAssumption DEF Goto, RegFile, PC, EL, ELB, RR, R0
  <2>2. QED
    BY <1>1, <1>4, <1>16, <2>1 DEF Jump, RegisterStep
<1>17. CASE Bl(i)
  <2>1. W(rl[SP] - 2 * FRAME) \in Word
    BY FrameFacts, SizeFacts, WordMod DEF Word
  <2>2. QED
    BY <1>17, <2>1, LinkedArrives DEF Bl
<1>18. CASE Ret(i)
  BY <1>1, <1>18, ReturnedType, ReturnKeepsKernelRegisters DEF Ret
<1>19. CASE \/ Intset(i) \/ Ppcnt(i) \/ Ppktrrset(i) \/ Vpset(i) \/ Vpget(i)
            \/ Vpflgset(i) \/ Vpflgget(i) \/ Vpaddr(i)
  BY <1>4, <1>19
  DEF Intset, Ppcnt, Ppktrrset, Vpset, Vpget, Vpflgset, Vpflgget, Vpaddr,
      PagePermitted, Refuse, EL0, EL1
<1>20. QED
  BY <1>5, <1>6, <1>7, <1>8, <1>10, <1>11, <1>12, <1>13, <1>14, <1>15, <1>16,
     <1>17, <1>18, <1>19 DEF Execute

(* Every step from user level stays there or leaves it as UserElevationStep says. *)
LEMMA UserElevates == TypeOK /\ [Next]_vars => UserElevationStep
<1> SUFFICES ASSUME TypeOK, [Next]_vars, rl[EL] = EL0
             PROVE  /\ rl'[EL] = EL0 \/ rl'[EL] = rl[ELB] \/ EntersHandler
                    /\ rl'[ELB] \in {rl[ELB], EL0}
  BY DEF UserElevationStep, AtUser
<1>1. CASE Instruct
  <2>0. rl[PC] \in Word
    BY RegisterNumbers DEF TypeOK
  <2>1. PICK i \in Code[rl[PC]] : Permitted(i) /\ Execute(i)
    BY <1>1 DEF Instruct
  <2>. USE OperandFacts
  <2>2. i.a \in Operand /\ i.b \in Operand
    BY <2>0, InstrType
  <2>3. CASE ~Interrupt(i) /\ ~Intret(i)
    BY <2>1, <2>2, <2>3, OtherStepsKeepElevation
  <2>4. CASE Intret(i)
    <3>. DEFINE back == Returned(rl[EL], rl[FP])
                top  == W(back[SP] + 2)
                sp   == IF PopGranted(rl[EL], top) THEN Word16At(top) ELSE top
                regs == [back EXCEPT ![SP] = sp, ![EL] = rl[ELB]]
    <3>1. back \in RegFile /\ back[ELB] = rl[ELB]
      BY <2>2, ReturnedType, ReturnKeepsKernelRegisters
    <3>2. top \in Word
      <4>1. back[SP] \in Int
        BY <3>1, RegisterNumbers, SizeFacts DEF RegFile, Word
      <4>2. QED
        BY <4>1, WordMod
    <3>3. sp \in Word
      BY <2>2, <3>2, ReadWord DEF PopGranted
    <3>4. regs \in RegFile /\ regs[EL] = rl[ELB] /\ regs[ELB] = rl[ELB]
      BY <2>2, <3>1, <3>3, RegisterNumbers, SizeAssumption DEF RegFile, SP, EL, ELB, RR, R0
    <3>5. Retire(regs)
      BY <2>4 DEF Intret
    <3>6. QED
      BY <3>4, <3>5, RetireKeepsKernelRegisters
  <2>5. CASE Interrupt(i)
    <3>1. Handler(i) \in Word
      BY <2>2 DEF Handler, TypeOK
    <3>2. CASE Handler(i) = 0
      BY <2>2, <2>5, <3>2, RetireKeepsKernelRegisters DEF Interrupt, Refuse
    <3>3. CASE Handler(i) # 0 /\ ~StackUsable
      <4>. DEFINE regs == [rl EXCEPT ![ELB] = rl[EL]]
      <4>1. regs \in RegFile /\ regs[EL] = EL0 /\ regs[ELB] = EL0
        BY <2>2, RegisterNumbers DEF RegFile, EL, ELB
      <4>2. Retire(regs)
        BY <2>5, <3>3 DEF Interrupt
      <4>3. QED
        BY <4>1, <4>2, RetireKeepsKernelRegisters
    <3>4. CASE Handler(i) # 0 /\ StackUsable
      <4>1. Elevated \in RegFile /\ Elevated[EL] = EL1 /\ Elevated[ELB] = EL0
        BY <2>2, RegisterNumbers, SmallWords, SizeAssumption DEF RegFile, Elevated, EL, ELB, RR, R0
      <4>2. W(rl[SP] - 2 * (FRAME + 1)) \in Word
        BY <2>2, FrameFacts, SizeFacts, WordMod DEF Word
      <4>3. Imm(Handler(i)) \in Operand /\ Imm(Handler(i)).kind = "imm"
        BY <3>1 DEF Imm, Operand, ImmOperand
      <4>4. Retire(Linked(Elevated, W(rl[SP] - 2 * (FRAME + 1)), Imm(Handler(i))))
        BY <2>5, <3>4 DEF Interrupt
      <4>5. rl'[EL] = EL1 /\ rl'[ELB] = EL0 /\ rl'[PC] = Handler(i)
        BY <4>1, <4>2, <4>3, <4>4, LinkedArrives DEF Imm
      <4>6. Val(i.a) \in Word
        BY <2>2
      <4>7. QED
        BY <3>4, <4>5, <4>6 DEF EntersHandler, Handler
    <3>5. QED
      BY <3>2, <3>3, <3>4
  <2>6. QED
    BY <2>3, <2>4, <2>5
<1>2. CASE FetchFault \/ PrivilegeFault
  BY <1>2, RetireKeepsKernelRegisters DEF FetchFault, PrivilegeFault, Refuse, TypeOK, RegFile
<1>3. CASE LoadImage
  <2>1. PICK image \in Images :
          rl' = [rl EXCEPT ![PC] = image[0] + BYTE * image[1], ![SP] = MEM_SIZE - 2]
    BY <1>3 DEF LoadImage
  <2>2. EL \in Reg /\ ELB \in Reg /\ {EL, ELB} \cap {PC, SP} = {}
    BY RegisterNumbers, SizeAssumption DEF PC, SP, EL, ELB, RR, R0
  <2>3. rl'[EL] = rl[EL] /\ rl'[ELB] = rl[ELB]
    BY <2>1, <2>2 DEF TypeOK
  <2>4. QED
    BY <2>3
<1>4. CASE ~Instruct /\ ~FetchFault /\ ~PrivilegeFault /\ ~LoadImage
  BY <1>4 DEF Next, RejectImage, StartCore, StopCore, Done, vars
<1>5. QED
  BY <1>1, <1>2, <1>3, <1>4

(***************************************************************************)
(* User level is left only into a registered handler or, by intret, for    *)
(* the elevation that elb holds.                                           *)
(***************************************************************************)
THEOREM ElevationIsGuarded == Spec => UserElevation
BY Typed, UserElevates, PTL DEF Spec, UserElevation

-----------------------------------------------------------------------------
(* What user code writes. *)

(* The bytes of an access granted at user level lie in pages with the flag. *)
LEMMA UserAccessFlagged ==
  ASSUME NEW addr \in Word, NEW vprot \in {MAPPED, READ, WRITE, EXEC},
         NEW width \in {1, 2}, Access(EL0, addr, vprot, width)
  PROVE  \A a \in addr .. addr + width - 1 : HasFlag(FlagsOf(PageOf(a)), vprot)
<1>. EL0 \in Word /\ EL0 # EL1
  BY SmallWords DEF EL0, EL1
<1>1. HasFlag(FlagsOf(PageOf(addr)), vprot)
  BY DEF Access
<1>2. ASSUME width = 2 PROVE HasFlag(FlagsOf(PageOf(addr + 1)), vprot)
  <2>1. addr + 2 <= MEM_SIZE
    BY <1>2, AccessBounds
  <2>2. W(addr + 1) = addr + 1
    BY <2>1, SizeFacts DEF W, Word
  <2>3. SecondPageFlagged(addr, vprot)
    BY <1>2 DEF Access
  <2>4. QED
    BY <1>1, <2>2, <2>3 DEF SecondPageFlagged
<1>3. \A a \in addr .. addr + width - 1 : a = addr \/ (width = 2 /\ a = addr + 1)
  BY SizeFacts DEF Word
<1>4. QED
  BY <1>1, <1>2, <1>3

(* A store changes the bytes of its access only. *)
LEMMA StoredBytes ==
  ASSUME TypeOK, NEW addr \in Word, NEW v, NEW a \in Addr
  PROVE  /\ WithByte(addr, v)[a] # mem[a] => a \in addr .. addr + 1 - 1
         /\ WithWord(addr, v)[a] # mem[a] => a \in addr .. addr + 2 - 1
<1>1. addr \in Int /\ a \in Int
  BY SizeFacts DEF Word, Addr
<1>2. WithByte(addr, v)[a] # mem[a] => a = addr
  BY DEF WithByte, TypeOK
<1>3. WithWord(addr, v)[a] # mem[a] => a = addr \/ a = addr + 1
  BY DEF WithWord, TypeOK
<1>4. QED
  BY <1>1, <1>2, <1>3

(* An address at most one memory size off wraps around once. *)
LEMMA WrapsOnce ==
  ASSUME NEW y \in Int, y > -WORD, y <= WORD
  PROVE  W(y) \in {y, y + WORD, y - WORD}
BY SizeFacts DEF W

(***************************************************************************)
(* A byte that a series of pushes changes belongs to a word whose push was *)
(* granted, also where the stack pointer wraps around.                     *)
(***************************************************************************)
LEMMA PushedBytes ==
  ASSUME NEW el \in Word, NEW sp \in Word, NEW n \in Nat, NEW words, NEW a \in Addr,
         Pushed(el, sp, n, words)[a] # mem[a]
  PROVE  \E addr \in Word : Access(el, addr, WRITE, 2) /\ a \in addr .. addr + 2 - 1
<1>. DEFINE depth == W(sp + 1 - a)
            k     == depth \div 2
            addr  == W(sp - 2 * k)
<1>. WORD \in Nat /\ WORD >= 256
  BY SizeFacts
<1>0. a \in Int /\ sp \in Int /\ a >= 0 /\ a < WORD - 1 /\ sp < WORD /\ sp >= 0
  BY SizeFacts DEF Addr, Word
<1>1. k < n /\ Access(el, addr, WRITE, 2)
  BY DEF Pushed, PushGranted
<1>2. depth \in {sp + 1 - a, sp + 1 - a + WORD, sp + 1 - a - WORD}
  <2>. DEFINE y == sp + 1 - a
  <2>1. y \in Int /\ y > -WORD /\ y <= WORD
    BY <1>0
  <2>2. depth = W(y)
    OBVIOUS
  <2>3. SUFFICES depth \in {y, y + WORD, y - WORD}
    BY <1>0
  <2>. HIDE DEF y, depth
  <2>4. QED
    BY <2>1, <2>2, WrapsOnce
<1>3. depth \in Nat /\ depth < WORD
  BY <1>0 DEF W
<1>4. depth = 2 * k \/ depth = 2 * k + 1
  BY <1>3
<1>5. k \in Nat
  BY <1>3
<1>6. sp - 2 * k \in {a - 1, a, a - 1 - WORD, a - WORD, a - 1 + WORD, a + WORD}
  BY <1>0, <1>2, <1>4, <1>5
<1>7. addr = a \/ addr = a - 1 \/ (a = 0 /\ addr = WORD - 1)
  <2>. DEFINE m == sp - 2 * k
  <2>1. m \in Int /\ addr = W(m)
    BY <1>0, <1>5
  <2>2. m \in {a - 1, a, a - 1 - WORD, a - WORD, a - 1 + WORD, a + WORD}
    BY <1>6
  <2>. HIDE DEF m
  <2>3. QED
    BY <1>0, <2>1, <2>2 DEF W
<1>8. addr # WORD - 1
  BY <1>1 DEF Access
<1>9. addr \in Word
  BY <1>0, <1>5, WordMod
<1>10. a \in addr .. addr + 2 - 1
  BY <1>0, <1>7, <1>8
<1>11. QED
  BY <1>1, <1>9, <1>10

(* Nobody is at user level before the machine has loaded its image. *)
BootsAtKernel == exec = "allocated" => rl[EL] = EL1
UserInv       == TypeOK /\ BootsAtKernel

(* The invariant of user code's writes holds at the start. *)
LEMMA InitUserInv == Init => UserInv
BY InitType, RegisterNumbers DEF Init, UserInv, BootsAtKernel

(* Every step keeps it. *)
LEMMA NextUserInv == UserInv /\ [Next]_vars => UserInv'
<1> SUFFICES ASSUME UserInv, [Next]_vars PROVE BootsAtKernel'
  BY NextType DEF UserInv
<1>1. CASE Instruct
  <2>1. exec' # "allocated"
    BY <1>1
    DEF Instruct, Running, Execute, Hlt, Nop, In, Out, Ldb, Stb, Ldw, Stw, Mov, Swp, Swpz, Push,
        Pop, Alu, DivisionTrap, IncDec, Not, Jump, Cmp, Bl, Ret, Interrupt, Intset, Intret, Ppcnt,
        Ppktrrset, Vpset, Vpget, Vpflgset, Vpflgget, Vpaddr, Refuse, RegisterStep
  <2>2. QED
    BY <2>1 DEF BootsAtKernel
<1>2. CASE ~Instruct
  BY <1>2 DEF Next, LoadImage, RejectImage, StartCore, StopCore, FetchFault, PrivilegeFault,
              Running, Refuse, Done, vars, UserInv, BootsAtKernel
<1>3. QED
  BY <1>1, <1>2

(* A step at user level changes flagged bytes only. *)
LEMMA UserWrites == UserInv /\ [Next]_vars => UserWriteFlagged
<1> SUFFICES ASSUME UserInv, [Next]_vars, NEW a \in Addr,
                    rl[EL] = EL0, rl'[EL] = EL0, mem'[a] # mem[a]
             PROVE  HasFlag(FlagsOf(PageOf(a)), WRITE)
  BY DEF UserWriteFlagged, UserStepWrites, AtUser
<1>. TypeOK
  BY DEF UserInv
<1>1. ASSUME NEW addr \in Word, NEW width \in {1, 2}, Access(EL0, addr, WRITE, width),
             a \in addr .. addr + width - 1
      PROVE  HasFlag(FlagsOf(PageOf(a)), WRITE)
  BY <1>1, UserAccessFlagged
<1>2. CASE Instruct
  <2>0. rl[PC] \in Word /\ rl[SP] \in Word /\ EL0 \in Word
    BY RegisterNumbers, SmallWords DEF TypeOK, EL0
  <2>1. PICK i \in Code[rl[PC]] : Permitted(i) /\ Execute(i)
    BY <1>2 DEF Instruct
  <2>2. i.a \in Operand /\ i.b \in Operand
    BY <2>0, InstrType
  <2>3. Val(i.a) \in Word
    BY <2>2, OperandFacts
  <2>4. CASE Stb(i)
    BY <1>1, <2>3, <2>4, StoredBytes DEF Stb, CanWrite
  <2>5. CASE Stw(i)
    BY <1>1, <2>3, <2>5, StoredBytes DEF Stw, CanWrite
  <2>6. CASE Push(i)
    BY <1>1, <2>0, <2>6, StoredBytes DEF Push, CanWrite
  <2>7. CASE Bl(i)
    <3>1. mem' = Pushed(EL0, rl[SP], FRAME, SavedWords(rl))
      BY <2>7 DEF Bl
    <3>2. QED
      BY <1>1, <2>0, <3>1, FrameFacts, PushedBytes
  <2>8. CASE Interrupt(i)
    <3>1. ASSUME Handler(i) # 0, StackUsable PROVE rl'[EL] = EL1
      <4>1. Elevated \in RegFile /\ Elevated[EL] = EL1
        BY RegisterNumbers, SmallWords, SizeAssumption
        DEF TypeOK, RegFile, Elevated, EL, ELB, RR, R0
      <4>2. W(rl[SP] - 2 * (FRAME + 1)) \in Word
        BY <2>0, FrameFacts, SizeFacts, WordMod DEF Word
      <4>3. Imm(Handler(i)) \in Operand
        BY <2>3 DEF Handler, TypeOK, Imm, Operand, ImmOperand
      <4>4. QED
        BY <2>8, <3>1, <4>1, <4>2, <4>3, LinkedArrives DEF Interrupt
    <3>2. QED
      BY <2>8, <3>1 DEF Interrupt, Refuse, EL0, EL1
  <2>9. CASE ~Stb(i) /\ ~Stw(i) /\ ~Push(i) /\ ~Bl(i) /\ ~Interrupt(i)
    BY <2>1, <2>9
    DEF Execute, Hlt, Nop, In, Out, Ldb, Ldw, Mov, Swp, Swpz, Pop, Alu, DivisionTrap, IncDec, Not,
        Jump, Cmp, Ret, Intset, Intret, Ppcnt, Ppktrrset, Vpset, Vpget, Vpflgset, Vpflgget,
        Vpaddr, Refuse, RegisterStep
  <2>10. QED
    BY <2>4, <2>5, <2>6, <2>7, <2>8, <2>9
<1>3. CASE LoadImage
  BY <1>3 DEF LoadImage, UserInv, BootsAtKernel, EL0, EL1
<1>4. CASE ~Instruct /\ ~LoadImage
  BY <1>4 DEF Next, RejectImage, StartCore, StopCore, FetchFault, PrivilegeFault, Refuse, Done, vars
<1>5. QED
  BY <1>2, <1>3, <1>4

(***************************************************************************)
(* User code changes bytes of pages with the WRITE flag only.              *)
(***************************************************************************)
THEOREM WritesAreFlagged == Spec => UserWritesFlagged
BY InitUserInv, NextUserInv, UserWrites, PTL DEF Spec, UserWritesFlagged

=============================================================================
