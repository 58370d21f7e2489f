---------------------------- MODULE La16Execution ---------------------------
(***************************************************************************)
(* Control flow (instruction/execution.c): jumps, the comparison flags,    *)
(* and the calls, which save the registers in a frame on the stack.        *)
(***************************************************************************)
EXTENDS La16Data

CMP_Z == 1
CMP_L == 2
CMP_G == 4

(* The comparison is signed. *)
Cmp(i) ==
  /\ i.op = "cmp"
  /\ LET x == Signed(Val(i.a))
         y == Signed(Val(i.b))
     IN  RegisterStep([rl EXCEPT ![CF] = IF x = y THEN CMP_Z
                                         ELSE IF x < y THEN CMP_L ELSE CMP_G])

GotoAhead(regs, target) == [regs EXCEPT ![PC] = W(target)]     \* mutant of Goto
Goto(regs, target) == [regs EXCEPT ![PC] = W(target - 4)]

(* cf may hold any word: each condition looks at the bits it names. *)
Taken(op) ==
  \/ op = "jmp"
  \/ op = "je"  /\ HasFlag(rl[CF], CMP_Z)
  \/ op = "jne" /\ ~HasFlag(rl[CF], CMP_Z)
  \/ op = "jlt" /\ HasFlag(rl[CF], CMP_L)
  \/ op = "jgt" /\ HasFlag(rl[CF], CMP_G)
  \/ op = "jle" /\ (HasFlag(rl[CF], CMP_L) \/ HasFlag(rl[CF], CMP_Z))
  \/ op = "jge" /\ (HasFlag(rl[CF], CMP_G) \/ HasFlag(rl[CF], CMP_Z))

Jump(i) ==
  /\ i.op \in {"jmp", "je", "jne", "jlt", "jgt", "jle", "jge"}
  /\ RegisterStep(IF Taken(i.op) THEN Goto(rl, Val(i.a)) ELSE rl)

-----------------------------------------------------------------------------
(***************************************************************************)
(* A frame holds pc, cf, r0 .. and fp, from its highest address down.      *)
(***************************************************************************)
FRAME      == NGPR + 3
FrameSlot  == 0 .. FRAME - 1
SavedReg   == {PC, CF, FP} \cup (R0 .. RR - 1)
(* Mutant of RegIn: cf is pushed before pc. *)
RegInSwapped(k) == IF k = 0 THEN CF
                   ELSE IF k = 1 THEN PC
                   ELSE IF k = FRAME - 1 THEN FP ELSE k + 2
RegIn(k)   == IF k = 0 THEN PC
              ELSE IF k = 1 THEN CF
              ELSE IF k = FRAME - 1 THEN FP ELSE k + 2
SlotOf(r)  == IF r = PC THEN 0
              ELSE IF r = CF THEN 1
              ELSE IF r = FP THEN FRAME - 1 ELSE r - 2

SavedWords(regs) == [k \in FrameSlot |-> regs[RegIn(k)]]

(***************************************************************************)
(* n calls of la16_op_push_ext: word k goes to sp - 2k.  A refused push    *)
(* raises the flag, the ones after it are still carried out.               *)
(***************************************************************************)
PushReadable(el, sp, k) == Access(el, W(sp - 2 * k), READ, 2)  \* mutant of PushGranted
PushGranted(el, sp, k) == Access(el, W(sp - 2 * k), WRITE, 2)
PushesGranted(el, sp, n) == \A k \in 0 .. n - 1 : PushGranted(el, sp, k)

Pushed(el, sp, n, words) ==
  [a \in Addr |->
     LET depth == W(sp + 1 - a)      \* 2k at the high byte of word k, 2k + 1 at its low byte
         k     == depth \div 2
     IN  IF k < n /\ PushGranted(el, sp, k)
         THEN IF depth % 2 = 1 THEN Low(words[k]) ELSE High(words[k])
         ELSE mem[a]]

(* The target is read after sp and fp have moved. *)
Linked(regs, sp, target) ==
  LET framed == [regs EXCEPT ![SP] = sp, ![FP] = sp]
  IN  Goto(framed, ValIn(framed, target))

Bl(i) ==
  /\ i.op = "bl"
  /\ mem' = Pushed(rl[EL], rl[SP], FRAME, SavedWords(rl))
  /\ Retire(Linked(rl, W(rl[SP] - 2 * FRAME), i.a))
  /\ FaultUnless(PushesGranted(rl[EL], rl[SP], FRAME))
  /\ UNCHANGED <<tables, exec>>

(***************************************************************************)
(* la16_op_ret pops the frame at fp.  A register whose read is refused     *)
(* keeps its value; the ones after it are still restored.                  *)
(***************************************************************************)
SlotAddr(fp, k)      == W(fp + 2 * (FRAME - k))
PopGranted(el, a)    == Access(el, a, READ, 2)
PopsGranted(el, fp)  == \A k \in FrameSlot : PopGranted(el, SlotAddr(fp, k))

Returned(el, fp) ==
  [r \in Reg |->
     IF r = SP THEN W(fp + 2 * FRAME)
     ELSE IF r \in SavedReg /\ PopGranted(el, SlotAddr(fp, SlotOf(r)))
     THEN Word16At(SlotAddr(fp, SlotOf(r)))
     ELSE rl[r]]

Ret(i) ==
  /\ i.op = "ret"
  /\ Retire(Returned(rl[EL], rl[FP]))
  /\ FaultUnless(PopsGranted(rl[EL], rl[FP]))
  /\ UNCHANGED <<mem, tables, exec>>
=============================================================================
