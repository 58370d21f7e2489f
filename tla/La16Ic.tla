------------------------------- MODULE La16Ic -------------------------------
(***************************************************************************)
(* The interrupt controller (instruction/ic.c): a software interrupt saves *)
(* the elevation in elb and the stack pointer on the stack, then calls the *)
(* handler at kernel level; intret undoes the three.                       *)
(***************************************************************************)
EXTENDS La16Execution

Handler(i) == int_handler[Val(i.a)]

(* The interrupted stack is only asked to be mapped, and only at EL0. *)
StackUsable == rl[EL] = EL0 => Access(rl[EL], rl[SP], MAPPED, 2)

(* The words pushed: sp, then the frame that bl builds. *)
InterruptWords ==
  [k \in 0 .. FRAME |-> IF k = 0 THEN rl[SP] ELSE rl[RegIn(k - 1)]]

Elevated == [rl EXCEPT ![ELB] = rl[EL], ![EL] = EL1]

Interrupt(i) ==
  /\ i.op = "int"
  /\ IF Handler(i) = 0
       THEN Refuse("bad_access")
       ELSE IF ~StackUsable
       THEN /\ Retire([rl EXCEPT ![ELB] = rl[EL]])
            /\ Fault("bad_access")
            /\ UNCHANGED <<mem, tables, exec>>
       ELSE /\ mem' = Pushed(EL1, rl[SP], FRAME + 1, InterruptWords)
            /\ Retire(Linked(Elevated, W(rl[SP] - 2 * (FRAME + 1)), Imm(Handler(i))))
            /\ FaultUnless(PushesGranted(EL1, rl[SP], FRAME + 1))
            /\ UNCHANGED <<tables, exec>>

Intset(i) ==
  /\ i.op = "intset"
  /\ IF rl[EL] = EL0
       THEN Refuse("permission")
       ELSE /\ int_handler' = [int_handler EXCEPT ![Val(i.a)] = Val(i.b)]
            /\ Retire(rl)
            /\ UNCHANGED <<mem, page, pageu, term, exec>>

(* The stack pointer is popped after the frame, at the elevation before    *)
(* the change; nothing asks for kernel level.                              *)
Intret(i) ==
  /\ i.op = "intret"
  /\ LET el      == rl[EL]
         back    == Returned(el, rl[FP])
         top     == W(back[SP] + 2)
         granted == PopGranted(el, top)
     IN  /\ Retire([back EXCEPT ![SP] = IF granted THEN Word16At(top) ELSE top,
                                ![EL] = rl[ELB]])
         /\ FaultUnless(granted /\ PopsGranted(el, rl[FP]))
  /\ UNCHANGED <<mem, tables, exec>>
=============================================================================
