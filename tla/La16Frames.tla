----------------------------- MODULE La16Frames -----------------------------
(***************************************************************************)
(* A program that follows the calling convention, on the machine: every    *)
(* ret matches a bl and every intret an int, fp is left to them, pops take *)
(* back what the callee pushed, and stores stay out of the frames.  The    *)
(* frames on its stack then implement CallStack: the suspended contexts    *)
(* are the ones found by following fp from frame to frame in the memory.   *)
(*                                                                         *)
(* calls remembers, for every frame, the instruction that built it and the *)
(* elevation at that time; the machine itself keeps neither.               *)
(***************************************************************************)
EXTENDS La16Core, Sequences

CONSTANT Reentrant   \* may an interrupt be raised while one is handled?

VARIABLE calls

fvars == <<vars, calls>>

-----------------------------------------------------------------------------
(* The convention. *)

Depth == Len(calls)
Handling == \E k \in 1 .. Depth : calls[k].by = "int"

(* Stores go to the callee's own locals or below the stack pointer. *)
BelowFrames(addr, width) == calls # <<>> => addr + width <= rl[FP] + 2

Room(words) == rl[SP] >= 2 * words

(* Registers that an instruction other than a call or a return may set. *)
FreeRegister(o) ==
  o.kind = "reg" =>
    /\ o.val \notin {FP, ELB}
    /\ o.val \in {SP, EL} => calls = <<>>

Disciplined(i) ==
  /\ i.op = "bl"     => /\ Room(FRAME)
                        /\ PushesGranted(rl[EL], rl[SP], FRAME)
  /\ i.op = "int"    => /\ Handling => Reentrant
                        /\ Handler(i) # 0 /\ StackUsable
                        /\ Room(FRAME + 1)
                        /\ PushesGranted(EL1, rl[SP], FRAME + 1)
  /\ i.op = "ret"    => /\ calls # <<>> /\ Head(calls).by = "bl"
                        /\ PopsGranted(rl[EL], rl[FP])
  /\ i.op = "intret" => calls # <<>> /\ Head(calls).by = "int"
  /\ i.op = "push"   => Room(1) /\ BelowFrames(rl[SP], 2)
  /\ i.op = "pop"    => FreeRegister(i.a) /\ (calls # <<>> => rl[SP] < rl[FP])
  /\ i.op = "stb"    => BelowFrames(Val(i.a), 1)
  /\ i.op = "stw"    => BelowFrames(Val(i.a), 2)
  /\ i.op \in {"bl", "int", "ret", "intret", "push", "pop", "stb", "stw"}
       \/ (FreeRegister(i.a) /\ FreeRegister(i.b))

Logged(i) ==
  calls' = IF i.op \in {"bl", "int"} THEN <<[by |-> i.op, el |-> rl[EL]]>> \o calls
           ELSE IF i.op \in {"ret", "intret"} THEN Tail(calls) ELSE calls

FInit == Init /\ calls = <<>>

FExecute(i) == Permitted(i) /\ Disciplined(i) /\ Execute(i) /\ Logged(i)

FInstruct == Running /\ FetchGranted /\ \E i \in Code[rl[PC]] : FExecute(i)

(* Nothing more to do that the convention allows. *)
FStop ==
  /\ Running
  /\ FetchGranted => \A i \in Code[rl[PC]] : ~Permitted(i) \/ ~Disciplined(i)
  /\ UNCHANGED fvars

FNext ==
  \/ (LoadImage \/ RejectImage \/ StartCore \/ StopCore \/ Done) /\ UNCHANGED calls
  \/ FInstruct \/ FStop

FSpec == FInit /\ [][FNext]_fvars

-----------------------------------------------------------------------------
(* The stack of suspended contexts, read from the memory. *)

CallersFp(fp) == Word16At(SlotAddr(fp, FRAME - 1))

FrameAt[k \in Nat] == IF k <= 1 THEN rl[FP] ELSE CallersFp(FrameAt[k - 1])

CallersSp(by, fp) == IF by = "bl" THEN fp + 2 * FRAME ELSE Word16At(fp + 2 * FRAME + 2)

Observed == SavedReg \cup {SP, EL}

ContextIn(call, fp) ==
  [r \in Observed |->
     IF r = EL THEN call.el
     ELSE IF r = SP THEN CallersSp(call.by, fp)
     ELSE IF r = PC THEN W(Word16At(SlotAddr(fp, 0)) + 4)
     ELSE Word16At(SlotAddr(fp, SlotOf(r)))]

InFrame(k) == ContextIn(calls[k], FrameAt[k])

MachineContext   == [Observed -> Word]
RunningContext   == [r \in Observed |-> rl[r]]
Resumable(c)     == [c EXCEPT ![PC] = W(c[PC] + 4)]
Arguments(c)     == [r \in (R0 .. RR - 1) \cup {CF} |-> c[r]]

(***************************************************************************)
(* Calls, returns, interrupts and returns from interrupts implement the    *)
(* abstract call stack: the 28 pushes of bl and int and the pops of ret    *)
(* and intret agree on the place of every register, the frames survive     *)
(* whatever callees and handlers do, and a handler that runs at kernel     *)
(* level gives back the elevation along with the registers.                *)
(***************************************************************************)
Stack == INSTANCE CallStack WITH
  Context <- MachineContext, Suspended <- Resumable, Passed <- Arguments,
  context <- RunningContext, suspended <- [k \in 1 .. Depth |-> InFrame(k)]
ImplementsCallStack == Stack!Spec

(***************************************************************************)
(* ic.c:95 on the end of intret: "setting elevation back to before".  So   *)
(* every return from an interrupt continues at the elevation at which the  *)
(* interrupt was raised.                                                   *)
(***************************************************************************)
ElevationBackToBefore ==
  [][Len(calls') < Len(calls) => rl'[EL] = Head(calls).el]_fvars
=============================================================================
