----------------------------- MODULE La16Safety -----------------------------
(***************************************************************************)
(* What the machine promises to the program it runs, whatever the program: *)
(* the bounds of the memory, the tables the kernel owns, the bytes a user  *)
(* may change and the way from user level to kernel level.                 *)
(***************************************************************************)
EXTENDS La16Core

AtUser == rl[EL] = EL0

(***************************************************************************)
(* An access that la16_mpp_access grants stays inside the memory, at every *)
(* elevation, for every permission and width and at every address: also    *)
(* for the word at the last byte of a page and at the last page, where the *)
(* second byte has no entry in the page tables.                            *)
(***************************************************************************)
GrantedAccessInBounds ==
  \A addr \in Word, vprot \in {MAPPED, READ, WRITE, EXEC}, width \in {1, 2} :
    Access(rl[EL], addr, vprot, width) => addr + width <= MEM_SIZE

(***************************************************************************)
(* No instruction that starts at user level changes the page tables or the *)
(* interrupt handlers, whatever its operands name.                         *)
(***************************************************************************)
UserStepKeepsTables == AtUser => UNCHANGED tables
UserStepsKeepTables == [][UserStepKeepsTables]_vars

(***************************************************************************)
(* User code leaves user level in two ways only: into a handler that the   *)
(* kernel has set, with elb telling that it came from user level, or by an *)
(* intret, to the elevation elb holds.  It can set elb only to EL0.        *)
(***************************************************************************)
EntersHandler ==
  /\ rl'[EL] = EL1 /\ rl'[ELB] = EL0
  /\ \E n \in Word : int_handler[n] # 0 /\ rl'[PC] = int_handler[n]
UserElevationStep ==
  AtUser => /\ rl'[EL] = EL0 \/ rl'[EL] = rl[ELB] \/ EntersHandler
            /\ rl'[ELB] \in {rl[ELB], EL0}
UserElevation == [][UserElevationStep]_vars

(***************************************************************************)
(* A step that stays at user level changes only bytes of pages that carry  *)
(* the WRITE flag: also the 28 pushes of a call that runs off its page,    *)
(* and the second byte of a word across a page boundary.                   *)
(***************************************************************************)
UserStepWrites(a) == AtUser /\ rl'[EL] = EL0 /\ mem'[a] # mem[a]
UserWriteFlagged ==
  \A a \in Addr : UserStepWrites(a) => HasFlag(FlagsOf(PageOf(a)), WRITE)
UserWritesFlagged == [][UserWriteFlagged]_vars

(***************************************************************************)
(* mpp.c:116 of the second byte of a word: "verify if second byte is also  *)
(* in a valid page with same permissions".  So a byte that user code       *)
(* changes lies in a page that is mapped.                                  *)
(***************************************************************************)
UserWriteMapped ==
  \A a \in Addr : UserStepWrites(a) => HasFlag(FlagsOf(PageOf(a)), MAPPED)
UserWritesMapped == [][UserWriteMapped]_vars

(***************************************************************************)
(* mpp.c:104: "its user level so we first do address resoulution".  So a   *)
(* byte that user code changes lies in a physical page that some mapped,   *)
(* writable virtual page stands for.                                       *)
(***************************************************************************)
UserWriteResolved ==
  \A a \in Addr : UserStepWrites(a) =>
    \E p \in VPage : /\ HasFlag(pageu[p], MAPPED) /\ HasFlag(pageu[p], WRITE)
                     /\ PhysPage(p) = PageOf(a)
UserWritesResolved == [][UserWriteResolved]_vars

(***************************************************************************)
(* No instruction wedges the core, whatever its operands: a core that runs *)
(* a program without loops is stopped by a termination flag, by the end of *)
(* the memory or by a trap of the host.  The host runs the one thread it   *)
(* waits for, hence weak fairness.                                         *)
(***************************************************************************)
FairSpec == Spec /\ WF_vars(Next)
RunEnds  == exec = "running" ~> exec \in {"returned", "killed"}
=============================================================================
