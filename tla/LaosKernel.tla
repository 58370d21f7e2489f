----------------------------- MODULE LaosKernel -----------------------------
(***************************************************************************)
(* The guest kernel's way to user level (asm/laos/kernel.l16): it takes    *)
(* its own pages from the allocator, maps them readable and executable,    *)
(* takes three more for the stack of the user program, and jumps to it.    *)
(* The flags are those of La16Mpp; interrupts and printing are left out.   *)
(* Behaviours that do not start with the boot are those of a kernel that   *)
(* calls the allocator as a library, in any order.                         *)
(***************************************************************************)
EXTENDS LaosPmm

CONSTANT KPAGES                     \* ppt_kpages, 10

ASSUME KpagesAssumption == KPAGES \in Nat /\ KPAGES + 3 < BYTE - 2

VPage == 0 .. BYTE
RX    == {"mapped", "read", "exec"}
RW    == {"mapped", "read", "write"}

LAST_STACK  == BYTE - 2             \* 0xFE
USER_SP     == WORD - 3             \* 0xFFFD

Entry(phys, flags) == [phys |-> phys, flags |-> flags]

VARIABLES
  phase,      \* "pmm", "map", "stack", "user" or "halted"; "library" without a boot
  r0,         \* the loops' counter
  vpage       \* the page table entry of each virtual page

kvars == <<in_use, rr, phase, r0, vpage>>

Init ==
  /\ PmmInit
  /\ phase \in {"pmm", "library"}
  /\ r0 = 0
  /\ vpage = [v \in VPage |-> Entry(0, {})]

(* The loops compare before they count. *)
Loop(again, next, then, from) ==
  IF again THEN r0' = next /\ UNCHANGED phase
           ELSE r0' = from /\ phase' = then

(* Mutant of TakeKernelPage: the loop runs to the number of all pages. *)
TakeEveryPage ==
  /\ phase = "pmm"
  /\ Alloc
  /\ IF rr' = NO_PAGE
       THEN phase' = "halted" /\ UNCHANGED r0
       ELSE Loop(r0 < PAGES, r0 + 1, "map", 0)
  /\ UNCHANGED vpage

(* Mutant of TakeKernelPage: it counts before it compares. *)
TakeKernelPageShort ==
  /\ phase = "pmm"
  /\ Alloc
  /\ IF rr' = NO_PAGE
       THEN phase' = "halted" /\ UNCHANGED r0
       ELSE Loop(r0 + 1 < KPAGES, r0 + 1, "map", 0)
  /\ UNCHANGED vpage

(* _pmm_init: panics when there is no page. *)
TakeKernelPage ==
  /\ phase = "pmm"
  /\ Alloc
  /\ IF rr' = NO_PAGE
       THEN phase' = "halted" /\ UNCHANGED r0
       ELSE Loop(r0 < KPAGES, r0 + 1, "map", 0)
  /\ UNCHANGED vpage

(* .rx_map_loop *)
MapKernelPage ==
  /\ phase = "map"
  /\ vpage' = [vpage EXCEPT ![r0] = Entry(r0, RX)]
  /\ Loop(r0 <= KPAGES, r0 + 1, "stack", BYTE)
  /\ UNCHANGED pmmVars

(* Mutant of MapStackPage: the page of one call serves every virtual page. *)
MapStackPageOnce ==
  /\ phase = "stack"
  /\ vpage' = [vpage EXCEPT ![r0] = Entry(rr, RW)]
  /\ Loop(r0 > LAST_STACK, r0 - 1, "user", r0 - 1)
  /\ UNCHANGED pmmVars

(* Mutant of MapStackPage: it counts before it compares. *)
MapStackPageShort ==
  /\ phase = "stack"
  /\ Alloc
  /\ vpage' = [vpage EXCEPT ![r0] = Entry(rr', RW)]
  /\ Loop(r0 - 1 > LAST_STACK, r0 - 1, "user", r0 - 1)

(* .userstack_fixup_loop, and the jump to user level after it. *)
MapStackPage ==
  /\ phase = "stack"
  /\ Alloc
  /\ IF rr' = NO_PAGE
       THEN phase' = "halted" /\ UNCHANGED <<r0, vpage>>
       ELSE /\ vpage' = [vpage EXCEPT ![r0] = Entry(rr', RW)]
            /\ Loop(r0 > LAST_STACK, r0 - 1, "user", r0 - 1)

LibraryCall ==
  /\ phase = "library"
  /\ Alloc \/ (\E p \in Word : Free(p)) \/ StoreAround
  /\ UNCHANGED <<phase, r0, vpage>>

(* The user program has no way to the allocator. *)
Booted ==
  /\ phase \in {"user", "halted"}
  /\ UNCHANGED kvars

Boot == TakeKernelPage \/ MapKernelPage \/ MapStackPage
Next == Boot \/ LibraryCall \/ Booted

Spec     == Init /\ [][Next]_kvars
FairSpec == Spec /\ WF_kvars(Boot)

-----------------------------------------------------------------------------
TypeOK ==
  /\ in_use \in [Near -> BOOLEAN]
  /\ rr \in Scanned
  /\ phase \in {"pmm", "map", "stack", "user", "halted", "library"}
  /\ r0 \in VPage
  /\ vpage \in [VPage -> [phys : Scanned, flags : SUBSET (RX \cup RW)]]

Writable == {v \in VPage : "write" \in vpage[v].flags}

(***************************************************************************)
(* A page that user code may write to is backed by a page that the kernel  *)
(* took for it: it has a byte in the table, is in use, is not one of the   *)
(* kernel's, and backs no other page that may be written.                  *)
(***************************************************************************)
WritablePagesAreFresh ==
  \A v \in Writable :
    /\ vpage[v].phys \in Ppt /\ in_use[vpage[v].phys]
    /\ vpage[v].phys > KPAGES
    /\ \A u \in Writable : u # v => vpage[u].phys # vpage[v].phys

Executable == {v \in VPage : "exec" \in vpage[v].flags}

(***************************************************************************)
(* At the jump to user level, what may be executed are the pages that the  *)
(* kernel took, each at its own address, and the one after them, which the *)
(* loop over the kernel's pages maps as well and the allocator then gives  *)
(* away as the top of the stack: it is the only one that may be written,   *)
(* and only there.                                                         *)
(***************************************************************************)
ExecutablePages ==
  phase = "user" =>
    /\ Executable = 0 .. KPAGES + 1
    /\ \A v \in Executable : vpage[v].phys = v
    /\ \A v \in Executable, u \in Writable :
         vpage[u].phys = vpage[v].phys => v = KPAGES + 1 /\ u = BYTE

PageOf(addr) == addr \div (BYTE - 1)

(***************************************************************************)
(* At the jump to user level the user's stack pointer is at the top of the *)
(* pages that it may write: every push, the first one included, which goes *)
(* to the last two bytes of the memory, finds both its bytes on a page     *)
(* that may be written, until the stack has grown past the last of them.   *)
(***************************************************************************)
StackIsMapped ==
  phase = "user" =>
    \A a \in LAST_STACK * (BYTE - 1) .. USER_SP + 1 : PageOf(a) \in Writable

(***************************************************************************)
(* The boot reaches user level, wherever its loops stop: it never runs out *)
(* of pages, and each loop ends.                                           *)
(***************************************************************************)
BootReachesUser == phase = "pmm" ~> phase = "user"
=============================================================================
