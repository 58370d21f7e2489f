----------------------------- MODULE LaosProofs -----------------------------
(***************************************************************************)
(* Theorems about the guest kernel, for every size of the machine and any  *)
(* number of kernel pages that leaves room for the stack.                  *)
(***************************************************************************)
EXTENDS LaosKernel, TLAPS

(* The first k pages of the table are in use, and no others. *)
Taken(bits, k) == \A p \in Ppt : bits[p] <=> p < k

StackPageOf(v) == KPAGES + 1 + (BYTE - v)

(* The stack's pages from virtual page v on are mapped, one each. *)
StackFrom(v) ==
  /\ Writable = v .. BYTE
  /\ \A u \in v .. BYTE : vpage[u].phys = StackPageOf(u)

(* Where the boot stands, as its counter tells. *)
Progress ==
  /\ phase # "halted"
  /\ phase = "pmm"   => r0 \in 0 .. KPAGES /\ Taken(in_use, r0)
  /\ phase = "map"   => r0 \in 0 .. KPAGES + 1 /\ Taken(in_use, KPAGES + 1)
  /\ phase = "stack" => /\ r0 \in LAST_STACK .. BYTE
                        /\ Taken(in_use, StackPageOf(r0)) /\ StackFrom(r0 + 1)
  /\ phase = "user"  => Taken(in_use, StackPageOf(LAST_STACK - 1)) /\ StackFrom(LAST_STACK)
  /\ phase \in {"pmm", "map", "library"} => Writable = {}

KInv == TypeOK /\ Progress

-----------------------------------------------------------------------------
(* With the first k pages in use the search finds page k. *)
LEMMA FirstFree ==
  ASSUME TypeOK, NEW k \in Ppt, Taken(in_use, k), Alloc
  PROVE  /\ rr' = k /\ rr' # NO_PAGE
         /\ in_use' = [in_use EXCEPT ![k] = TRUE]
<1> USE ByteAssumption DEF TypeOK, Near, Scanned, Ppt, PAGES, NO_PAGE
<1>1. k \in Scanned /\ k \in Near /\ k < NO_PAGE
  OBVIOUS
<1>2. ~in_use[k] /\ (\A q \in Scanned : q < k => in_use[q])
  BY <1>1 DEF Taken
<1>3. PICK p \in Scanned :
        /\ ~in_use[p]
        /\ \A q \in Scanned : q < p => in_use[q]
        /\ in_use' = [in_use EXCEPT ![p] = TRUE]
        /\ rr' = p
  BY <1>1, <1>2 DEF Alloc
<1>4. p = k
  BY <1>1, <1>2, <1>3
<1> QED
  BY <1>1, <1>3, <1>4

LEMMA OneMoreTaken ==
  ASSUME TypeOK, NEW k \in Ppt, Taken(in_use, k), in_use' = [in_use EXCEPT ![k] = TRUE]
  PROVE  Taken(in_use', k + 1)
BY ByteAssumption DEF TypeOK, Taken, Near, Ppt, PAGES

LEMMA AllocTypes ==
  ASSUME TypeOK, Alloc
  PROVE  in_use' \in [Near -> BOOLEAN] /\ rr' \in Scanned
<1> USE ByteAssumption DEF TypeOK, Near, Scanned, PAGES, NO_PAGE
<1>1. CASE \E p \in Scanned : in_use' = [in_use EXCEPT ![p] = TRUE] /\ rr' = p
  BY <1>1
<1>2. CASE rr' = NO_PAGE /\ UNCHANGED in_use
  BY <1>2
<1> QED
  BY <1>1, <1>2 DEF Alloc

-----------------------------------------------------------------------------
LEMMA InitKInv == Init => KInv
<1> SUFFICES ASSUME Init PROVE KInv
  OBVIOUS
<1> USE ByteAssumption, KpagesAssumption
        DEF Init, PmmInit, Near, Scanned, Ppt, PAGES, NO_PAGE, VPage
<1>1. TypeOK
  BY DEF TypeOK, Entry
<1>2. Writable = {}
  BY DEF Writable, Entry
<1>3. Taken(in_use, 0)
  BY DEF Taken
<1> QED
  BY <1>1, <1>2, <1>3 DEF KInv, Progress

LEMMA TakeKeeps == ASSUME KInv, TakeKernelPage PROVE KInv'
<1> USE ByteAssumption, KpagesAssumption
<1>1. /\ phase = "pmm" /\ Alloc /\ TypeOK
      /\ r0 \in 0 .. KPAGES /\ Taken(in_use, r0) /\ Writable = {} /\ vpage' = vpage
  BY DEF KInv, Progress, TakeKernelPage
<1>2. r0 \in Ppt
  BY <1>1 DEF Ppt
<1>3. rr' # NO_PAGE /\ Taken(in_use', r0 + 1)
  BY <1>1, <1>2, FirstFree, OneMoreTaken
<1>4. Writable' = {}
  BY <1>1 DEF Writable
<1>5. CASE r0 < KPAGES
  <2>1. r0' = r0 + 1 /\ phase' = "pmm" /\ r0' \in 0 .. KPAGES
    BY <1>1, <1>3, <1>5 DEF TakeKernelPage, Loop
  <2>2. TypeOK'
    BY <1>1, <2>1, AllocTypes DEF TypeOK, VPage
  <2>3. Taken(in_use', r0')
    BY <1>3, <2>1
  <2> QED
    BY <1>4, <2>1, <2>2, <2>3 DEF KInv, Progress
<1>6. CASE ~(r0 < KPAGES)
  <2>1. r0' = 0 /\ phase' = "map" /\ r0 = KPAGES
    BY <1>1, <1>3, <1>6 DEF TakeKernelPage, Loop
  <2>2. TypeOK'
    BY <1>1, <2>1, AllocTypes DEF TypeOK, VPage
  <2>3. Taken(in_use', KPAGES + 1)
    BY <1>3, <2>1
  <2> QED
    BY <1>4, <2>1, <2>2, <2>3 DEF KInv, Progress
<1> QED
  BY <1>5, <1>6

LEMMA MapKeeps == ASSUME KInv, MapKernelPage PROVE KInv'
<1> USE ByteAssumption, KpagesAssumption
<1>1. /\ phase = "map" /\ TypeOK /\ UNCHANGED <<in_use, rr>>
      /\ r0 \in 0 .. KPAGES + 1 /\ Taken(in_use, KPAGES + 1) /\ Writable = {}
      /\ vpage' = [vpage EXCEPT ![r0] = Entry(r0, RX)]
  BY DEF KInv, Progress, MapKernelPage, pmmVars
<1>2. r0 \in VPage /\ r0 \in Scanned
  BY <1>1 DEF VPage, Scanned, PAGES
<1>3. vpage' \in [VPage -> [phys : Scanned, flags : SUBSET (RX \cup RW)]]
  BY <1>1, <1>2 DEF TypeOK, Entry
<1>4. Writable' = {}
  BY <1>1, <1>2 DEF Writable, TypeOK, Entry, RX
<1>5. Taken(in_use', KPAGES + 1)
  BY <1>1
<1>6. CASE r0 <= KPAGES
  <2>1. r0' = r0 + 1 /\ phase' = "map" /\ r0' \in 0 .. KPAGES + 1
    BY <1>1, <1>6 DEF MapKernelPage, Loop
  <2>2. TypeOK'
    BY <1>1, <1>3, <2>1 DEF TypeOK, VPage
  <2> QED
    BY <1>4, <1>5, <2>1, <2>2 DEF KInv, Progress
<1>7. CASE ~(r0 <= KPAGES)
  <2>1. r0' = BYTE /\ phase' = "stack"
    BY <1>1, <1>7 DEF MapKernelPage, Loop
  <2>2. TypeOK'
    BY <1>1, <1>3, <2>1 DEF TypeOK, VPage
  <2>3. Taken(in_use', StackPageOf(r0'))
    BY <1>5, <2>1 DEF StackPageOf
  <2>4. StackFrom(r0 + 1)'
    BY <1>4, <2>1 DEF StackFrom
  <2>5. r0' \in LAST_STACK .. BYTE
    BY <2>1 DEF LAST_STACK
  <2> QED
    BY <2>1, <2>2, <2>3, <2>4, <2>5 DEF KInv, Progress
<1> QED
  BY <1>6, <1>7

LEMMA StackKeeps == ASSUME KInv, MapStackPage PROVE KInv'
<1> USE ByteAssumption, KpagesAssumption
<1> DEFINE k == StackPageOf(r0)
<1>1. /\ phase = "stack" /\ Alloc /\ TypeOK
      /\ r0 \in LAST_STACK .. BYTE /\ Taken(in_use, k) /\ StackFrom(r0 + 1)
  BY DEF KInv, Progress, MapStackPage
<1>2. k \in Ppt /\ k \in Scanned /\ r0 \in VPage /\ r0 \in Int
  BY <1>1 DEF StackPageOf, Ppt, Scanned, PAGES, LAST_STACK, VPage
<1>3. rr' = k /\ rr' # NO_PAGE /\ Taken(in_use', k + 1)
  BY <1>1, <1>2, FirstFree, OneMoreTaken
<1>4. vpage' = [vpage EXCEPT ![r0] = Entry(k, RW)]
  BY <1>1, <1>3 DEF MapStackPage
<1>5. vpage' \in [VPage -> [phys : Scanned, flags : SUBSET (RX \cup RW)]]
  BY <1>1, <1>2, <1>4 DEF TypeOK, Entry
<1>6. Writable' = r0 .. BYTE
  <2>1. Writable' = Writable \cup {r0}
    BY <1>1, <1>2, <1>4 DEF Writable, TypeOK, Entry, RW
  <2>2. Writable = r0 + 1 .. BYTE
    BY <1>1 DEF StackFrom
  <2> QED
    BY <1>1, <2>1, <2>2 DEF LAST_STACK
<1>7. \A u \in r0 .. BYTE : vpage'[u].phys = StackPageOf(u)
  <2> SUFFICES ASSUME NEW u \in r0 .. BYTE PROVE vpage'[u].phys = StackPageOf(u)
    OBVIOUS
  <2>1. u \in VPage
    BY <1>1 DEF LAST_STACK, VPage
  <2>2. CASE u = r0
    BY <1>1, <1>2, <1>4, <2>2 DEF TypeOK, Entry
  <2>3. CASE u # r0
    <3>1. u \in r0 + 1 .. BYTE
      BY <1>1, <2>3 DEF LAST_STACK
    <3>2. vpage[u].phys = StackPageOf(u)
      BY <1>1, <3>1 DEF StackFrom
    <3> QED
      BY <1>1, <1>4, <2>1, <2>3, <3>2 DEF TypeOK
  <2> QED
    BY <2>2, <2>3
<1>8. CASE r0 > LAST_STACK
  <2>1. r0' = r0 - 1 /\ phase' = "stack" /\ r0' \in LAST_STACK .. BYTE
    BY <1>1, <1>3, <1>8 DEF MapStackPage, Loop, LAST_STACK
  <2>2. TypeOK'
    BY <1>1, <1>5, <2>1, AllocTypes DEF TypeOK, VPage, LAST_STACK
  <2>3. StackPageOf(r0') = k + 1 /\ r0' + 1 = r0
    BY <1>1, <2>1 DEF StackPageOf, LAST_STACK
  <2>4. Taken(in_use', StackPageOf(r0'))
    BY <1>3, <2>3
  <2>5. StackFrom(r0 + 1)'
    BY <1>6, <1>7, <2>3 DEF StackFrom, StackPageOf
  <2> QED
    BY <2>1, <2>2, <2>4, <2>5 DEF KInv, Progress
<1>9. CASE ~(r0 > LAST_STACK)
  <2>1. r0' = r0 - 1 /\ phase' = "user" /\ r0 = LAST_STACK
    BY <1>1, <1>3, <1>9 DEF MapStackPage, Loop, LAST_STACK
  <2>2. TypeOK'
    BY <1>1, <1>5, <2>1, AllocTypes DEF TypeOK, VPage, LAST_STACK
  <2>3. StackPageOf(LAST_STACK - 1) = k + 1
    BY <2>1 DEF StackPageOf, LAST_STACK
  <2>4. Taken(in_use', StackPageOf(LAST_STACK - 1))
    BY <1>3, <2>3
  <2>5. StackFrom(LAST_STACK)'
    BY <1>6, <1>7, <2>1 DEF StackFrom, StackPageOf, LAST_STACK
  <2> QED
    BY <2>1, <2>2, <2>4, <2>5 DEF KInv, Progress
<1> QED
  BY <1>8, <1>9, <1>1 DEF LAST_STACK

LEMMA LibraryKeeps == ASSUME KInv, LibraryCall PROVE KInv'
<1> USE ByteAssumption DEF KInv, LibraryCall
<1>1. TypeOK /\ phase = "library" /\ Writable = {} /\ UNCHANGED <<phase, r0, vpage>>
  BY DEF Progress
<1>2. Writable' = {}
  BY <1>1 DEF Writable
<1>3. in_use' \in [Near -> BOOLEAN] /\ rr' \in Scanned
  <2>1. CASE Alloc
    BY <1>1, <2>1, AllocTypes
  <2>2. CASE \E p \in Word : Free(p)
    BY <1>1, <2>2 DEF Free, TypeOK
  <2>3. CASE StoreAround
    BY <1>1, <2>3 DEF StoreAround, TypeOK
  <2> QED
    BY <2>1, <2>2, <2>3
<1> QED
  BY <1>1, <1>2, <1>3 DEF TypeOK, Progress

LEMMA StutterKeeps == ASSUME KInv, UNCHANGED kvars PROVE KInv'
BY DEF KInv, kvars, TypeOK, Progress, Taken, StackFrom, Writable, StackPageOf

LEMMA BootInvariant == Spec => []KInv
<1>1. KInv /\ [Next]_kvars => KInv'
  BY TakeKeeps, MapKeeps, StackKeeps, LibraryKeeps, StutterKeeps DEF Next, Boot, Booted
<1> QED
  BY <1>1, InitKInv, PTL DEF Spec

-----------------------------------------------------------------------------
(* Types: the counters and answers of kernel.l16 and kpmm.l16 keep to      *)
(* their ranges.                                                           *)
THEOREM KernelTyped == Spec => []TypeOK
<1>1. KInv => TypeOK
  BY DEF KInv
<1> QED
  BY <1>1, BootInvariant, PTL

LEMMA Division ==
  ASSUME NEW a \in Nat, NEW d \in Nat \ {0}
  PROVE  a \div d \in Nat /\ (a \div d) * d <= a /\ a < (a \div d) * d + d
<1>1. a = (a \div d) * d + (a % d) /\ a % d \in 0 .. d - 1 /\ a \div d \in Int
  OBVIOUS
<1>2. (a \div d) * d \in Int
  BY <1>1
<1>3. a \div d >= 0
  OBVIOUS
<1> QED
  BY <1>1, <1>2, <1>3

(* What kernel.l16 44-54 lets user code write to is backed by pages that   *)
(* kpmm.l16 gave away once, none of them the kernel's.                     *)
THEOREM WritableFresh == Spec => []WritablePagesAreFresh
<1>1. KInv => WritablePagesAreFresh
  <2> SUFFICES ASSUME KInv PROVE WritablePagesAreFresh
    OBVIOUS
  <2> USE ByteAssumption, KpagesAssumption
  <2>1. CASE phase \in {"pmm", "map", "library"}
    BY <2>1 DEF KInv, Progress, WritablePagesAreFresh
  <2>2. ASSUME NEW w \in LAST_STACK .. BYTE + 1,
               StackFrom(w), Taken(in_use, StackPageOf(w - 1))
        PROVE  WritablePagesAreFresh
    <3> SUFFICES ASSUME NEW v \in w .. BYTE
                 PROVE  /\ vpage[v].phys \in Ppt /\ in_use[vpage[v].phys]
                        /\ vpage[v].phys > KPAGES
                        /\ \A u \in w .. BYTE : u # v => vpage[u].phys # vpage[v].phys
      BY <2>2 DEF StackFrom, WritablePagesAreFresh
    <3>1. \A u \in w .. BYTE : u \in Int /\ vpage[u].phys = StackPageOf(u)
      BY <2>2 DEF StackFrom, LAST_STACK
    <3>2. StackPageOf(v) \in Ppt /\ StackPageOf(v) < StackPageOf(w - 1)
      BY DEF StackPageOf, Ppt, LAST_STACK
    <3>3. \A u \in w .. BYTE : u # v => StackPageOf(u) # StackPageOf(v)
      BY DEF StackPageOf, LAST_STACK
    <3>4. in_use[StackPageOf(v)]
      BY <2>2, <3>2 DEF Taken
    <3>5. StackPageOf(v) > KPAGES
      BY DEF StackPageOf, LAST_STACK
    <3> QED
      BY <3>1, <3>2, <3>3, <3>4, <3>5
  <2>3. CASE phase = "stack"
    <3>1. r0 + 1 \in LAST_STACK .. BYTE + 1 /\ (r0 + 1) - 1 = r0
      BY <2>3 DEF KInv, Progress, LAST_STACK
    <3>2. StackFrom(r0 + 1) /\ Taken(in_use, StackPageOf((r0 + 1) - 1))
      BY <2>3, <3>1 DEF KInv, Progress
    <3> QED
      BY <2>2, <3>1, <3>2
  <2>4. CASE phase = "user"
    <3>1. LAST_STACK \in LAST_STACK .. BYTE + 1
      BY DEF LAST_STACK
    <3> QED
      BY <2>2, <2>4, <3>1 DEF KInv, Progress
  <2> QED
    BY <2>1, <2>3, <2>4 DEF KInv, Progress, TypeOK
<1> QED
  BY <1>1, BootInvariant, PTL

(* The stack pointer of kernel.l16:59 is at the top of the pages that the  *)
(* loop before it has mapped.                                              *)
THEOREM StackReady == Spec => []StackIsMapped
<1>1. KInv => StackIsMapped
  <2> SUFFICES ASSUME KInv, phase = "user",
                      NEW a \in LAST_STACK * (BYTE - 1) .. USER_SP + 1
               PROVE  PageOf(a) \in LAST_STACK .. BYTE
    BY DEF KInv, Progress, StackFrom, StackIsMapped
  <2> USE ByteAssumption
  <2> DEFINE size == BYTE - 1
             p    == a \div size
  <2>1. size \in Nat /\ size >= 3 /\ LAST_STACK \in Nat /\ LAST_STACK * size \in Nat
    BY DEF LAST_STACK
  <2>2. USER_SP + 1 = BYTE * size + size - 1
    BY DEF USER_SP, WORD
  <2>3. a \in Nat /\ LAST_STACK * size <= a /\ a <= BYTE * size + size - 1
    BY <2>1, <2>2
  <2> HIDE DEF size
  <2>4. p \in Nat /\ p * size <= a /\ a < p * size + size
    <3>1. size \in Nat \ {0}
      BY <2>1
    <3> QED
      BY <2>3, <3>1, Division, Zenon
  <2> HIDE DEF p
  <2>5. p < LAST_STACK => p * size + size <= LAST_STACK * size
    BY <2>1, <2>4
  <2>6. BYTE < p => BYTE * size + size <= p * size
    BY <2>1, <2>4
  <2>7. LAST_STACK <= p /\ p <= BYTE
    BY <2>1, <2>3, <2>4, <2>5, <2>6
  <2> QED
    BY <2>1, <2>4, <2>7 DEF PageOf, p, size
<1> QED
  BY <1>1, BootInvariant, PTL

-----------------------------------------------------------------------------
(* The first n pages are executable, each at its own address, no others.   *)
ExecutableBelow(n) ==
  /\ Executable = 0 .. n - 1
  /\ \A v \in 0 .. n - 1 : vpage[v].phys = v

KernelMapped ==
  /\ phase = "pmm" => ExecutableBelow(0)
  /\ phase = "map" => ExecutableBelow(r0)
  /\ phase \in {"stack", "user"} => ExecutableBelow(KPAGES + 2)

(* The loop over the kernel's pages maps the next one. *)
LEMMA MapExtends == ASSUME KInv, KernelMapped, MapKernelPage PROVE KernelMapped'
<1> USE ByteAssumption, KpagesAssumption
<1>1. /\ phase = "map" /\ TypeOK /\ r0 \in 0 .. KPAGES + 1 /\ ExecutableBelow(r0)
      /\ vpage' = [vpage EXCEPT ![r0] = Entry(r0, RX)]
  BY DEF KInv, Progress, KernelMapped, MapKernelPage
<1>2. r0 \in VPage
  BY <1>1 DEF VPage
<1>3. Executable' = 0 .. r0
  <2>1. Executable' = Executable \cup {r0}
    BY <1>1, <1>2 DEF Executable, TypeOK, Entry, RX
  <2> QED
    BY <1>1, <2>1 DEF ExecutableBelow
<1>4. \A v \in 0 .. r0 : vpage'[v].phys = v
  <2> SUFFICES ASSUME NEW v \in 0 .. r0 PROVE vpage'[v].phys = v
    OBVIOUS
  <2>1. v \in VPage
    BY <1>1 DEF VPage
  <2>2. CASE v = r0
    BY <1>1, <1>2, <2>2 DEF TypeOK, Entry
  <2>3. CASE v # r0
    <3>1. v \in 0 .. r0 - 1
      BY <1>1, <2>3
    <3> QED
      BY <1>1, <2>1, <2>3, <3>1 DEF TypeOK, ExecutableBelow
  <2> QED
    BY <2>2, <2>3
<1>5. CASE r0 <= KPAGES
  <2>1. r0' = r0 + 1 /\ phase' = "map"
    BY <1>1, <1>5 DEF MapKernelPage, Loop
  <2>2. r0' - 1 = r0
    BY <1>1, <2>1
  <2> QED
    BY <1>3, <1>4, <2>1, <2>2 DEF KernelMapped, ExecutableBelow
<1>6. CASE ~(r0 <= KPAGES)
  <2>1. phase' = "stack"
    BY <1>1, <1>6 DEF MapKernelPage, Loop
  <2>2. (KPAGES + 2) - 1 = r0
    BY <1>1, <1>6
  <2> QED
    BY <1>3, <1>4, <2>1, <2>2 DEF KernelMapped, ExecutableBelow
<1> QED
  BY <1>5, <1>6

(* The stack is mapped above the kernel's pages and is not executable. *)
LEMMA StackLeavesKernel == ASSUME KInv, KernelMapped, MapStackPage PROVE KernelMapped'
<1> USE ByteAssumption, KpagesAssumption
<1>1. /\ phase = "stack" /\ TypeOK /\ r0 \in LAST_STACK .. BYTE
      /\ ExecutableBelow(KPAGES + 2)
  BY DEF KInv, Progress, KernelMapped, MapStackPage
<1>2. vpage' = [vpage EXCEPT ![r0] = Entry(rr', RW)] \/ vpage' = vpage
  BY DEF MapStackPage
<1>3. r0 \in VPage /\ r0 > KPAGES + 1
  BY <1>1 DEF VPage, LAST_STACK
<1>4. r0 \notin Executable
  BY <1>1, <1>3 DEF ExecutableBelow
<1>5. Executable' = Executable
  BY <1>1, <1>2, <1>3, <1>4 DEF Executable, TypeOK, Entry, RW
<1>6. \A v \in 0 .. KPAGES + 1 : vpage'[v] = vpage[v]
  <2> SUFFICES ASSUME NEW v \in 0 .. KPAGES + 1 PROVE vpage'[v] = vpage[v]
    OBVIOUS
  <2>1. v \in VPage /\ v # r0
    BY <1>3 DEF VPage
  <2> QED
    BY <1>1, <1>2, <2>1 DEF TypeOK
<1>7. ExecutableBelow(KPAGES + 2)'
  BY <1>1, <1>5, <1>6 DEF ExecutableBelow
<1>8. phase' \in {"stack", "user", "halted"}
  BY <1>1 DEF MapStackPage, Loop
<1> QED
  BY <1>7, <1>8 DEF KernelMapped

LEMMA InitMapped == Init => KernelMapped
<1> SUFFICES ASSUME Init PROVE KernelMapped
  OBVIOUS
<1>1. Executable = {}
  BY DEF Init, Executable, Entry
<1> QED
  BY <1>1 DEF Init, KernelMapped, ExecutableBelow

LEMMA NextMapped == KInv /\ KernelMapped /\ [Next]_kvars => KernelMapped'
<1> SUFFICES ASSUME KInv, KernelMapped, [Next]_kvars PROVE KernelMapped'
  OBVIOUS
<1>1. CASE TakeKernelPage
  <2>1. phase = "pmm" /\ vpage' = vpage /\ ExecutableBelow(0)
    BY <1>1 DEF TakeKernelPage, KernelMapped
  <2>2. ExecutableBelow(0)'
    BY <2>1 DEF ExecutableBelow, Executable
  <2>3. phase' = "halted" \/ phase' = "pmm" \/ (phase' = "map" /\ r0' = 0)
    BY <1>1, <2>1 DEF TakeKernelPage, Loop
  <2> QED
    BY <2>2, <2>3 DEF KernelMapped
<1>2. CASE LibraryCall \/ UNCHANGED kvars
  BY <1>2 DEF LibraryCall, kvars, KernelMapped, ExecutableBelow, Executable
<1> QED
  BY <1>1, <1>2, MapExtends, StackLeavesKernel DEF Next, Boot, Booted

(* What kernel.l16 37-43 lets be executed, and where that meets what       *)
(* 44-54 lets be written.                                                  *)
THEOREM ExecutablesMapped == Spec => []ExecutablePages
<1>1. KInv /\ KernelMapped => ExecutablePages
  <2> SUFFICES ASSUME KInv, KernelMapped, phase = "user"
               PROVE  /\ Executable = 0 .. KPAGES + 1
                      /\ \A v \in Executable : vpage[v].phys = v
                      /\ \A v \in Executable, u \in Writable :
                           vpage[u].phys = vpage[v].phys => v = KPAGES + 1 /\ u = BYTE
    BY DEF ExecutablePages
  <2> USE ByteAssumption, KpagesAssumption
  <2>1. Executable = 0 .. KPAGES + 1 /\ \A v \in Executable : vpage[v].phys = v
    BY DEF KernelMapped, ExecutableBelow
  <2>2. \A u \in Writable : /\ u \in LAST_STACK .. BYTE
                           /\ vpage[u].phys = StackPageOf(u)
    BY DEF KInv, Progress, StackFrom
  <2>3. \A u \in LAST_STACK .. BYTE, v \in 0 .. KPAGES + 1 :
          StackPageOf(u) = v => v = KPAGES + 1 /\ u = BYTE
    BY DEF StackPageOf, LAST_STACK
  <2> QED
    BY <2>1, <2>2, <2>3
<1> QED
  BY <1>1, InitMapped, NextMapped, BootInvariant, PTL DEF Spec

-----------------------------------------------------------------------------
LEMMA AllocRefines ==
  ASSUME TypeOK, Alloc
  PROVE  Allocator!Give \/ Allocator!TurnDown
<1> USE ByteAssumption DEF TypeOK, Near, Scanned, Ppt, PAGES, NO_PAGE
<1>1. ASSUME NEW p \in Ppt, ~in_use[p], in_use' = [in_use EXCEPT ![p] = TRUE], rr' = p
      PROVE  Allocator!Give
  <2>1. {q \in Ppt : in_use'[q]} = {q \in Ppt : in_use[q]} \cup {p}
    BY <1>1
  <2>2. p \in Ppt \ {q \in Ppt : in_use[q]}
    BY <1>1
  <2> QED
    BY <1>1, <2>1, <2>2 DEF Allocator!Give
<1>2. ASSUME \A q \in Ppt : in_use[q], \A q \in Ppt : in_use'[q], rr' \notin Ppt
      PROVE  Allocator!TurnDown
  BY <1>2 DEF Allocator!TurnDown
<1>3. CASE \A q \in Scanned : in_use[q]
  <2>1. UNCHANGED in_use /\ rr' = NO_PAGE
    BY <1>3 DEF Alloc
  <2> QED
    BY <1>2, <1>3, <2>1
<1>4. CASE ~(\A q \in Scanned : in_use[q])
  <2>1. PICK p \in Scanned :
          /\ ~in_use[p]
          /\ \A q \in Scanned : q < p => in_use[q]
          /\ in_use' = [in_use EXCEPT ![p] = TRUE]
          /\ rr' = p
    BY <1>4 DEF Alloc
  <2>2. CASE p \in Ppt
    BY <1>1, <2>1, <2>2
  <2>3. CASE p \notin Ppt
    BY <1>2, <2>1, <2>3
  <2> QED
    BY <2>2, <2>3
<1> QED
  BY <1>3, <1>4

LEMMA FreeRefines ==
  ASSUME TypeOK, NEW r \in Word, Free(r)
  PROVE  [Allocator!Next]_<<{p \in Ppt : in_use[p]}, IF rr \in Ppt THEN rr ELSE NO_PAGE>>
<1> DEFINE owned == {p \in Ppt : in_use[p]}
<1>1. rr' = rr /\ \A p \in Ppt : in_use'[p] <=> p # Signed(r) /\ in_use[p]
  <2>1. \A p \in Ppt : p \in Near
    BY ByteAssumption DEF Ppt, Near, PAGES
  <2>2. \A p \in Ppt : in_use'[p] = IF p = Signed(r) THEN FALSE ELSE in_use[p]
    BY <2>1, Zenon DEF Free
  <2>3. \A p \in Near : in_use[p] \in BOOLEAN
    BY DEF TypeOK
  <2> QED
    BY <2>1, <2>2, <2>3 DEF Free
<1>2. owned' = owned \ {Signed(r)}
  BY <1>1
<1>3. CASE Signed(r) \in owned
  BY <1>1, <1>2, <1>3 DEF Allocator!Next, Allocator!TakeBack
<1>4. CASE Signed(r) \notin owned
  BY <1>1, <1>2, <1>4
<1> QED
  BY <1>3, <1>4

(* kpmm.l16 keeps an allocator's promises for the pages of its table,      *)
(* under the kernel's boot and under any other sequence of calls.          *)
THEOREM AllocatorImplemented == Spec => ImplementsAllocator
<1>1. Init => Allocator!Init
  BY ByteAssumption DEF Init, PmmInit, Allocator!Init, Ppt, NO_PAGE
<1>2. TypeOK /\ [Next]_kvars =>
        [Allocator!Next]_<<{p \in Ppt : in_use[p]}, IF rr \in Ppt THEN rr ELSE NO_PAGE>>
  <2> SUFFICES ASSUME TypeOK, [Next]_kvars
               PROVE  [Allocator!Next]_<<{p \in Ppt : in_use[p]},
                                         IF rr \in Ppt THEN rr ELSE NO_PAGE>>
    OBVIOUS
  <2>1. CASE Alloc
    BY <2>1, AllocRefines DEF Allocator!Next
  <2>2. CASE \E r \in Word : Free(r)
    BY <2>2, FreeRefines
  <2>3. CASE StoreAround
    <3>1. rr' = rr /\ \A p \in Ppt : in_use'[p] = in_use[p]
      BY <2>3, ByteAssumption DEF StoreAround, TypeOK, Near, Ppt, PAGES
    <3> QED
      BY <3>1
  <2>4. CASE UNCHANGED pmmVars
    BY <2>4 DEF pmmVars
  <2> QED
    BY <2>1, <2>2, <2>3, <2>4
       DEF Next, Boot, TakeKernelPage, MapKernelPage, MapStackPage, LibraryCall, Booted,
           kvars, pmmVars
<1> QED
  BY <1>1, <1>2, KernelTyped, PTL DEF Spec, ImplementsAllocator, Allocator!Spec
=============================================================================
