------------------------------ MODULE La16Mpp ------------------------------
(***************************************************************************)
(* Memory page protection (instruction/mpp.c): how an address is resolved  *)
(* and checked, the reads and writes that go through the check, and the    *)
(* instructions that change the page tables.                               *)
(***************************************************************************)
EXTENDS La16Machine

MAPPED == 1
READ   == 2
WRITE  == 4
EXEC   == 8

HasFlag(byte, flag) == (byte \div flag) % 2 = 1

PageOf(addr)   == addr \div PAGE_SIZE
OffsetOf(addr) == addr - PageOf(addr) * PAGE_SIZE

(* Address WORD - 1 has page number BYTE + 1, one past pageu[]: the byte   *)
(* read there is padding of struct la16_core, which calloc() zeroed.       *)
FlagsOf(vpage) == IF vpage \in VPage THEN pageu[vpage] ELSE 0

(* phys_page is an unsigned char: the high byte of page[] is lost, and the *)
(* comparison with page_cnt never fails on the real machine.               *)
PhysPage(vpage) == IF vpage \in VPage THEN Low(page[vpage]) ELSE 0

(* la16_mpp_address *)
Resolves(addr) ==
  /\ HasFlag(FlagsOf(PageOf(addr)), MAPPED)
  /\ PhysPage(PageOf(addr)) < PAGE_CNT

PhysAddr(addr) == W(PhysPage(PageOf(addr)) * PAGE_SIZE + OffsetOf(addr))

(***************************************************************************)
(* la16_mpp_access, at elevation el.  It grants or refuses; the physical   *)
(* address it resolved is not handed to its caller.  The page that holds   *)
(* the second byte of a word is asked for the same permission only.        *)
(***************************************************************************)
SecondPageUnchecked(addr, vprot) == TRUE       \* mutant of SecondPageFlagged
SecondPageFlagged(addr, vprot) ==
  LET vpage2 == PageOf(W(addr + 1))
  IN  vpage2 # PageOf(addr) => HasFlag(FlagsOf(vpage2), vprot)

Access(el, addr, vprot, width) ==
  /\ ~(width = 2 /\ addr = WORD - 1)
  /\ IF el = EL1
       THEN addr + width <= MEM_SIZE
       ELSE /\ Resolves(addr)
            /\ HasFlag(FlagsOf(PageOf(addr)), vprot)
            /\ width = 2 => SecondPageFlagged(addr, vprot)

(* The bytes a granted access touches: memory is indexed with the address  *)
(* the instruction gave, on a little-endian host.                          *)
Word16At(addr) == mem[addr] + BYTE * mem[addr + 1]

WithByte(addr, val) == [mem EXCEPT ![addr] = Low(val)]
WithWord(addr, val) == [mem EXCEPT ![addr] = Low(val), ![addr + 1] = High(val)]

-----------------------------------------------------------------------------
(* What every instruction shares: operands, register writes, faults. *)

Imm(v) == [kind |-> "imm", val |-> v]
R(r)   == [kind |-> "reg", val |-> r]

ValIn(regs, o)      == IF o.kind = "reg" THEN regs[o.val] ELSE o.val
Val(o)              == ValIn(rl, o)
(* An immediate operand lives in core->op, which the next decode clears. *)
Store(regs, o, val) == IF o.kind = "reg" THEN [regs EXCEPT ![o.val] = val] ELSE regs

(* The loop adds the size of an instruction after every instruction. *)
Retire(regs) == rl' = [regs EXCEPT ![PC] = W(regs[PC] + 4)]

Fault(flag) == term' = flag
FaultUnless(granted) == term' = IF granted THEN term ELSE "bad_access"

(* An instruction that stops before it has done anything. *)
Refuse(flag) ==
  /\ Retire(rl)
  /\ Fault(flag)
  /\ UNCHANGED <<mem, tables, exec>>

-----------------------------------------------------------------------------
(* The page instructions: kernel level only, page numbers up to 256. *)

PageExists(p)    == p \in VPage                 \* mutant of PagePermitted
PagePermitted(p) == rl[EL] = EL1 /\ p \in VPage

Ppcnt(i) ==
  /\ i.op = "ppcnt"
  /\ IF rl[EL] # EL1
       THEN Refuse("permission")
       ELSE /\ Retire(Store(rl, i.a, PAGE_CNT))
            /\ UNCHANGED <<mem, tables, term, exec>>

Ppktrrset(i) ==
  /\ i.op = "ppktrrset"
  /\ IF rl[EL] # EL1
       THEN Refuse("permission")
       ELSE /\ Retire(rl)
            /\ UNCHANGED <<mem, tables, term, exec>>

Vpset(i) ==
  /\ i.op = "vpset"
  /\ IF ~PagePermitted(Val(i.a))
       THEN Refuse("permission")
       ELSE /\ page' = [page EXCEPT ![Val(i.a)] = Val(i.b)]
            /\ Retire(rl)
            /\ UNCHANGED <<mem, pageu, int_handler, term, exec>>

Vpget(i) ==
  /\ i.op = "vpget"
  /\ IF ~PagePermitted(Val(i.b))
       THEN Refuse("permission")
       ELSE /\ Retire(Store(rl, i.a, page[Val(i.b)]))
            /\ UNCHANGED <<mem, tables, term, exec>>

Vpflgset(i) ==
  /\ i.op = "vpflgset"
  /\ IF ~PagePermitted(Val(i.a))
       THEN Refuse("permission")
       ELSE /\ pageu' = [pageu EXCEPT ![Val(i.a)] = Low(Val(i.b))]
            /\ Retire(rl)
            /\ UNCHANGED <<mem, page, int_handler, term, exec>>

Vpflgget(i) ==
  /\ i.op = "vpflgget"
  /\ IF ~PagePermitted(Val(i.b))
       THEN Refuse("permission")
       ELSE /\ Retire(Store(rl, i.a, pageu[Val(i.b)]))
            /\ UNCHANGED <<mem, tables, term, exec>>

Vpaddr(i) ==
  /\ i.op = "vpaddr"
  /\ IF rl[EL] # EL1
       THEN Refuse("permission")
       ELSE /\ Retire(Store(rl, i.a, IF Resolves(Val(i.a)) THEN PhysAddr(Val(i.a)) ELSE 0))
            /\ UNCHANGED <<mem, tables, term, exec>>
=============================================================================
