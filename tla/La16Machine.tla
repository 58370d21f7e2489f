---------------------------- MODULE La16Machine ----------------------------
(***************************************************************************)
(* The state of one la16 virtual machine (struct la16_machine, struct      *)
(* la16_core and struct la16_memory), the arithmetic of its registers, and *)
(* how main.c brings core 0 up: allocate, load the boot image, execute.    *)
(*                                                                         *)
(* The sizes are those of the code, written in terms of BYTE, the number   *)
(* of values of an unsigned char.  BYTE = 256 gives the real machine: a    *)
(* word has 65536 values, a page has 0xFF bytes, the 0xFFFF bytes that     *)
(* main.c asks for are 257 pages and 65535 bytes, and the page tables      *)
(* have 257 entries.  BYTE = 16 is the smallest machine in which the four  *)
(* page flags fit in a byte, and keeps every one of these coincidences.    *)
(***************************************************************************)
EXTENDS Integers

CONSTANTS
  BITS,     \* number of bits of a byte (8)
  BYTE,     \* number of values of a byte (256)
  NGPR,     \* number of registers r0, r1, ... (25)
  Images,   \* the boot images, padded with zeros to the size of the memory
  IntInit   \* the contents malloc() may leave in int_handler

WORD      == BYTE * BYTE
Byte      == 0 .. BYTE - 1
Word      == 0 .. WORD - 1
PAGE_SIZE == BYTE - 1                       \* LA16_MEMORY_PAGE_SIZE, 0xFF
PAGE_CNT  == (WORD - 1) \div PAGE_SIZE      \* la16_memory_alloc(0xFFFF)
MEM_SIZE  == PAGE_CNT * PAGE_SIZE
Addr      == 0 .. MEM_SIZE - 1
VPage     == 0 .. BYTE                      \* page[257] and pageu[257]

W(x)      == x % WORD                       \* conversion to unsigned short
Low(w)    == w % BYTE
High(w)   == w \div BYTE
Signed(w) == IF w < WORD \div 2 THEN w ELSE w - WORD

(* The registers, numbered as core.h numbers them. *)
PC  == 0
SP  == 1
FP  == 2
CF  == 3
R0  == 4
RR  == R0 + NGPR
EL  == RR + 1
ELB == RR + 2
Reg == 0 .. ELB
EL0_MAX == RR

EL0 == 0
EL1 == 1

Term == {"none", "halt", "bad_access", "permission"}

ASSUME SizeAssumption ==
  /\ BITS \in Nat
  /\ BYTE \in Nat /\ BYTE >= 16 /\ BYTE = 2 ^ BITS
  /\ NGPR \in Nat /\ NGPR >= 1
  /\ 2 * (NGPR + 4) <= WORD
ASSUME ImageAssumption == Images \subseteq [Addr -> Byte]
ASSUME IntInitAssumption == IntInit \subseteq [Word -> Word]

VARIABLES
  rl,          \* the registers of core 0
  mem,         \* the physical memory
  page,        \* physical page of each virtual page
  pageu,       \* flags of each virtual page
  int_handler, \* address of each interrupt's handler, 0 when there is none
  term,        \* termination flag of core 0
  exec         \* what main() is doing with core 0

tables == <<page, pageu, int_handler>>
vars   == <<rl, mem, page, pageu, int_handler, term, exec>>

(***************************************************************************)
(* main.c under -r.  int_handler[65535] is one past the array: it lies in  *)
(* the padding at the end of struct la16_machine, so it behaves as one     *)
(* more entry, and the table is modelled with an entry for every word.     *)
(***************************************************************************)
Init ==
  /\ rl = [r \in Reg |-> IF r = EL THEN EL1 ELSE 0]
  /\ mem = [a \in Addr |-> 0]
  /\ page = [p \in VPage |-> 0]
  /\ pageu = [p \in VPage |-> 0]
  /\ int_handler \in IntInit
  /\ term = "none"
  /\ exec = "allocated"

LoadImage ==
  /\ exec = "allocated"
  /\ \E image \in Images :
       /\ mem' = image
       /\ rl' = [rl EXCEPT ![PC] = image[0] + BYTE * image[1],
                           ![SP] = MEM_SIZE - 2]
  /\ exec' = "loaded"
  /\ UNCHANGED <<tables, term>>

(* The image does not open, or is larger than the memory: main returns 1. *)
RejectImage ==
  /\ exec = "allocated"
  /\ exec' = "returned"
  /\ UNCHANGED <<rl, mem, tables, term>>

(* la16_core_execute starts the thread and joins it. *)
StartCore ==
  /\ exec = "loaded"
  /\ exec' = "running"
  /\ term' = "none"
  /\ UNCHANGED <<rl, mem, tables>>

(* Mutant of StopCore: one of the flags is not a case of the switch. *)
StopCoreWithoutPermission ==
  /\ exec = "running"
  /\ term # "none"
  /\ exec' = IF term = "permission" THEN exec ELSE "returned"
  /\ UNCHANGED <<rl, mem, tables, term>>

(* The loop's switch on a raised termination flag. *)
StopCore ==
  /\ exec = "running"
  /\ term # "none"
  /\ exec' = "returned"
  /\ UNCHANGED <<rl, mem, tables, term>>

(* Every field holds a value of its C type, and the core's memory, page    *)
(* tables and handler table keep their sizes.                              *)
TypeOK ==
  /\ rl \in [Reg -> Word]
  /\ mem \in [Addr -> Byte]
  /\ page \in [VPage -> Word]
  /\ pageu \in [VPage -> Byte]
  /\ int_handler \in [Word -> Word]
  /\ term \in Term
  /\ exec \in {"allocated", "loaded", "running", "returned", "killed"}
=============================================================================
