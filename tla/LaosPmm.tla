------------------------------ MODULE LaosPmm -------------------------------
(***************************************************************************)
(* The guest kernel's page allocator (asm/laos/kpmm.l16): a table with a   *)
(* byte per page, of which one bit is used, searched from its start.  The  *)
(* table has 255 bytes, the machine 257 pages, and the search looks at 258 *)
(* places: the last ones, and the places that a free with a negative page  *)
(* number reaches, are bytes of whatever lies around the table.            *)
(***************************************************************************)
EXTENDS Integers

CONSTANT BYTE                       \* 256, as in La16Machine

ASSUME ByteAssumption == BYTE \in Nat /\ BYTE >= 4

WORD      == BYTE * BYTE
Word      == 0 .. WORD - 1
Signed(w) == IF w < WORD \div 2 THEN w ELSE w - WORD

PAGES   == BYTE + 1                 \* what ppcnt returns
NO_PAGE == BYTE                     \* ppt_error_no_free_page

Ppt     == 0 .. BYTE - 2            \* the bytes of ".bss ppt 255"
Scanned == 0 .. PAGES               \* rr is compared before it is incremented
Near    == -1 .. PAGES              \* the bytes looked at here; -1 is the one before ppt

VARIABLES
  in_use,     \* bit 0 of each of these bytes
  rr          \* what the last allocation returned

pmmVars == <<in_use, rr>>

(* .bss is zero; what is around it may be anything. *)
PmmInit ==
  /\ in_use \in [Near -> BOOLEAN]
  /\ \A p \in Ppt : ~in_use[p]
  /\ rr = NO_PAGE

(* Mutant of Alloc: the bit is not stored back. *)
AllocUnstored ==
  /\ \E p \in Scanned : ~in_use[p] /\ (\A q \in Scanned : q < p => in_use[q]) /\ rr' = p
  /\ UNCHANGED in_use

(* Mutant of Alloc: rr is left where the loop ended. *)
AllocFallsThrough ==
  \/ \E p \in Scanned :
       /\ ~in_use[p] /\ \A q \in Scanned : q < p => in_use[q]
       /\ in_use' = [in_use EXCEPT ![p] = TRUE]
       /\ rr' = p
  \/ /\ \A p \in Scanned : in_use[p]
     /\ rr' = PAGES + 1
     /\ UNCHANGED in_use

(* The first place without the bit, whichever it is. *)
Alloc ==
  \/ \E p \in Scanned :
       /\ ~in_use[p]
       /\ \A q \in Scanned : q < p => in_use[q]
       /\ in_use' = [in_use EXCEPT ![p] = TRUE]
       /\ rr' = p
  \/ /\ \A p \in Scanned : in_use[p]
     /\ rr' = NO_PAGE
     /\ UNCHANGED in_use

(* A page number is compared as a signed word. *)
Free(r0) ==
  /\ in_use' = [p \in Near |-> IF p = Signed(r0) THEN FALSE ELSE in_use[p]]
  /\ UNCHANGED rr

(* The owner of a byte around the table writes to it. *)
StoreAround ==
  /\ \E p \in Near \ Ppt, bit \in BOOLEAN : in_use' = [in_use EXCEPT ![p] = bit]
  /\ UNCHANGED rr

-----------------------------------------------------------------------------
(***************************************************************************)
(* For the pages that have a byte in the table, the search implements an   *)
(* allocator, whatever is freed, in any order, and whatever happens to the *)
(* bytes around the table: no page is given away twice, and a request is   *)
(* turned down, or answered with a page beyond the table, only when the    *)
(* table is full.                                                          *)
(***************************************************************************)
Allocator == INSTANCE PageAllocator WITH
  Page <- Ppt, NoPage <- NO_PAGE,
  owned <- {p \in Ppt : in_use[p]},
  answer <- IF rr \in Ppt THEN rr ELSE NO_PAGE
ImplementsAllocator == Allocator!Spec
=============================================================================
