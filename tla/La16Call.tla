------------------------------ MODULE La16Call ------------------------------
(***************************************************************************)
(* The assembler's pseudo-instruction "call f, a0, a1, ..."  (code.c,      *)
(* code_tokengen): the lines it expands to, and what those lines do to the *)
(* registers when they run.  bl and ret are taken as CallStack describes   *)
(* them: the callee gives back every r register; rr carries its result.    *)
(***************************************************************************)
EXTENDS Integers, Sequences

CONSTANTS
  PUSH_MAX,    \* the argument registers are r0 .. r(PUSH_MAX - 1)
  NREG,        \* number of r registers
  Value,       \* what a register may hold
  Constant     \* operands that are not registers

ASSUME CallAssumption ==
  /\ PUSH_MAX \in Nat /\ NREG \in Nat /\ PUSH_MAX <= NREG
  /\ Constant \subseteq Value

Target   == 0 .. PUSH_MAX - 1      \* push_map: argument k goes to register k
Register == 0 .. NREG - 1

Src(n) == [kind |-> "reg", val |-> n]
Lit(v) == [kind |-> "const", val |-> v]
Source == {Src(n) : n \in Register} \cup {Lit(v) : v \in Constant}

-----------------------------------------------------------------------------
(* The expansion.  args maps the indices of the arguments to their source. *)

Moves(args) == {k \in DOMAIN args : args[k] # Src(k)}

(* Mutant of Conflict: the later moves are compared, not the earlier. *)
ConflictWithLater(args) ==
  \E k \in Moves(args) : \E other \in Moves(args) :
    other > k /\ args[k] = Src(other)

(* A source that an earlier move has overwritten. *)
Conflict(args) ==
  \E k \in Moves(args) : \E earlier \in Moves(args) :
    earlier < k /\ args[k] = Src(earlier)

(* With a conflict, every argument register takes part. *)
Acting(args) == IF Conflict(args) THEN DOMAIN args ELSE Moves(args)

Line(op, k) == [op |-> op, reg |-> k]
Branch      == Line("bl", 0)

(* A push, a move and a pop for each acting register, around one branch. *)
Expansion(args) == {Line(op, k) : op \in {"push", "mov", "pop"}, k \in Acting(args)}
                     \cup {Branch}

Part == [push |-> 1, mov |-> 2, bl |-> 3, pop |-> 4]

(* Mutant of Precedes: the pops come in the order of the pushes. *)
PrecedesUnreversed(l, m) ==
  \/ Part[l.op] < Part[m.op]
  \/ l.op = m.op /\ l.reg < m.reg

(* The order in which the loops write the lines: the pops downwards. *)
Precedes(l, m) ==
  \/ Part[l.op] < Part[m.op]
  \/ l.op = m.op /\ IF l.op = "pop" THEN l.reg > m.reg ELSE l.reg < m.reg

-----------------------------------------------------------------------------
(* The expanded call at work. *)

VARIABLES
  args,     \* the call's arguments
  todo,     \* lines still to run
  reg,      \* the r registers
  stack,    \* what the call has pushed, the top first
  before,   \* the registers when the call began
  passed    \* the registers the callee found; empty before the branch

cvars == <<args, todo, reg, stack, before, passed>>

Read(o) == IF o.kind = "reg" THEN reg[o.val] ELSE o.val

(* More than PUSH_MAX arguments end the assembler; no such call gets here. *)
Init ==
  /\ \E n \in 0 .. PUSH_MAX : args \in [0 .. n - 1 -> Source]
  /\ todo = Expansion(args)
  /\ reg \in [Register -> Value]
  /\ stack = <<>>
  /\ before = reg
  /\ passed = <<>>

Run(l) ==
  /\ l \in todo
  /\ \A m \in todo \ {l} : Precedes(l, m)
  /\ todo' = todo \ {l}

PushLine(k) ==
  /\ Run(Line("push", k))
  /\ stack' = <<reg[k]>> \o stack
  /\ UNCHANGED <<args, reg, before, passed>>

MovLine(k) ==
  /\ Run(Line("mov", k))
  /\ reg' = [reg EXCEPT ![k] = Read(args[k])]
  /\ UNCHANGED <<args, stack, before, passed>>

BranchLine ==
  /\ Run(Branch)
  /\ passed' = reg
  /\ UNCHANGED <<args, reg, stack, before>>

PopLine(k) ==
  /\ Run(Line("pop", k))
  /\ stack # <<>>
  /\ reg' = [reg EXCEPT ![k] = Head(stack)]
  /\ stack' = Tail(stack)
  /\ UNCHANGED <<args, before, passed>>

CallDone == todo = {} /\ UNCHANGED cvars

Next ==
  \/ \E k \in DOMAIN args : PushLine(k) \/ MovLine(k) \/ PopLine(k)
  \/ BranchLine
  \/ CallDone

Spec == Init /\ [][Next]_cvars

-----------------------------------------------------------------------------
(* What the caller asked for: each source as it was when the call began. *)
Asked(k) == IF args[k].kind = "reg" THEN before[args[k].val] ELSE args[k].val

ArgumentsArrived == passed # <<>> => \A k \in DOMAIN args : passed[k] = Asked(k)

(***************************************************************************)
(* Without a conflict the callee finds every argument in its register,     *)
(* whatever the order of the sources and although the moves run one after  *)
(* the other and overwrite registers that are sources too.                 *)
(***************************************************************************)
ConflictFreeCallsArrive == ~Conflict(args) => ArgumentsArrived

(***************************************************************************)
(* code.c:430 names "call _func, r1, r0 -> mov r0, r1; mov r1, r0 (r0      *)
(* clobbered before read!)" as the case that saving all argument registers *)
(* is the fallback for.  So every call's arguments arrive.                 *)
(***************************************************************************)
CallsArrive == ArgumentsArrived

(***************************************************************************)
(* When the call is over the caller's registers and stack are as they were *)
(* before it: each pop meets the push of the same register, also when the  *)
(* set of registers to save is not contiguous.                             *)
(***************************************************************************)
CallerRestored == todo = {} => reg = before /\ stack = <<>>
=============================================================================
