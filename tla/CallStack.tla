----------------------------- MODULE CallStack ------------------------------
(***************************************************************************)
(* What calls and interrupts promise to a program: a call suspends the     *)
(* running context, a return resumes the context suspended last exactly as *)
(* it was, and nothing else touches a suspended context.                   *)
(***************************************************************************)
EXTENDS Sequences

CONSTANTS
  Context,            \* what a program can observe of its registers
  Suspended(_),       \* the context a call leaves behind, ready to resume
  Passed(_)           \* the part of a context that a callee finds unchanged

VARIABLES
  context,            \* of the running code
  suspended           \* of its callers, the nearest first

Init == context \in Context /\ suspended = <<>>

Call ==
  /\ context' \in Context
  /\ Passed(context') = Passed(context)
  /\ suspended' = <<Suspended(context)>> \o suspended

Return ==
  /\ suspended # <<>>
  /\ context' = Head(suspended)
  /\ suspended' = Tail(suspended)

Work ==
  /\ context' \in Context
  /\ UNCHANGED suspended

Next == Call \/ Return \/ Work

Spec == Init /\ [][Next]_<<context, suspended>>
=============================================================================
