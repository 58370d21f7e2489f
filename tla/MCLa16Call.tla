----------------------------- MODULE MCLa16Call -----------------------------
(* Calls of up to three arguments; every register holds a value of its own. *)
EXTENDS La16Call

MCValue    == 0 .. 4
MCConstant == {4}

(* One register file is enough: the lines move values and never look at them. *)
MCInit == Init /\ reg = [n \in Register |-> n]
MCSpec == MCInit /\ [][Next]_cvars
=============================================================================
