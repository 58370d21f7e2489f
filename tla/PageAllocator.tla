---------------------------- MODULE PageAllocator ---------------------------
(***************************************************************************)
(* What an allocator of pages promises: it gives away a page that nobody   *)
(* has, and turns a request down only when it has none left.               *)
(***************************************************************************)
CONSTANTS
  Page,      \* the pages it manages
  NoPage     \* the answer of a request that is turned down

VARIABLES
  owned,     \* pages that were given away and not taken back
  answer     \* to the last request

Init == owned = {} /\ answer = NoPage

Give == \E p \in Page \ owned : owned' = owned \cup {p} /\ answer' = p

TurnDown == owned = Page /\ answer' = NoPage /\ UNCHANGED owned

TakeBack == \E p \in owned : owned' = owned \ {p} /\ UNCHANGED answer

Next == Give \/ TurnDown \/ TakeBack

Spec == Init /\ [][Next]_<<owned, answer>>
=============================================================================
