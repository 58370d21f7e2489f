---------------------------- MODULE MCLa16Layout ----------------------------
(***************************************************************************)
(* All programs of four free lines, or of three with a function around     *)
(* them, and so every order of labels, calls, sections and constants; and  *)
(* programs that reserve all but a few bytes of the image first, so that   *)
(* what follows ends right below the last word, reaches it, wraps, or runs *)
(* over the end.                                                           *)
(***************************************************************************)
EXTENDS La16Layout

L(kind, name, size, ref) == [kind |-> kind, name |-> name, size |-> size, ref |-> ref]

To(name)  == <<name, None>>
Dot(name) == <<None, name>>

Start == L("label", "_start", 0, NoRef)
Loop  == L("scoped", ".a", 0, NoRef)

FreeLine ==
  {Start, Loop, L("label", "_f", 0, NoRef),
   CodeLine(Dot(".a")), CodeLine(To("v")),
   L("call", None, 1, To("_f")), L("call", None, 0, To("_start")),
   L("section", ".data", 0, NoRef), L("section", ".text", 0, NoRef),
   L("data", "v", 3, NoRef),
   L("const", "c", 0, To("_f")), L("const", "v", 7, NoRef)}

(* A function that uses what the free lines define. *)
Tail1 == <<L("label", "_g", 0, NoRef), CodeLine(Dot(".a")), Loop, CodeLine(To("c"))>>
Tail2 == <<L("section", ".bss", 0, NoRef), L("data", "b", 5, NoRef),
           L("label", "_f", 0, NoRef), CodeLine(To("b"))>>

Free(n) == [1 .. n -> FreeLine]

(* Bytes reserved behind the header, up to 0xFFF0, 0xFFF5, 0xFFF8, ...      *)
Reserved == {65516, 65521, 65524, 65525, 65528, 65529, 65531}
Reserve(n) == <<L("section", ".bss", 0, NoRef), L("data", "b", n, NoRef)>>

(* Nothing is read as data in .bss: a label or a section follows. *)
LeavesBss(p) == p[1].kind \in {"label", "scoped", "section", "const"}

MCPrograms ==
  Free(4)
    \cup {<<Start>> \o p \o t : p \in Free(3), t \in {Tail1, Tail2}}
    \cup {Reserve(n) \o p \o <<Start, CodeLine(To("b"))>> : n \in Reserved, p \in {q \in Free(2) : LeavesBss(q)}}
    \cup {Reserve(n) \o <<L("section", ".data", 0, NoRef)>> \o p : n \in Reserved, p \in Free(2)}
=============================================================================
