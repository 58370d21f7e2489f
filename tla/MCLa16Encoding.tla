--------------------------- MODULE MCLa16Encoding ---------------------------
(* Operands at the edges of each width, and data with every mode. *)
EXTENDS La16Encoding

Num(n)     == [k \in Index |-> (n \div 2 ^ k) % 2]
MCOpcode   == {Num(n) : n \in {0, 1, 165, 255}}
MCImm      == {Num(n) : n \in {0, 1, 30, 128, 255, 256, 43690, 65535}}
MCReg      == {Num(n) : n \in {0, 1, 4, 21, 29, 30, 31}}

(* The bits around the mode: all ones, alternating, and one run of ones. *)
Patterns == {[k \in Place |-> 1], [k \in Place |-> k % 2], [k \in Place |-> (k + 1) % 2]} \cup
            {[k \in Place |-> IF k \in f .. f + 4 THEN 1 ELSE 0] : f \in {0, 11, 12, 16, 27}}
MCData   == {[k \in Place |-> IF k \in 8 .. 10 THEN m[k] ELSE p[k]] :
               m \in [8 .. 10 -> Bit], p \in Patterns}
=============================================================================
