--------------------------- MODULE La16CallProofs ---------------------------
(***************************************************************************)
(* The expansion of call, for any number of argument registers, any set of *)
(* values and any registers at the call: the caller gets everything back,  *)
(* and without a conflict the callee finds what the caller asked for.      *)
(***************************************************************************)
EXTENDS La16Call, TLAPS

Calls == UNION {[0 .. n - 1 -> Source] : n \in 0 .. PUSH_MAX}

(* How far the call has come: the registers whose line has run. *)
Done(op) == {k \in Acting(args) : Line(op, k) \notin todo}
Saved    == Done("push") \ Done("pop")
Changed  == Done("mov") \ Done("pop")

CallTypeOK ==
  /\ args \in Calls
  /\ todo \subseteq Expansion(args)
  /\ reg \in [Register -> Value]
  /\ stack \in Seq(Value)
  /\ before \in [Register -> Value]

(* What is still to run comes after what has run. *)
InOrder == \A l \in Expansion(args) \ todo : \A m \in todo : Precedes(l, m)

(* The stack holds the saved registers, the highest number on top. *)
StackIsSaved ==
  \E ks \in [1 .. Len(stack) -> Saved] :
    /\ \A i, j \in 1 .. Len(stack) : i < j => ks[i] > ks[j]
    /\ \A k \in Saved : \E i \in 1 .. Len(stack) : ks[i] = k
    /\ stack = [i \in 1 .. Len(stack) |-> before[ks[i]]]

(* A register differs from what the caller had only between its move and   *)
(* its pop, and then, without a conflict, it holds its argument.           *)
RegistersFollow ==
  /\ \A r \in Register \ Changed : reg[r] = before[r]
  /\ ~Conflict(args) => \A r \in Changed : reg[r] = Asked(r)

CallInv == CallTypeOK /\ InOrder /\ StackIsSaved /\ RegistersFollow /\ ConflictFreeCallsArrive

-----------------------------------------------------------------------------
(* Arguments, lines and their order. *)

(* Every argument has an argument register, and its source is a register or a constant. *)
LEMMA ArgumentRegisters ==
  ASSUME NEW a \in Calls
  PROVE  /\ DOMAIN a \subseteq Target /\ DOMAIN a \subseteq Register
         /\ Acting(a) \subseteq DOMAIN a /\ Moves(a) \subseteq Acting(a)
         /\ Register \subseteq Int
         /\ \A k \in DOMAIN a : a[k] \in Source
<1>1. PICK n \in 0 .. PUSH_MAX : a \in [0 .. n - 1 -> Source]
  BY DEF Calls
<1>2. DOMAIN a = 0 .. n - 1
  BY <1>1
<1>3. DOMAIN a \subseteq Target /\ DOMAIN a \subseteq Register
  BY <1>1, <1>2, CallAssumption DEF Target, Register
<1>4. Acting(a) \subseteq DOMAIN a /\ Moves(a) \subseteq Acting(a)
  BY DEF Acting, Moves
<1> QED
  BY <1>1, <1>2, <1>3, <1>4 DEF Register

(* A line of an expansion is the branch or one of three for an acting register. *)
LEMMA ExpansionLines ==
  ASSUME NEW a \in Calls
  PROVE  /\ \A l \in Expansion(a) :
              \/ l = Branch
              \/ \E k \in Acting(a) : l \in {Line("push", k), Line("mov", k), Line("pop", k)}
         /\ Branch \in Expansion(a)
         /\ \A k \in Acting(a) : {Line("push", k), Line("mov", k), Line("pop", k)} \subseteq Expansion(a)
  BY DEF Expansion

(* Two lines are the same only if their instruction and register are. *)
LEMMA LinesDiffer ==
  \A op1, op2, k1, k2 : Line(op1, k1) = Line(op2, k2) <=> op1 = op2 /\ k1 = k2
  BY DEF Line

(* The order of the lines, case by case. *)
LEMMA LineOrder ==
  ASSUME NEW k \in Int, NEW j \in Int
  PROVE  /\ Precedes(Line("push", k), Line("push", j)) <=> k < j
         /\ Precedes(Line("mov", k), Line("mov", j)) <=> k < j
         /\ Precedes(Line("pop", k), Line("pop", j)) <=> k > j
         /\ Precedes(Line("push", k), Line("mov", j)) /\ ~Precedes(Line("mov", j), Line("push", k))
         /\ Precedes(Line("push", k), Branch) /\ ~Precedes(Branch, Line("push", k))
         /\ Precedes(Line("push", k), Line("pop", j)) /\ ~Precedes(Line("pop", j), Line("push", k))
         /\ Precedes(Line("mov", k), Branch) /\ ~Precedes(Branch, Line("mov", k))
         /\ Precedes(Line("mov", k), Line("pop", j)) /\ ~Precedes(Line("pop", j), Line("mov", k))
         /\ Precedes(Branch, Line("pop", j)) /\ ~Precedes(Line("pop", j), Branch)
  BY DEF Precedes, Line, Branch, Part

(* One line after another: what is left still comes after what has run. *)
LEMMA RunKeepsOrder ==
  ASSUME CallTypeOK, InOrder, NEW l, Run(l), args' = args
  PROVE  (todo \subseteq Expansion(args) /\ InOrder)'
  BY DEF CallTypeOK, InOrder, Run, Expansion, Acting, Conflict, Moves, Precedes

-----------------------------------------------------------------------------
(* The invariant holds when the call begins ... *)
LEMMA CallBegins == Init => CallInv
<1> SUFFICES ASSUME Init PROVE CallInv
  OBVIOUS
<1>1. CallTypeOK
  BY DEF Init, CallTypeOK, Calls
<1>2. InOrder
  BY DEF Init, InOrder
<1>3. Done("push") = {} /\ Done("mov") = {}
  BY <1>1, ExpansionLines DEF Init, Done, CallTypeOK
<1>4. StackIsSaved
  <2>1. Saved = {} /\ Len(stack) = 0
    BY <1>3 DEF Saved, Init
  <2> DEFINE ks == [i \in 1 .. Len(stack) |-> 0]
  <2>2. ks \in [1 .. Len(stack) -> Saved] /\ stack = [i \in 1 .. Len(stack) |-> before[ks[i]]]
    BY <2>1 DEF Init
  <2> QED
    BY <2>1, <2>2 DEF StackIsSaved
<1>5. RegistersFollow
  BY <1>3 DEF Init, RegistersFollow, Changed
<1>6. ConflictFreeCallsArrive
  BY DEF Init, ConflictFreeCallsArrive, ArgumentsArrived
<1> QED
  BY <1>1, <1>2, <1>4, <1>5, <1>6 DEF CallInv

(* ... a push puts the register next in order on the stack ... *)
LEMMA PushLineKeepsInv ==
  ASSUME CallInv, NEW k \in DOMAIN args, PushLine(k)
  PROVE  CallInv'
<1> USE DEF CallInv
<1>1. CallTypeOK' /\ InOrder'
  <2>1. reg[k] \in Value
    BY ArgumentRegisters DEF CallTypeOK
  <2> QED
    BY <2>1, RunKeepsOrder DEF PushLine, CallTypeOK
<1>2. /\ Acting(args) \subseteq Register /\ Register \subseteq Int /\ Acting(args)' = Acting(args)
      /\ k \in Acting(args) /\ Line("push", k) \in todo
  BY ArgumentRegisters, ExpansionLines, LinesDiffer
     DEF CallTypeOK, PushLine, Run, Branch, Acting, Conflict, Moves
<1>3. /\ \A j \in Acting(args) : Line("mov", j) \in todo /\ Line("pop", j) \in todo
      /\ \A j \in Done("push") : j < k
  BY <1>2, ExpansionLines, LineOrder DEF InOrder, CallTypeOK, Done
<1>4. Saved = Done("push") /\ Changed = {}
  BY <1>3 DEF Saved, Changed, Done
<1>5. Saved' = Saved \cup {k} /\ Changed' = {}
  BY <1>2, <1>3, LinesDiffer DEF PushLine, Run, Saved, Changed, Done
<1>6. StackIsSaved'
  <2>1. PICK ks \in [1 .. Len(stack) -> Saved] :
          /\ \A i, j \in 1 .. Len(stack) : i < j => ks[i] > ks[j]
          /\ \A j \in Saved : \E i \in 1 .. Len(stack) : ks[i] = j
          /\ stack = [i \in 1 .. Len(stack) |-> before[ks[i]]]
    BY DEF StackIsSaved
  <2> DEFINE top == [i \in 1 .. Len(stack) + 1 |-> IF i = 1 THEN k ELSE ks[i - 1]]
  <2>2. Len(stack) \in Nat /\ Saved \subseteq Int
    BY <1>2, <1>4 DEF Done, CallTypeOK
  <2>3. stack' = [i \in 1 .. Len(stack) + 1 |-> before'[top[i]]]
    <3>1. stack \in Seq(Value) /\ reg[k] \in Value /\ reg[k] = before[k]
      BY <1>2, <1>4 DEF CallTypeOK, RegistersFollow
    <3> QED
      BY <3>1, <2>1, <2>2 DEF PushLine
  <2>4. Len(stack') = Len(stack) + 1
    BY <2>2, <2>3
  <2>5. top \in [1 .. Len(stack') -> Saved']
    BY <2>1, <2>2, <2>4, <1>5
  <2>6. \A i, j \in 1 .. Len(stack') : i < j => top[i] > top[j]
    <3> SUFFICES ASSUME NEW i \in 1 .. Len(stack'), NEW j \in 1 .. Len(stack'), i < j
                 PROVE  top[i] > top[j]
      OBVIOUS
    <3>1. j - 1 \in 1 .. Len(stack) /\ top[j] = ks[j - 1] /\ ks[j - 1] \in Saved
      BY <2>2, <2>4
    <3>2. CASE i = 1
      <4>1. top[i] = k
        BY <3>2, <2>2, <2>4
      <4> QED
        BY <4>1, <3>1, <1>2, <1>3, <1>4, <2>2
    <3>3. CASE i # 1
      <4>1. i - 1 \in 1 .. Len(stack) /\ top[i] = ks[i - 1] /\ i - 1 < j - 1
        BY <3>3, <2>2, <2>4
      <4> QED
        BY <4>1, <3>1, <2>1
    <3> QED
      BY <3>2, <3>3
  <2>7. \A j \in Saved' : \E i \in 1 .. Len(stack') : top[i] = j
    <3> SUFFICES ASSUME NEW j \in Saved' PROVE \E i \in 1 .. Len(stack') : top[i] = j
      OBVIOUS
    <3>1. CASE j = k
      BY <3>1, <2>2, <2>4
    <3>2. CASE j \in Saved
      <4>1. PICK i \in 1 .. Len(stack) : ks[i] = j
        BY <3>2, <2>1
      <4>2. i + 1 \in 1 .. Len(stack') /\ top[i + 1] = j
        BY <4>1, <2>2, <2>4
      <4> QED
        BY <4>2
    <3> QED
      BY <3>1, <3>2, <1>5
  <2> QED
    BY <2>3, <2>4, <2>5, <2>6, <2>7 DEF StackIsSaved
<1>7. RegistersFollow'
  BY <1>1, <1>4, <1>5 DEF RegistersFollow, PushLine, CallTypeOK, Asked, Conflict, Moves
<1>8. ConflictFreeCallsArrive'
  BY DEF ConflictFreeCallsArrive, ArgumentsArrived, PushLine, Asked, Conflict, Moves
<1> QED
  BY <1>1, <1>6, <1>7, <1>8

(* ... a move gives its register the argument, from a source that no move  *)
(* has overwritten unless there is a conflict ...                          *)
LEMMA MovLineKeepsInv ==
  ASSUME CallInv, NEW k \in DOMAIN args, MovLine(k)
  PROVE  CallInv'
<1> USE DEF CallInv
<1>1. /\ Acting(args) \subseteq Register /\ Register \subseteq Int /\ Acting(args)' = Acting(args)
      /\ k \in Acting(args) /\ Line("mov", k) \in todo
      /\ args[k] \in Source /\ k \in Register
  BY ArgumentRegisters, ExpansionLines, LinesDiffer
     DEF CallTypeOK, MovLine, Run, Branch, Acting, Conflict, Moves
<1>2. /\ \A j \in Acting(args) : Line("pop", j) \in todo
      /\ \A j \in Done("mov") : j < k
      /\ passed' = passed
  BY <1>1, ExpansionLines, LineOrder DEF InOrder, CallTypeOK, Done, MovLine
<1>3. Changed = Done("mov") /\ Changed' = Changed \cup {k} /\ Saved' = Saved
  BY <1>1, <1>2, LinesDiffer DEF MovLine, Run, Saved, Changed, Done
<1>4. Read(args[k]) \in Value
  BY <1>1, CallAssumption DEF Read, Source, Src, Lit, CallTypeOK
<1>5. CallTypeOK' /\ InOrder'
  BY <1>4, RunKeepsOrder DEF MovLine, CallTypeOK
<1>6. StackIsSaved'
  BY <1>3 DEF StackIsSaved, MovLine
<1>7. ~Conflict(args) => Read(args[k]) = Asked(k)
  <2> SUFFICES ASSUME ~Conflict(args), NEW r \in Register, args[k] = Src(r)
               PROVE  reg[r] = before[r]
    BY <1>1 DEF Read, Asked, Source, Src, Lit
  <2>1. Acting(args) = Moves(args)
    BY DEF Acting
  <2>2. r \notin Changed
    BY <1>1, <1>2, <1>3, <2>1 DEF Conflict, Changed, Done
  <2> QED
    BY <2>2 DEF RegistersFollow
<1>8. RegistersFollow'
  <2>1. \A r \in Register : reg'[r] = IF r = k THEN Read(args[k]) ELSE reg[r]
    BY <1>1 DEF MovLine, CallTypeOK
  <2>2. UNCHANGED <<args, before>> /\ (\A r \in Register : Asked(r)' = Asked(r))
    BY DEF MovLine, Asked
  <2>3. Changed' \subseteq Register
    BY <1>1, <1>3 DEF Done
  <2> QED
    BY <1>1, <1>3, <1>7, <2>1, <2>2, <2>3 DEF RegistersFollow, Conflict, Moves
<1>9. ConflictFreeCallsArrive'
  BY DEF ConflictFreeCallsArrive, ArgumentsArrived, MovLine, Asked, Conflict, Moves
<1> QED
  BY <1>5, <1>6, <1>8, <1>9

(* ... the callee finds what the moves have left ... *)
LEMMA BranchLineKeepsInv ==
  ASSUME CallInv, BranchLine
  PROVE  CallInv'
<1> USE DEF CallInv
<1>1. CallTypeOK' /\ InOrder'
  BY RunKeepsOrder DEF BranchLine, CallTypeOK
<1>2. /\ Acting(args) \subseteq Register /\ Register \subseteq Int /\ Branch \in todo
      /\ DOMAIN args \subseteq Register /\ Moves(args) \subseteq Acting(args)
  BY ArgumentRegisters DEF CallTypeOK, BranchLine, Run
<1>3. ASSUME NEW j \in Acting(args)
      PROVE  Line("mov", j) \notin todo /\ Line("pop", j) \in todo
  <2>1. /\ Precedes(Line("mov", j), Branch) /\ ~Precedes(Branch, Line("mov", j))
        /\ ~Precedes(Line("pop", j), Branch) /\ Line("mov", j) # Branch
    BY <1>2, LineOrder, LinesDiffer DEF Branch
  <2>2. \A m \in todo \ {Branch} : Precedes(Branch, m)
    BY DEF BranchLine, Run
  <2> QED
    BY <1>2, <2>1, <2>2, ExpansionLines DEF InOrder, CallTypeOK
<1>4. Changed = Acting(args)
  BY <1>3 DEF Changed, Done
<1>5. Saved' = Saved /\ Changed' = Changed
  BY LinesDiffer DEF BranchLine, Run, Branch, Saved, Changed, Done, Acting, Conflict, Moves
<1>6. StackIsSaved' /\ RegistersFollow'
  BY <1>5 DEF StackIsSaved, RegistersFollow, BranchLine, Asked, Conflict, Moves
<1>7. ~Conflict(args) => \A k \in DOMAIN args : reg[k] = Asked(k)
  <2> SUFFICES ASSUME ~Conflict(args), NEW k \in DOMAIN args PROVE reg[k] = Asked(k)
    OBVIOUS
  <2>1. CASE k \in Acting(args)
    BY <2>1, <1>4 DEF RegistersFollow
  <2>2. CASE k \notin Acting(args)
    <3>1. args[k] = Src(k)
      BY <2>2, <1>2 DEF Moves
    <3>2. reg[k] = before[k]
      BY <2>2, <1>2, <1>4 DEF RegistersFollow
    <3> QED
      BY <3>1, <3>2 DEF Asked, Src
  <2> QED
    BY <2>1, <2>2
<1>8. ConflictFreeCallsArrive'
  BY <1>7 DEF ConflictFreeCallsArrive, ArgumentsArrived, BranchLine, Asked, Conflict, Moves
<1> QED
  BY <1>1, <1>6, <1>8

(* ... and a pop finds on top of the stack what its register held.         *)
LEMMA PopLineKeepsInv ==
  ASSUME CallInv, NEW k \in DOMAIN args, PopLine(k)
  PROVE  CallInv'
<1> USE DEF CallInv
<1>1. /\ Acting(args) \subseteq Register /\ Register \subseteq Int /\ Acting(args)' = Acting(args)
      /\ k \in Acting(args) /\ Line("pop", k) \in todo
  BY ArgumentRegisters, ExpansionLines, LinesDiffer
     DEF CallTypeOK, PopLine, Run, Branch, Acting, Conflict, Moves
<1>2. ASSUME NEW j \in Acting(args)
      PROVE  /\ Line("push", j) \notin todo /\ Line("mov", j) \notin todo
             /\ Line("pop", j) \in todo => j <= k
  <2>1. /\ ~Precedes(Line("pop", k), Line("push", j)) /\ Line("push", j) # Line("pop", k)
        /\ ~Precedes(Line("pop", k), Line("mov", j)) /\ Line("mov", j) # Line("pop", k)
        /\ Precedes(Line("pop", k), Line("pop", j)) => k > j
        /\ Line("pop", k) = Line("pop", j) => j = k
    <3>1. k \in Int /\ j \in Int
      BY <1>1
    <3>2. /\ Line("push", j) # Line("pop", k) /\ Line("mov", j) # Line("pop", k)
          /\ Line("pop", k) = Line("pop", j) => j = k
      BY LinesDiffer
    <3> QED
      BY <3>1, <3>2, LineOrder
  <2>2. \A m \in todo : m = Line("pop", k) \/ Precedes(Line("pop", k), m)
    BY DEF PopLine, Run
  <2>3. k \in Int /\ j \in Int
    BY <1>1
  <2> QED
    BY <2>1, <2>2, <2>3
<1>3. /\ Saved = {j \in Acting(args) : Line("pop", j) \in todo} /\ Changed = Saved
      /\ \A j \in Saved : j <= k
  BY <1>2 DEF Saved, Changed, Done
<1>4. Saved' = Saved \ {k} /\ Changed' = Saved \ {k} /\ k \in Saved
  BY <1>1, <1>2, <1>3, LinesDiffer DEF PopLine, Run, Saved, Changed, Done
<1>5. PICK ks \in [1 .. Len(stack) -> Saved] :
          /\ \A i, j \in 1 .. Len(stack) : i < j => ks[i] > ks[j]
          /\ \A j \in Saved : \E i \in 1 .. Len(stack) : ks[i] = j
          /\ stack = [i \in 1 .. Len(stack) |-> before[ks[i]]]
  BY DEF StackIsSaved
<1>6. Len(stack) \in Nat /\ stack \in Seq(Value) /\ Saved \subseteq Int
  BY <1>1, <1>3 DEF CallTypeOK
<1>7. Len(stack) > 0 /\ ks[1] = k
  <2>1. PICK i \in 1 .. Len(stack) : ks[i] = k
    BY <1>4, <1>5
  <2>2. 1 \in 1 .. Len(stack) /\ ks[1] \in Saved /\ (i # 1 => ks[1] > ks[i])
    BY <1>5, <1>6
  <2> QED
    BY <2>1, <2>2, <1>3, <1>6
<1>8. Head(stack) = before[k] /\ before[k] \in Value
  BY <1>1, <1>5, <1>6, <1>7 DEF CallTypeOK
<1>9. CallTypeOK' /\ InOrder'
  BY <1>1, <1>6, <1>7, <1>8, RunKeepsOrder DEF PopLine, CallTypeOK
<1>10. StackIsSaved'
  <2> DEFINE rest == [i \in 1 .. Len(stack) - 1 |-> ks[i + 1]]
  <2>1. Len(stack') = Len(stack) - 1 /\ stack' = [i \in 1 .. Len(stack) - 1 |-> before'[rest[i]]]
    <3>1. stack' \in Seq(Value) /\ Len(stack') = Len(stack) - 1
      BY <1>6, <1>7 DEF PopLine
    <3>2. stack' = [i \in 1 .. Len(stack) - 1 |-> stack'[i]]
      BY <3>1, <1>6
    <3>3. \A i \in 1 .. Len(stack) - 1 : stack'[i] = stack[i + 1]
      BY <1>6, <1>7 DEF PopLine
    <3>4. \A i \in 1 .. Len(stack) : stack[i] = before[ks[i]]
      BY <1>5
    <3>5. \A i \in 1 .. Len(stack) - 1 : stack'[i] = before[rest[i]]
      BY <3>3, <3>4, <1>6
    <3>6. stack' = [i \in 1 .. Len(stack) - 1 |-> before[rest[i]]]
      BY <3>2, <3>5
    <3> QED
      BY <3>1, <3>6 DEF PopLine
  <2>2. ASSUME NEW i \in 1 .. Len(stack) - 1, NEW j \in 1 .. Len(stack) - 1, i < j
        PROVE  rest[i] > rest[j]
    BY <1>5, <1>6, <2>2
  <2>3. rest \in [1 .. Len(stack) - 1 -> Saved']
    <3> SUFFICES ASSUME NEW i \in 1 .. Len(stack) - 1
                 PROVE  ks[i + 1] \in Saved \ {k}
      BY <1>4
    <3>1. 1 \in 1 .. Len(stack) /\ i + 1 \in 1 .. Len(stack) /\ 1 < i + 1
      BY <1>6
    <3>2. ks[1] > ks[i + 1] /\ ks[i + 1] \in Saved
      BY <3>1, <1>5
    <3> QED
      BY <3>2, <1>1, <1>3, <1>7, <1>6
  <2>4. ASSUME NEW j \in Saved'
        PROVE  \E i \in 1 .. Len(stack) - 1 : rest[i] = j
    <3>1. PICK i \in 1 .. Len(stack) : ks[i] = j
      BY <2>4, <1>4, <1>5
    <3>2. i - 1 \in 1 .. Len(stack) - 1 /\ rest[i - 1] = j
      BY <3>1, <2>4, <1>4, <1>6, <1>7
    <3> QED
      BY <3>2
  <2> HIDE DEF rest
  <2>5. /\ rest \in [1 .. Len(stack') -> Saved']
        /\ \A i, j \in 1 .. Len(stack') : i < j => rest[i] > rest[j]
        /\ \A j \in Saved' : \E i \in 1 .. Len(stack') : rest[i] = j
        /\ stack' = [i \in 1 .. Len(stack') |-> before'[rest[i]]]
    BY <2>1, <2>2, <2>3, <2>4
  <2> QED
    BY <2>5 DEF StackIsSaved
<1>11. RegistersFollow'
  <2>1. \A r \in Register : reg'[r] = IF r = k THEN before[k] ELSE reg[r]
    BY <1>1, <1>8 DEF PopLine, CallTypeOK
  <2>2. UNCHANGED <<args, before>> /\ (\A r \in Register : Asked(r)' = Asked(r))
    BY DEF PopLine, Asked
  <2>3. Saved \subseteq Register
    BY <1>1, <1>3
  <2> QED
    BY <1>3, <1>4, <2>1, <2>2, <2>3 DEF RegistersFollow, Conflict, Moves
<1>12. ConflictFreeCallsArrive'
  BY DEF ConflictFreeCallsArrive, ArgumentsArrived, PopLine, Asked, Conflict, Moves
<1> QED
  BY <1>9, <1>10, <1>11, <1>12

(* The invariant says how a call ends. *)
LEMMA CallEnds == CallInv => CallerRestored
<1> SUFFICES ASSUME CallInv, todo = {} PROVE reg = before /\ stack = <<>>
  BY DEF CallerRestored
<1>1. Saved = {} /\ Changed = {}
  BY DEF Saved, Changed, Done
<1>2. Len(stack) = 0 /\ stack \in Seq(Value)
  <2>1. PICK ks : ks \in [1 .. Len(stack) -> {}]
    BY <1>1 DEF CallInv, StackIsSaved
  <2>2. \A i \in 1 .. Len(stack) : FALSE
    BY <2>1
  <2> QED
    BY <2>2 DEF CallInv, CallTypeOK
<1> QED
  BY <1>1, <1>2 DEF CallInv, CallTypeOK, RegistersFollow

LEMMA CallInvariant == Spec => []CallInv
<1>1. CallInv /\ [Next]_cvars => CallInv'
  <2> SUFFICES ASSUME CallInv, [Next]_cvars PROVE CallInv'
    OBVIOUS
  <2>1. CASE \E k \in DOMAIN args : PushLine(k) \/ MovLine(k) \/ PopLine(k)
    BY <2>1, PushLineKeepsInv, MovLineKeepsInv, PopLineKeepsInv
  <2>2. CASE BranchLine
    BY <2>2, BranchLineKeepsInv
  <2>3. CASE UNCHANGED cvars
    BY <2>3
       DEF cvars, CallInv, CallTypeOK, InOrder, StackIsSaved, RegistersFollow,
           ConflictFreeCallsArrive, ArgumentsArrived, Saved, Changed, Done, Acting, Moves,
           Conflict, Asked, Expansion
  <2> QED
    BY <2>1, <2>2, <2>3 DEF Next, CallDone
<1> QED
  BY <1>1, CallBegins, PTL DEF Spec

(***************************************************************************)
(* The caller gets its registers and its stack back, whatever arguments it *)
(* passes (code.c:460-541): each pop meets the push of its register.       *)
(***************************************************************************)
THEOREM CallerIsRestored == Spec => []CallerRestored
  BY CallInvariant, CallEnds, PTL

(***************************************************************************)
(* Without a conflict every argument arrives, although the moves run one   *)
(* after the other over registers that are sources too (code.c:429-448).   *)
(***************************************************************************)
THEOREM ArgumentsArrive == Spec => []ConflictFreeCallsArrive
<1>1. CallInv => ConflictFreeCallsArrive
  BY DEF CallInv
<1> QED
  BY <1>1, CallInvariant, PTL
=============================================================================
