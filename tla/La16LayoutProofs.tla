-------------------------- MODULE La16LayoutProofs --------------------------
(***************************************************************************)
(* What La16Layout's run checks for programs of few lines, for every       *)
(* program: the parts of the image lie apart, and every operand leads to   *)
(* what it names.                                                          *)
(*                                                                         *)
(* Each pass places what it places at image_uaddr and then moves it past   *)
(* that part; between passes it is only rounded up.  The first invariant,  *)
(* LayoutInv, says so: the parts placed so far all end at image_uaddr or   *)
(* before it.  The second, ResolveInv, is about the tables that one pass   *)
(* leaves to the next.  image_uaddr wraps at 16 bits, so both hold of      *)
(* images that fit only; parts are never taken back, so an image that fits *)
(* has fitted before every step, and ImageFits => LayoutInv is inductive.  *)
(***************************************************************************)
EXTENDS La16Layout, FiniteSetTheorems, Induction

SourceLine == UNION {{p[k] : k \in DOMAIN p} : p \in Programs}
TokenLine  == SourceLine \cup {CodeLine(l.ref) : l \in SourceLine} \cup {CodeLine(NoRef)}
TokenType  == {"label", "scoped", "section", "const", "data", "asm"}
AnyToken   == {Token(type, address, l) : type \in TokenType, address \in Nat, l \in TokenLine}

PartOf(e) ==
  /\ e.from \in Nat /\ e.size \in Nat
  /\ HEADER <= e.from /\ e.from + e.size <= uaddr

Apart(e, f) == e.token # f.token => e.from + e.size <= f.from \/ f.from + f.size <= e.from

LayoutInv ==
  /\ source \in Programs
  /\ token \in Seq(AnyToken)
  /\ addr \in Nat /\ at \in Nat \ {0}
  /\ uaddr \in Nat /\ HEADER <= uaddr /\ uaddr <= MEMORY - 4
  /\ \A e \in image : PartOf(e)
  /\ \A e, f \in image : Apart(e, f)

(* What a program's lines and the tokens made of them have in common. *)
LEMMA LineFacts ==
  /\ \A p \in Programs : Len(p) \in Nat /\ \A k \in 1 .. Len(p) : p[k] \in SourceLine
  /\ \A l \in TokenLine : l.size \in Nat
  /\ \A l \in SourceLine : l \in TokenLine /\ CodeLine(l.ref) \in TokenLine
  /\ CodeLine(NoRef) \in TokenLine
<1>1. ASSUME NEW p \in Programs
      PROVE  Len(p) \in Nat /\ \A k \in 1 .. Len(p) : p[k] \in SourceLine
  <2>1. p \in Seq({p[k] : k \in DOMAIN p})
    BY ProgramsAssumption
  <2>2. Len(p) \in Nat /\ DOMAIN p = 1 .. Len(p)
    BY <2>1
  <2>3. QED
    BY <2>2 DEF SourceLine
<1>2. ASSUME NEW l \in TokenLine PROVE l.size \in Nat
  <2>1. CASE l \in SourceLine
    BY <2>1, ProgramsAssumption DEF SourceLine
  <2>2. CASE \E ref : l = CodeLine(ref)
    BY <2>2 DEF CodeLine
  <2>3. QED
    BY <1>2, <2>1, <2>2 DEF TokenLine
<1>3. QED
  BY <1>1, <1>2 DEF TokenLine

(* The fields of a token. *)
LEMMA TokenFacts ==
  ASSUME NEW t \in AnyToken
  PROVE  t.addr \in Nat /\ t.line \in TokenLine
BY DEF AnyToken, Token

(* Reducing an address to 16 bits leaves a natural number. *)
LEMMA W16Nat == \A x \in Nat : W16(x) \in Nat
BY DEF W16

(* Rounding up moves no address down, and none below the last word wraps. *)
LEMMA AlignedUp ==
  \A a \in Nat : a <= MEMORY - 4 =>
    /\ W16(Aligned(a)) \in Nat /\ a <= W16(Aligned(a)) /\ W16(Aligned(a)) <= MEMORY - 4
BY DEF Aligned, W16, MEMORY

(* The tokens of an expanded call. *)
LEMMA CallTokensType ==
  ASSUME addr \in Nat, NEW l \in SourceLine
  PROVE  CallTokens(l) \in Seq(AnyToken)
<1>1. l.size \in Nat
  BY LineFacts
<1>. DEFINE n == 3 * l.size + 1
            T(k) == Token("asm", W16(addr + 4 * (k - 1)),
                          CodeLine(IF k = 2 * l.size + 1 THEN l.ref ELSE NoRef))
<1>2. ASSUME NEW k \in 1 .. n PROVE T(k) \in AnyToken
  <2>1. W16(addr + 4 * (k - 1)) \in Nat
    BY <1>1, W16Nat
  <2>2. CodeLine(IF k = 2 * l.size + 1 THEN l.ref ELSE NoRef) \in TokenLine
    BY LineFacts
  <2>3. QED
    BY <2>1, <2>2 DEF AnyToken, TokenType
<1>3. CallTokens(l) = [k \in 1 .. n |-> T(k)]
  BY DEF CallTokens
<1>4. n \in Nat
  BY <1>1
<1>. HIDE DEF n, T
<1>5. QED
  BY <1>2, <1>3, <1>4

(* Typing appends tokens and places nothing. *)
LEMMA TypeLineInv == LayoutInv /\ TypeLine => LayoutInv'
<1>. SUFFICES ASSUME LayoutInv, TypeLine PROVE LayoutInv'
  OBVIOUS
<1>. DEFINE line == source[at]
<1>1. line \in SourceLine /\ line \in TokenLine /\ line.size \in Nat
  BY LineFacts DEF LayoutInv, TypeLine, Passing
<1>2. ASSUME NEW type \in TokenType, NEW a \in Nat
      PROVE  <<Token(type, a, line)>> \in Seq(AnyToken)
  <2>1. Token(type, a, line) \in AnyToken
    BY <1>1 DEF AnyToken
  <2>2. QED
    BY <2>1
<1>3. CallTokens(line) \in Seq(AnyToken)
  BY <1>1, CallTokensType DEF LayoutInv
<1>4. PICK tokens \in Seq(AnyToken) : Types(tokens)
  <2>1. line.kind = "label" \/ line.kind = "scoped" => line.kind \in TokenType
    BY DEF TokenType
  <2>2. \/ Types(<<Token(line.kind, addr, line)>>) /\ line.kind \in TokenType
        \/ Types(<<Token("section", 0, line)>>)
        \/ Types(<<Token("const", 0, line)>>)
        \/ Types(<<Token("data", 0, line)>>)
        \/ Types(<<Token("asm", addr, line)>>)
        \/ Types(CallTokens(line))
    BY <2>1, Zenon DEF TypeLine
  <2>3. {"section", "const", "data", "asm"} \subseteq TokenType /\ 0 \in Nat /\ addr \in Nat
    BY DEF TokenType, LayoutInv
  <2>. HIDE DEF line
  <2>4. QED
    BY <1>2, <1>3, <2>2, <2>3
<1>5. addr' \in Nat
  <2>1. W16(addr + 4) \in Nat /\ W16(addr + 4 * (3 * line.size + 1)) \in Nat
    <3>. DEFINE size == line.size
    <3>1. size \in Nat /\ addr \in Nat
      BY <1>1 DEF LayoutInv
    <3>. HIDE DEF size
    <3>2. addr + 4 \in Nat /\ addr + 4 * (3 * size + 1) \in Nat
      BY <3>1
    <3>3. QED
      BY <3>2, W16Nat DEF size
  <2>2. \/ UNCHANGED addr
        \/ addr' = W16(addr + 4)
        \/ addr' = W16(addr + 4 * (3 * line.size + 1))
    BY Zenon DEF TypeLine
  <2>3. QED
    BY <2>1, <2>2 DEF LayoutInv
<1>6. token' \in Seq(AnyToken) /\ at' \in Nat \ {0} /\ UNCHANGED <<source, image, uaddr>>
  BY <1>4 DEF Types, NextItem, output, LayoutInv
<1>7. QED
  BY <1>5, <1>6 DEF LayoutInv, PartOf, Apart

(* The address behind a part that fits does not wrap. *)
LEMMA PlacedBelow ==
  ASSUME LayoutInv, ImageFits', NEW e, e \in image', e.from = uaddr, e.size \in Nat
  PROVE  W16(uaddr + e.size) = uaddr + e.size /\ uaddr + e.size <= MEMORY - 4
<1>1. uaddr + e.size <= MEMORY - 4
  BY DEF ImageFits
<1>2. PICK n \in Nat : n = uaddr + e.size /\ n < 65536
  BY <1>1 DEF LayoutInv, MEMORY
<1>3. W16(n) = n
  BY <1>2 DEF W16
<1>4. QED
  BY <1>1, <1>2, <1>3

(* Placing a part at image_uaddr. *)
LEMMA PlaceInv ==
  ASSUME LayoutInv, ImageFits', NEW size \in Nat, NEW value, Place(size, value),
         UNCHANGED <<source, token, addr>>, at' \in Nat \ {0}
  PROVE  LayoutInv'
<1>. DEFINE new == Extent(uaddr, size, at, value)
<1>1. new.from = uaddr /\ new.size = size /\ new.token = at
  BY DEF Extent
<1>2. image' = image \cup {new} /\ uaddr' = uaddr + size /\ uaddr' <= MEMORY - 4
  <2>1. image' = image \cup {new} /\ uaddr' = W16(uaddr + size)
    BY DEF Place
  <2>2. W16(uaddr + size) = uaddr + size /\ uaddr + size <= MEMORY - 4
    BY <1>1, <2>1, PlacedBelow
  <2>3. QED
    BY <2>1, <2>2
<1>. HIDE DEF new
<1>3. ASSUME NEW e \in image' PROVE PartOf(e)'
  BY <1>1, <1>2, <1>3 DEF LayoutInv, PartOf
<1>4. ASSUME NEW e \in image', NEW f \in image' PROVE Apart(e, f)
  BY <1>1, <1>2, <1>4 DEF LayoutInv, PartOf, Apart
<1>5. uaddr' \in Nat /\ HEADER <= uaddr' /\ uaddr' <= MEMORY - 4
  BY <1>2 DEF LayoutInv, HEADER
<1>6. QED
  BY <1>3, <1>4, <1>5 DEF LayoutInv, Apart

(* A pass looks at the next line or token, or stops where it is. *)
LEMMA AtType ==
  ASSUME LayoutInv, NextItem \/ \E how \in GivenUp : Fail(how)
  PROVE  at' \in Nat \ {0}
BY DEF LayoutInv, NextItem, Fail

(* Before the first pass nothing is placed. *)
LEMMA InitLayout == Init => LayoutInv
BY DEF Init, LayoutInv, HEADER, MEMORY

(* No step takes a part back. *)
LEMMA ImageGrows == [Next]_lvars => image \subseteq image'
<1>. SUFFICES ASSUME [Next]_lvars PROVE image \subseteq image'
  OBVIOUS
<1>1. \A size, value : Place(size, value) => image \subseteq image'
  BY DEF Place
<1>2. CASE TypeLine
  <2>1. \A tokens : Types(tokens) => UNCHANGED image
    BY DEF Types, output
  <2>2. QED
    BY <1>2, <2>1, Zenon DEF TypeLine
<1>3. CASE PlaceData
  BY <1>1, <1>3 DEF PlaceData
<1>4. CASE EmitLine
  BY <1>1, <1>4 DEF EmitLine
<1>5. CASE \/ NoScope \/ TypesOver \/ CollectLabel \/ LabelsOver \/ SectionsOver
          \/ EvaluateConstant \/ ConstantsOver \/ EmitOver \/ UNCHANGED lvars
  BY <1>5 DEF NoScope, TypesOver, CollectLabel, LabelsOver, SectionsOver, EvaluateConstant,
     ConstantsOver, EmitOver, lvars, output
<1>6. CASE InsertStart
  BY <1>6 DEF InsertStart
<1>7. QED
  BY <1>2, <1>3, <1>4, <1>5, <1>6 DEF Next, Ended

(* An image that fits after a step has fitted before it. *)
LEMMA FitsBefore == [Next]_lvars /\ ImageFits' => ImageFits
BY ImageGrows DEF ImageFits

(* No step of a pass places a part where another one is. *)
LEMMA NextLayout == LayoutInv /\ [Next]_lvars /\ ImageFits' => LayoutInv'
<1>. SUFFICES ASSUME LayoutInv, [Next]_lvars, ImageFits' PROVE LayoutInv'
  OBVIOUS
<1>. DEFINE Still == UNCHANGED <<source, token, image, uaddr, addr>> /\ at' \in Nat \ {0}
<1>1. Still => LayoutInv'
  BY DEF LayoutInv, PartOf, Apart
<1>2. CASE TypeLine
  BY <1>2, TypeLineInv
<1>3. CASE NoScope
  BY <1>1, <1>3 DEF NoScope, Fail, output, tables, LayoutInv
<1>4. CASE TypesOver
  BY <1>1, <1>4 DEF TypesOver, Turn, output, tables, LayoutInv
<1>5. CASE CollectLabel
  <2>1. UNCHANGED <<source, token, image, uaddr, addr>>
    BY <1>5 DEF CollectLabel, output
  <2>2. at' \in Nat \ {0}
    BY <1>5, AtType DEF GivenUp, CollectLabel
  <2>3. QED
    BY <1>1, <2>1, <2>2
<1>6. CASE LabelsOver
  BY <1>1, <1>6 DEF LabelsOver, Turn, output, tables, LayoutInv
<1>7. CASE PlaceData
  <2>1. token[at] \in AnyToken
    BY <1>7 DEF PlaceData, Passing, LayoutInv
  <2>2. token[at].line.size \in Nat
    BY <2>1, TokenFacts, LineFacts
  <2>3. UNCHANGED <<source, token, addr>> /\ at' \in Nat \ {0}
    BY <1>7, AtType DEF GivenUp, PlaceData
  <2>4. UNCHANGED <<image, uaddr>> \/ Place(token[at].line.size, 0)
    BY <1>7 DEF PlaceData
  <2>5. CASE UNCHANGED <<image, uaddr>>
    BY <1>1, <2>3, <2>5
  <2>6. CASE Place(token[at].line.size, 0)
    BY <2>2, <2>3, <2>6, PlaceInv
  <2>7. QED
    BY <2>4, <2>5, <2>6
<1>8. CASE SectionsOver
  <2>1. uaddr' \in Nat /\ uaddr <= uaddr' /\ uaddr' <= MEMORY - 4
    BY <1>8, AlignedUp DEF SectionsOver, LayoutInv
  <2>2. UNCHANGED <<source, token, image, addr>> /\ at' \in Nat \ {0}
    BY <1>8 DEF SectionsOver, Turn, tables
  <2>3. QED
    BY <2>1, <2>2 DEF LayoutInv, PartOf, Apart, HEADER
<1>9. CASE InsertStart
  <2>1. UNCHANGED <<source, token, image, uaddr, addr>> /\ at' \in Nat \ {0}
    BY <1>9 DEF InsertStart, Fail, Turn, tables, LayoutInv
  <2>2. QED
    BY <1>1, <2>1
<1>10. CASE EvaluateConstant
  <2>1. UNCHANGED <<source, token, image, uaddr, addr>>
    BY <1>10 DEF EvaluateConstant, output
  <2>2. at' \in Nat \ {0}
    BY <1>10, AtType DEF GivenUp, EvaluateConstant
  <2>3. QED
    BY <1>1, <2>1, <2>2
<1>11. CASE ConstantsOver
  BY <1>1, <1>11 DEF ConstantsOver, Turn, output, tables, LayoutInv
<1>12. CASE EmitLine
  <2>1. UNCHANGED <<source, token, addr>> /\ at' \in Nat \ {0}
    BY <1>12, AtType DEF GivenUp, EmitLine, tables
  <2>2. UNCHANGED <<image, uaddr>> \/ Place(4, Resolve(token[at].line.ref))
    BY <1>12 DEF EmitLine
  <2>3. CASE UNCHANGED <<image, uaddr>>
    BY <1>1, <2>1, <2>3
  <2>4. CASE Place(4, Resolve(token[at].line.ref))
    BY <2>1, <2>4, PlaceInv
  <2>5. QED
    BY <2>2, <2>3, <2>4
<1>13. CASE EmitOver
  BY <1>1, <1>13 DEF EmitOver, output, tables, LayoutInv
<1>14. CASE UNCHANGED lvars
  BY <1>1, <1>14 DEF lvars, passVars, output, tables, LayoutInv
<1>15. QED
  BY <1>2, <1>3, <1>4, <1>5, <1>6, <1>7, <1>8, <1>9, <1>10, <1>11, <1>12, <1>13, <1>14
     DEF Next, Ended

(***************************************************************************)
(* No two parts of an image that fits overlap and none reaches into its    *)
(* header, for every program the assembler is given.                       *)
(***************************************************************************)
THEOREM PartsNeverOverlap == Spec => []PartsApart
<1>. DEFINE Inv == ImageFits => LayoutInv
<1>1. Init => Inv
  BY InitLayout
<1>2. Inv /\ [Next]_lvars => Inv'
  BY FitsBefore, NextLayout
<1>3. Inv => PartsApart
  BY DEF LayoutInv, PartsApart, PartOf, Apart
<1>4. QED
  BY <1>1, <1>2, <1>3, PTL DEF Spec

-----------------------------------------------------------------------------
(***************************************************************************)
(* Operands lead to what they name.  The passes agree because the address  *)
(* of a label is four times the number of code tokens before it, although  *)
(* the first pass counts lines and the last one places tokens, and because *)
(* both keep track of the function they are in in the same way.            *)
(***************************************************************************)
CodeTokens(k) == {j \in 1 .. k - 1 : token[j].type = "asm"}
CodeBefore(k) == Cardinality(CodeTokens(k))

TextAddr(k) == W16(4 * CodeBefore(k))

(* The function above token k. *)
ScopeAt(k) == IF Above(k) = {} THEN None ELSE Owner(k)

TokenTyped(k) ==
  /\ token[k].type \in {"label", "scoped"} => token[k].addr = TextAddr(k)
  /\ token[k].type = "scoped" => Above(k) # {} /\ token[k].line.name # None

(* Label l is the one that token k defines. *)
Defines(k, l) ==
  \/ /\ token[k].type = "label" /\ l.name = Plain(token[k].line.name)
     /\ l.rel /\ l.addr = TextAddr(k)
  \/ /\ token[k].type = "scoped" /\ l.name = Scoped(Owner(k), token[k].line.name)
     /\ l.rel /\ l.addr = TextAddr(k)
  \/ /\ token[k].type = "data" /\ l.name = Plain(token[k].line.name)
     /\ ~l.rel /\ \E e \in image : e.token = k /\ e.from = l.addr

Stands(l) == l.addr + IF l.rel THEN textStart ELSE 0

(* Constant c is the one that token k defines. *)
DefinesConstant(k, c) ==
  /\ token[k].type = "const" /\ c.name = Plain(token[k].line.name)
  /\ \/ token[k].line.ref = NoRef /\ c.value = W16(token[k].line.size)
     \/ \E j \in DOMAIN label : /\ label[j].name = token[k].line.ref
                                /\ ~IsScoped(token[k].line.ref)
                                /\ c.value = W16(Stands(label[j]))

(* The operand of the code that part e holds is what a table gave for it.  *)
LookedUp(e) ==
  LET ref == token[e.token].line.ref
  IN  \/ ref = NoRef
      \/ \E j \in DOMAIN label :
           /\ \/ ~IsScoped(ref) /\ label[j].name = ref
              \/ IsScoped(ref) /\ Above(e.token) # {} /\ label[j].name = Scoped(Owner(e.token), ref[2])
           /\ e.value = W16(Stands(label[j]))
      \/ \E c \in DOMAIN constant : constant[c].name = ref /\ e.value = constant[c].value

Emitted(e) ==
  /\ e.token \in DOMAIN token
  /\ token[e.token].type \in {"data", "asm"}
  /\ token[e.token].type = "asm" => /\ phase \in {"emit", "written"}
                                    /\ e.from = textStart + 4 * CodeBefore(e.token)
                                    /\ LookedUp(e)

IsList(s) == s \in Seq({s[i] : i \in DOMAIN s})

Tables ==
  /\ textStart \in Nat /\ IsList(label) /\ IsList(constant)
  /\ \A k \in DOMAIN token : TokenTyped(k)
  /\ \A i \in DOMAIN label : \E k \in DOMAIN token : Defines(k, label[i])
  /\ \A i \in DOMAIN constant : \E k \in DOMAIN token : DefinesConstant(k, constant[i])
  /\ \A e \in image : Emitted(e)

(* What each pass has done so far. *)
Progress ==
  /\ phase = "types" => addr = TextAddr(Len(token) + 1) /\ label = <<>> /\ image = {}
  /\ phase \in {"types", "labels", "sections", "start"} => constant = <<>>
  /\ phase \in {"labels", "emit"} => scope = ScopeAt(at - 1)
  /\ phase \in {"start", "constants"} => uaddr = textStart
  /\ phase = "emit" => at <= Len(token) + 1
  /\ phase = "written" => at = Len(token) + 1
  /\ phase \in {"emit", "written"} =>
       /\ uaddr = textStart + 4 * CodeBefore(at)
       /\ \A k \in CodeTokens(at) : \E e \in image : e.token = k

PassInv == Tables /\ Progress

ResolveInv == LayoutInv /\ (phase \notin GivenUp => PassInv)

(* Counting the code tokens. *)
LEMMA CountStep ==
  ASSUME NEW k \in Nat \ {0}
  PROVE  /\ CodeBefore(k) \in Nat
         /\ CodeBefore(k + 1) = CodeBefore(k) + IF token[k].type = "asm" THEN 1 ELSE 0
<1>1. IsFiniteSet(CodeTokens(k))
  <2>1. IsFiniteSet(1 .. k - 1) /\ CodeTokens(k) \in SUBSET (1 .. k - 1)
    BY FS_Interval DEF CodeTokens
  <2> QED
    BY <2>1, FS_Subset
<1>2. CASE token[k].type = "asm"
  <2>1. CodeTokens(k + 1) = CodeTokens(k) \cup {k} /\ k \notin CodeTokens(k)
    BY <1>2 DEF CodeTokens
  <2> QED
    BY <1>1, <1>2, <2>1, FS_AddElement, FS_CardinalityType DEF CodeBefore
<1>3. CASE token[k].type # "asm"
  <2>1. CodeTokens(k + 1) = CodeTokens(k)
    BY <1>3 DEF CodeTokens
  <2>2. CodeBefore(k + 1) = CodeBefore(k) /\ CodeBefore(k) \in Nat
    BY <1>1, <2>1, FS_CardinalityType DEF CodeBefore
  <2> QED
    BY <1>3, <2>2
<1> QED
  BY <1>2, <1>3

LEMMA CountFirst == CodeBefore(1) = 0 /\ CodeTokens(1) = {}
<1>1. CodeTokens(1) = {}
  BY DEF CodeTokens
<1> QED
  BY <1>1, FS_EmptySet DEF CodeBefore

LEMMA CountGrows ==
  ASSUME NEW j \in Nat, NEW k \in Nat, j <= k
  PROVE  CodeBefore(j) <= CodeBefore(k)
<1>1. IsFiniteSet(CodeTokens(k))
  <2>1. IsFiniteSet(1 .. k - 1) /\ CodeTokens(k) \in SUBSET (1 .. k - 1)
    BY FS_Interval DEF CodeTokens
  <2> QED
    BY <2>1, FS_Subset
<1>2. CodeTokens(j) \in SUBSET CodeTokens(k)
  BY DEF CodeTokens
<1> QED
  BY <1>1, <1>2, FS_Subset DEF CodeBefore

(* The function above a token. *)
LEMMA ScopeStep ==
  ASSUME NEW k \in Nat \ {0}
  PROVE  /\ token[k].type = "label" => /\ ScopeAt(k) = token[k].line.name
                                       /\ Above(k) # {}
         /\ token[k].type # "label" => /\ Above(k) = Above(k - 1)
                                       /\ Owner(k) = Owner(k - 1)
                                       /\ ScopeAt(k) = ScopeAt(k - 1)
<1>1. CASE token[k].type = "label"
  <2>1. k \in Above(k) /\ \A i \in Above(k) : i <= k /\ i \in Nat
    BY <1>1 DEF Above
  <2>2. \A j \in Above(k) : (\A i \in Above(k) : i <= j) => j = k
    BY <2>1
  <2>3. (CHOOSE j \in Above(k) : \A i \in Above(k) : i <= j) = k
    BY <2>1, <2>2
  <2> QED
    BY <1>1, <2>1, <2>3 DEF Owner, ScopeAt
<1>2. CASE token[k].type # "label"
  <2>1. Above(k) = Above(k - 1)
    BY <1>2 DEF Above
  <2> QED
    BY <1>2, <2>1 DEF Owner, ScopeAt
<1> QED
  BY <1>1, <1>2

LEMMA ScopeFirst == Above(0) = {} /\ ScopeAt(0) = None
BY DEF Above, ScopeAt

(* Nothing of this changes while the tokens stay. *)
LEMMA TokensStay ==
  ASSUME token' = token
  PROVE  \A k : /\ CodeBefore(k)' = CodeBefore(k) /\ CodeTokens(k)' = CodeTokens(k)
                /\ TextAddr(k)' = TextAddr(k)
                /\ Above(k)' = Above(k) /\ Owner(k)' = Owner(k) /\ ScopeAt(k)' = ScopeAt(k)
                /\ TokenTyped(k)' = TokenTyped(k)
<1>1. \A k : CodeTokens(k)' = CodeTokens(k) /\ Above(k)' = Above(k)
  BY DEF CodeTokens, Above
<1>2. \A k : CodeBefore(k)' = CodeBefore(k) /\ Owner(k)' = Owner(k)
  BY <1>1 DEF CodeBefore, Owner
<1>3. \A k : TextAddr(k)' = TextAddr(k) /\ ScopeAt(k)' = ScopeAt(k)
  BY <1>1, <1>2 DEF TextAddr, ScopeAt
<1>4. \A k : TokenTyped(k)' = TokenTyped(k)
  BY <1>1, <1>3 DEF TokenTyped
<1> QED
  BY <1>1, <1>2, <1>3, <1>4

(* A longer list still is one. *)
LEMMA ListGrows ==
  ASSUME NEW s, IsList(s), NEW x
  PROVE  /\ IsList(Append(s, x)) /\ Len(s) \in Nat /\ DOMAIN s = 1 .. Len(s)
         /\ DOMAIN Append(s, x) = 1 .. Len(s) + 1
         /\ Append(s, x)[Len(s) + 1] = x
         /\ \A i \in DOMAIN s : Append(s, x)[i] = s[i]
<1> DEFINE S == {s[i] : i \in DOMAIN s}
           T == {Append(s, x)[i] : i \in DOMAIN Append(s, x)}
<1>1. s \in Seq(S)
  BY DEF IsList
<1>2. s \in Seq(S \cup {x}) /\ x \in S \cup {x}
  <2> HIDE DEF S
  <2> QED
    BY <1>1
<1>3. /\ Append(s, x) \in Seq(S \cup {x}) /\ Len(s) \in Nat /\ DOMAIN s = 1 .. Len(s)
      /\ Len(Append(s, x)) = Len(s) + 1
      /\ DOMAIN Append(s, x) = 1 .. Len(s) + 1 /\ Append(s, x)[Len(s) + 1] = x
      /\ \A i \in 1 .. Len(s) : Append(s, x)[i] = s[i]
  <2> HIDE DEF S
  <2> QED
    BY <1>2
<1>4. Append(s, x) \in Seq(T)
  <2>1. PICK t \in Seq(S \cup {x}) : t = Append(s, x)
    BY <1>3
  <2>2. \A i \in 1 .. Len(t) : t[i] \in T
    BY <1>3, <2>1
  <2>3. t = [i \in 1 .. Len(t) |-> t[i]] /\ Len(t) \in Nat
    <3> DEFINE U == S \cup {x}
    <3>1. t \in Seq(U)
      OBVIOUS
    <3> HIDE DEF U
    <3> QED
      BY <3>1
  <2> HIDE DEF S, T
  <2>4. t \in Seq(T)
    BY <2>2, <2>3
  <2> QED
    BY <2>1, <2>4
<1> QED
  BY <1>3, <1>4 DEF IsList

(* Code tokens in a row count one by one. *)
CountsUp ==
  \A k \in Nat \ {0} :
    /\ CodeBefore(k) \in Nat
    /\ CodeBefore(k + 1) = CodeBefore(k) + IF token[k].type = "asm" THEN 1 ELSE 0

CountsRows ==
  \A k \in Nat \ {0}, n \in Nat :
    (\A j \in k .. k + n - 1 : token[j].type = "asm") => CodeBefore(k + n) = CodeBefore(k) + n

LEMMA Counting == CountsUp /\ CountsRows
<1>1. CountsUp
  BY CountStep DEF CountsUp
<1>2. CountsRows
  <2> SUFFICES ASSUME NEW k \in Nat \ {0}, NEW n \in Nat,
                      \A j \in k .. k + n - 1 : token[j].type = "asm"
               PROVE  CodeBefore(k + n) = CodeBefore(k) + n
    BY DEF CountsRows
  <2> DEFINE S == {i \in Nat : i <= n => CodeBefore(k + i) = CodeBefore(k) + i}
  <2>1. 0 \in S
    BY <1>1 DEF CountsUp
  <2>2. ASSUME NEW i \in Nat, i \in S PROVE i + 1 \in S
    <3> SUFFICES ASSUME i + 1 <= n PROVE CodeBefore(k + (i + 1)) = CodeBefore(k) + (i + 1)
      OBVIOUS
    <3>1. CodeBefore(k + i) = CodeBefore(k) + i /\ CodeBefore(k) \in Nat
      BY <1>1, <2>2 DEF CountsUp
    <3>2. k + i \in Nat \ {0} /\ k + i \in k .. k + n - 1 /\ k + (i + 1) = (k + i) + 1
      OBVIOUS
    <3>3. CodeBefore((k + i) + 1) = CodeBefore(k + i) + 1
      BY <1>1, <3>2 DEF CountsUp
    <3> QED
      BY <3>1, <3>2, <3>3
  <2>3. Nat \subseteq S
    <3> HIDE DEF S
    <3> QED
      BY <2>1, <2>2, NatBySets
  <2>4. n \in S
    <3> HIDE DEF S
    <3> QED
      BY <2>3
  <2> QED
    BY <2>4
<1> QED
  BY <1>1, <1>2

LEMMA CountingNext == CountsUp' /\ CountsRows'
BY Counting, PTL

(* Tokens that are appended leave what is above them as it is. *)
LEMMA TokensAppended ==
  ASSUME LayoutInv, NEW new \in Seq(AnyToken), token' = token \o new,
         NEW last, last = Len(token)
  PROVE  /\ last \in Nat /\ Len(new) \in Nat /\ Len(token') = last + Len(new)
         /\ DOMAIN token = 1 .. last /\ DOMAIN token' = 1 .. last + Len(new)
         /\ \A k \in 1 .. last : token'[k] = token[k]
         /\ \A k \in 1 .. Len(new) : token'[last + k] = new[k]
         /\ CodeBefore(last + 1)' = CodeBefore(last + 1)
         /\ \A k \in 1 .. last : TokenTyped(k) => TokenTyped(k)'
<1>1. token \in Seq(AnyToken) /\ DOMAIN token = 1 .. last /\ last \in Nat
  BY DEF LayoutInv
<1>2. /\ Len(new) \in Nat /\ Len(token') = last + Len(new)
      /\ DOMAIN token' = 1 .. last + Len(new)
      /\ \A k \in 1 .. last : token'[k] = token[k]
      /\ \A k \in 1 .. Len(new) : token'[last + k] = new[k]
  <2>1. PICK s \in Seq(AnyToken) : s = token
    BY <1>1
  <2>2. /\ Len(new) \in Nat /\ Len(s \o new) = Len(s) + Len(new)
        /\ DOMAIN (s \o new) = 1 .. Len(s) + Len(new)
        /\ \A k \in 1 .. Len(s) : (s \o new)[k] = s[k]
        /\ \A k \in 1 .. Len(new) : (s \o new)[Len(s) + k] = new[k]
    OBVIOUS
  <2> QED
    BY <2>1, <2>2
<1>3. \A k \in 1 .. last + 1 : CodeTokens(k)' = CodeTokens(k)
  BY <1>1, <1>2 DEF CodeTokens
<1>4. \A k \in 1 .. last + 1 : CodeBefore(k)' = CodeBefore(k)
  BY <1>3 DEF CodeBefore
<1>5. \A k \in 1 .. last : Above(k)' = Above(k)
  BY <1>1, <1>2 DEF Above
<1>6. \A k \in 1 .. last : TokenTyped(k) => TokenTyped(k)'
  <2>1. \A k \in 1 .. last : TextAddr(k)' = TextAddr(k)
    BY <1>1, <1>4 DEF TextAddr
  <2> QED
    BY <1>2, <1>5, <2>1 DEF TokenTyped
<1> QED
  BY <1>1, <1>2, <1>4, <1>6

(* 16-bit addresses add up as if they were cut once. *)
LEMMA W16Adds == \A x, y \in Nat : W16(W16(x) + y) = W16(x + y)
BY DEF W16

(* What is left to see of tokens that are appended. *)
LEMMA MoreTyped ==
  ASSUME LayoutInv, PassInv, phase = "types", NEW new \in Seq(AnyToken), Types(new),
         NEW last, last = Len(token), NEW size, size = Len(new),
         \A k \in 1 .. size : TokenTyped(last + k)',
         addr' = TextAddr(last + size + 1)'
  PROVE  PassInv'
<1>1. /\ phase' = "types" /\ label = <<>> /\ image = {} /\ constant = <<>>
      /\ token' = token \o new /\ UNCHANGED <<label, constant, image, textStart>>
  BY DEF Types, NextItem, PassInv, Progress, output
<1>2. /\ last \in Nat /\ size \in Nat /\ Len(token') = last + size
      /\ DOMAIN token = 1 .. last /\ DOMAIN token' = 1 .. last + size
      /\ \A k \in 1 .. last : TokenTyped(k) => TokenTyped(k)'
  BY <1>1, TokensAppended
<1>3. \A k \in DOMAIN token' : TokenTyped(k)'
  <2> SUFFICES ASSUME NEW k \in DOMAIN token' PROVE TokenTyped(k)'
    OBVIOUS
  <2>1. CASE k \in 1 .. last
    BY <1>2, <2>1 DEF PassInv, Tables
  <2>2. CASE k - last \in 1 .. size /\ last + (k - last) = k
    <3>1. TokenTyped(last + (k - last))'
      BY <2>2
    <3> QED
      BY <2>2, <3>1
  <2> QED
    BY <1>2, <2>1, <2>2
<1>4. Tables'
  BY <1>1, <1>3 DEF PassInv, Tables, IsList
<1>5. addr' = TextAddr(Len(token) + 1)'
  BY <1>2
<1>6. Progress'
  BY <1>1, <1>5 DEF Progress
<1> QED
  BY <1>4, <1>6 DEF PassInv

(* A line that makes one token. *)
LEMMA OneTyped ==
  ASSUME LayoutInv, PassInv, phase = "types", NEW t \in AnyToken, Types(<<t>>),
         t.type \in {"label", "scoped"} => t.addr = addr,
         t.type = "scoped" => ScopeAvailable /\ t.line.name # None,
         addr' = IF t.type = "asm" THEN W16(addr + 4) ELSE addr
  PROVE  PassInv'
<1>1. PICK last : last = Len(token)
  OBVIOUS
<1>2. PICK new \in Seq(AnyToken) : new = <<t>>
  <2>1. <<t>> \in Seq(AnyToken)
    OBVIOUS
  <2> QED
    BY <2>1
<1>3. Len(new) = 1 /\ new[1] = t
  BY <1>2
<1>4. token' = token \o new
  BY <1>2 DEF Types
<1>5. Types(new)
  BY <1>2
<1>6. /\ last \in Nat /\ DOMAIN token = 1 .. last
      /\ \A k \in 1 .. last : token'[k] = token[k]
      /\ token'[last + 1] = t /\ CodeBefore(last + 1)' = CodeBefore(last + 1)
  <2>1. /\ last \in Nat /\ DOMAIN token = 1 .. last
        /\ \A k \in 1 .. last : token'[k] = token[k]
        /\ \A k \in 1 .. Len(new) : token'[last + k] = new[k]
        /\ CodeBefore(last + 1)' = CodeBefore(last + 1)
    BY <1>1, <1>4, TokensAppended
  <2>2. 1 \in 1 .. Len(new)
    BY <1>3
  <2>3. token'[last + 1] = new[1]
    BY <2>1, <2>2
  <2> QED
    BY <1>3, <2>1, <2>3
<1>7. addr = W16(4 * CodeBefore(last + 1)) /\ CodeBefore(last + 1) \in Nat
  BY <1>1, <1>6, Counting DEF PassInv, Progress, TextAddr, CountsUp
<1>8. CodeBefore((last + 1) + 1)' = CodeBefore(last + 1) + IF t.type = "asm" THEN 1 ELSE 0
  BY <1>6, CountingNext DEF CountsUp
<1>9. addr' = TextAddr((last + 1) + 1)'
  <2>1. CASE t.type = "asm"
    <3>1. PICK n \in Nat : n = CodeBefore(last + 1)
      BY <1>7
    <3>2. W16(W16(4 * n) + 4) = W16(4 * (n + 1))
      BY W16Adds
    <3> QED
      BY <1>7, <1>8, <2>1, <3>1, <3>2 DEF TextAddr
  <2>2. CASE t.type # "asm"
    BY <1>7, <1>8, <2>2 DEF TextAddr
  <2> QED
    BY <2>1, <2>2
<1>10. TokenTyped(last + 1)'
  <2>1. t.type \in {"label", "scoped"} => t.addr = TextAddr(last + 1)'
    BY <1>6, <1>7 DEF TextAddr
  <2>2. t.type = "scoped" => Above(last + 1)' # {}
    <3> SUFFICES ASSUME t.type = "scoped" PROVE Above(last + 1)' # {}
      OBVIOUS
    <3>1. PICK k \in 1 .. last : token[k].type = "label"
      BY <1>6 DEF ScopeAvailable
    <3>2. k \in Above(last + 1)'
      BY <1>6, <3>1 DEF Above
    <3> QED
      BY <3>2
  <2> QED
    BY <1>6, <2>1, <2>2 DEF TokenTyped
<1>11. \A k \in 1 .. 1 : TokenTyped(last + k)'
  <2> SUFFICES ASSUME NEW k \in 1 .. 1 PROVE TokenTyped(last + k)'
    OBVIOUS
  <2>1. last + k = last + 1
    OBVIOUS
  <2> QED
    BY <1>10, <2>1
<1> QED
  BY <1>1, <1>3, <1>5, <1>9, <1>11, MoreTyped

(* A call makes as many code tokens as its address counts. *)
LEMMA CallTyped ==
  ASSUME LayoutInv, PassInv, phase = "types", NEW l \in SourceLine, Types(CallTokens(l)),
         addr' = W16(addr + 4 * (3 * l.size + 1))
  PROVE  PassInv'
<1>1. PICK last : last = Len(token)
  OBVIOUS
<1>2. PICK n \in Nat : n = 3 * l.size + 1
  <2>1. l.size \in Nat
    BY LineFacts
  <2> QED
    BY <2>1
<1>3. PICK new \in Seq(AnyToken) : new = CallTokens(l)
  BY CallTokensType DEF LayoutInv
<1>4. DOMAIN new = 1 .. n /\ \A k \in 1 .. n : new[k].type = "asm"
  BY <1>2, <1>3 DEF CallTokens, Token
<1>5. Len(new) = n
  BY <1>4
<1>6. token' = token \o new /\ Types(new)
  BY <1>3 DEF Types
<1>7. /\ last \in Nat
      /\ \A k \in 1 .. n : token'[last + k] = new[k]
      /\ CodeBefore(last + 1)' = CodeBefore(last + 1)
  BY <1>1, <1>5, <1>6, TokensAppended
<1>8. \A k \in 1 .. n : token'[last + k].type = "asm"
  BY <1>4, <1>7
<1>9. \A k \in 1 .. n : TokenTyped(last + k)'
  BY <1>8 DEF TokenTyped
<1>10. addr = W16(4 * CodeBefore(last + 1)) /\ CodeBefore(last + 1) \in Nat
  BY <1>1, <1>7, Counting DEF PassInv, Progress, TextAddr, CountsUp
<1>11. CodeBefore((last + 1) + n)' = CodeBefore(last + 1) + n
  <2>1. \A j \in last + 1 .. (last + 1) + n - 1 : token'[j].type = "asm"
    <3> SUFFICES ASSUME NEW j \in last + 1 .. (last + 1) + n - 1 PROVE token'[j].type = "asm"
      OBVIOUS
    <3>1. j - last \in 1 .. n /\ last + (j - last) = j
      BY <1>7
    <3> QED
      BY <1>8, <3>1
  <2>2. PICK m \in Nat \ {0} : m = last + 1
    BY <1>7
  <2>3. CodeBefore(m + n)' = CodeBefore(m)' + n
    BY <2>1, <2>2, CountingNext DEF CountsRows
  <2> QED
    BY <1>7, <2>2, <2>3
<1>12. addr' = TextAddr(last + n + 1)'
  <2>1. PICK m \in Nat : m = CodeBefore(last + 1)
    BY <1>10
  <2>2. W16(W16(4 * m) + 4 * n) = W16(4 * (m + n))
    BY W16Adds
  <2>3. (last + 1) + n = last + n + 1
    BY <1>7
  <2> QED
    BY <1>2, <1>10, <1>11, <2>1, <2>2, <2>3 DEF TextAddr
<1> QED
  BY <1>1, <1>5, <1>6, <1>9, <1>12, MoreTyped

(* The first pass gives labels the addresses that the last one will use.   *)
LEMMA TypeLinePasses ==
  ASSUME LayoutInv, PassInv, TypeLine
  PROVE  PassInv'
<1> DEFINE line == source[at]
<1>1. /\ line \in SourceLine /\ line \in TokenLine
      /\ line.kind = "scoped" => line.name # None
  <2>1. line \in SourceLine /\ at \in DOMAIN source /\ source \in Programs
    BY LineFacts DEF LayoutInv, TypeLine, Passing
  <2> QED
    BY <2>1, LineFacts, ProgramsAssumption
<1>2. phase = "types" /\ addr \in Nat
  BY DEF TypeLine, Passing, LayoutInv
<1>3. ASSUME NEW type \in TokenType, NEW a \in Nat
      PROVE  /\ Token(type, a, line) \in AnyToken /\ Token(type, a, line).type = type
             /\ Token(type, a, line).addr = a /\ Token(type, a, line).line = line
  BY <1>1 DEF AnyToken, Token
<1>4. {"label", "scoped", "section", "const", "data", "asm"} = TokenType /\ 0 \in Nat
  BY DEF TokenType
<1>5. \/ /\ Types(<<Token(line.kind, addr, line)>>) /\ addr' = addr
         /\ line.kind = "label" \/ (line.kind = "scoped" /\ ScopeAvailable)
      \/ Types(<<Token("section", 0, line)>>) /\ addr' = addr
      \/ Types(<<Token("const", 0, line)>>) /\ addr' = addr
      \/ Types(<<Token("data", 0, line)>>) /\ addr' = addr
      \/ Types(<<Token("asm", addr, line)>>) /\ addr' = W16(addr + 4)
      \/ Types(CallTokens(line)) /\ addr' = W16(addr + 4 * (3 * line.size + 1))
  BY Zenon DEF TypeLine
<1> HIDE DEF line
<1>6. CASE /\ Types(<<Token(line.kind, addr, line)>>) /\ addr' = addr
           /\ line.kind = "label" \/ (line.kind = "scoped" /\ ScopeAvailable)
  <2>1. PICK t \in AnyToken : /\ t = Token(line.kind, addr, line) /\ t.type = line.kind
                              /\ t.addr = addr /\ t.line = line
    BY <1>2, <1>3, <1>4, <1>6
  <2> QED
    BY <1>1, <1>2, <1>6, <2>1, OneTyped
<1>7. ASSUME NEW type \in {"section", "const", "data"}, Types(<<Token(type, 0, line)>>), addr' = addr
      PROVE  PassInv'
  <2>1. PICK t \in AnyToken : t = Token(type, 0, line) /\ t.type = type
    BY <1>3, <1>4
  <2> QED
    BY <1>2, <1>7, <2>1, OneTyped
<1>8. CASE Types(<<Token("asm", addr, line)>>) /\ addr' = W16(addr + 4)
  <2>1. PICK t \in AnyToken : t = Token("asm", addr, line) /\ t.type = "asm"
    BY <1>2, <1>3, <1>4
  <2> QED
    BY <1>2, <1>8, <2>1, OneTyped
<1>9. CASE Types(CallTokens(line)) /\ addr' = W16(addr + 4 * (3 * line.size + 1))
  BY <1>1, <1>2, <1>9, CallTyped
<1> QED
  BY <1>5, <1>6, <1>7, <1>8, <1>9

-----------------------------------------------------------------------------
(* A table that a step may add to. *)
Grows(old, new) == new = old \/ \E x : new = Append(old, x)

LEMMA GrowsFacts ==
  \A old, new : IsList(old) /\ Grows(old, new) =>
    /\ IsList(new) /\ Len(old) \in Nat /\ DOMAIN old = 1 .. Len(old)
    /\ \A i \in DOMAIN old : i \in DOMAIN new /\ new[i] = old[i]
<1> SUFFICES ASSUME NEW old, NEW new, IsList(old), Grows(old, new)
             PROVE  /\ IsList(new) /\ Len(old) \in Nat /\ DOMAIN old = 1 .. Len(old)
                    /\ \A i \in DOMAIN old : i \in DOMAIN new /\ new[i] = old[i]
  OBVIOUS
<1>1. Len(old) \in Nat /\ DOMAIN old = 1 .. Len(old)
  BY ListGrows
<1>2. CASE new = old
  BY <1>1, <1>2
<1>3. CASE \E x : new = Append(old, x)
  <2>1. PICK x : new = Append(old, x)
    BY <1>3
  <2>2. /\ IsList(new) /\ DOMAIN new = 1 .. Len(old) + 1
        /\ \A i \in DOMAIN old : new[i] = old[i]
    BY <2>1, ListGrows
  <2> QED
    BY <1>1, <2>2
<1> QED
  BY <1>2, <1>3 DEF Grows

(* What the tables and the image hold remains true as they grow. *)
LEMMA EntriesStay ==
  ASSUME Tables, UNCHANGED <<token, textStart>>, image \subseteq image',
         Grows(label, label'), Grows(constant, constant'),
         phase \in {"emit", "written"} => phase' \in {"emit", "written"}
  PROVE  /\ \A k, l : Defines(k, l) => Defines(k, l)'
         /\ \A k, c : DefinesConstant(k, c) => DefinesConstant(k, c)'
         /\ \A e : Emitted(e) => Emitted(e)'
<1>1. /\ \A i \in DOMAIN label : i \in DOMAIN label' /\ label'[i] = label[i]
      /\ \A i \in DOMAIN constant : i \in DOMAIN constant' /\ constant'[i] = constant[i]
  BY GrowsFacts DEF Tables
<1>2. \A k, l : Defines(k, l) => Defines(k, l)'
  BY TokensStay DEF Defines
<1>3. \A l : Stands(l)' = Stands(l)
  BY DEF Stands
<1>4. \A k, c : DefinesConstant(k, c) => DefinesConstant(k, c)'
  BY <1>1, <1>3 DEF DefinesConstant
<1>5. \A e : LookedUp(e) => LookedUp(e)'
  BY <1>1, <1>3, TokensStay DEF LookedUp
<1>6. \A e : Emitted(e) => Emitted(e)'
  BY <1>5, TokensStay DEF Emitted
<1> QED
  BY <1>2, <1>4, <1>6

LEMMA TablesGrow ==
  ASSUME Tables, UNCHANGED <<token, textStart>>, image \subseteq image',
         Grows(label, label'), Grows(constant, constant'),
         phase \in {"emit", "written"} => phase' \in {"emit", "written"},
         label' = label \/ \E l : /\ label' = Append(label, l)
                                  /\ \E k \in DOMAIN token : Defines(k, l)',
         constant' = constant \/ \E c : /\ constant' = Append(constant, c)
                                        /\ \E k \in DOMAIN token : DefinesConstant(k, c)',
         \A e \in image' : e \in image \/ Emitted(e)'
  PROVE  Tables'
<1>1. IsList(label)' /\ IsList(constant)'
  <2>1. IsList(label') /\ IsList(constant')
    BY GrowsFacts DEF Tables
  <2> QED
    BY <2>1 DEF IsList
<1>2. \A k \in DOMAIN token' : TokenTyped(k)'
  BY TokensStay DEF Tables
<1>3. \A i \in DOMAIN label' : \E k \in DOMAIN token' : Defines(k, label[i])'
  <2> SUFFICES ASSUME NEW i \in DOMAIN label', NEW x, x = label'[i]
               PROVE  \E k \in DOMAIN token : Defines(k, x)'
    OBVIOUS
  <2>1. CASE \E j \in DOMAIN label : x = label[j]
    BY <2>1, EntriesStay DEF Tables
  <2>2. CASE \E l : label' = Append(label, l) /\ x = l
    BY <2>2
  <2> QED
    BY <2>1, <2>2, ListGrows DEF Tables
<1>4. \A i \in DOMAIN constant' : \E k \in DOMAIN token' : DefinesConstant(k, constant[i])'
  <2> SUFFICES ASSUME NEW i \in DOMAIN constant', NEW x, x = constant'[i]
               PROVE  \E k \in DOMAIN token : DefinesConstant(k, x)'
    OBVIOUS
  <2>1. CASE \E j \in DOMAIN constant : x = constant[j]
    BY <2>1, EntriesStay DEF Tables
  <2>2. CASE \E c : constant' = Append(constant, c) /\ x = c
    BY <2>2
  <2> QED
    BY <2>1, <2>2, ListGrows DEF Tables
<1>5. \A e \in image' : Emitted(e)'
  BY EntriesStay DEF Tables
<1> QED
  BY <1>1, <1>2, <1>3, <1>4, <1>5 DEF Tables

(* A step that only moves on to another phase keeps the tables. *)
LEMMA TablesKept ==
  ASSUME Tables, UNCHANGED <<token, label, constant, image, textStart>>,
         phase \in {"emit", "written"} => phase' \in {"emit", "written"}
  PROVE  Tables'
<1>1. Grows(label, label') /\ Grows(constant, constant') /\ \A e \in image' : e \in image
  BY DEF Grows
<1> QED
  BY <1>1, TablesGrow

NothingFirst == ScopeAt(0) = None /\ CodeBefore(1) = 0 /\ CodeTokens(1) = {}

LEMMA FirstNext == NothingFirst'
<1>1. NothingFirst
  BY ScopeFirst, CountFirst DEF NothingFirst
<1> QED
  BY <1>1, PTL

LEMMA TypesOverPasses == LayoutInv /\ PassInv /\ TypesOver => PassInv'
<1> SUFFICES ASSUME LayoutInv, PassInv, TypesOver PROVE PassInv'
  OBVIOUS
<1>1. /\ phase = "types" /\ phase' = "labels" /\ at' = 1 /\ scope' = None
      /\ UNCHANGED <<token, label, constant, image, textStart>>
  BY DEF TypesOver, PassOver, Turn, tables, output
<1>2. Tables'
  BY <1>1, TablesKept DEF PassInv
<1>3. scope' = ScopeAt(at - 1)'
  <2>1. ScopeAt(0)' = None
    BY FirstNext DEF NothingFirst
  <2>2. at' - 1 = 0
    BY <1>1
  <2> QED
    BY <1>1, <2>1, <2>2
<1>4. Progress'
  BY <1>1, <1>3 DEF PassInv, Progress
<1> QED
  BY <1>2, <1>4 DEF PassInv

LEMMA LabelsOverPasses == LayoutInv /\ PassInv /\ LabelsOver => PassInv'
<1> SUFFICES ASSUME LayoutInv, PassInv, LabelsOver PROVE PassInv'
  OBVIOUS
<1>1. /\ phase = "labels" /\ phase' = "sections"
      /\ UNCHANGED <<token, label, constant, image, textStart>>
  BY DEF LabelsOver, PassOver, Turn, tables, output
<1>2. Tables'
  BY <1>1, TablesKept DEF PassInv
<1>3. Progress'
  BY <1>1 DEF PassInv, Progress
<1> QED
  BY <1>2, <1>3 DEF PassInv

(* Scopes are followed alike by the two passes that look at labels. *)
LEMMA ScopeFollowed ==
  ASSUME LayoutInv, at \in DOMAIN token, scope = ScopeAt(at - 1), UNCHANGED token,
         at' = at + 1,
         scope' = IF token[at].type = "label" THEN token[at].line.name ELSE scope
  PROVE  scope' = ScopeAt(at - 1)'
<1>1. PICK k \in Nat \ {0} : k = at
  BY DEF LayoutInv
<1>2. scope' = ScopeAt(k)
  BY <1>1, ScopeStep
<1>3. at' - 1 = k
  BY <1>1
<1>4. ScopeAt(k)' = ScopeAt(k)
  BY TokensStay
<1> QED
  BY <1>2, <1>3, <1>4

(* The label pass files a scoped label under the function it stands in. *)
LEMMA CollectLabelPasses ==
  ASSUME LayoutInv, PassInv, CollectLabel, phase' \notin GivenUp
  PROVE  PassInv'
<1> DEFINE t == token[at]
           name == IF t.type = "label" THEN Plain(t.line.name) ELSE Scoped(scope, t.line.name)
<1>1. /\ phase = "labels" /\ constant = <<>> /\ scope = ScopeAt(at - 1)
      /\ UNCHANGED <<token, constant, image, textStart>>
  BY DEF CollectLabel, Passing, PassInv, Progress, output
<1>2. at \in DOMAIN token /\ at \in Nat \ {0}
  BY DEF CollectLabel, Passing, LayoutInv
<1>3. /\ phase' = phase /\ at' = at + 1
      /\ scope' = IF t.type = "label" THEN t.line.name ELSE scope
      /\ \/ t.type \notin {"label", "scoped"} /\ label' = label
         \/ t.type \in {"label", "scoped"} /\ label' = Append(label, Label(name, t.addr, TRUE))
  BY DEF GivenUp, CollectLabel, NextItem, Fail, AddLabel
<1>4. scope' = ScopeAt(at - 1)'
  BY <1>1, <1>2, <1>3, ScopeFollowed
<1>5. ASSUME t.type \in {"label", "scoped"}
      PROVE  Defines(at, Label(name, t.addr, TRUE))
  <2>1. TokenTyped(at)
    BY <1>2 DEF PassInv, Tables
  <2>2. t.type = "scoped" => Above(at) # {} /\ scope = Owner(at)
    BY <1>1, <1>2, <2>1, ScopeStep DEF TokenTyped, ScopeAt
  <2> QED
    BY <1>5, <2>1, <2>2 DEF Defines, TokenTyped, Label
<1>6. label' = label \/ \E l : /\ label' = Append(label, l)
                               /\ \E k \in DOMAIN token : Defines(k, l)'
  <2>1. PICK k, l : k = at /\ l = Label(name, t.addr, TRUE)
    OBVIOUS
  <2>2. Defines(k, l) => Defines(k, l)'
    BY <1>1, TokensStay DEF Defines
  <2> HIDE DEF t, name
  <2> QED
    BY <1>2, <1>3, <1>5, <2>1, <2>2
<1>7. Tables'
  <2>1. Grows(label, label') /\ Grows(constant, constant')
    BY <1>1, <1>6 DEF Grows
  <2> QED
    BY <1>1, <1>3, <1>6, <2>1, TablesGrow DEF PassInv
<1>8. Progress'
  BY <1>1, <1>3, <1>4 DEF Progress
<1> QED
  BY <1>7, <1>8 DEF PassInv

(* Data is placed where its label says. *)
LEMMA PlaceDataPasses ==
  ASSUME LayoutInv, PassInv, PlaceData, phase' \notin GivenUp
  PROVE  PassInv'
<1>1. /\ phase = "sections" /\ constant = <<>> /\ UNCHANGED <<token, constant, textStart>>
  BY DEF PlaceData, Passing, PassInv, Progress
<1>2. at \in DOMAIN token
  BY DEF PlaceData, Passing, LayoutInv
<1>3. PICK k, t, e, l : /\ k = at /\ t = token[k]
                        /\ e = Extent(uaddr, t.line.size, k, 0)
                        /\ l = Label(Plain(t.line.name), uaddr, FALSE)
  OBVIOUS
<1>4. /\ phase' = phase
      /\ \/ UNCHANGED <<label, image>>
         \/ t.type = "data" /\ label' = Append(label, l) /\ image' = image \cup {e}
  BY <1>3 DEF GivenUp, PlaceData, NextItem, Fail, AddLabel, Place
<1>5. /\ e.token = k /\ e.from = uaddr
      /\ l.addr = uaddr /\ l.name = Plain(t.line.name) /\ l.rel = FALSE
  BY <1>3 DEF Extent, Label
<1>6. ASSUME t.type = "data", image' = image \cup {e}
      PROVE  Emitted(e)' /\ Defines(k, l)'
  <2>1. k \in DOMAIN token' /\ token'[k].type = "data" /\ token'[k].line = t.line /\ e \in image'
    BY <1>1, <1>2, <1>3, <1>6
  <2>2. Emitted(e)'
    BY <1>5, <2>1 DEF Emitted
  <2>3. Defines(k, l)'
    BY <1>5, <2>1 DEF Defines
  <2> QED
    BY <2>2, <2>3
<1>7. /\ Grows(label, label') /\ Grows(constant, constant') /\ image \subseteq image'
      /\ \A x \in image' : x \in image \/ Emitted(x)'
      /\ label' = label \/ \E x : /\ label' = Append(label, x)
                                  /\ \E j \in DOMAIN token : Defines(j, x)'
  <2>1. CASE UNCHANGED <<label, image>>
    BY <1>1, <2>1 DEF Grows
  <2>2. CASE t.type = "data" /\ label' = Append(label, l) /\ image' = image \cup {e}
    BY <1>1, <1>2, <1>3, <1>6, <2>2 DEF Grows
  <2> QED
    BY <1>4, <2>1, <2>2
<1>8. Tables'
  BY <1>1, <1>4, <1>7, TablesGrow DEF PassInv
<1>9. Progress'
  BY <1>1, <1>4 DEF Progress
<1> QED
  BY <1>8, <1>9 DEF PassInv

(* The text starts after the data; until then nothing depends on its start. *)
LEMMA SectionsOverPasses == LayoutInv /\ PassInv /\ SectionsOver => PassInv'
<1> SUFFICES ASSUME LayoutInv, PassInv, SectionsOver PROVE PassInv'
  OBVIOUS
<1>1. /\ phase = "sections" /\ phase' = "start" /\ constant = <<>>
      /\ UNCHANGED <<token, label, constant, image>>
      /\ uaddr' = textStart' /\ textStart' \in Nat
  BY AlignedUp DEF SectionsOver, PassOver, Turn, tables, PassInv, Progress, LayoutInv
<1>2. \A k, l : Defines(k, l) => Defines(k, l)'
  BY <1>1, TokensStay DEF Defines
<1>3. \A e \in image' : Emitted(e)'
  BY <1>1 DEF PassInv, Tables, Emitted
<1>4. \A i \in DOMAIN label' : \E k \in DOMAIN token' : Defines(k, label[i])'
  <2> SUFFICES ASSUME NEW i \in DOMAIN label', NEW x, x = label'[i]
               PROVE  \E k \in DOMAIN token : Defines(k, x)'
    BY <1>1
  <2> QED
    BY <1>1, <1>2 DEF PassInv, Tables
<1>5. Tables'
  BY <1>1, <1>3, <1>4, TokensStay DEF PassInv, Tables, IsList
<1>6. Progress'
  BY <1>1 DEF Progress
<1> QED
  BY <1>5, <1>6 DEF PassInv

LEMMA InsertStartPasses ==
  ASSUME LayoutInv, PassInv, InsertStart, phase' \notin GivenUp
  PROVE  PassInv'
<1>1. /\ phase = "start" /\ phase' = "constants"
      /\ UNCHANGED <<token, label, constant, image, uaddr, textStart>>
  BY DEF GivenUp, InsertStart, Fail, Turn, tables
<1>2. Tables'
  BY <1>1, TablesKept DEF PassInv
<1>3. Progress'
  BY <1>1 DEF PassInv, Progress
<1> QED
  BY <1>2, <1>3 DEF PassInv

(* Looking a name up finds an entry of that name, when there is one. *)
LEMMA LookupFinds ==
  ASSUME NEW list, IsList(list), NEW name, \E k \in DOMAIN list : list[k].name = name
  PROVE  First(list, name) \in DOMAIN list /\ list[First(list, name)].name = name
<1>1. Len(list) \in Nat /\ DOMAIN list = 1 .. Len(list)
  BY ListGrows
<1> DEFINE S == {k \in DOMAIN list : list[k].name = name}
<1>2. PICK k \in S : \A j \in S : k <= j
  <2>1. S \in SUBSET Nat /\ S # {}
    BY <1>1
  <2> HIDE DEF S
  <2> QED
    BY <2>1, LeastNat
<1>3. k \in DOMAIN list /\ list[k].name = name /\ \A j \in 1 .. k - 1 : list[j].name # name
  BY <1>1, <1>2
<1> QED
  BY <1>3 DEF First

LEMMA LabelFound ==
  ASSUME Tables, NEW name, IsDefined(name)
  PROVE  \E j \in DOMAIN label : label[j].name = name /\ LabelLookup(name) = Stands(label[j])
BY LookupFinds DEF IsDefined, LabelLookup, Stands, Tables

(* A constant is a number or the place of a label. *)
LEMMA EvaluateConstantPasses ==
  ASSUME LayoutInv, PassInv, EvaluateConstant, phase' \notin GivenUp
  PROVE  PassInv'
<1>1. /\ phase = "constants" /\ phase' = phase
      /\ UNCHANGED <<token, label, image, uaddr, textStart>>
  BY DEF GivenUp, EvaluateConstant, Passing, NextItem, Fail, output
<1>2. at \in DOMAIN token
  BY DEF EvaluateConstant, Passing, LayoutInv
<1>3. PICK k, t, v, c : /\ k = at /\ t = token[k]
                        /\ v = IF t.line.ref = NoRef THEN t.line.size ELSE LabelLookup(t.line.ref)
                        /\ c = [name |-> Plain(t.line.name), value |-> W16(v)]
  OBVIOUS
<1>4. \/ UNCHANGED constant
      \/ /\ t.type = "const" /\ ~IsScoped(t.line.ref) /\ v # NOT_FOUND
         /\ constant' = Append(constant, c)
  BY <1>3 DEF EvaluateConstant, Fail
<1>5. ASSUME t.type = "const", ~IsScoped(t.line.ref), v # NOT_FOUND
      PROVE  DefinesConstant(k, c)
  <2>1. c.name = Plain(t.line.name) /\ c.value = W16(v)
    BY <1>3
  <2>2. CASE t.line.ref = NoRef
    BY <1>3, <1>5, <2>1, <2>2 DEF DefinesConstant
  <2>3. CASE t.line.ref # NoRef
    <3>1. v = LabelLookup(t.line.ref) /\ IsDefined(t.line.ref)
      BY <1>3, <1>5, <2>3 DEF LabelLookup
    <3>2. PICK j \in DOMAIN label : label[j].name = t.line.ref /\ v = Stands(label[j])
      BY <3>1, LabelFound DEF PassInv
    <3> QED
      BY <1>3, <1>5, <2>1, <3>2 DEF DefinesConstant
  <2> QED
    BY <2>2, <2>3
<1>6. DefinesConstant(k, c) => DefinesConstant(k, c)'
  <2>1. \A l : Stands(l)' = Stands(l)
    BY <1>1 DEF Stands
  <2> QED
    BY <1>1, <2>1 DEF DefinesConstant
<1>7. /\ Grows(label, label') /\ Grows(constant, constant') /\ image \subseteq image'
      /\ \A x \in image' : x \in image
      /\ constant' = constant \/ \E x : /\ constant' = Append(constant, x)
                                        /\ \E j \in DOMAIN token : DefinesConstant(j, x)'
  BY <1>1, <1>2, <1>3, <1>4, <1>5, <1>6 DEF Grows
<1>8. Tables'
  BY <1>1, <1>7, TablesGrow DEF PassInv
<1>9. Progress'
  BY <1>1 DEF PassInv, Progress
<1> QED
  BY <1>8, <1>9 DEF PassInv

LEMMA ConstantsOverPasses == LayoutInv /\ PassInv /\ ConstantsOver => PassInv'
<1> SUFFICES ASSUME LayoutInv, PassInv, ConstantsOver PROVE PassInv'
  OBVIOUS
<1>1. /\ phase = "constants" /\ phase' = "emit" /\ at' = 1 /\ scope' = None
      /\ uaddr = textStart /\ textStart \in Nat
      /\ UNCHANGED <<token, label, constant, image, uaddr, textStart>>
  BY DEF ConstantsOver, PassOver, Turn, tables, output, PassInv, Progress, Tables
<1>2. Tables'
  BY <1>1, TablesKept DEF PassInv
<1>3. scope' = ScopeAt(at - 1)'
  <2>1. at' - 1 = 0
    BY <1>1
  <2> QED
    BY <1>1, <2>1, FirstNext DEF NothingFirst
<1>4. CodeBefore(at)' = 0 /\ CodeTokens(at)' = {}
  BY <1>1, FirstNext DEF NothingFirst
<1>5. at' <= Len(token') + 1 /\ uaddr' = textStart' + 4 * CodeBefore(at)'
  BY <1>1, <1>4 DEF LayoutInv
<1>6. Progress'
  BY <1>1, <1>3, <1>4, <1>5 DEF Progress
<1> QED
  BY <1>2, <1>6 DEF PassInv

(* The operand that the last pass writes is what a table gives for it. *)
LEMMA OperandFound ==
  ASSUME Tables, NEW ref, IsScoped(ref) => scope # None, ref # NoRef => Resolve(ref) # NOT_FOUND
  PROVE  \/ ref = NoRef
         \/ \E j \in DOMAIN label :
              /\ \/ ~IsScoped(ref) /\ label[j].name = ref
                 \/ IsScoped(ref) /\ label[j].name = Scoped(scope, ref[2])
              /\ Resolve(ref) = W16(Stands(label[j]))
         \/ \E c \in DOMAIN constant : constant[c].name = ref /\ Resolve(ref) = constant[c].value
<1> SUFFICES ASSUME ref # NoRef
             PROVE  \/ \E j \in DOMAIN label :
                         /\ \/ ~IsScoped(ref) /\ label[j].name = ref
                            \/ IsScoped(ref) /\ label[j].name = Scoped(scope, ref[2])
                         /\ Resolve(ref) = W16(Stands(label[j]))
                    \/ \E c \in DOMAIN constant :
                         constant[c].name = ref /\ Resolve(ref) = constant[c].value
  OBVIOUS
<1>1. CASE LabelLookup(Target(ref)) # NOT_FOUND
  <2>1. PICK j \in DOMAIN label : /\ label[j].name = Target(ref)
                                  /\ LabelLookup(Target(ref)) = Stands(label[j])
    BY <1>1, LabelFound DEF LabelLookup
  <2>2. Resolve(ref) = W16(Stands(label[j]))
    BY <1>1, <2>1 DEF Resolve
  <2> QED
    BY <2>1, <2>2 DEF Target
<1>2. CASE LabelLookup(Target(ref)) = NOT_FOUND
  <2>1. Resolve(ref) = ConstantLookup(ref)
    BY <1>2 DEF Resolve
  <2>2. \E k \in DOMAIN constant : constant[k].name = ref
    BY <2>1 DEF ConstantLookup
  <2> QED
    BY <2>1, <2>2, LookupFinds DEF ConstantLookup, Tables
<1> QED
  BY <1>1, <1>2

(* The last pass places the code where the first one counted it. *)
LEMMA EmitLinePasses ==
  ASSUME LayoutInv, PassInv, ImageFits', EmitLine, phase' \notin GivenUp
  PROVE  PassInv'
<1>1. /\ phase = "emit" /\ phase' = phase /\ at' = at + 1
      /\ UNCHANGED <<token, label, constant, textStart>>
      /\ scope = ScopeAt(at - 1) /\ textStart \in Nat
      /\ uaddr = textStart + 4 * CodeBefore(at)
      /\ \A j \in CodeTokens(at) : \E e \in image : e.token = j
  BY DEF GivenUp, EmitLine, Passing, NextItem, Fail, tables, PassInv, Progress, Tables
<1>2. PICK k \in Nat \ {0} : k = at
  BY DEF LayoutInv
<1>3. k \in DOMAIN token /\ k <= Len(token) /\ Len(token) \in Nat
  BY <1>2 DEF EmitLine, Passing, LayoutInv
<1>4. PICK t, r : t = token[k] /\ r = Resolve(t.line.ref)
  OBVIOUS
<1>5. PICK e : e = Extent(uaddr, 4, k, r)
  OBVIOUS
<1>6. /\ scope' = IF t.type = "label" THEN t.line.name ELSE scope
      /\ \/ t.type # "asm" /\ UNCHANGED <<image, uaddr>>
         \/ /\ t.type = "asm" /\ image' = image \cup {e} /\ uaddr' = uaddr + 4
            /\ IsScoped(t.line.ref) => scope # None
            /\ r # NOT_FOUND
  <2>1. /\ scope' = IF t.type = "label" THEN t.line.name ELSE scope
        /\ \/ t.type # "asm" /\ UNCHANGED <<image, uaddr>>
           \/ /\ t.type = "asm" /\ image' = image \cup {e} /\ uaddr' = W16(uaddr + 4)
              /\ IsScoped(t.line.ref) => scope # None
              /\ r # NOT_FOUND
    BY <1>2, <1>4, <1>5 DEF EmitLine, Fail, GivenUp, Place
  <2>2. image' = image \cup {e} => W16(uaddr + 4) = uaddr + 4
    <3>1. e.from = uaddr /\ e.size = 4
      BY <1>5 DEF Extent
    <3> QED
      BY <3>1, PlacedBelow
  <2> QED
    BY <2>1, <2>2
<1>7. scope' = ScopeAt(at - 1)'
  BY <1>1, <1>2, <1>3, <1>4, <1>6, ScopeFollowed
<1>8. /\ CodeBefore(k) \in Nat
      /\ CodeBefore(k + 1) = CodeBefore(k) + IF t.type = "asm" THEN 1 ELSE 0
  BY <1>4, CountStep
<1>9. CodeBefore(k + 1)' = CodeBefore(k + 1) /\ CodeTokens(k + 1)' = CodeTokens(k + 1)
  BY <1>1, TokensStay
<1>10. at' = k + 1
  BY <1>1, <1>2
<1>11. uaddr' = textStart' + 4 * CodeBefore(at)'
  <2>1. uaddr' = textStart + 4 * CodeBefore(k + 1)
    BY <1>1, <1>2, <1>6, <1>8
  <2> QED
    BY <1>1, <1>9, <1>10, <2>1
<1>12. \A j \in CodeTokens(at)' : \E x \in image' : x.token = j
  <2>1. \A j \in CodeTokens(k + 1) : j \in CodeTokens(k) \/ (j = k /\ t.type = "asm")
    BY <1>4 DEF CodeTokens
  <2>2. t.type = "asm" => e \in image' /\ e.token = k
    BY <1>5, <1>6 DEF Extent
  <2>3. image \subseteq image'
    BY <1>6
  <2>4. \A j \in CodeTokens(k + 1) : \E x \in image' : x.token = j
    BY <1>1, <1>2, <2>1, <2>2, <2>3
  <2> QED
    BY <1>9, <1>10, <2>4
<1>13. ASSUME t.type = "asm", image' = image \cup {e} PROVE Emitted(e)'
  <2>1. e.token = k /\ e.from = uaddr /\ e.value = r
    BY <1>5 DEF Extent
  <2>2. LookedUp(e)
    <3>1. ~IsScoped(t.line.ref) \/ (Above(k) # {} /\ scope = Owner(k))
      <4>1. t.type # "label"
        BY <1>13
      <4>2. Above(k) = Above(k - 1) /\ Owner(k) = Owner(k - 1)
        BY <1>4, <4>1, ScopeStep
      <4>3. IsScoped(t.line.ref) => scope # None
        BY <1>6, <1>13
      <4> QED
        BY <1>1, <1>2, <4>2, <4>3 DEF ScopeAt
    <3>2. IsScoped(t.line.ref) => scope # None
      BY <1>6, <1>13
    <3>3. r # NOT_FOUND
      BY <1>6, <1>13
    <3>4. PICK ref : ref = t.line.ref
      OBVIOUS
    <3>5. \/ ref = NoRef
          \/ \E j \in DOMAIN label :
               /\ \/ ~IsScoped(ref) /\ label[j].name = ref
                  \/ IsScoped(ref) /\ label[j].name = Scoped(scope, ref[2])
               /\ r = W16(Stands(label[j]))
          \/ \E c \in DOMAIN constant : constant[c].name = ref /\ r = constant[c].value
      BY <1>4, <3>2, <3>3, <3>4, OperandFound DEF PassInv
    <3> QED
      BY <1>4, <2>1, <3>1, <3>4, <3>5 DEF LookedUp
  <2>3. LookedUp(e)'
    <3>1. \A l : Stands(l)' = Stands(l)
      BY <1>1 DEF Stands
    <3> QED
      BY <1>1, <2>2, <3>1, TokensStay DEF LookedUp
  <2>4. CodeBefore(k)' = CodeBefore(k)
    BY <1>1, TokensStay
  <2> QED
    BY <1>1, <1>2, <1>3, <1>4, <1>13, <2>1, <2>3, <2>4 DEF Emitted
<1>14. Tables'
  <2>1. /\ Grows(label, label') /\ Grows(constant, constant') /\ image \subseteq image'
        /\ \A x \in image' : x \in image \/ Emitted(x)'
    BY <1>1, <1>6, <1>13 DEF Grows
  <2> QED
    BY <1>1, <2>1, TablesGrow DEF PassInv
<1>15. at' <= Len(token') + 1
  BY <1>1, <1>3, <1>10
<1>16. Progress'
  BY <1>1, <1>7, <1>11, <1>12, <1>15 DEF Progress
<1> QED
  BY <1>14, <1>16 DEF PassInv

LEMMA EmitOverPasses == LayoutInv /\ PassInv /\ EmitOver => PassInv'
<1> SUFFICES ASSUME LayoutInv, PassInv, EmitOver PROVE PassInv'
  OBVIOUS
<1>1. /\ phase = "emit" /\ phase' = "written" /\ at = Len(token) + 1
      /\ UNCHANGED <<token, label, constant, image, uaddr, textStart, at>>
  BY DEF EmitOver, PassOver, tables, output, PassInv, Progress, LayoutInv
<1>2. Tables'
  BY <1>1, TablesKept DEF PassInv
<1>3. PICK k : k = at /\ k = at'
  BY <1>1
<1>4. /\ uaddr = textStart + 4 * CodeBefore(k)
      /\ \A j \in CodeTokens(k) : \E e \in image : e.token = j
  BY <1>1, <1>3 DEF PassInv, Progress
<1>5. CodeBefore(k)' = CodeBefore(k) /\ CodeTokens(k)' = CodeTokens(k)
  BY <1>1, TokensStay
<1>6. /\ uaddr' = textStart' + 4 * CodeBefore(at)'
      /\ \A j \in CodeTokens(at)' : \E e \in image' : e.token = j
  BY <1>1, <1>3, <1>4, <1>5
<1>7. Progress'
  BY <1>1, <1>6 DEF Progress
<1> QED
  BY <1>2, <1>7 DEF PassInv

(* A step that changes nothing. *)
LEMMA StutterPasses == LayoutInv /\ PassInv /\ UNCHANGED lvars => PassInv'
<1> SUFFICES ASSUME LayoutInv, PassInv, UNCHANGED lvars PROVE PassInv'
  OBVIOUS
<1>1. UNCHANGED <<token, label, constant, image, uaddr, textStart, at, phase, addr, scope>>
  BY DEF lvars, passVars, tables, output
<1>2. Tables'
  BY <1>1, TablesKept DEF PassInv
<1>3. PICK k, last, above : k = at /\ last = Len(token) + 1 /\ above = at - 1
  OBVIOUS
<1>4. /\ CodeBefore(k)' = CodeBefore(k) /\ CodeTokens(k)' = CodeTokens(k)
      /\ TextAddr(last)' = TextAddr(last) /\ ScopeAt(above)' = ScopeAt(above)
  BY <1>1, TokensStay
<1>5. k = at' /\ last = Len(token') + 1 /\ above = at' - 1
  BY <1>1, <1>3
<1>6. /\ CodeBefore(at)' = CodeBefore(at) /\ CodeTokens(at)' = CodeTokens(at)
      /\ TextAddr(Len(token) + 1)' = TextAddr(Len(token) + 1)
      /\ ScopeAt(at - 1)' = ScopeAt(at - 1)
  BY <1>3, <1>4, <1>5
<1>7. Progress'
  BY <1>1, <1>6 DEF PassInv, Progress
<1> QED
  BY <1>2, <1>7 DEF PassInv

(* Before the first line no token, label or constant is there. *)
LEMMA InitPasses == Init => PassInv
<1> SUFFICES ASSUME Init PROVE PassInv
  OBVIOUS
<1>1. /\ phase = "types" /\ token = <<>> /\ label = <<>> /\ constant = <<>>
      /\ image = {} /\ textStart = 0 /\ addr = 0
  BY DEF Init
<1>2. Tables
  BY <1>1 DEF Tables, IsList
<1>3. addr = TextAddr(Len(token) + 1)
  <2>1. Len(token) + 1 = 1
    BY <1>1
  <2> QED
    BY <1>1, <2>1, CountFirst DEF TextAddr, W16
<1>4. Progress
  BY <1>1, <1>3 DEF Progress
<1> QED
  BY <1>2, <1>4 DEF PassInv

(* A program that was given up stays so. *)
LEMMA GivenUpEnds ==
  ASSUME phase \in GivenUp, [Next]_lvars
  PROVE  phase' \in GivenUp
<1>1. /\ ~TypeLine /\ ~NoScope /\ ~TypesOver /\ ~CollectLabel /\ ~LabelsOver /\ ~PlaceData
      /\ ~SectionsOver /\ ~InsertStart /\ ~EvaluateConstant /\ ~ConstantsOver /\ ~EmitLine
      /\ ~EmitOver
  <2>1. /\ \A list : ~Passing("types", list) /\ ~PassOver("types", list)
        /\ \A list : ~Passing("labels", list) /\ ~PassOver("labels", list)
        /\ \A list : ~Passing("sections", list) /\ ~PassOver("sections", list)
        /\ \A list : ~Passing("constants", list) /\ ~PassOver("constants", list)
        /\ \A list : ~Passing("emit", list) /\ ~PassOver("emit", list)
        /\ phase # "start"
    BY DEF GivenUp, Passing, PassOver
  <2>2. ~TypeLine /\ ~NoScope /\ ~TypesOver /\ ~CollectLabel
    BY <2>1, Zenon DEF TypeLine, NoScope, TypesOver, CollectLabel
  <2>3. ~LabelsOver /\ ~PlaceData /\ ~SectionsOver /\ ~InsertStart
    <3>1. ~LabelsOver /\ ~SectionsOver
      BY <2>1, Zenon DEF LabelsOver, SectionsOver
    <3>2. PlaceData => Passing("sections", token)
      BY DEF PlaceData
    <3>3. InsertStart => phase = "start"
      BY DEF InsertStart
    <3> QED
      BY <2>1, <3>1, <3>2, <3>3
  <2>4. ~EvaluateConstant /\ ~ConstantsOver /\ ~EmitLine /\ ~EmitOver
    BY <2>1, Zenon DEF EvaluateConstant, ConstantsOver, EmitLine, EmitOver
  <2> QED
    BY <2>2, <2>3, <2>4
<1>2. phase' = phase
  BY <1>1 DEF Next, Ended, lvars, passVars
<1> QED
  BY <1>2

(* Every pass keeps what the next ones rely on, or gives the program up. *)
LEMMA NextResolve == ResolveInv /\ [Next]_lvars /\ ImageFits' => ResolveInv'
<1> SUFFICES ASSUME ResolveInv, [Next]_lvars, ImageFits', phase' \notin GivenUp
             PROVE  PassInv'
  BY NextLayout DEF ResolveInv
<1>1. LayoutInv
  BY DEF ResolveInv
<1>2. CASE phase \in GivenUp
  BY <1>2, GivenUpEnds
<1>3. CASE phase \notin GivenUp
  <2>1. PassInv
    BY <1>3 DEF ResolveInv
  <2>2. CASE NoScope
    BY <2>2 DEF GivenUp, NoScope, Fail
  <2>3. CASE UNCHANGED lvars
    BY <1>1, <2>1, <2>3, StutterPasses
  <2> QED
    BY <1>1, <2>1, <2>2, <2>3, TypeLinePasses, TypesOverPasses, CollectLabelPasses,
       LabelsOverPasses, PlaceDataPasses, SectionsOverPasses, InsertStartPasses,
       EvaluateConstantPasses, ConstantsOverPasses, EmitLinePasses, EmitOverPasses
       DEF Next, Ended
<1> QED
  BY <1>2, <1>3

-----------------------------------------------------------------------------
(* When the image is written, code begins where its labels were counted.   *)
LEMMA CodeAfterIs ==
  ASSUME LayoutInv, PassInv, phase = "written", NEW k \in DOMAIN token
  PROVE  /\ CodeAfter(k) = textStart + 4 * CodeBefore(k)
         /\ CodeBefore(k) \in Nat /\ textStart \in Nat
         /\ textStart + 4 * CodeBefore(k) <= uaddr
<1>1. PICK last \in Nat : last = Len(token) /\ k \in 1 .. last
  BY DEF LayoutInv
<1>2. /\ uaddr = textStart + 4 * CodeBefore(last + 1) /\ textStart \in Nat
      /\ \A j \in CodeTokens(last + 1) : \E e \in image : e.token = j
  <2>1. at = last + 1
    BY <1>1 DEF PassInv, Progress
  <2> QED
    BY <2>1 DEF PassInv, Progress, Tables
<1>3. /\ CodeBefore(k) \in Nat /\ CodeBefore(last + 1) \in Nat
      /\ CodeBefore(k) <= CodeBefore(last + 1)
  <2>1. PICK m \in Nat \ {0} : m = last + 1 /\ k <= m /\ k \in Nat \ {0}
    BY <1>1
  <2>2. CodeBefore(k) \in Nat /\ CodeBefore(m) \in Nat
    BY <2>1, CountStep
  <2>3. CodeBefore(k) <= CodeBefore(m)
    BY <2>1, CountGrows
  <2> QED
    BY <2>1, <2>2, <2>3
<1> DEFINE code == {j \in k .. Len(token) : token[j].type = "asm"}
<1>4. CASE code = {}
  <2>1. CodeTokens(last + 1) = CodeTokens(k)
    BY <1>1, <1>4 DEF CodeTokens
  <2>2. CodeAfter(k) = uaddr
    BY <1>4 DEF CodeAfter
  <2> QED
    BY <1>2, <1>3, <2>1, <2>2 DEF CodeBefore
<1>5. CASE code # {}
  <2>1. PICK j \in code : \A i \in code : j <= i
    <3>1. code \in SUBSET Nat
      BY <1>1
    <3> HIDE DEF code
    <3> QED
      BY <1>5, <3>1, LeastNat
  <2>2. (CHOOSE n \in code : \A i \in code : n <= i) = j
    <3>1. \A n \in code : (\A i \in code : n <= i) => n = j
      BY <1>1, <2>1
    <3> HIDE DEF code
    <3> QED
      BY <2>1, <3>1
  <2>3. CodeAfter(k) = PlaceOf(j)
    BY <1>5, <2>2 DEF CodeAfter
  <2>4. CodeTokens(j) = CodeTokens(k)
    BY <1>1, <2>1 DEF CodeTokens
  <2>5. \E e \in image : e.token = j
    BY <1>1, <1>2, <2>1 DEF CodeTokens
  <2>6. PICK e \in image : e = (CHOOSE x \in image : x.token = j) /\ e.token = j
    BY <2>5
  <2>7. e.from = textStart + 4 * CodeBefore(j)
    BY <2>1, <2>6 DEF PassInv, Tables, Emitted
  <2>8. PlaceOf(j) = e.from
    BY <2>6 DEF PlaceOf
  <2> QED
    BY <1>2, <1>3, <2>3, <2>4, <2>7, <2>8 DEF CodeBefore
<1> QED
  BY <1>4, <1>5

(* A label stands for the place of what it names. *)
LEMMA StandsFor ==
  ASSUME LayoutInv, PassInv, phase = "written",
         NEW k \in DOMAIN token, NEW l, Defines(k, l)
  PROVE  \/ /\ token[k].type = "label" /\ l.name = Plain(token[k].line.name)
            /\ W16(Stands(l)) = CodeAfter(k)
         \/ /\ token[k].type = "scoped" /\ l.name = Scoped(Owner(k), token[k].line.name)
            /\ token[k].line.name # None
            /\ W16(Stands(l)) = CodeAfter(k)
         \/ /\ token[k].type = "data" /\ l.name = Plain(token[k].line.name)
            /\ \E e \in image : e.token = k /\ W16(Stands(l)) = e.from
<1>1. CASE l.rel /\ l.addr = TextAddr(k) /\ token[k].type \in {"label", "scoped"}
  <2>1. PICK n \in Nat, s \in Nat : /\ n = CodeBefore(k) /\ s = textStart
                                    /\ CodeAfter(k) = s + 4 * n /\ s + 4 * n < 65536
    BY CodeAfterIs DEF LayoutInv, MEMORY
  <2>2. W16(4 * n) = 4 * n /\ W16(4 * n + s) = s + 4 * n
    <3>1. PICK m \in Nat : m = 4 * n /\ m < 65536 /\ s + m < 65536
      BY <2>1
    <3>2. W16(m) = m /\ W16(m + s) = s + m
      BY <3>1 DEF W16
    <3> QED
      BY <3>1, <3>2
  <2>3. W16(Stands(l)) = CodeAfter(k)
    BY <1>1, <2>1, <2>2 DEF Stands, TextAddr
  <2>4. TokenTyped(k)
    BY DEF PassInv, Tables
  <2> QED
    BY <1>1, <2>3, <2>4 DEF Defines, TokenTyped
<1>2. CASE /\ token[k].type = "data" /\ l.name = Plain(token[k].line.name)
           /\ ~l.rel /\ \E e \in image : e.token = k /\ e.from = l.addr
  <2>1. PICK e \in image : e.token = k /\ e.from = l.addr
    BY <1>2
  <2>2. e.from \in Nat /\ e.from < 65536
    BY <2>1 DEF LayoutInv, PartOf, MEMORY
  <2>3. PICK n \in Nat : n = e.from /\ n < 65536
    BY <2>2
  <2>4. W16(n + 0) = n
    BY <2>3 DEF W16
  <2>5. W16(Stands(l)) = e.from
    BY <1>2, <2>1, <2>3, <2>4 DEF Stands
  <2> QED
    BY <1>2, <2>1, <2>5
<1> QED
  BY <1>1, <1>2 DEF Defines

(* So what an operand was looked up as is what the program text says. *)
LEMMA Resolved ==
  ASSUME LayoutInv, PassInv, phase = "written", NumbersFit,
         NEW e \in image, NEW ref, ref = token[e.token].line.ref, ref # NoRef,
         token[e.token].type = "asm"
  PROVE  \E k \in DOMAIN token : Means(k, ref, e.token, e.value)
<1>1. LookedUp(e)
  BY DEF PassInv, Tables, Emitted
<1>2. \A j \in DOMAIN label : \E k \in DOMAIN token : Defines(k, label[j])
  BY DEF PassInv, Tables
<1>3. ASSUME NEW j \in DOMAIN label, ~IsScoped(ref), label[j].name = ref,
             e.value = W16(Stands(label[j]))
      PROVE  \E k \in DOMAIN token : Means(k, ref, e.token, e.value)
  <2>1. PICK k \in DOMAIN token : Defines(k, label[j])
    BY <1>2
  <2>2. PICK l : l = label[j]
    OBVIOUS
  <2>3. token[k].type # "scoped" \/ token[k].line.name = None \/ ref # Scoped(Owner(k), token[k].line.name)
    BY <1>3 DEF IsScoped, Scoped
  <2>4. \/ /\ token[k].type = "label" /\ ref = Plain(token[k].line.name)
           /\ e.value = CodeAfter(k)
        \/ /\ token[k].type = "data" /\ ref = Plain(token[k].line.name)
           /\ \E f \in image : f.token = k /\ e.value = f.from
    BY <1>3, <2>1, <2>2, <2>3, StandsFor
  <2> QED
    BY <2>4 DEF Means
<1>4. ASSUME NEW j \in DOMAIN label, IsScoped(ref), Above(e.token) # {},
             label[j].name = Scoped(Owner(e.token), ref[2]), e.value = W16(Stands(label[j]))
      PROVE  \E k \in DOMAIN token : Means(k, ref, e.token, e.value)
  <2>1. PICK k \in DOMAIN token : Defines(k, label[j])
    BY <1>2
  <2>2. PICK l : l = label[j]
    OBVIOUS
  <2>3. l.name # Plain(token[k].line.name)
    BY <1>4, <2>2 DEF IsScoped, Scoped, Plain
  <2>4. /\ token[k].type = "scoped" /\ l.name = Scoped(Owner(k), token[k].line.name)
        /\ e.value = CodeAfter(k)
    BY <1>4, <2>1, <2>2, <2>3, StandsFor
  <2>5. ref[2] = token[k].line.name /\ Owner(k) = Owner(e.token)
    BY <1>4, <2>2, <2>4 DEF Scoped
  <2> QED
    BY <1>4, <2>4, <2>5 DEF Means
<1>5. ASSUME NEW c \in DOMAIN constant, constant[c].name = ref, e.value = constant[c].value
      PROVE  \E k \in DOMAIN token : Means(k, ref, e.token, e.value)
  <2>1. PICK k \in DOMAIN token : DefinesConstant(k, constant[c])
    BY DEF PassInv, Tables
  <2>2. token[k].type = "const" /\ ref = Plain(token[k].line.name)
    BY <1>5, <2>1 DEF DefinesConstant
  <2>3. CASE token[k].line.ref = NoRef /\ e.value = W16(token[k].line.size)
    <3>1. token[k].line.size \in Nat /\ token[k].line.size < 65536
      <4>1. token[k] \in AnyToken
        BY DEF LayoutInv
      <4> QED
        BY <2>2, <4>1, TokenFacts, LineFacts DEF NumbersFit
    <3>2. PICK n \in Nat : n = token[k].line.size /\ n < 65536
      BY <3>1
    <3>3. W16(n) = n
      BY <3>2 DEF W16
    <3> QED
      BY <2>2, <2>3, <3>2, <3>3 DEF Means
  <2>4. CASE \E j \in DOMAIN label : /\ label[j].name = token[k].line.ref
                                     /\ ~IsScoped(token[k].line.ref)
                                     /\ e.value = W16(Stands(label[j]))
    <3>1. PICK j \in DOMAIN label : /\ label[j].name = token[k].line.ref
                                    /\ ~IsScoped(token[k].line.ref)
                                    /\ e.value = W16(Stands(label[j]))
      BY <2>4
    <3>2. PICK i \in DOMAIN token : Defines(i, label[j])
      BY <1>2
    <3>3. PICK l : l = label[j]
      OBVIOUS
    <3>4. \/ token[i].type # "scoped" \/ token[i].line.name = None
          \/ l.name # Scoped(Owner(i), token[i].line.name)
      BY <3>1, <3>3 DEF IsScoped, Scoped
    <3>5. \/ /\ token[i].type = "label" /\ token[k].line.ref = Plain(token[i].line.name)
             /\ e.value = CodeAfter(i)
          \/ /\ token[i].type = "data" /\ token[k].line.ref = Plain(token[i].line.name)
             /\ \E f \in image : f.token = i /\ e.value = f.from
      BY <3>1, <3>2, <3>3, <3>4, StandsFor
    <3> QED
      BY <2>2, <3>5 DEF Means
  <2> QED
    BY <1>5, <2>1, <2>3, <2>4 DEF DefinesConstant
<1> QED
  BY <1>1, <1>3, <1>4, <1>5 DEF LookedUp

(***************************************************************************)
(* In an image that is written out and fits, every operand leads to what its name means in the text: to the code     *)
(* after that label of its own function, to that data or to the value of   *)
(* that constant, for every program.                                       *)
(***************************************************************************)
THEOREM OperandsAreResolved == Spec => []OperandsResolve
<1> DEFINE Inv == ImageFits => ResolveInv
<1>1. Init => Inv
  BY InitLayout, InitPasses DEF ResolveInv
<1>2. Inv /\ [Next]_lvars => Inv'
  BY FitsBefore, NextResolve
<1>3. Inv => OperandsResolve
  <2> SUFFICES ASSUME ResolveInv, ImageFits, NumbersFit, phase = "written", NEW e \in image,
                      token[e.token].type = "asm", token[e.token].line.ref # NoRef
               PROVE  \E k \in DOMAIN token : Means(k, token[e.token].line.ref, e.token, e.value)
    BY DEF OperandsResolve
  <2>1. LayoutInv /\ PassInv
    BY DEF GivenUp, ResolveInv
  <2> QED
    BY <2>1, Resolved
<1> QED
  BY <1>1, <1>2, <1>3, PTL DEF Spec

-----------------------------------------------------------------------------
(* The labels of the text up to token n are in the table. *)
CollectedTo(n) ==
  \A k \in DOMAIN token :
    k <= n /\ token[k].type = "label" => IsDefined(Plain(token[k].line.name))

DataCollected ==
  \A e \in image :
    token[e.token].type = "data" => IsDefined(Plain(token[e.token].line.name))

(***************************************************************************)
(* Nothing is missing from the table of labels once its pass is over, and  *)
(* what was looked up for _start would be found again: neither the labels  *)
(* nor the start of the text change after that.                            *)
(***************************************************************************)
EntryInv ==
  /\ phase = "labels" => CollectedTo(at - 1)
  /\ phase \in {"sections", "start", "constants", "emit", "written"} => CollectedTo(Len(token))
  /\ DataCollected
  /\ phase \in {"constants", "emit", "written"} => entry = W16(LabelLookup(Plain("_start")))

LEMMA DefinedStays ==
  ASSUME Tables, Grows(label, label')
  PROVE  /\ \A name : IsDefined(name) => IsDefined(name)'
         /\ \A l : label' = Append(label, l) => IsDefined(l.name)'
<1>1. \A i \in DOMAIN label : i \in DOMAIN label' /\ label'[i] = label[i]
  BY GrowsFacts DEF Tables
<1>2. ASSUME NEW l, label' = Append(label, l) PROVE IsDefined(l.name)'
  <2>1. Len(label) + 1 \in DOMAIN label' /\ label'[Len(label) + 1] = l
    BY <1>2, ListGrows DEF Tables
  <2> QED
    BY <2>1 DEF IsDefined
<1> QED
  BY <1>1, <1>2 DEF IsDefined

(* What only adds to the labels keeps what has been collected. *)
LEMMA CollectedStays ==
  ASSUME Tables, UNCHANGED token, Grows(label, label')
  PROVE  \A n : CollectedTo(n) => CollectedTo(n)'
BY DefinedStays DEF CollectedTo

LEMMA CollectLabelEntry ==
  ASSUME LayoutInv, Tables, EntryInv, CollectLabel, phase' \notin GivenUp
  PROVE  EntryInv'
<1> DEFINE t == token[at]
           name == IF t.type = "label" THEN Plain(t.line.name) ELSE Scoped(scope, t.line.name)
<1>1. PICK k \in Nat \ {0} : k = at
  BY DEF LayoutInv
<1>2. /\ phase = "labels" /\ phase' = phase /\ at' = k + 1
      /\ UNCHANGED <<token, image>> /\ CollectedTo(k - 1)
      /\ \/ t.type \notin {"label", "scoped"} /\ label' = label
         \/ t.type \in {"label", "scoped"} /\ label' = Append(label, Label(name, t.addr, TRUE))
  BY <1>1 DEF GivenUp, CollectLabel, Passing, NextItem, Fail, AddLabel, EntryInv, output
<1>3. Grows(label, label')
  BY <1>2 DEF Grows
<1>4. token[k].type = "label" => IsDefined(Plain(token[k].line.name))'
  <2> SUFFICES ASSUME token[k].type = "label" PROVE IsDefined(Plain(token[k].line.name))'
    OBVIOUS
  <2>1. PICK l : l = Label(name, t.addr, TRUE)
    OBVIOUS
  <2>2. label' = Append(label, l) /\ l.name = Plain(token[k].line.name)
    BY <1>1, <1>2, <2>1 DEF Label
  <2>3. IsDefined(l.name)'
    BY <1>3, <2>2, DefinedStays
  <2> QED
    BY <1>2, <2>2, <2>3 DEF IsDefined
<1>5. \A j \in DOMAIN token : j \in Nat /\ (j <= k => j <= k - 1 \/ j = k)
  BY <1>1 DEF LayoutInv
<1>6. CollectedTo(k)'
  BY <1>2, <1>3, <1>4, <1>5, CollectedStays DEF CollectedTo
<1>7. DataCollected'
  BY <1>2, <1>3, DefinedStays DEF EntryInv, DataCollected
<1>8. at' - 1 = k
  BY <1>2
<1>9. CollectedTo(at - 1)'
  BY <1>6, <1>8 DEF CollectedTo
<1> QED
  BY <1>2, <1>7, <1>9 DEF EntryInv

LEMMA PlaceDataEntry ==
  ASSUME LayoutInv, Tables, EntryInv, PlaceData, phase' \notin GivenUp
  PROVE  EntryInv'
<1>1. phase = "sections" /\ UNCHANGED token /\ CollectedTo(Len(token))
  BY DEF PlaceData, Passing, EntryInv
<1>2. PICK k, t, e, l : /\ k = at /\ t = token[k]
                        /\ e = Extent(uaddr, t.line.size, k, 0)
                        /\ l = Label(Plain(t.line.name), uaddr, FALSE)
  OBVIOUS
<1>3. /\ phase' = phase
      /\ \/ UNCHANGED <<label, image>>
         \/ label' = Append(label, l) /\ image' = image \cup {e}
  BY <1>2 DEF GivenUp, PlaceData, NextItem, Fail, AddLabel, Place
<1>4. Grows(label, label') /\ e.token = k /\ l.name = Plain(t.line.name)
  BY <1>2, <1>3 DEF Grows, Extent, Label
<1>5. CollectedTo(Len(token))'
  BY <1>1, <1>4, CollectedStays DEF CollectedTo
<1>6. ASSUME NEW x \in image', token[x.token].type = "data"
      PROVE  IsDefined(Plain(token[x.token].line.name))'
  <2>1. CASE x \in image
    BY <1>1, <1>4, <1>6, <2>1, DefinedStays DEF EntryInv, DataCollected
  <2>2. CASE x \notin image
    <3>1. x = e /\ label' = Append(label, l)
      BY <1>3, <1>6, <2>2
    <3>2. IsDefined(l.name)'
      BY <1>4, <3>1, DefinedStays
    <3> QED
      BY <1>1, <1>2, <1>4, <3>1, <3>2 DEF IsDefined
  <2> QED
    BY <2>1, <2>2
<1>7. DataCollected'
  BY <1>1, <1>6 DEF DataCollected
<1> QED
  BY <1>1, <1>3, <1>5, <1>7 DEF EntryInv

(* The other passes leave the labels alone. *)
LEMMA KeptEntry ==
  ASSUME EntryInv, UNCHANGED <<token, label>>,
         \A e \in image' : e \in image \/ token[e.token].type # "data"
  PROVE  /\ DataCollected'
         /\ CollectedTo(Len(token)) => CollectedTo(Len(token))'
         /\ \A name : UNCHANGED textStart => LabelLookup(name)' = LabelLookup(name)
<1>1. \A name : IsDefined(name)' = IsDefined(name)
  BY DEF IsDefined
<1> QED
  BY <1>1 DEF EntryInv, DataCollected, CollectedTo, LabelLookup, First

LEMMA InsertStartEntry ==
  ASSUME EntryInv, InsertStart, phase' \notin GivenUp
  PROVE  EntryInv'
<1>1. /\ phase = "start" /\ phase' = "constants"
      /\ UNCHANGED <<token, label, image, textStart>>
      /\ entry' = W16(LabelLookup(Plain("_start")))
  BY DEF GivenUp, InsertStart, Fail, Turn, tables
<1>2. DataCollected' /\ CollectedTo(Len(token))'
  BY <1>1, KeptEntry DEF EntryInv
<1>3. LabelLookup(Plain("_start"))' = LabelLookup(Plain("_start"))
  <2>1. PICK name : name = Plain("_start")
    OBVIOUS
  <2>2. LabelLookup(name)' = LabelLookup(name)
    BY <1>1, KeptEntry
  <2> QED
    BY <1>1, <2>1, <2>2 DEF Plain
<1>4. entry' = W16(LabelLookup(Plain("_start")))'
  BY <1>1, <1>3 DEF W16
<1> QED
  BY <1>1, <1>2, <1>4 DEF EntryInv

LEMMA InitEntry == Init => EntryInv
BY DEF Init, EntryInv, DataCollected

(* Every pass keeps the entries, or gives the program up. *)
LEMMA NextEntry ==
  ASSUME LayoutInv, PassInv, EntryInv, [Next]_lvars, phase' \notin GivenUp
  PROVE  EntryInv'
<1> DEFINE Found == {"constants", "emit", "written"}
<1>1. Tables
  BY DEF PassInv
<1>2. CASE TypeLine \/ TypesOver
  <2>1. phase = "types" /\ image' = {} /\ (phase' = phase \/ (phase' = "labels" /\ at' = 1))
    BY <1>2 DEF TypeLine, Types, NextItem, TypesOver, Turn, Passing, PassOver, PassInv, Progress,
                output
  <2>2. phase' = "labels" => CollectedTo(at - 1)'
    <3>1. CASE TypesOver
      <4>1. at' - 1 = 0 /\ token' = token /\ \A k \in DOMAIN token : ~(k <= 0)
        BY <3>1 DEF TypesOver, Turn, LayoutInv, tables
      <4> QED
        BY <4>1 DEF CollectedTo
    <3>2. CASE TypeLine
      BY <2>1, <3>2 DEF TypeLine, Types, NextItem
    <3> QED
      BY <1>2, <3>1, <3>2
  <2> QED
    BY <2>1, <2>2 DEF EntryInv, DataCollected
<1>3. CASE LabelsOver
  <2>1. /\ phase = "labels" /\ phase' = "sections" /\ UNCHANGED <<token, label, image>>
        /\ CollectedTo(at - 1) /\ Len(token) \in Nat /\ at \in Nat /\ at > Len(token)
        /\ DOMAIN token = 1 .. Len(token)
    BY <1>3 DEF LabelsOver, PassOver, Turn, tables, output, EntryInv, LayoutInv
  <2>2. \A k \in DOMAIN token : k <= at - 1
    BY <2>1
  <2>3. CollectedTo(Len(token))
    BY <2>1, <2>2 DEF CollectedTo
  <2>4. DataCollected' /\ CollectedTo(Len(token))'
    BY <2>1, <2>3, KeptEntry
  <2> QED
    BY <2>1, <2>4 DEF EntryInv
<1>4. CASE SectionsOver
  <2>1. phase = "sections" /\ phase' = "start" /\ UNCHANGED <<token, label, image>>
    BY <1>4 DEF SectionsOver, PassOver, Turn, tables
  <2>2. DataCollected' /\ CollectedTo(Len(token))'
    BY <2>1, KeptEntry DEF EntryInv
  <2> QED
    BY <2>1, <2>2 DEF EntryInv
<1>5. CASE EvaluateConstant \/ ConstantsOver \/ EmitLine \/ EmitOver
  <2>1. /\ phase \in Found /\ phase' \in Found
        /\ UNCHANGED <<token, label, textStart, entry>>
        /\ \A e \in image' : e \in image \/ token[e.token].type # "data"
    <3>1. CASE EvaluateConstant
      BY <3>1 DEF GivenUp, EvaluateConstant, Passing, NextItem, Fail, output
    <3>2. CASE ConstantsOver
      BY <3>2 DEF ConstantsOver, PassOver, Turn, tables, output
    <3>3. CASE EmitOver
      BY <3>3 DEF EmitOver, PassOver, tables, output
    <3>4. CASE EmitLine
      <4>1. /\ phase = "emit" /\ phase' = phase
            /\ UNCHANGED <<token, label, textStart, entry>>
        BY <3>4 DEF GivenUp, EmitLine, Passing, NextItem, Fail, tables
      <4>2. PICK x : x = Extent(uaddr, 4, at, Resolve(token[at].line.ref))
        OBVIOUS
      <4>3. image' = image \/ (token[at].type = "asm" /\ image' = image \cup {x})
        BY <3>4, <4>2 DEF EmitLine, Place
      <4>4. x.token = at
        BY <4>2 DEF Extent
      <4> QED
        BY <4>1, <4>3, <4>4
    <3> QED
      BY <1>5, <3>1, <3>2, <3>3, <3>4
  <2>2. DataCollected' /\ CollectedTo(Len(token))'
    BY <2>1, KeptEntry DEF EntryInv
  <2>3. LabelLookup(Plain("_start"))' = LabelLookup(Plain("_start"))
    <3>1. PICK name : name = Plain("_start")
      OBVIOUS
    <3>2. LabelLookup(name)' = LabelLookup(name)
      BY <2>1, KeptEntry
    <3> QED
      BY <3>1, <3>2 DEF Plain
  <2>4. entry' = W16(LabelLookup(Plain("_start")))'
    BY <2>1, <2>3 DEF EntryInv, W16
  <2> QED
    BY <2>1, <2>2, <2>4 DEF EntryInv
<1>6. CASE Ended \/ UNCHANGED lvars
  <2>1. UNCHANGED <<phase, at, token, label, image, textStart, entry>>
    BY <1>6 DEF Ended, lvars, tables, output, passVars
  <2>2. DataCollected' /\ (CollectedTo(Len(token)) => CollectedTo(Len(token))')
    BY <2>1, KeptEntry
  <2>3. LabelLookup(Plain("_start"))' = LabelLookup(Plain("_start"))
    BY <2>1 DEF LabelLookup, IsDefined, First, Plain
  <2>4. CollectedTo(at - 1) => CollectedTo(at - 1)'
    BY <2>1 DEF CollectedTo, IsDefined
  <2> QED
    BY <2>1, <2>2, <2>3, <2>4 DEF EntryInv, W16
<1>7. ~NoScope
  BY DEF GivenUp, NoScope, Fail
<1> QED
  BY <1>1, <1>2, <1>3, <1>4, <1>5, <1>6, <1>7, CollectLabelEntry, PlaceDataEntry,
     InsertStartEntry DEF Next

(* What the table says of _start is what the program says. *)
LEMMA StartMeant ==
  ASSUME LayoutInv, PassInv, EntryInv, phase = "written"
  PROVE  EntryIsStart
<1> DEFINE start == Plain("_start")
<1>1. entry = W16(LabelLookup(start)) /\ CollectedTo(Len(token)) /\ DataCollected
  BY DEF EntryInv
<1>2. CASE IsDefined(start)
  <2>1. PICK j \in DOMAIN label : label[j].name = start /\ LabelLookup(start) = Stands(label[j])
    BY <1>2, LabelFound DEF PassInv
  <2>2. PICK k \in DOMAIN token : \E l : l = label[j] /\ Defines(k, l)
    BY DEF PassInv, Tables
  <2> PICK l : l = label[j] /\ Defines(k, l)
    BY <2>2
  <2>3. token[k].line.name # None => start # Scoped(Owner(k), token[k].line.name)
    BY DEF Plain, Scoped
  <2>4. \/ /\ token[k].type = "label" /\ start = Plain(token[k].line.name)
           /\ W16(Stands(l)) = CodeAfter(k)
        \/ /\ token[k].type = "data" /\ start = Plain(token[k].line.name)
           /\ \E e \in image : e.token = k /\ W16(Stands(l)) = e.from
    BY <2>1, <2>2, <2>3, StandsFor
  <2>5. token[k].line.name = "_start"
    BY <2>4 DEF Plain
  <2>6. k \in Starts
    BY <2>4, <2>5 DEF Starts
  <2>7. Means(k, start, k, entry)
    BY <1>1, <2>1, <2>2, <2>4 DEF Means
  <2> QED
    BY <2>6, <2>7 DEF EntryIsStart
<1>3. CASE ~IsDefined(start)
  <2>1. Starts = {}
    <3> SUFFICES ASSUME NEW k \in Starts PROVE FALSE
      OBVIOUS
    <3>1. k \in DOMAIN token /\ k <= Len(token) /\ Plain(token[k].line.name) = start
      BY DEF Starts, LayoutInv
    <3>2. CASE token[k].type = "label"
      BY <1>1, <1>3, <3>1, <3>2 DEF CollectedTo
    <3>3. CASE token[k].type = "data" /\ \E e \in image : e.token = k
      BY <1>1, <1>3, <3>1, <3>3 DEF DataCollected
    <3> QED
      BY <3>2, <3>3 DEF Starts
  <2>2. LabelLookup(start) = 65536
    BY <1>3 DEF LabelLookup, NOT_FOUND
  <2>3. entry = 0
    BY <1>1, <2>2 DEF W16
  <2> QED
    BY <2>1, <2>3 DEF EntryIsStart
<1> QED
  BY <1>2, <1>3

(***************************************************************************)
(* The image of every program that fits the addresses of the machine       *)
(* begins at its _start, or with the header when it has none.              *)
(***************************************************************************)
THEOREM EntryMeant == Spec => []EntryIsStart
<1> DEFINE Inv == ImageFits => ResolveInv /\ (phase \notin GivenUp => EntryInv)
<1>1. Init => Inv
  BY InitLayout, InitPasses, InitEntry DEF ResolveInv
<1>2. Inv /\ [Next]_lvars => Inv'
  <2> SUFFICES ASSUME Inv, [Next]_lvars, ImageFits'
               PROVE  ResolveInv' /\ (phase' \notin GivenUp => EntryInv')
    OBVIOUS
  <2>1. ResolveInv /\ (phase \notin GivenUp => EntryInv) /\ ResolveInv'
    BY FitsBefore, NextResolve
  <2>2. CASE phase \notin GivenUp
    BY <2>1, <2>2, NextEntry DEF ResolveInv
  <2>3. CASE phase \in GivenUp
    BY <2>1, <2>3, GivenUpEnds
  <2> QED
    BY <2>1, <2>2, <2>3
<1>3. Inv => EntryIsStart
  BY StartMeant DEF ResolveInv, EntryIsStart, GivenUp
<1> QED
  BY <1>1, <1>2, <1>3, PTL DEF Spec
=============================================================================
