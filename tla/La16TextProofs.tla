--------------------------- MODULE La16TextProofs ---------------------------
(***************************************************************************)
(* What the passes make of a text is what they make of its parts, and what *)
(* is read of a program is what is read of its lines, for every source.    *)
(***************************************************************************)
EXTENDS La16Text, Induction

-----------------------------------------------------------------------------
(* Sequences. *)

LEMMA SeqEqual ==
  ASSUME NEW S, NEW s \in Seq(S), NEW t \in Seq(S), Len(s) = Len(t),
         \A i \in 1 .. Len(s) : s[i] = t[i]
  PROVE  s = t
OBVIOUS

LEMMA Joined ==
  ASSUME NEW S, NEW s \in Seq(S), NEW t \in Seq(S)
  PROVE  /\ s \o t \in Seq(S) /\ Len(s) \in Nat /\ Len(t) \in Nat /\ Len(s \o t) = Len(s) + Len(t)
         /\ \A i \in 1 .. Len(s) : (s \o t)[i] = s[i]
         /\ \A i \in 1 .. Len(t) : (s \o t)[Len(s) + i] = t[i] /\ t[i] \in S
OBVIOUS

LEMMA JoinedAppend ==
  ASSUME NEW S, NEW s \in Seq(S), NEW t \in Seq(S), NEW c \in S
  PROVE  s \o Append(t, c) = Append(s \o t, c)
OBVIOUS

LEMMA Appended ==
  ASSUME NEW S, NEW s \in Seq(S), NEW c \in S
  PROVE  /\ Append(s, c) \in Seq(S) /\ Len(Append(s, c)) = Len(s) + 1 /\ Append(s, c)[Len(s) + 1] = c
         /\ \A k \in 1 .. Len(s) : Append(s, c)[k] = s[k]
OBVIOUS

LEMMA AppendType == ASSUME NEW S, NEW s \in Seq(S), NEW c \in S PROVE Append(s, c) \in Seq(S) /\ Append(s, c) # <<>>
OBVIOUS

LEMMA JoinedNothing == ASSUME NEW S, NEW s \in Seq(S) PROVE s \o <<>> = s
OBVIOUS

Joins(c, a, b) ==
  /\ Len(c) = Len(a) + Len(b)
  /\ \A i \in 1 .. Len(a) : c[i] = a[i]
  /\ \A i \in 1 .. Len(b) : c[Len(a) + i] = b[i]

LEMMA JoinedIs ==
  ASSUME NEW S, NEW a \in Seq(S), NEW b \in Seq(S), NEW c \in Seq(S), Joins(c, a, b)
  PROVE  c = a \o b
<1>1. a \o b \in Seq(S) /\ Len(a \o b) = Len(c) /\ Len(a) \in Nat /\ Len(b) \in Nat
  BY DEF Joins
<1>2. ASSUME NEW i \in 1 .. Len(c) PROVE c[i] = (a \o b)[i]
  <2>1. CASE i \in 1 .. Len(a)
    BY <2>1 DEF Joins
  <2>2. CASE i \notin 1 .. Len(a)
    <3>1. i - Len(a) \in 1 .. Len(b) /\ i = Len(a) + (i - Len(a))
      BY <1>1, <2>2 DEF Joins
    <3>2. (a \o b)[i] = b[i - Len(a)]
      BY <3>1
    <3> QED
      BY <3>1, <3>2 DEF Joins
  <2> QED
    BY <2>1, <2>2
<1> QED
  BY <1>1, <1>2, SeqEqual

Associates(s, t, u) == (s \o t) \o u = s \o (t \o u)

LEMMA JoinedTwice ==
  ASSUME NEW S, NEW s \in Seq(S), NEW t \in Seq(S), NEW u \in Seq(S)
  PROVE  Associates(s, t, u)
BY DEF Associates

LEMMA Nothing == ASSUME NEW S, NEW s \in Seq(S), Len(s) = 0 PROVE s = <<>>
OBVIOUS

LEMMA MappedType ==
  ASSUME NEW T, NEW n \in Nat, NEW F, F = [k \in 1 .. n |-> F[k]], \A k \in 1 .. n : F[k] \in T
  PROVE  F \in Seq(T) /\ Len(F) = n
OBVIOUS

LEMMA Shifted ==
  ASSUME NEW m \in Nat, NEW n \in Nat, NEW i \in 1 .. n
  PROVE  m + i \in 1 .. m + n /\ (m + i = m + n <=> i = n)
OBVIOUS

-----------------------------------------------------------------------------
(* Newlines. *)

(* What Collapsed keeps of n symbols, when it kept x of the first n - 1. *)
KeptWith(s, n, x) ==
  IF s[n] \notin Newline THEN Append(x, s[n])
  ELSE IF n = 1 \/ s[n - 1] \in Newline THEN x ELSE Append(x, "\n")

Keeps(s, kept) == kept = [n \in 0 .. Len(s) |-> IF n = 0 THEN <<>> ELSE KeptWith(s, n, kept[n - 1])]

LEMMA CollapsedIs ==
  ASSUME NEW S, "\n" \in S, NEW s \in Seq(S)
  PROVE  \E kept \in [0 .. Len(s) -> Seq(S)] :
           /\ kept[0] = <<>> /\ \A n \in 1 .. Len(s) : kept[n] = KeptWith(s, n, kept[n - 1])
           /\ Collapsed(s) = kept[Len(s)]
<1> DEFINE step == [n \in 1 .. Len(s) |-> [x \in Seq(S) |-> KeptWith(s, n, x)]]
           K == CHOOSE kept : Keeps(s, kept)
<1>1. <<>> \in Seq(S) /\ Len(s) \in Nat
  OBVIOUS
<1>2. \A n \in 1 .. Len(s) : \A x \in Seq(S) : KeptWith(s, n, x) \in Seq(S)
  BY DEF KeptWith
<1>3. \A n \in 1 .. Len(s) : \A x \in Seq(S) : step[n][x] = KeptWith(s, n, x)
  OBVIOUS
<1>4. step \in [1 .. Len(s) -> [Seq(S) -> Seq(S)]]
  BY <1>2
<1> HIDE DEF step
<1>5. PICK f \in [0 .. Len(s) -> Seq(S)] : f[0] = <<>> /\ \A n \in 1 .. Len(s) : f[n] = step[n][f[n - 1]]
  <2>1. Recursion(Seq(S), <<>>, Len(s), step) # {}
    BY <1>1, <1>4, RecursionExists, Zenon
  <2> QED
    BY <2>1, Zenon DEF Recursion
<1>6. Keeps(s, f)
  <2>1. f = [n \in 0 .. Len(s) |-> f[n]] /\ f[0] = <<>>
    BY <1>5
  <2>2. ASSUME NEW n \in 0 .. Len(s), n # 0 PROVE f[n] = KeptWith(s, n, f[n - 1])
    <3>1. n \in 1 .. Len(s) /\ f[n - 1] \in Seq(S)
      BY <1>1, <2>2
    <3> QED
      BY <1>3, <1>5, <3>1, Zenon
  <2> QED
    BY <2>1, <2>2, Zenon DEF Keeps
<1>7. Keeps(s, K) /\ Collapsed(s) = K[Len(s)]
  BY <1>6, Zenon DEF Collapsed, Keeps, KeptWith
<1> HIDE DEF K
<1>8. /\ K = [n \in 0 .. Len(s) |-> K[n]] /\ K[0] = <<>>
      /\ \A n \in 1 .. Len(s) : K[n] = KeptWith(s, n, K[n - 1])
  BY <1>7 DEF Keeps
<1>9. K \in [0 .. Len(s) -> Seq(S)]
  <2>1. K[0] \in Seq(S) /\ \A n \in 1 .. Len(s) : K[n - 1] \in Seq(S) => K[n] \in Seq(S)
    BY <1>1, <1>2, <1>8, Zenon
  <2> QED
    BY <1>1, <1>8, <2>1, RecursionType, Zenon
<1> QED
  BY <1>7, <1>8, <1>9, Zenon

LEMMA CollapsedType ==
  ASSUME NEW S, "\n" \in S, NEW s \in Seq(S)
  PROVE  Collapsed(s) \in Seq(S)
<1>1. PICK kept \in [0 .. Len(s) -> Seq(S)] : Collapsed(s) = kept[Len(s)]
  BY CollapsedIs
<1>2. Len(s) \in 0 .. Len(s)
  OBVIOUS
<1> QED
  BY <1>1, <1>2

Ended(s) == s = <<>> \/ s[Len(s)] = "\n"

LEMMA CollapsedEnds ==
  ASSUME NEW S, "\n" \in S, NEW s \in Seq(S), Ended(s)
  PROVE  Collapsed(s) \in Seq(S) /\ Ended(Collapsed(s))
<1>1. PICK K \in [0 .. Len(s) -> Seq(S)] :
        /\ K[0] = <<>> /\ \A n \in 1 .. Len(s) : K[n] = KeptWith(s, n, K[n - 1])
        /\ Collapsed(s) = K[Len(s)]
  BY CollapsedIs
<1> DEFINE M == {n \in Nat : n <= Len(s) /\ (n = 0 \/ s[n] \in Newline) => Ended(K[n])}
<1>2. 0 \in M
  BY <1>1 DEF Ended
<1>3. ASSUME NEW n \in Nat, n \in M PROVE n + 1 \in M
  <2> SUFFICES ASSUME n + 1 <= Len(s), s[n + 1] \in Newline PROVE Ended(K[n + 1])
    OBVIOUS
  <2>1. n + 1 \in 1 .. Len(s) /\ (n + 1) - 1 = n /\ K[n] \in Seq(S)
    OBVIOUS
  <2>2. K[n + 1] = KeptWith(s, n + 1, K[n])
    BY <1>1, <2>1
  <2>3. CASE n = 0 \/ s[n] \in Newline
    BY <1>3, <2>1, <2>2, <2>3 DEF KeptWith
  <2>4. CASE ~(n = 0 \/ s[n] \in Newline)
    <3>1. K[n + 1] = Append(K[n], "\n")
      BY <2>1, <2>2, <2>4 DEF KeptWith
    <3>2. PICK x \in Seq(S) : x = K[n]
      BY <2>1
    <3> QED
      BY <3>1, <3>2 DEF Ended
  <2> QED
    BY <2>3, <2>4
<1>4. Nat \subseteq M
  <2> HIDE DEF M
  <2> QED
    BY <1>2, <1>3, NatBySets
<1>5. Len(s) \in M /\ (Len(s) = 0 \/ s[Len(s)] \in Newline)
  BY <1>4 DEF Ended, Newline
<1> QED
  BY <1>1, <1>5

LEMMA CollapsedJoins ==
  ASSUME NEW S, "\n" \in S, NEW s \in Seq(S), NEW t \in Seq(S), Ended(s)
  PROVE  Collapsed(s \o t) = Collapsed(s) \o Collapsed(t)
<1> DEFINE ls == Len(s)
           lt == Len(t)
           st == s \o t
<1>1. st \in Seq(S) /\ ls \in Nat /\ lt \in Nat /\ Len(st) = ls + lt
  BY Joined, Zenon
<1>2. /\ \A n \in 1 .. ls : st[n] = s[n]
      /\ \A n \in 1 .. lt : st[ls + n] = t[n] /\ t[n] \in S
  OBVIOUS
<1> HIDE DEF st
<1>3. PICK K \in [0 .. ls -> Seq(S)] :
        /\ K[0] = <<>> /\ \A n \in 1 .. ls : K[n] = KeptWith(s, n, K[n - 1])
        /\ Collapsed(s) = K[ls]
  BY CollapsedIs, Zenon
<1>4. PICK L \in [0 .. lt -> Seq(S)] :
        /\ L[0] = <<>> /\ \A n \in 1 .. lt : L[n] = KeptWith(t, n, L[n - 1])
        /\ Collapsed(t) = L[lt]
  BY CollapsedIs, Zenon
<1>5. PICK J \in [0 .. ls + lt -> Seq(S)] :
        /\ J[0] = <<>> /\ \A n \in 1 .. ls + lt : J[n] = KeptWith(st, n, J[n - 1])
        /\ Collapsed(st) = J[ls + lt]
  <2>1. Len(st) = ls + lt /\ st \in Seq(S)
    BY <1>1
  <2> QED
    BY <2>1, CollapsedIs, Zenon
<1> HIDE DEF ls, lt
<1>6. J[ls] = K[ls]
  <2>1. ASSUME NEW n \in 1 .. ls, J[n - 1] = K[n - 1] PROVE J[n] = K[n]
    <3>1. n \in 1 .. ls + lt /\ st[n] = s[n] /\ (n # 1 => st[n - 1] = s[n - 1])
      BY <1>1, <1>2
    <3>2. J[n] = KeptWith(st, n, K[n - 1]) /\ K[n] = KeptWith(s, n, K[n - 1])
      BY <1>3, <1>5, <2>1, <3>1, Zenon
    <3> QED
      BY <3>1, <3>2, Zenon DEF KeptWith
  <2>2. J[0] = K[0]
    BY <1>3, <1>5
  <2>3. Links(J, K, ls)
    BY <2>1, Zenon DEF Links
  <2> QED
    BY <1>1, <2>2, <2>3, AgreeFromZero, Zenon
<1>7. PICK k \in Seq(S) : k = K[ls]
  BY <1>1
<1>8. ASSUME NEW n \in 1 .. lt, NEW x \in Seq(S)
      PROVE  KeptWith(st, ls + n, k \o x) = k \o KeptWith(t, n, x)
  <2>1. st[ls + n] = t[n] /\ t[n] \in S
    BY <1>2
  <2>2. (ls + n = 1 \/ st[(ls + n) - 1] \in Newline) <=> (n = 1 \/ t[n - 1] \in Newline)
    <3>1. CASE n = 1
      <4>1. ls = 0 \/ (ls \in 1 .. ls /\ s[ls] = "\n")
        BY <1>1 DEF Ended, ls
      <4> QED
        BY <1>1, <1>2, <3>1, <4>1 DEF Newline
    <3>2. CASE n # 1
      <4>1. n - 1 \in 1 .. lt /\ ls + (n - 1) = (ls + n) - 1 /\ ls + n # 1
        BY <1>1, <3>2
      <4> QED
        BY <1>2, <3>2, <4>1
    <3> QED
      BY <3>1, <3>2
  <2>3. k \o Append(x, t[n]) = Append(k \o x, t[n])
    BY <2>1, JoinedAppend
  <2>4. k \o Append(x, "\n") = Append(k \o x, "\n")
    BY JoinedAppend
  <2> QED
    BY <2>1, <2>2, <2>3, <2>4, Zenon DEF KeptWith
<1>9. J[ls + lt] = k \o L[lt]
  <2> DEFINE f == [n \in 0 .. lt |-> J[ls + n]]
             g == [n \in 0 .. lt |-> k \o L[n]]
  <2>1. f[0] = g[0]
    <3>1. k \o <<>> = k
      BY JoinedNothing, Zenon
    <3>2. ls + 0 = ls /\ 0 \in 0 .. lt
      BY <1>1
    <3>3. f[0] = J[ls] /\ g[0] = k
      BY <1>4, <3>1, <3>2, Zenon
    <3> QED
      BY <1>6, <1>7, <3>3, Zenon
  <2>2. ASSUME NEW n \in 1 .. lt, f[n - 1] = g[n - 1] PROVE f[n] = g[n]
    <3>1. ls + n \in 1 .. ls + lt /\ (ls + n) - 1 = ls + (n - 1) /\ n - 1 \in 0 .. lt /\ n \in 0 .. lt
      BY <1>1
    <3>2. PICK x \in Seq(S) : x = L[n - 1]
      BY <3>1
    <3>3. J[ls + (n - 1)] = k \o x
      BY <2>2, <3>1, <3>2, Zenon
    <3>4. J[ls + n] = KeptWith(st, ls + n, k \o x)
      BY <1>5, <3>1, <3>3
    <3>5. J[ls + n] = k \o KeptWith(t, n, x)
      BY <1>8, <3>4, Zenon
    <3> QED
      BY <1>4, <3>1, <3>2, <3>5, Zenon
  <2> HIDE DEF f, g
  <2>3. Links(f, g, lt)
    BY <2>2, Zenon DEF Links
  <2>4. f[lt] = g[lt]
    BY <1>1, <2>1, <2>3, AgreeFromZero, Zenon
  <2>5. lt \in 0 .. lt
    BY <1>1
  <2> QED
    BY <2>4, <2>5, Zenon DEF f, g
<1> QED
  BY <1>3, <1>4, <1>5, <1>7, <1>9, Zenon DEF ls, lt, st

-----------------------------------------------------------------------------
(* Tabs. *)

LEMMA UntabbedIs ==
  ASSUME NEW S, Blank \in S, NEW s \in Seq(S)
  PROVE  /\ Untabbed(s) \in Seq(S) /\ Len(Untabbed(s)) = Len(s)
         /\ \A k \in 1 .. Len(s) : Untabbed(s)[k] = IF s[k] = "\t" THEN Blank ELSE s[k]
<1>1. DOMAIN s = 1 .. Len(s) /\ Len(s) \in Nat /\ \A k \in 1 .. Len(s) : s[k] \in S
  OBVIOUS
<1>2. Untabbed(s) = [k \in 1 .. Len(s) |-> IF s[k] = "\t" THEN Blank ELSE s[k]]
  BY <1>1, Zenon DEF Untabbed
<1> QED
  BY <1>1, <1>2

LEMMA UntabbedEnds ==
  ASSUME NEW S, Blank \in S, NEW s \in Seq(S), Ended(s)
  PROVE  Ended(Untabbed(s))
<1>1. PICK u \in Seq(S) : u = Untabbed(s)
  BY UntabbedIs
<1>2. Len(u) = Len(s) /\ \A k \in 1 .. Len(s) : u[k] = IF s[k] = "\t" THEN Blank ELSE s[k]
  BY <1>1, UntabbedIs
<1>3. CASE s = <<>>
  <2>1. u = <<>>
    BY <1>2, <1>3
  <2> QED
    BY <1>1, <2>1 DEF Ended
<1>4. CASE s # <<>>
  <2>1. Len(s) \in 1 .. Len(s) /\ s[Len(s)] = "\n"
    BY <1>4 DEF Ended
  <2> QED
    BY <1>1, <1>2, <2>1 DEF Ended
<1> QED
  BY <1>3, <1>4

LEMMA UntabbedJoins ==
  ASSUME NEW S, Blank \in S, NEW s \in Seq(S), NEW t \in Seq(S)
  PROVE  Untabbed(s \o t) = Untabbed(s) \o Untabbed(t)
<1> DEFINE tabbed(x) == IF x = "\t" THEN Blank ELSE x
<1>1. PICK st \in Seq(S) : st = s \o t
  BY Joined
<1>2. /\ Len(st) = Len(s) + Len(t) /\ Len(s) \in Nat /\ Len(t) \in Nat
      /\ \A i \in 1 .. Len(s) : st[i] = s[i]
      /\ \A i \in 1 .. Len(t) : st[Len(s) + i] = t[i]
  BY <1>1
<1>3. PICK a \in Seq(S) : /\ a = Untabbed(s) /\ Len(a) = Len(s)
                          /\ \A k \in 1 .. Len(s) : a[k] = tabbed(s[k])
  BY UntabbedIs, Zenon
<1>4. PICK b \in Seq(S) : /\ b = Untabbed(t) /\ Len(b) = Len(t)
                          /\ \A k \in 1 .. Len(t) : b[k] = tabbed(t[k])
  BY UntabbedIs, Zenon
<1>5. PICK c \in Seq(S) : /\ c = Untabbed(st) /\ Len(c) = Len(st)
                          /\ \A k \in 1 .. Len(st) : c[k] = tabbed(st[k])
  BY UntabbedIs, Zenon
<1> HIDE DEF tabbed
<1>6. \A i \in 1 .. Len(a) : c[i] = a[i]
  BY <1>2, <1>3, <1>5
<1>7. \A i \in 1 .. Len(b) : c[Len(a) + i] = b[i]
  BY <1>2, <1>3, <1>4, <1>5
<1>8. Joins(c, a, b)
  BY <1>2, <1>3, <1>4, <1>5, <1>6, <1>7 DEF Joins
<1>9. c = a \o b
  BY <1>8, JoinedIs, Zenon
<1> QED
  BY <1>1, <1>3, <1>4, <1>5, <1>9, Zenon

-----------------------------------------------------------------------------
(* Lines. *)

Unparted    == << <<>> >>
Opening(x)  == Append(x, <<>>)

(* The parts of n symbols, when x are those of the first n - 1. *)
PartedWith(s, cuts, n, x) == IF n \in cuts THEN Opening(x) ELSE Extended(x, s[n])

Parted(s, cuts, parts) ==
  parts = [n \in 0 .. Len(s) |-> IF n = 0 THEN Unparted ELSE PartedWith(s, cuts, n, parts[n - 1])]

Pieces(S) == {x \in Seq(Seq(S)) : x # <<>>}

LEMMA ExtendedType ==
  ASSUME NEW S, NEW x \in Pieces(S), NEW c \in S
  PROVE  Extended(x, c) \in Pieces(S) /\ Opening(x) \in Pieces(S)
<1>1. Len(x) \in Nat \ {0} /\ x \in Seq(Seq(S))
  BY DEF Pieces
<1>2. PICK y \in Seq(S) : y = x[Len(x)]
  BY <1>1
<1>3. PICK z \in Seq(S) : z = Append(y, c)
  <2>1. Append(y, c) \in Seq(S)
    OBVIOUS
  <2> QED
    BY <2>1
<1>4. Extended(x, c) = [x EXCEPT ![Len(x)] = z]
  BY <1>2, <1>3, Zenon DEF Extended
<1>5. [x EXCEPT ![Len(x)] = z] \in Seq(Seq(S)) /\ Len([x EXCEPT ![Len(x)] = z]) = Len(x)
  BY <1>1
<1>6. <<>> \in Seq(S)
  OBVIOUS
<1>7. Opening(x) \in Seq(Seq(S)) /\ Opening(x) # <<>>
  BY <1>1, <1>6, AppendType, Zenon DEF Opening
<1> QED
  BY <1>1, <1>4, <1>5, <1>7 DEF Pieces

PartsFrom(S, s, cuts) ==
  {parts \in [0 .. Len(s) -> Pieces(S)] :
     /\ parts[0] = Unparted
     /\ \A n \in 1 .. Len(s) : parts[n] = PartedWith(s, cuts, n, parts[n - 1])
     /\ Parts(s, cuts) = parts[Len(s)]}

LEMMA PartsIs ==
  ASSUME NEW S, NEW s \in Seq(S), NEW cuts
  PROVE  PartsFrom(S, s, cuts) # {}
<1> DEFINE step == [n \in 1 .. Len(s) |-> [x \in Pieces(S) |-> PartedWith(s, cuts, n, x)]]
           K == CHOOSE parts : Parted(s, cuts, parts)
<1>1. Unparted \in Pieces(S) /\ Len(s) \in Nat
  BY DEF Pieces, Unparted
<1>2. \A n \in 1 .. Len(s) : \A x \in Pieces(S) : PartedWith(s, cuts, n, x) \in Pieces(S)
  <2>1. \A n \in 1 .. Len(s) : s[n] \in S
    OBVIOUS
  <2> QED
    BY <2>1, ExtendedType, Zenon DEF PartedWith
<1>3. \A n \in 1 .. Len(s) : \A x \in Pieces(S) : step[n][x] = PartedWith(s, cuts, n, x)
  OBVIOUS
<1>4. step \in [1 .. Len(s) -> [Pieces(S) -> Pieces(S)]]
  BY <1>2
<1> HIDE DEF step
<1>5. PICK f \in [0 .. Len(s) -> Pieces(S)] : f[0] = Unparted /\ \A n \in 1 .. Len(s) : f[n] = step[n][f[n - 1]]
  <2>1. Recursion(Pieces(S), Unparted, Len(s), step) # {}
    BY <1>1, <1>4, RecursionExists, Zenon
  <2> QED
    BY <2>1, Zenon DEF Recursion
<1>6. Parted(s, cuts, f)
  <2>1. f = [n \in 0 .. Len(s) |-> f[n]] /\ f[0] = Unparted
    BY <1>5
  <2>2. ASSUME NEW n \in 0 .. Len(s), n # 0 PROVE f[n] = PartedWith(s, cuts, n, f[n - 1])
    <3>1. n \in 1 .. Len(s) /\ f[n - 1] \in Pieces(S)
      BY <1>1, <2>2
    <3> QED
      BY <1>3, <1>5, <3>1, Zenon
  <2> QED
    BY <2>1, <2>2, Zenon DEF Parted
<1>7. Parted(s, cuts, K) /\ Parts(s, cuts) = K[Len(s)]
  BY <1>6, Zenon DEF Parts, Parted, PartedWith, Unparted, Opening
<1> HIDE DEF K
<1>8. /\ K = [n \in 0 .. Len(s) |-> K[n]] /\ K[0] = Unparted
      /\ \A n \in 1 .. Len(s) : K[n] = PartedWith(s, cuts, n, K[n - 1])
  BY <1>7 DEF Parted
<1>9. K \in [0 .. Len(s) -> Pieces(S)]
  <2>1. K[0] \in Pieces(S) /\ \A n \in 1 .. Len(s) : K[n - 1] \in Pieces(S) => K[n] \in Pieces(S)
    BY <1>1, <1>2, <1>8, Zenon
  <2> QED
    BY <1>1, <1>8, <2>1, RecursionType, Zenon
<1> QED
  BY <1>7, <1>8, <1>9, Zenon DEF PartsFrom

(* Pieces before, and one behind its newline. *)
LEMMA PartedJoins ==
  ASSUME NEW S, NEW f \in Seq(Seq(S)), NEW x \in Pieces(S), NEW c \in S
  PROVE  /\ f \o Opening(x) = Opening(f \o x)
         /\ f \o Extended(x, c) = Extended(f \o x, c)
<1>1. x \in Seq(Seq(S)) /\ x # <<>> /\ Len(x) \in Nat \ {0} /\ <<>> \in Seq(S) /\ Len(f) \in Nat
  BY DEF Pieces
<1>2. f \o Opening(x) = Opening(f \o x)
  <2>1. ASSUME NEW e \in Seq(S) PROVE f \o Append(x, e) = Append(f \o x, e)
    BY <1>1, JoinedAppend
  <2> QED
    BY <1>1, <2>1, Zenon DEF Opening
<1>3. PICK fx \in Pieces(S) : fx = f \o x
  <2>1. f \o x \in Seq(Seq(S)) /\ f \o x # <<>>
    BY <1>1
  <2> QED
    BY <2>1 DEF Pieces
<1>4. Len(fx) = Len(f) + Len(x) /\ \A i \in 1 .. Len(f) : fx[i] = f[i]
  BY <1>1, <1>3
<1>5. \A i \in 1 .. Len(x) : fx[Len(f) + i] = x[i]
  BY <1>1, <1>3
<1>6. PICK y \in Pieces(S) : y = Extended(x, c)
  BY ExtendedType
<1>7. PICK z \in Pieces(S) : z = Extended(fx, c)
  BY ExtendedType
<1>8. /\ y \in Seq(Seq(S)) /\ Len(y) = Len(x)
      /\ \A i \in 1 .. Len(x) : y[i] = IF i = Len(x) THEN Append(x[i], c) ELSE x[i]
  BY <1>1, <1>6 DEF Extended, Pieces
<1>9. /\ z \in Seq(Seq(S)) /\ Len(z) = Len(fx)
      /\ \A i \in 1 .. Len(fx) : z[i] = IF i = Len(fx) THEN Append(fx[i], c) ELSE fx[i]
  BY <1>7 DEF Extended, Pieces
<1>10. \A i \in 1 .. Len(f) : z[i] = f[i]
  BY <1>1, <1>4, <1>9
<1>11. \A i \in 1 .. Len(y) : z[Len(f) + i] = y[i]
  <2> SUFFICES ASSUME NEW i \in 1 .. Len(x) PROVE z[Len(f) + i] = y[i]
    BY <1>8
  <2>1. Len(f) + i \in 1 .. Len(fx) /\ (Len(f) + i = Len(fx) <=> i = Len(x))
    <3>1. PICK m \in Nat, n \in Nat : m = Len(f) /\ n = Len(x) /\ Len(fx) = m + n /\ i \in 1 .. n
      BY <1>1, <1>4
    <3> QED
      BY <3>1, Shifted
  <2>2. fx[Len(f) + i] = x[i]
    BY <1>5
  <2> QED
    BY <1>8, <1>9, <2>1, <2>2, Zenon
<1>12. z = f \o y
  <2>1. Joins(z, f, y)
    BY <1>4, <1>8, <1>9, <1>10, <1>11 DEF Joins
  <2> QED
    BY <1>8, <1>9, <2>1, JoinedIs, Zenon
<1> QED
  BY <1>2, <1>3, <1>6, <1>7, <1>12, Zenon

(* What LinesIn makes of the parts. *)
LineTexts(S)   == {Trimmed(x) : x \in Seq(S)}
LinesOf(parts) == [k \in 1 .. Len(parts) - 1 |-> Trimmed(parts[k])]

PartsJoined(s, t, f, r) ==
  /\ Parts(s, At(s, "\n")) = Opening(f)
  /\ Parts(t, At(t, "\n")) = r
  /\ Parts(s \o t, At(s \o t, "\n")) = f \o r

(* The parts of a text behind one that ends with a newline. *)
LEMMA PartsJoin ==
  ASSUME NEW S, NEW s \in Seq(S), NEW t \in Seq(S), Ended(s)
  PROVE  \E f \in Seq(Seq(S)), r \in Pieces(S) : PartsJoined(s, t, f, r)
<1> DEFINE ls == Len(s)
           lt == Len(t)
           cs == At(s, "\n")
           ct == At(t, "\n")
<1>1. PICK st \in Seq(S) : st = s \o t
  BY Joined
<1>2. /\ ls \in Nat /\ lt \in Nat /\ Len(st) = ls + lt
      /\ \A n \in 1 .. ls : st[n] = s[n] /\ s[n] \in S
      /\ \A n \in 1 .. lt : st[ls + n] = t[n] /\ t[n] \in S
  BY <1>1
<1> DEFINE c == At(st, "\n")
<1>3. /\ \A n \in 1 .. ls : n \in c <=> n \in cs
      /\ \A n \in 1 .. lt : ls + n \in c <=> n \in ct
  BY <1>2 DEF At
<1>4. PICK P \in [0 .. ls -> Pieces(S)] :
        /\ P[0] = Unparted /\ \A n \in 1 .. ls : P[n] = PartedWith(s, cs, n, P[n - 1])
        /\ Parts(s, cs) = P[ls]
  <2>1. PartsFrom(S, s, cs) # {}
    BY PartsIs, Zenon
  <2> QED
    BY <2>1, Zenon DEF PartsFrom
<1>5. PICK R \in [0 .. lt -> Pieces(S)] :
        /\ R[0] = Unparted /\ \A n \in 1 .. lt : R[n] = PartedWith(t, ct, n, R[n - 1])
        /\ Parts(t, ct) = R[lt]
  <2>1. PartsFrom(S, t, ct) # {}
    BY PartsIs, Zenon
  <2> QED
    BY <2>1, Zenon DEF PartsFrom
<1>6. PICK Q \in [0 .. ls + lt -> Pieces(S)] :
        /\ Q[0] = Unparted /\ \A n \in 1 .. ls + lt : Q[n] = PartedWith(st, c, n, Q[n - 1])
        /\ Parts(st, c) = Q[ls + lt]
  <2>1. PartsFrom(S, st, c) # {}
    BY PartsIs, Zenon
  <2>2. Len(st) = ls + lt
    BY <1>2
  <2> QED
    BY <2>1, <2>2, Zenon DEF PartsFrom
<1>7. PICK f \in Seq(Seq(S)) : P[ls] = Opening(f)
  <2>1. CASE ls = 0
    <3>1. <<>> \in Seq(Seq(S)) /\ Opening(<<>>) = Unparted
      BY DEF Opening, Unparted
    <3> QED
      BY <1>4, <2>1, <3>1, Zenon
  <2>2. CASE ls # 0
    <3>1. ls \in cs /\ ls \in 1 .. ls /\ ls - 1 \in 0 .. ls
      BY <1>2, <2>2 DEF At, Ended
    <3>2. P[ls] = Opening(P[ls - 1])
      BY <1>4, <3>1, Zenon DEF PartedWith
    <3>3. P[ls - 1] \in Seq(Seq(S))
      BY <3>1 DEF Pieces
    <3> QED
      BY <3>2, <3>3, Zenon
  <2> QED
    BY <2>1, <2>2
<1> HIDE DEF ls, lt, cs, ct, c
<1>8. Q[ls] = P[ls]
  <2>1. ASSUME NEW n \in 1 .. ls, Q[n - 1] = P[n - 1] PROVE Q[n] = P[n]
    <3>1. n \in 1 .. ls + lt /\ st[n] = s[n] /\ (n \in c <=> n \in cs)
      BY <1>2, <1>3
    <3>2. Q[n] = PartedWith(st, c, n, P[n - 1]) /\ P[n] = PartedWith(s, cs, n, P[n - 1])
      BY <1>4, <1>6, <2>1, <3>1, Zenon
    <3> QED
      BY <3>1, <3>2, Zenon DEF PartedWith
  <2>2. Q[0] = P[0]
    BY <1>4, <1>6, Zenon
  <2>3. Links(Q, P, ls)
    BY <2>1, Zenon DEF Links
  <2> QED
    BY <1>2, <2>2, <2>3, AgreeFromZero, Zenon
<1>9. ASSUME NEW n \in 1 .. lt, NEW x \in Pieces(S)
      PROVE  PartedWith(st, c, ls + n, f \o x) = f \o PartedWith(t, ct, n, x)
  <2>1. st[ls + n] = t[n] /\ t[n] \in S /\ (ls + n \in c <=> n \in ct)
    BY <1>2, <1>3
  <2>2. f \o Opening(x) = Opening(f \o x) /\ f \o Extended(x, t[n]) = Extended(f \o x, t[n])
    BY <2>1, PartedJoins
  <2> QED
    BY <2>1, <2>2, Zenon DEF PartedWith
<1>10. Q[ls + lt] = f \o R[lt]
  <2> DEFINE a == [n \in 0 .. lt |-> Q[ls + n]]
             b == [n \in 0 .. lt |-> f \o R[n]]
  <2>1. a[0] = b[0]
    <3>1. f \o Unparted = Opening(f)
      BY DEF Opening, Unparted
    <3>2. ls + 0 = ls /\ 0 \in 0 .. lt
      BY <1>2
    <3>3. a[0] = Q[ls] /\ b[0] = f \o Unparted
      BY <1>5, <3>2, Zenon
    <3> QED
      BY <1>7, <1>8, <3>1, <3>3, Zenon
  <2>2. ASSUME NEW n \in 1 .. lt, a[n - 1] = b[n - 1] PROVE a[n] = b[n]
    <3>1. ls + n \in 1 .. ls + lt /\ (ls + n) - 1 = ls + (n - 1) /\ n - 1 \in 0 .. lt /\ n \in 0 .. lt
      BY <1>2
    <3>2. PICK x \in Pieces(S) : x = R[n - 1]
      BY <3>1
    <3>3. Q[ls + (n - 1)] = f \o x
      BY <2>2, <3>1, <3>2, Zenon
    <3>4. Q[ls + n] = PartedWith(st, c, ls + n, f \o x)
      BY <1>6, <3>1, <3>3, Zenon
    <3>5. Q[ls + n] = f \o PartedWith(t, ct, n, x)
      BY <1>9, <3>4, Zenon
    <3> QED
      BY <1>5, <3>1, <3>2, <3>5, Zenon
  <2> HIDE DEF a, b
  <2>3. Links(a, b, lt)
    BY <2>2, Zenon DEF Links
  <2>4. a[lt] = b[lt]
    BY <1>2, <2>1, <2>3, AgreeFromZero, Zenon
  <2>5. lt \in 0 .. lt
    BY <1>2
  <2> QED
    BY <2>4, <2>5, Zenon DEF a, b
<1>11. R[lt] \in Pieces(S)
  BY <1>2
<1> QED
  BY <1>1, <1>4, <1>5, <1>6, <1>7, <1>10, <1>11, Zenon DEF PartsJoined, ls, lt, cs, ct, c

(***************************************************************************)
(* The lines of a text that ends with a newline, and then those behind it. *)
(***************************************************************************)
LEMMA LinesJoin ==
  ASSUME NEW S, NEW s \in Seq(S), NEW t \in Seq(S), Ended(s)
  PROVE  /\ LinesIn(s) \in Seq(LineTexts(S)) /\ LinesIn(t) \in Seq(LineTexts(S))
         /\ LinesIn(s \o t) = LinesIn(s) \o LinesIn(t)
<1>1. PICK f \in Seq(Seq(S)), r \in Pieces(S) : PartsJoined(s, t, f, r)
  BY PartsJoin, Zenon
<1>2. PICK e \in Seq(Seq(S)), g \in Seq(Seq(S)) : e = Opening(f) /\ g = f \o r
  <2>1. Opening(f) \in Seq(Seq(S)) /\ f \o r \in Seq(Seq(S))
    BY DEF Pieces, Opening
  <2> QED
    BY <2>1, Zenon
<1>3. LinesIn(s) = LinesOf(e) /\ LinesIn(t) = LinesOf(r) /\ LinesIn(s \o t) = LinesOf(g)
  BY <1>1, <1>2, Zenon DEF LinesIn, LinesOf, PartsJoined
<1> DEFINE T == LineTexts(S)
<1>4. PICK m \in Nat, n \in Nat : m = Len(f) /\ n = Len(r) - 1
  <2>1. Len(f) \in Nat /\ Len(r) - 1 \in Nat
    BY DEF Pieces
  <2> QED
    BY <2>1, Zenon
<1>5. /\ Len(e) - 1 = m /\ Len(r) - 1 = n /\ Len(g) - 1 = m + n
      /\ \A k \in 1 .. m : e[k] = f[k] /\ g[k] = f[k] /\ f[k] \in Seq(S)
      /\ \A k \in 1 .. n : g[m + k] = r[k] /\ r[k] \in Seq(S)
  <2>1. f \in Seq(Seq(S)) /\ r \in Seq(Seq(S)) /\ Len(f) = m /\ Len(r) = n + 1
    BY <1>4 DEF Pieces
  <2>2. Len(e) - 1 = m /\ \A k \in 1 .. m : e[k] = f[k] /\ f[k] \in Seq(S)
    <3>1. e = Append(f, <<>>) /\ m = Len(f) /\ f \in Seq(Seq(S)) /\ <<>> \in Seq(S)
      BY <1>2, <2>1 DEF Opening
    <3> QED
      BY <3>1, Appended
  <2>3. Len(g) - 1 = m + n /\ \A k \in 1 .. m : g[k] = f[k]
    <3>1. g = f \o r /\ m = Len(f) /\ n + 1 = Len(r) /\ f \in Seq(Seq(S)) /\ r \in Seq(Seq(S))
      BY <1>2, <2>1
    <3>2. Len(f \o r) = Len(f) + Len(r) /\ \A k \in 1 .. Len(f) : (f \o r)[k] = f[k]
      <4>1. f \in Seq(Seq(S)) /\ r \in Seq(Seq(S))
        BY <3>1
      <4> QED
        BY <4>1, Joined
    <3>3. Len(g) = m + (n + 1) /\ \A k \in 1 .. m : g[k] = f[k]
      BY <3>1, <3>2, Zenon
    <3> QED
      BY <3>3
  <2>4. \A k \in 1 .. n : g[m + k] = r[k] /\ r[k] \in Seq(S)
    BY <1>2, <2>1
  <2> QED
    BY <1>4, <2>2, <2>3, <2>4
<1>6. \A x \in Seq(S) : Trimmed(x) \in T
  BY DEF LineTexts
<1> HIDE DEF T
<1>7. PICK a \in Seq(T) : a = LinesOf(e) /\ Len(a) = m /\ \A k \in 1 .. m : a[k] = Trimmed(f[k])
  <2>1. LinesOf(e) = [k \in 1 .. m |-> Trimmed(f[k])]
    BY <1>5 DEF LinesOf
  <2>2. LinesOf(e) = [k \in 1 .. m |-> LinesOf(e)[k]] /\ \A k \in 1 .. m : LinesOf(e)[k] = Trimmed(f[k])
    BY <2>1
  <2>3. LinesOf(e) \in Seq(T) /\ Len(LinesOf(e)) = m
    <3>1. \A k \in 1 .. m : LinesOf(e)[k] \in T
      BY <1>5, <1>6, <2>2, Zenon
    <3> QED
      BY <2>2, <3>1, MappedType, Zenon
  <2> QED
    BY <2>2, <2>3, Zenon
<1>8. PICK b \in Seq(T) : b = LinesOf(r) /\ Len(b) = n /\ \A k \in 1 .. n : b[k] = Trimmed(r[k])
  <2>1. LinesOf(r) = [k \in 1 .. n |-> Trimmed(r[k])]
    BY <1>5 DEF LinesOf
  <2>2. LinesOf(r) = [k \in 1 .. n |-> LinesOf(r)[k]] /\ \A k \in 1 .. n : LinesOf(r)[k] = Trimmed(r[k])
    BY <2>1
  <2>3. LinesOf(r) \in Seq(T) /\ Len(LinesOf(r)) = n
    <3>1. \A k \in 1 .. n : LinesOf(r)[k] \in T
      BY <1>5, <1>6, <2>2, Zenon
    <3> QED
      BY <2>2, <3>1, MappedType, Zenon
  <2> QED
    BY <2>2, <2>3, Zenon
<1>9. PICK c \in Seq(T) : /\ c = LinesOf(g) /\ Len(c) = m + n
                          /\ \A k \in 1 .. m : c[k] = Trimmed(f[k])
                          /\ \A k \in 1 .. n : c[m + k] = Trimmed(r[k])
  <2>1. LinesOf(g) = [k \in 1 .. m + n |-> Trimmed(g[k])]
    BY <1>5 DEF LinesOf
  <2>2. \A k \in 1 .. m + n : g[k] \in Seq(S)
    BY <1>5
  <2>3. /\ LinesOf(g) = [k \in 1 .. m + n |-> LinesOf(g)[k]]
        /\ \A k \in 1 .. m + n : LinesOf(g)[k] = Trimmed(g[k])
    BY <2>1
  <2>4. LinesOf(g) \in Seq(T) /\ Len(LinesOf(g)) = m + n
    <3>1. m + n \in Nat /\ \A k \in 1 .. m + n : LinesOf(g)[k] \in T
      <4>1. m + n \in Nat
        OBVIOUS
      <4> QED
        BY <4>1, <1>6, <2>2, <2>3, Zenon
    <3> QED
      BY <2>3, <3>1, MappedType, Zenon
  <2>5. /\ \A k \in 1 .. m : LinesOf(g)[k] = Trimmed(f[k])
        /\ \A k \in 1 .. n : LinesOf(g)[m + k] = Trimmed(r[k])
    <3>1. /\ \A k \in 1 .. m : k \in 1 .. m + n
          /\ \A k \in 1 .. n : m + k \in 1 .. m + n
      OBVIOUS
    <3> QED
      BY <1>5, <2>3, <3>1, Zenon
  <2> QED
    BY <2>4, <2>5, Zenon
<1>10. Joins(c, a, b)
  BY <1>7, <1>8, <1>9 DEF Joins
<1>11. c = a \o b
  BY <1>10, JoinedIs, Zenon
<1> QED
  BY <1>3, <1>7, <1>8, <1>9, <1>11, Zenon DEF T

-----------------------------------------------------------------------------
(* Comments: the first of some places. *)

First(v, n, from, places) ==
  /\ v \in 1 .. n + 1 /\ (v <= n => v \in places /\ v >= from)
  /\ \A k \in places : k >= from => v <= k

LEMMA MinIs ==
  ASSUME NEW T \in SUBSET Nat, T # {}
  PROVE  Min(T) \in T /\ \A n \in T : Min(T) <= n
<1>1. \E n \in T : \A m \in T : n <= m
  BY LeastNat
<1> QED
  BY <1>1, Zenon DEF Min

LEMMA FromIs ==
  ASSUME NEW S, NEW s \in Seq(S), NEW from \in Nat, NEW places \in SUBSET (1 .. Len(s))
  PROVE  First(From(s, from, places), Len(s), from, places)
<1> DEFINE found == {k \in places : k >= from} \cup {Len(s) + 1}
<1> DEFINE v == From(s, from, places)
<1>0. PICK n \in Nat : n = Len(s)
  <2>1. Len(s) \in Nat
    OBVIOUS
  <2> QED
    BY <2>1
<1> HIDE DEF v
<1>1. found \in SUBSET Nat /\ found # {}
  <2>1. places \in SUBSET (1 .. n)
    BY <1>0
  <2>2. \A k \in found : (k \in places \/ k = n + 1) /\ k \in Nat
    BY <1>0, <2>1
  <2>3. n + 1 \in found
    BY <1>0
  <2> QED
    BY <2>2, <2>3, Zenon
<1>2. v = Min(found)
  BY Zenon DEF From, v
<1>3. Min(found) \in found /\ \A k \in found : Min(found) <= k
  BY <1>1, MinIs, Zenon
<1>4. v \in found /\ \A k \in found : v <= k
  BY <1>2, <1>3, Zenon
<1>5. (v \in places /\ v >= from) \/ v = n + 1
  BY <1>0, <1>4
<1>6. places \in SUBSET (1 .. n) /\ \A k \in places : k >= from => v <= k
  BY <1>0, <1>4
<1>7. v \in 1 .. n + 1 /\ (v <= n => v \in places /\ v >= from)
  <2>1. CASE v \in places /\ v >= from
    BY <1>6, <2>1
  <2>2. CASE v = n + 1
    BY <2>2
  <2> QED
    BY <1>5, <2>1, <2>2
<1>8. First(v, n, from, places)
  BY <1>6, <1>7, Zenon DEF First
<1> QED
  BY <1>0, <1>8 DEF v

LEMMA FirstUnique ==
  ASSUME NEW n \in Nat, NEW from \in Nat, NEW places \in SUBSET (1 .. n), NEW v, NEW w,
         First(v, n, from, places), First(w, n, from, places)
  PROVE  v = w
BY DEF First

(* Places in two texts and in the one they make. *)
Joint(m, n, both, left, right) ==
  /\ left \in SUBSET (1 .. m) /\ right \in SUBSET (1 .. n) /\ both \in SUBSET (1 .. m + n)
  /\ \A k \in 1 .. m : k \in both <=> k \in left
  /\ \A k \in 1 .. n : m + k \in both <=> k \in right

LEMMA FromBefore ==
  ASSUME NEW S, NEW s \in Seq(S), NEW t \in Seq(S), NEW both, NEW left, NEW right,
         Joint(Len(s), Len(t), both, left, right), NEW from \in Nat, From(s, from, left) <= Len(s)
  PROVE  From(s \o t, from, both) = From(s, from, left)
<1>1. /\ Len(s) \in Nat /\ Len(t) \in Nat /\ Len(s \o t) = Len(s) + Len(t) /\ s \o t \in Seq(S)
      /\ left \in SUBSET (1 .. Len(s)) /\ both \in SUBSET (1 .. Len(s) + Len(t))
  BY DEF Joint
<1>2. PICK v : v = From(s, from, left) /\ First(v, Len(s), from, left)
  BY <1>1, FromIs
<1>3. First(v, Len(s) + Len(t), from, both)
  BY <1>1, <1>2 DEF First, Joint
<1>4. First(From(s \o t, from, both), Len(s) + Len(t), from, both)
  <2>1. PICK u \in Seq(S) : u = s \o t
    BY <1>1
  <2> QED
    BY <1>1, <2>1, FromIs
<1>5. Len(s) + Len(t) \in Nat
  BY <1>1
<1> QED
  BY <1>1, <1>2, <1>3, <1>4, <1>5, FirstUnique, Zenon

LEMMA FirstBehind ==
  ASSUME NEW m \in Nat, NEW n \in Nat, NEW both, NEW left, NEW right, Joint(m, n, both, left, right),
         NEW a \in Nat, NEW b \in Nat, \A k \in 1 .. n : m + k >= a <=> k >= b,
         \A k \in left : k < a, NEW v, First(v, n, b, right)
  PROVE  First(m + v, m + n, a, both)
<1>1. v \in 1 .. n + 1 /\ m + v \in 1 .. (m + n) + 1
  BY DEF First
<1>2. ASSUME m + v <= m + n PROVE m + v \in both /\ m + v >= a
  <2>1. v \in 1 .. n /\ v \in right /\ v >= b
    BY <1>1, <1>2 DEF First
  <2> QED
    BY <2>1 DEF Joint
<1>3. ASSUME NEW k \in both, k >= a PROVE m + v <= k
  <2>1. k \in 1 .. m + n /\ ~(k \in 1 .. m)
    BY <1>3 DEF Joint
  <2>2. k - m \in 1 .. n /\ m + (k - m) = k
    BY <2>1
  <2>3. k - m \in right /\ k - m >= b
    BY <1>3, <2>2 DEF Joint
  <2>4. v <= k - m
    BY <2>3 DEF First
  <2> QED
    BY <1>1, <2>2, <2>4
<1> QED
  BY <1>1, <1>2, <1>3 DEF First

LEMMA FromBehind ==
  ASSUME NEW S, NEW s \in Seq(S), NEW t \in Seq(S), NEW both, NEW left, NEW right,
         Joint(Len(s), Len(t), both, left, right), NEW a \in Nat, NEW b \in Nat \ {0},
         \/ a = Len(s) + b
         \/ b = 1 /\ a <= Len(s) + 1 /\ From(s, a, left) > Len(s)
  PROVE  From(s \o t, a, both) = Len(s) + From(t, b, right)
<1>1. PICK m \in Nat, n \in Nat : m = Len(s) /\ n = Len(t)
  <2>1. Len(s) \in Nat /\ Len(t) \in Nat
    OBVIOUS
  <2> QED
    BY <2>1
<1>2. PICK u \in Seq(S) : u = s \o t /\ Len(u) = m + n
  <2>1. s \o t \in Seq(S) /\ Len(s \o t) = Len(s) + Len(t)
    OBVIOUS
  <2> QED
    BY <1>1, <2>1
<1>3. /\ Joint(m, n, both, left, right) /\ left \in SUBSET (1 .. m) /\ right \in SUBSET (1 .. n)
      /\ both \in SUBSET (1 .. m + n) /\ m + n \in Nat
  BY <1>1 DEF Joint
<1>4. First(From(t, b, right), n, b, right)
  BY <1>1, <1>3, FromIs
<1>5. First(From(u, a, both), m + n, a, both)
  BY <1>2, <1>3, FromIs
<1>6. \A k \in 1 .. n : m + k >= a <=> k >= b
  BY <1>1
<1>7. \A k \in left : k < a
  <2>1. CASE a = m + b
    BY <1>3, <2>1
  <2>2. CASE a <= m + 1 /\ From(s, a, left) > m
    <3>1. First(From(s, a, left), m, a, left)
      BY <1>1, <1>3, FromIs
    <3> QED
      BY <1>3, <2>2, <3>1 DEF First
  <2> QED
    BY <1>1, <2>1, <2>2
<1>8. First(m + From(t, b, right), m + n, a, both)
  BY <1>3, <1>4, <1>6, <1>7, FirstBehind
<1>9. From(u, a, both) = m + From(t, b, right)
  BY <1>3, <1>5, <1>8, FirstUnique, Zenon
<1> QED
  BY <1>1, <1>2, <1>9

LEMMA FromShifted ==
  ASSUME NEW S, NEW s \in Seq(S), NEW t \in Seq(S), NEW both, NEW left, NEW right,
         Joint(Len(s), Len(t), both, left, right), NEW b \in Nat \ {0}
  PROVE  From(s \o t, Len(s) + b, both) = Len(s) + From(t, b, right)
<1>1. PICK a \in Nat : a = Len(s) + b
  <2>1. Len(s) + b \in Nat
    OBVIOUS
  <2> QED
    BY <2>1, Zenon
<1>2. From(s \o t, a, both) = Len(s) + From(t, b, right)
  BY <1>1, FromBehind
<1> QED
  BY <1>1, <1>2

-----------------------------------------------------------------------------
(* Comments: places in a text that ends with a newline and in what is behind it. *)

Both(s, t, u) ==
  /\ Len(u) = Len(s) + Len(t) /\ Len(s) \in Nat /\ Len(t) \in Nat
  /\ DOMAIN s = 1 .. Len(s) /\ DOMAIN t = 1 .. Len(t) /\ DOMAIN u = 1 .. Len(s) + Len(t)
  /\ \A k \in 1 .. Len(s) : u[k] = s[k]
  /\ \A k \in 1 .. Len(t) : u[Len(s) + k] = t[k]

LEMMA BothIs ==
  ASSUME NEW S, NEW s \in Seq(S), NEW t \in Seq(S)
  PROVE  Both(s, t, s \o t)
BY DEF Both

LEMMA JointAt ==
  ASSUME NEW s, NEW t, NEW u, Both(s, t, u), NEW c
  PROVE  Joint(Len(s), Len(t), At(u, c), At(s, c), At(t, c))
BY DEF Both, Joint, At

LEMMA JointText ==
  ASSUME NEW s, NEW t, NEW u, Both(s, t, u)
  PROVE  Joint(Len(s), Len(t), DOMAIN u \ At(u, Blank), DOMAIN s \ At(s, Blank), DOMAIN t \ At(t, Blank))
BY DEF Both, Joint, At

LEMMA JointPair ==
  ASSUME NEW s, NEW t, NEW u, Both(s, t, u), Ended(s), NEW a, NEW b, a # "\n"
  PROVE  Joint(Len(s), Len(t), Pair(u, a, b), Pair(s, a, b), Pair(t, a, b))
<1> DEFINE m == Len(s)
           n == Len(t)
<1>1. /\ Len(u) = m + n /\ m \in Nat /\ n \in Nat
      /\ DOMAIN s = 1 .. m /\ DOMAIN t = 1 .. n /\ DOMAIN u = 1 .. m + n
      /\ \A k \in 1 .. m : u[k] = s[k]
      /\ \A k \in 1 .. n : u[m + k] = t[k]
  BY DEF Both
<1>2. m # 0 => u[m] = "\n"
  <2>1. CASE s = <<>>
    BY <2>1
  <2>2. CASE s # <<>> /\ m # 0
    BY <1>1, <2>2 DEF Ended
  <2> QED
    BY <2>1, <2>2
<1> HIDE DEF m, n
<1>3. ASSUME NEW k \in 1 .. m PROVE k \in Pair(u, a, b) <=> k \in Pair(s, a, b)
  <2>1. CASE k = m
    BY <1>1, <1>2, <2>1 DEF Pair, At, m, n
  <2>2. CASE k # m
    <3>1. k \in 1 .. m /\ k + 1 \in 1 .. m /\ k \in 1 .. m + n /\ k < m + n /\ k < m
      BY <1>1, <2>2
    <3>2. u[k] = s[k] /\ u[k + 1] = s[k + 1]
      BY <1>1, <3>1
    <3> QED
      BY <1>1, <3>1, <3>2 DEF Pair, At, m, n
  <2> QED
    BY <2>1, <2>2
<1>4. ASSUME NEW k \in 1 .. n PROVE m + k \in Pair(u, a, b) <=> k \in Pair(t, a, b)
  <2>1. m + k \in 1 .. m + n /\ (m + k < m + n <=> k < n) /\ u[m + k] = t[k]
    BY <1>1
  <2>2. CASE k < n
    <3>1. k + 1 \in 1 .. n /\ m + (k + 1) = (m + k) + 1
      BY <1>1, <2>2
    <3>2. u[(m + k) + 1] = t[k + 1]
      BY <1>1, <3>1
    <3> QED
      BY <1>1, <2>1, <2>2, <3>2 DEF Pair, At, m, n
  <2>3. CASE ~(k < n)
    BY <1>1, <2>1, <2>3 DEF Pair, At, m, n
  <2> QED
    BY <2>2, <2>3
<1>5. /\ Pair(u, a, b) \in SUBSET (1 .. m + n) /\ Pair(s, a, b) \in SUBSET (1 .. m)
      /\ Pair(t, a, b) \in SUBSET (1 .. n)
  BY <1>1 DEF Pair, At
<1> QED
  BY <1>3, <1>4, <1>5 DEF Joint, m, n

(* Where a comment begins. *)
Opens(s) == At(s, Semi) \cup Pair(s, "/", "*")

LEMMA JointOpens ==
  ASSUME NEW s, NEW t, NEW u, Both(s, t, u), Ended(s)
  PROVE  Joint(Len(s), Len(t), Opens(u), Opens(s), Opens(t))
<1>1. Joint(Len(s), Len(t), At(u, Semi), At(s, Semi), At(t, Semi))
  BY JointAt
<1>2. "/" # "\n"
  OBVIOUS
<1>3. Joint(Len(s), Len(t), Pair(u, "/", "*"), Pair(s, "/", "*"), Pair(t, "/", "*"))
  BY <1>2, JointPair, Zenon
<1> QED
  BY <1>1, <1>3 DEF Joint, Opens

LEMMA CommentIs ==
  ASSUME NEW S, NEW s \in Seq(S), NEW from \in Nat
  PROVE  /\ Comment(s, from) = From(s, from, Opens(s)) /\ Opens(s) \in SUBSET (1 .. Len(s))
         /\ First(Comment(s, from), Len(s), from, Opens(s))
<1>1. Opens(s) \in SUBSET (1 .. Len(s))
  BY DEF Opens, At, Pair
<1>2. Comment(s, from) = From(s, from, Opens(s))
  BY Zenon DEF Comment, Opens
<1> QED
  BY <1>1, <1>2, FromIs, Zenon

LEMMA CommentBefore ==
  ASSUME NEW S, NEW s \in Seq(S), NEW t \in Seq(S), Ended(s), NEW from \in Nat,
         Comment(s, from) <= Len(s)
  PROVE  Comment(s \o t, from) = Comment(s, from)
<1>1. Joint(Len(s), Len(t), Opens(s \o t), Opens(s), Opens(t))
  BY BothIs, JointOpens, Zenon
<1>2. s \o t \in Seq(S)
  OBVIOUS
<1>3. Comment(s, from) = From(s, from, Opens(s)) /\ Comment(s \o t, from) = From(s \o t, from, Opens(s \o t))
  BY <1>2, CommentIs, Zenon
<1>4. From(s, from, Opens(s)) <= Len(s)
  BY <1>3
<1>5. From(s \o t, from, Opens(s \o t)) = From(s, from, Opens(s))
  BY <1>1, <1>4, FromBefore
<1> QED
  BY <1>3, <1>5, Zenon

LEMMA CommentBehind ==
  ASSUME NEW S, NEW s \in Seq(S), NEW t \in Seq(S), Ended(s), NEW a \in Nat, NEW b \in Nat \ {0},
         a = Len(s) + b \/ (b = 1 /\ a <= Len(s) + 1 /\ Comment(s, a) > Len(s))
  PROVE  Comment(s \o t, a) = Len(s) + Comment(t, b)
<1>1. Joint(Len(s), Len(t), Opens(s \o t), Opens(s), Opens(t))
  BY BothIs, JointOpens, Zenon
<1>2. s \o t \in Seq(S) /\ b \in Nat
  OBVIOUS
<1>3. /\ Comment(s, a) = From(s, a, Opens(s)) /\ Comment(s \o t, a) = From(s \o t, a, Opens(s \o t))
      /\ Comment(t, b) = From(t, b, Opens(t))
  BY <1>2, CommentIs, Zenon
<1>4. a = Len(s) + b \/ (b = 1 /\ a <= Len(s) + 1 /\ From(s, a, Opens(s)) > Len(s))
  BY <1>3
<1>5. From(s \o t, a, Opens(s \o t)) = Len(s) + From(t, b, Opens(t))
  BY <1>1, <1>4, FromBehind
<1> QED
  BY <1>3, <1>5, Zenon

-----------------------------------------------------------------------------
(* Comments: what is cut out. *)

LEMMA NewlineIsText == "\n" # Blank
BY Zenon DEF Blank

(* The first of the blanks right before k. *)
FirstBlank(j, s, k) ==
  /\ j \in 1 .. k /\ \A i \in j .. k - 1 : s[i] = Blank
  /\ j = 1 \/ s[j - 1] # Blank

IndentedFrom(j, s, k) == IF j = 1 \/ s[j - 1] = "\n" THEN j ELSE k

LEMMA IndentedIs ==
  ASSUME NEW s, NEW k \in Nat \ {0}
  PROVE  \E j \in 1 .. k : FirstBlank(j, s, k) /\ Indented(s, k) = IndentedFrom(j, s, k)
<1> DEFINE T == {j \in 1 .. k : \A i \in j .. k - 1 : s[i] = Blank}
           first == Min(T)
<1>1. T \in SUBSET Nat /\ k \in T
  OBVIOUS
<1>2. first \in T /\ \A n \in T : first <= n
  BY <1>1, MinIs, Zenon
<1>3. Indented(s, k) = IndentedFrom(first, s, k)
  BY Zenon DEF Indented, IndentedFrom
<1> HIDE DEF first
<1>4. first \in 1 .. k /\ \A i \in first .. k - 1 : s[i] = Blank
  BY <1>2
<1>5. ASSUME first # 1, s[first - 1] = Blank PROVE FALSE
  <2>1. first - 1 \in 1 .. k
    BY <1>4, <1>5
  <2>2. \A i \in first - 1 .. k - 1 : s[i] = Blank
    BY <1>4, <1>5
  <2>3. first <= first - 1
    BY <1>2, <2>1, <2>2
  <2> QED
    BY <1>4, <2>3
<1>6. FirstBlank(first, s, k)
  BY <1>4, <1>5 DEF FirstBlank
<1> QED
  BY <1>3, <1>4, <1>6

LEMMA FirstBlankUnique ==
  ASSUME NEW s, NEW k \in Nat \ {0}, NEW a \in 1 .. k, NEW b \in 1 .. k,
         FirstBlank(a, s, k), FirstBlank(b, s, k)
  PROVE  a = b
<1>1. \A x, y \in 1 .. k : FirstBlank(x, s, k) /\ FirstBlank(y, s, k) => ~(x < y)
  <2> SUFFICES ASSUME NEW x \in 1 .. k, NEW y \in 1 .. k,
                      FirstBlank(x, s, k), FirstBlank(y, s, k), x < y
               PROVE FALSE
    OBVIOUS
  <2>1. y - 1 \in x .. k - 1 /\ y # 1
    OBVIOUS
  <2> QED
    BY <2>1 DEF FirstBlank
<1> QED
  BY <1>1

LEMMA IndentedType ==
  ASSUME NEW s, NEW k \in Nat \ {0} PROVE Indented(s, k) \in 1 .. k
BY IndentedIs DEF IndentedFrom

LEMMA IndentedBefore ==
  ASSUME NEW s, NEW t, NEW u, Both(s, t, u), NEW k \in 1 .. Len(s)
  PROVE  Indented(u, k) = Indented(s, k)
<1>1. k \in Nat \ {0} /\ \A i \in 1 .. k : u[i] = s[i]
  BY DEF Both
<1>2. PICK j \in 1 .. k : FirstBlank(j, s, k) /\ Indented(s, k) = IndentedFrom(j, s, k)
  BY <1>1, IndentedIs
<1>3. PICK l \in 1 .. k : FirstBlank(l, u, k) /\ Indented(u, k) = IndentedFrom(l, u, k)
  BY <1>1, IndentedIs
<1>4. FirstBlank(l, s, k)
  BY <1>1, <1>3 DEF FirstBlank
<1>5. j = l
  BY <1>1, <1>2, <1>4, FirstBlankUnique
<1>6. j = 1 \/ u[j - 1] = s[j - 1]
  BY <1>1
<1> QED
  BY <1>2, <1>3, <1>5, <1>6 DEF IndentedFrom

LEMMA IndentedBehind ==
  ASSUME NEW s, NEW t, NEW u, Both(s, t, u), Ended(s), NEW k \in 1 .. Len(t)
  PROVE  Indented(u, Len(s) + k) = Len(s) + Indented(t, k)
<1> DEFINE m == Len(s)
<1>1. m \in Nat /\ k \in Nat \ {0} /\ m + k \in Nat \ {0} /\ \A i \in 1 .. k : u[m + i] = t[i]
  BY DEF Both
<1>2. m # 0 => u[m] = "\n"
  <2>1. CASE s = <<>>
    BY <2>1
  <2>2. CASE s # <<>> /\ m # 0
    BY <2>2 DEF Ended, Both
  <2> QED
    BY <2>1, <2>2
<1> HIDE DEF m
<1>3. PICK j \in 1 .. k : FirstBlank(j, t, k) /\ Indented(t, k) = IndentedFrom(j, t, k)
  BY <1>1, IndentedIs
<1>4. PICK l \in 1 .. m + k : FirstBlank(l, u, m + k) /\ Indented(u, m + k) = IndentedFrom(l, u, m + k)
  BY <1>1, IndentedIs
<1>5. FirstBlank(m + j, u, m + k)
  <2>1. m + j \in 1 .. m + k
    BY <1>1
  <2>2. ASSUME NEW i \in m + j .. (m + k) - 1 PROVE u[i] = Blank
    <3>1. i - m \in j .. k - 1 /\ i - m \in 1 .. k /\ m + (i - m) = i
      BY <1>1
    <3>2. t[i - m] = Blank
      BY <1>3, <3>1 DEF FirstBlank
    <3> QED
      BY <1>1, <3>1, <3>2
  <2>3. m + j = 1 \/ u[(m + j) - 1] # Blank
    <3>1. CASE j = 1
      BY <1>1, <1>2, <3>1, NewlineIsText
    <3>2. CASE j # 1
      <4>1. j - 1 \in 1 .. k /\ m + (j - 1) = (m + j) - 1
        BY <1>1, <3>2
      <4>2. u[(m + j) - 1] = t[j - 1]
        BY <1>1, <4>1
      <4> QED
        BY <1>3, <3>2, <4>2 DEF FirstBlank
    <3> QED
      BY <3>1, <3>2
  <2> QED
    BY <2>1, <2>2, <2>3 DEF FirstBlank
<1>6. l = m + j
  <2>1. m + j \in 1 .. m + k
    BY <1>1
  <2> QED
    BY <1>1, <1>4, <1>5, <2>1, FirstBlankUnique
<1>7. (m + j = 1 \/ u[(m + j) - 1] = "\n") <=> (j = 1 \/ t[j - 1] = "\n")
  <2>1. CASE j = 1
    BY <1>1, <1>2, <2>1
  <2>2. CASE j # 1
    <3>1. j - 1 \in 1 .. k /\ m + (j - 1) = (m + j) - 1 /\ m + j # 1
      BY <1>1, <2>2
    <3>2. u[(m + j) - 1] = t[j - 1]
      BY <1>1, <3>1
    <3> QED
      BY <2>2, <3>1, <3>2
  <2> QED
    BY <2>1, <2>2
<1> QED
  BY <1>3, <1>4, <1>6, <1>7 DEF IndentedFrom, m

Segment(c, s, a, n) == Len(c) = n /\ \A i \in 1 .. n : c[i] = s[(a + i) - 1]

LEMMA SubSeqAt ==
  ASSUME NEW S, NEW s \in Seq(S), NEW a \in Nat \ {0}, NEW b \in Nat, a <= b + 1, b <= Len(s)
  PROVE  SubSeq(s, a, b) \in Seq(S) /\ Segment(SubSeq(s, a, b), s, a, (b + 1) - a)
<1>1. /\ SubSeq(s, a, b) \in Seq(S) /\ Len(SubSeq(s, a, b)) = (b + 1) - a
      /\ \A i \in 1 .. (b + 1) - a : SubSeq(s, a, b)[i] = s[(a + i) - 1]
  OBVIOUS
<1> QED
  BY <1>1, Zenon DEF Segment

LEMMA SubSeqIs ==
  ASSUME NEW S, NEW s \in Seq(S), NEW a \in Nat \ {0}, NEW b \in Nat, NEW n \in Nat,
         b + 1 = a + n, b <= Len(s)
  PROVE  SubSeq(s, a, b) \in Seq(S) /\ Segment(SubSeq(s, a, b), s, a, n)
<1>1. a <= b + 1 /\ n = (b + 1) - a
  OBVIOUS
<1> QED
  BY <1>1, SubSeqAt, Zenon

LEMMA Ends == ASSUME NEW S, NEW s \in Seq(S) PROVE \E n \in Nat : n = Len(s)
<1>1. Len(s) \in Nat
  OBVIOUS
<1> QED
  BY <1>1, Zenon

Removed(s, from, to) == SubSeq(s, 1, from - 1) \o SubSeq(s, to, Len(s))

LEMMA RemovedIs ==
  ASSUME NEW S, NEW s \in Seq(S), NEW from \in 1 .. Len(s) + 1, NEW to \in 1 .. Len(s) + 1
  PROVE  /\ Removed(s, from, to) \in Seq(S)
         /\ Len(Removed(s, from, to)) = (from - 1) + ((Len(s) + 1) - to)
         /\ to <= Len(s) => Removed(s, from, to)[Len(Removed(s, from, to))] = s[Len(s)]
<1>1. PICK n \in Nat : n = Len(s)
  BY Ends, Zenon
<1> DEFINE k == (n + 1) - to
<1>2. /\ from - 1 \in Nat /\ (from - 1) + 1 = 1 + (from - 1) /\ from - 1 <= n
      /\ to \in Nat \ {0} /\ k \in Nat /\ n + 1 = to + k /\ n <= n /\ 1 \in Nat \ {0}
  BY <1>1
<1> HIDE DEF k
<1>3. PICK a \in Seq(S) : a = SubSeq(s, 1, from - 1) /\ Segment(a, s, 1, from - 1)
  BY <1>1, <1>2, SubSeqIs, Zenon
<1>4. PICK b \in Seq(S) : b = SubSeq(s, to, n) /\ Segment(b, s, to, k)
  BY <1>1, <1>2, SubSeqIs, Zenon
<1>5. Removed(s, from, to) = a \o b
  BY <1>1, <1>3, <1>4, Zenon DEF Removed
<1>6. PICK c \in Seq(S) : c = a \o b /\ Len(c) = Len(a) + Len(b) /\ \A i \in 1 .. Len(b) : c[Len(a) + i] = b[i]
  <2>1. /\ a \o b \in Seq(S) /\ Len(a \o b) = Len(a) + Len(b)
        /\ \A i \in 1 .. Len(b) : (a \o b)[Len(a) + i] = b[i]
    OBVIOUS
  <2> QED
    BY <2>1, Zenon
<1>7. ASSUME to <= n PROVE c[Len(c)] = s[n]
  <2>1. k \in 1 .. k /\ (to + k) - 1 = n
    BY <1>2, <1>7
  <2>2. b[k] = s[n] /\ Len(b) = k
    BY <1>4, <2>1 DEF Segment
  <2>3. c[Len(a) + k] = s[n]
    BY <1>6, <2>1, <2>2
  <2> QED
    BY <1>6, <2>2, <2>3
<1>8. Len(c) = (from - 1) + k
  BY <1>3, <1>4, <1>6 DEF Segment
<1> QED
  BY <1>1, <1>5, <1>6, <1>7, <1>8 DEF k

LEMMA RemovedBefore ==
  ASSUME NEW S, NEW s \in Seq(S), NEW t \in Seq(S),
         NEW from \in 1 .. Len(s) + 1, NEW to \in 1 .. Len(s) + 1
  PROVE  Removed(s \o t, from, to) = Removed(s, from, to) \o t
<1>1. PICK m \in Nat, n \in Nat : m = Len(s) /\ n = Len(t)
  BY Ends, Zenon
<1>2. PICK u \in Seq(S) : u = s \o t
  BY Joined
<1>3. /\ Len(u) = m + n
      /\ \A i \in 1 .. m : u[i] = s[i]
      /\ \A i \in 1 .. n : u[m + i] = t[i]
  BY <1>1, <1>2
<1> DEFINE k == (m + 1) - to
<1>4. /\ from - 1 \in Nat /\ (from - 1) + 1 = 1 + (from - 1) /\ from - 1 <= m /\ from - 1 <= m + n
      /\ to \in Nat \ {0} /\ k \in Nat /\ m + 1 = to + k /\ m <= m /\ 1 \in Nat \ {0}
      /\ m + n \in Nat /\ k + n \in Nat /\ (m + n) + 1 = to + (k + n) /\ m + n <= m + n
  BY <1>1
<1> HIDE DEF k
<1>5. PICK a \in Seq(S) : a = SubSeq(s, 1, from - 1) /\ Segment(a, s, 1, from - 1)
  BY <1>1, <1>4, SubSeqIs, Zenon
<1>6. PICK b \in Seq(S) : b = SubSeq(s, to, m) /\ Segment(b, s, to, k)
  BY <1>1, <1>4, SubSeqIs, Zenon
<1>7. PICK c \in Seq(S) : c = SubSeq(u, 1, from - 1) /\ Segment(c, u, 1, from - 1)
  BY <1>3, <1>4, SubSeqIs, Zenon
<1>8. PICK d \in Seq(S) : d = SubSeq(u, to, m + n) /\ Segment(d, u, to, k + n)
  BY <1>3, <1>4, SubSeqIs, Zenon
<1>9. c = a
  <2>1. ASSUME NEW i \in 1 .. from - 1 PROVE c[i] = a[i]
    <3>1. i \in 1 .. m /\ (1 + i) - 1 = i
      BY <1>4
    <3> QED
      BY <1>3, <1>5, <1>7, <3>1 DEF Segment
  <2>2. Len(c) = from - 1 /\ Len(a) = from - 1
    BY <1>5, <1>7 DEF Segment
  <2> QED
    BY <2>1, <2>2, SeqEqual
<1>10. d = b \o t
  <2>1. Len(d) = Len(b) + Len(t) /\ Len(b) = k /\ Len(d) = k + n
    BY <1>1, <1>6, <1>8 DEF Segment
  <2>2. ASSUME NEW i \in 1 .. k PROVE d[i] = b[i]
    <3>1. (to + i) - 1 \in 1 .. m /\ i \in 1 .. k + n
      BY <1>4
    <3>2. d[i] = u[(to + i) - 1] /\ b[i] = s[(to + i) - 1]
      BY <1>6, <1>8, <3>1, Zenon DEF Segment
    <3> QED
      BY <1>3, <3>1, <3>2
  <2>3. ASSUME NEW i \in 1 .. n PROVE d[k + i] = t[i]
    <3>1. k + i \in 1 .. k + n /\ (to + (k + i)) - 1 = m + i
      BY <1>4
    <3>2. d[k + i] = u[m + i]
      BY <1>8, <3>1 DEF Segment
    <3> QED
      BY <1>3, <3>2
  <2>4. Joins(d, b, t)
    BY <1>1, <2>1, <2>2, <2>3, Zenon DEF Joins
  <2> QED
    BY <2>4, JoinedIs, Zenon
<1>11. Removed(s, from, to) = a \o b /\ Removed(u, from, to) = c \o d
  BY <1>1, <1>3, <1>5, <1>6, <1>7, <1>8, Zenon DEF Removed
<1>12. (a \o b) \o t = a \o (b \o t)
  OBVIOUS
<1> QED
  BY <1>2, <1>9, <1>10, <1>11, <1>12, Zenon

LEMMA RemovedBehind ==
  ASSUME NEW S, NEW s \in Seq(S), NEW t \in Seq(S),
         NEW from \in 1 .. Len(t) + 1, NEW to \in 1 .. Len(t) + 1
  PROVE  Removed(s \o t, Len(s) + from, Len(s) + to) = s \o Removed(t, from, to)
<1>1. PICK m \in Nat, n \in Nat : m = Len(s) /\ n = Len(t)
  BY Ends, Zenon
<1>2. PICK u \in Seq(S) : u = s \o t
  BY Joined
<1>3. /\ Len(u) = m + n
      /\ \A i \in 1 .. m : u[i] = s[i]
      /\ \A i \in 1 .. n : u[m + i] = t[i]
  BY <1>1, <1>2
<1> DEFINE k == (n + 1) - to
           l == (m + from) - 1
<1>4. /\ from - 1 \in Nat /\ (from - 1) + 1 = 1 + (from - 1) /\ from - 1 <= n
      /\ to \in Nat \ {0} /\ k \in Nat /\ n + 1 = to + k /\ n <= n /\ 1 \in Nat \ {0}
      /\ l \in Nat /\ l + 1 = 1 + l /\ l <= m + n /\ l = m + (from - 1)
      /\ m + n \in Nat /\ m + to \in Nat \ {0} /\ (m + n) + 1 = (m + to) + k /\ m + n <= m + n
  BY <1>1
<1>5. PICK a \in Seq(S) : a = SubSeq(t, 1, from - 1) /\ Segment(a, t, 1, from - 1)
  BY <1>1, <1>4, SubSeqIs, Zenon
<1>6. PICK b \in Seq(S) : b = SubSeq(t, to, n) /\ Segment(b, t, to, k)
  <2> HIDE DEF k
  <2> QED
    BY <1>1, <1>4, SubSeqIs, Zenon
<1>7. PICK c \in Seq(S) : c = SubSeq(u, 1, l) /\ Segment(c, u, 1, l)
  <2> HIDE DEF l
  <2> QED
    BY <1>3, <1>4, SubSeqIs, Zenon
<1>8. PICK d \in Seq(S) : d = SubSeq(u, m + to, m + n) /\ Segment(d, u, m + to, k)
  <2> HIDE DEF k
  <2> QED
    BY <1>3, <1>4, SubSeqIs, Zenon
<1>9. Removed(t, from, to) = a \o b /\ Removed(u, m + from, m + to) = c \o d
  BY <1>1, <1>3, <1>5, <1>6, <1>7, <1>8, Zenon DEF Removed
<1> HIDE DEF k, l
<1>10. d = b
  <2>1. ASSUME NEW i \in 1 .. k PROVE d[i] = b[i]
    <3>1. (to + i) - 1 \in 1 .. n /\ m + ((to + i) - 1) = ((m + to) + i) - 1
      BY <1>4
    <3>2. d[i] = u[((m + to) + i) - 1] /\ b[i] = t[(to + i) - 1]
      BY <1>6, <1>8, Zenon DEF Segment
    <3> QED
      BY <1>3, <3>1, <3>2
  <2>2. Len(d) = k /\ Len(b) = k
    BY <1>6, <1>8 DEF Segment
  <2> QED
    BY <2>1, <2>2, SeqEqual
<1>11. c = s \o a
  <2>1. Len(c) = Len(s) + Len(a) /\ Len(a) = from - 1
    BY <1>1, <1>4, <1>5, <1>7 DEF Segment
  <2>2. ASSUME NEW i \in 1 .. m PROVE c[i] = s[i]
    <3>1. (1 + i) - 1 = i /\ i \in 1 .. l
      BY <1>4
    <3> QED
      BY <1>3, <1>7, <3>1 DEF Segment
  <2>3. ASSUME NEW i \in 1 .. from - 1 PROVE c[m + i] = a[i]
    <3>1. i \in 1 .. n /\ m + i \in 1 .. l /\ (1 + (m + i)) - 1 = m + i /\ (1 + i) - 1 = i
      BY <1>4
    <3>2. c[m + i] = u[m + i] /\ a[i] = t[i]
      BY <1>5, <1>7, <3>1 DEF Segment
    <3> QED
      BY <1>3, <3>1, <3>2
  <2>4. Joins(c, s, a)
    BY <1>1, <2>1, <2>2, <2>3, Zenon DEF Joins
  <2> QED
    BY <2>4, JoinedIs, Zenon
<1>12. (s \o a) \o b = s \o (a \o b)
  OBVIOUS
<1> QED
  BY <1>1, <1>2, <1>9, <1>10, <1>11, <1>12, Zenon

LEMMA NewlineIsNoComment == "\n" # Semi
BY Zenon DEF Semi

(* The end of the comment that begins at k. *)
CutEnd(s, k) ==
  IF s[k] = Semi THEN From(s, k, At(s, "\n"))
  ELSE From(s, From(s, k + 2, Pair(s, "*", "/")) + 2, DOMAIN s \ At(s, Blank))

LEMMA PlacesIn ==
  ASSUME NEW S, NEW s \in Seq(S)
  PROVE  /\ \A c : At(s, c) \in SUBSET (1 .. Len(s))
         /\ \A a, b : Pair(s, a, b) \in SUBSET (1 .. Len(s))
         /\ DOMAIN s \ At(s, Blank) \in SUBSET (1 .. Len(s))
<1>1. DOMAIN s = 1 .. Len(s)
  OBVIOUS
<1> QED
  BY <1>1, Zenon DEF At, Pair

LEMMA CutEndIs ==
  ASSUME NEW S, NEW s \in Seq(S), NEW k \in 1 .. Len(s)
  PROVE  CutEnd(s, k) \in k + 1 .. Len(s) + 1
<1>1. PICK n \in Nat : n = Len(s)
  BY Ends, Zenon
<1>2. k \in Nat /\ k + 2 \in Nat /\ k \in 1 .. n
  BY <1>1
<1>3. CASE s[k] = Semi
  <2>1. First(CutEnd(s, k), n, k, At(s, "\n"))
    BY <1>1, <1>2, <1>3, PlacesIn, FromIs, Zenon DEF CutEnd
  <2>2. k \notin At(s, "\n")
    BY <1>3, NewlineIsNoComment DEF At
  <2> QED
    BY <1>1, <1>2, <2>1, <2>2 DEF First
<1>4. CASE s[k] # Semi
  <2>1. PICK c : c = From(s, k + 2, Pair(s, "*", "/")) /\ First(c, n, k + 2, Pair(s, "*", "/"))
    BY <1>1, <1>2, PlacesIn, FromIs, Zenon
  <2>2. c \in Nat /\ c + 2 \in Nat /\ c >= k + 1
    BY <1>2, <2>1 DEF First
  <2>3. First(CutEnd(s, k), n, c + 2, DOMAIN s \ At(s, Blank))
    BY <1>1, <1>4, <2>1, <2>2, PlacesIn, FromIs, Zenon DEF CutEnd
  <2> QED
    BY <1>1, <1>2, <2>2, <2>3 DEF First
<1> QED
  BY <1>3, <1>4

LEMMA CutEndBefore ==
  ASSUME NEW S, NEW s \in Seq(S), NEW t \in Seq(S), Ended(s), NEW k \in 1 .. Len(s),
         s[k] = Semi \/ \E j \in Pair(s, "*", "/") : j >= k + 2
  PROVE  CutEnd(s, k) <= Len(s) /\ CutEnd(s \o t, k) = CutEnd(s, k)
<1>1. PICK n \in Nat : n = Len(s)
  BY Ends, Zenon
<1>2. k \in Nat /\ k + 2 \in Nat /\ k \in 1 .. n /\ n \in 1 .. n
  BY <1>1
<1>3. PICK u \in Seq(S) : u = s \o t /\ Both(s, t, u)
  BY Joined, BothIs
<1>4. s[n] = "\n" /\ u[k] = s[k] /\ DOMAIN s = 1 .. n
  <2>1. s # <<>>
    BY <1>1, <1>2
  <2> QED
    BY <1>1, <1>2, <1>3, <2>1 DEF Ended, Both
<1>5. CASE s[k] = Semi
  <2>1. First(CutEnd(s, k), n, k, At(s, "\n"))
    BY <1>1, <1>2, <1>5, PlacesIn, FromIs, Zenon DEF CutEnd
  <2>2. n \in At(s, "\n") /\ n >= k
    BY <1>2, <1>4 DEF At
  <2>3. CutEnd(s, k) <= n
    BY <2>1, <2>2 DEF First
  <2>4. Joint(Len(s), Len(t), At(u, "\n"), At(s, "\n"), At(t, "\n"))
    BY <1>3, JointAt, Zenon
  <2>5. From(s, k, At(s, "\n")) <= Len(s)
    BY <1>1, <1>5, <2>3 DEF CutEnd
  <2>6. From(s \o t, k, At(u, "\n")) = From(s, k, At(s, "\n"))
    BY <1>2, <2>4, <2>5, FromBefore
  <2> QED
    BY <1>1, <1>3, <1>4, <1>5, <2>3, <2>6, Zenon DEF CutEnd
<1>6. CASE s[k] # Semi
  <2>1. PICK j \in Pair(s, "*", "/") : j >= k + 2
    BY <1>6
  <2>2. PICK c : c = From(s, k + 2, Pair(s, "*", "/")) /\ First(c, n, k + 2, Pair(s, "*", "/"))
    BY <1>1, <1>2, PlacesIn, FromIs, Zenon
  <2>3. c \in Pair(s, "*", "/") /\ c \in 1 .. n
    <3>1. c <= j /\ j \in 1 .. n
      BY <1>4, <2>1, <2>2 DEF First, Pair, At
    <3> QED
      BY <1>2, <2>2, <3>1 DEF First
  <2>4. c + 2 <= n
    <3>1. c < n /\ s[c + 1] = "/"
      BY <1>1, <2>3 DEF Pair
    <3>2. c + 1 # n
      BY <1>4, <3>1
    <3> QED
      BY <2>3, <3>1, <3>2
  <2>5. n \in DOMAIN s \ At(s, Blank)
    BY <1>2, <1>4, NewlineIsText DEF At
  <2>6. c + 2 \in Nat /\ CutEnd(s, k) = From(s, c + 2, DOMAIN s \ At(s, Blank))
    BY <1>6, <2>2, <2>3 DEF CutEnd
  <2>7. First(CutEnd(s, k), n, c + 2, DOMAIN s \ At(s, Blank))
    BY <1>1, <2>6, PlacesIn, FromIs, Zenon
  <2>8. CutEnd(s, k) <= n
    BY <2>4, <2>5, <2>7 DEF First
  <2>9. Joint(Len(s), Len(t), Pair(u, "*", "/"), Pair(s, "*", "/"), Pair(t, "*", "/"))
    <3>1. "*" # "\n"
      OBVIOUS
    <3> QED
      BY <1>3, <3>1, JointPair, Zenon
  <2>10. From(s \o t, k + 2, Pair(u, "*", "/")) = c
    <3>1. From(s, k + 2, Pair(s, "*", "/")) <= Len(s)
      BY <1>1, <2>2, <2>3
    <3>2. From(s \o t, k + 2, Pair(u, "*", "/")) = From(s, k + 2, Pair(s, "*", "/"))
      BY <1>2, <2>9, <3>1, FromBefore
    <3> QED
      BY <2>2, <3>2, Zenon
  <2>11. From(s \o t, c + 2, DOMAIN u \ At(u, Blank)) = CutEnd(s, k)
    <3>1. From(s, c + 2, DOMAIN s \ At(s, Blank)) <= Len(s)
      BY <1>1, <2>6, <2>8
    <3>2. Joint(Len(s), Len(t), DOMAIN u \ At(u, Blank), DOMAIN s \ At(s, Blank), DOMAIN t \ At(t, Blank))
      BY <1>3, JointText, Zenon
    <3>3. From(s \o t, c + 2, DOMAIN u \ At(u, Blank)) = From(s, c + 2, DOMAIN s \ At(s, Blank))
      BY <2>6, <3>1, <3>2, FromBefore
    <3> QED
      BY <2>6, <3>3, Zenon
  <2> QED
    BY <1>1, <1>3, <1>4, <1>6, <2>8, <2>10, <2>11, Zenon DEF CutEnd
<1> QED
  BY <1>5, <1>6

LEMMA CutEndBehind ==
  ASSUME NEW S, NEW s \in Seq(S), NEW t \in Seq(S), Ended(s), NEW k \in 1 .. Len(t)
  PROVE  CutEnd(s \o t, Len(s) + k) = Len(s) + CutEnd(t, k)
<1>1. PICK m \in Nat, n \in Nat : m = Len(s) /\ n = Len(t)
  BY Ends, Zenon
<1>2. PICK u \in Seq(S) : u = s \o t /\ Both(s, t, u)
  BY Joined, BothIs
<1>3. /\ k \in Nat \ {0} /\ k + 2 \in Nat \ {0} /\ m + k \in Nat /\ m + (k + 2) \in Nat
      /\ (m + k) + 2 = m + (k + 2) /\ u[m + k] = t[k]
  BY <1>1, <1>2 DEF Both
<1>4. CASE t[k] = Semi
  <2>1. Joint(Len(s), Len(t), At(u, "\n"), At(s, "\n"), At(t, "\n"))
    BY <1>2, JointAt, Zenon
  <2>2. From(s \o t, m + k, At(u, "\n")) = Len(s) + From(t, k, At(t, "\n"))
    BY <1>1, <1>3, <2>1, FromBehind
  <2> QED
    BY <1>1, <1>2, <1>3, <1>4, <2>2, Zenon DEF CutEnd
<1>5. CASE t[k] # Semi
  <2>1. Joint(Len(s), Len(t), Pair(u, "*", "/"), Pair(s, "*", "/"), Pair(t, "*", "/"))
    <3>1. "*" # "\n"
      OBVIOUS
    <3> QED
      BY <1>2, <3>1, JointPair, Zenon
  <2>2. PICK c : c = From(t, k + 2, Pair(t, "*", "/")) /\ First(c, n, k + 2, Pair(t, "*", "/"))
    <3>1. k + 2 \in Nat
      BY <1>3
    <3> QED
      BY <1>1, <3>1, PlacesIn, FromIs, Zenon
  <2>3. c + 2 \in Nat \ {0} /\ m + (c + 2) \in Nat /\ (m + c) + 2 = m + (c + 2)
    BY <2>2 DEF First
  <2>4. From(s \o t, m + (k + 2), Pair(u, "*", "/")) = m + c
    <3>1. PICK b \in Nat \ {0} : b = k + 2
      BY <1>3, Zenon
    <3>2. From(s \o t, Len(s) + b, Pair(u, "*", "/")) = Len(s) + From(t, b, Pair(t, "*", "/"))
      BY <2>1, FromShifted
    <3> QED
      BY <1>1, <2>2, <3>1, <3>2, Zenon
  <2>5. From(s \o t, m + (c + 2), DOMAIN u \ At(u, Blank)) = Len(s) + From(t, c + 2, DOMAIN t \ At(t, Blank))
    <3>1. Joint(Len(s), Len(t), DOMAIN u \ At(u, Blank), DOMAIN s \ At(s, Blank), DOMAIN t \ At(t, Blank))
      BY <1>2, JointText, Zenon
    <3>2. PICK b \in Nat \ {0} : b = c + 2
      BY <2>3, Zenon
    <3>3. From(s \o t, Len(s) + b, DOMAIN u \ At(u, Blank)) = Len(s) + From(t, b, DOMAIN t \ At(t, Blank))
      BY <3>1, FromShifted
    <3> QED
      BY <1>1, <3>2, <3>3, Zenon
  <2>6. CutEnd(t, k) = From(t, c + 2, DOMAIN t \ At(t, Blank))
    BY <1>5, <2>2, Zenon DEF CutEnd
  <2>7. CutEnd(u, m + k) = From(u, From(u, (m + k) + 2, Pair(u, "*", "/")) + 2, DOMAIN u \ At(u, Blank))
    BY <1>3, <1>5, Zenon DEF CutEnd
  <2> QED
    BY <1>1, <1>2, <1>3, <2>3, <2>4, <2>5, <2>6, <2>7, Zenon
<1> QED
  BY <1>4, <1>5

-----------------------------------------------------------------------------
(* Comments: one after the other. *)

Texts(S) == {t \in [code : Seq(S), at : Nat \ {0}] : t.at <= Len(t.code) + 1}
Done(t)  == Comment(t.code, t.at) > Len(t.code)

CutFrom(c, k) == Looked(Removed(c, Indented(c, k), CutEnd(c, k)), Indented(c, k))

LEMMA LookedIs ==
  ASSUME NEW S, NEW t \in Texts(S)
  PROVE  \E c \in Seq(S), a \in Nat \ {0} : t = Looked(c, a) /\ t.code = c /\ t.at = a /\ a <= Len(c) + 1
<1>1. /\ t = Looked(t.code, t.at) /\ t.code \in Seq(S) /\ t.at \in Nat \ {0}
      /\ t.at <= Len(t.code) + 1
  BY DEF Looked, Texts
<1> QED
  BY <1>1, Zenon

LEMMA LookedType ==
  ASSUME NEW S, NEW c \in Seq(S), NEW a \in Nat \ {0}, a <= Len(c) + 1
  PROVE  Looked(c, a) \in Texts(S)
BY DEF Looked, Texts

LEMMA LookedHas == ASSUME NEW c, NEW a PROVE Looked(c, a).code = c /\ Looked(c, a).at = a
BY DEF Looked

LEMMA DoneIs == ASSUME NEW c, NEW a PROVE Done(Looked(c, a)) <=> Comment(c, a) > Len(c)
<1>1. Looked(c, a).code = c /\ Looked(c, a).at = a
  BY DEF Looked
<1> QED
  BY <1>1, Zenon DEF Done

LEMMA DroppedIs ==
  ASSUME NEW S, NEW c \in Seq(S), NEW a \in Nat \ {0}
  PROVE  /\ Comment(c, a) \in 1 .. Len(c) + 1
         /\ Comment(c, a) > Len(c) => Dropped(Looked(c, a)) = Looked(c, a)
         /\ Comment(c, a) <= Len(c) => Dropped(Looked(c, a)) = CutFrom(c, Comment(c, a))
<1>1. PICK k : k = Comment(c, a)
  OBVIOUS
<1>2. k \in 1 .. Len(c) + 1
  BY <1>1, CommentIs DEF First
<1>3. Dropped(Looked(c, a)) = IF k > Len(c) THEN Looked(c, a)
                              ELSE IF c[k] = Semi THEN WithoutLineComment(c, k)
                              ELSE WithoutBlockComment(c, k)
  BY <1>1, LookedHas, Zenon DEF Dropped
<1>4. c[k] = Semi => WithoutLineComment(c, k) = CutFrom(c, k)
  BY Zenon DEF WithoutLineComment, Without, CutFrom, CutEnd, Removed
<1>5. c[k] # Semi => WithoutBlockComment(c, k) = CutFrom(c, k)
  BY Zenon DEF WithoutBlockComment, Without, CutFrom, CutEnd, Removed
<1>6. k <= Len(c) => ~(k > Len(c))
  BY <1>2
<1> QED
  BY <1>1, <1>2, <1>3, <1>4, <1>5, <1>6, Zenon

LEMMA CutFromType ==
  ASSUME NEW S, NEW c \in Seq(S), NEW k \in 1 .. Len(c)
  PROVE  CutFrom(c, k) \in Texts(S) /\ Len(CutFrom(c, k).code) < Len(c)
<1>1. PICK n \in Nat : n = Len(c)
  BY Ends, Zenon
<1>2. k \in Nat \ {0}
  BY <1>1
<1>3. PICK from \in 1 .. k : from = Indented(c, k)
  BY <1>2, IndentedType
<1>4. PICK to \in k + 1 .. n + 1 : to = CutEnd(c, k)
  BY <1>1, CutEndIs
<1>5. from \in 1 .. n + 1 /\ to \in 1 .. n + 1
  BY <1>1
<1>6. PICK r \in Seq(S) : r = Removed(c, from, to) /\ Len(r) = (from - 1) + ((n + 1) - to)
  BY <1>1, <1>5, RemovedIs
<1>7. CutFrom(c, k) = Looked(r, from)
  BY <1>3, <1>4, <1>6, Zenon DEF CutFrom
<1>8. Len(r) < n /\ from \in Nat \ {0} /\ from <= Len(r) + 1
  BY <1>1, <1>5, <1>6
<1> QED
  BY <1>1, <1>7, <1>8, LookedType, LookedHas

LEMMA DroppedType ==
  ASSUME NEW S, NEW t \in Texts(S)
  PROVE  /\ Dropped(t) \in Texts(S)
         /\ Done(t) => Dropped(t) = t
         /\ ~Done(t) => Len(Dropped(t).code) < Len(t.code)
<1>1. PICK c \in Seq(S), a \in Nat \ {0} : t = Looked(c, a) /\ t.code = c /\ t.at = a
  BY LookedIs, Zenon
<1>2. PICK k : k = Comment(c, a) /\ k \in 1 .. Len(c) + 1
  BY DroppedIs
<1>3. /\ k > Len(c) => Dropped(t) = t
      /\ k <= Len(c) => Dropped(t) = CutFrom(c, k)
  BY <1>1, <1>2, DroppedIs, Zenon
<1>4. Done(t) <=> k > Len(c)
  BY <1>1, <1>2, Zenon DEF Done
<1>5. CASE k > Len(c)
  BY <1>3, <1>4, <1>5, Zenon
<1>6. CASE ~(k > Len(c))
  <2>1. k \in 1 .. Len(c) /\ k <= Len(c)
    BY <1>2, <1>6
  <2>2. CutFrom(c, k) \in Texts(S) /\ Len(CutFrom(c, k).code) < Len(c)
    BY <2>1, CutFromType, Zenon
  <2> QED
    BY <1>1, <1>3, <1>4, <1>6, <2>1, <2>2, Zenon
<1> QED
  BY <1>5, <1>6

Droppings(s, t) == t = [n \in 0 .. Len(s) |-> IF n = 0 THEN Looked(s, 1) ELSE Dropped(t[n - 1])]

LEMMA UncommentingIs ==
  ASSUME NEW S, NEW s \in Seq(S)
  PROVE  /\ Uncommenting(s) \in [0 .. Len(s) -> Texts(S)]
         /\ Uncommenting(s)[0] = Looked(s, 1)
         /\ \A n \in 1 .. Len(s) : Uncommenting(s)[n] = Dropped(Uncommenting(s)[n - 1])
<1> DEFINE step == [n \in 1 .. Len(s) |-> [x \in Texts(S) |-> Dropped(x)]]
           K == CHOOSE t : Droppings(s, t)
<1>1. Len(s) \in Nat /\ 1 \in Nat \ {0} /\ 1 <= Len(s) + 1
  OBVIOUS
<1>2. Looked(s, 1) \in Texts(S) /\ \A x \in Texts(S) : Dropped(x) \in Texts(S)
  BY <1>1, LookedType, DroppedType, Zenon
<1>3. \A n \in 1 .. Len(s) : \A x \in Texts(S) : step[n][x] = Dropped(x)
  BY Zenon
<1>4. step \in [1 .. Len(s) -> [Texts(S) -> Texts(S)]]
  BY <1>2
<1> HIDE DEF step
<1>5. PICK f \in [0 .. Len(s) -> Texts(S)] : f[0] = Looked(s, 1) /\ \A n \in 1 .. Len(s) : f[n] = step[n][f[n - 1]]
  <2>1. Recursion(Texts(S), Looked(s, 1), Len(s), step) # {}
    BY <1>1, <1>2, <1>4, RecursionExists, Zenon
  <2> QED
    BY <2>1, Zenon DEF Recursion
<1>6. Droppings(s, f)
  <2>1. f = [n \in 0 .. Len(s) |-> f[n]] /\ f[0] = Looked(s, 1)
    BY <1>5, Zenon
  <2>2. ASSUME NEW n \in 0 .. Len(s), n # 0 PROVE f[n] = Dropped(f[n - 1])
    <3>1. n \in 1 .. Len(s) /\ f[n - 1] \in Texts(S)
      BY <1>1, <2>2
    <3> QED
      BY <1>3, <1>5, <3>1, Zenon
  <2> QED
    BY <2>1, <2>2, Zenon DEF Droppings
<1>7. Droppings(s, K) /\ Uncommenting(s) = K
  BY <1>6, Zenon DEF Uncommenting, Droppings
<1> HIDE DEF K
<1>8. /\ K = [n \in 0 .. Len(s) |-> K[n]] /\ K[0] = Looked(s, 1)
      /\ \A n \in 1 .. Len(s) : K[n] = Dropped(K[n - 1])
  BY <1>1, <1>7 DEF Droppings
<1>9. K \in [0 .. Len(s) -> Texts(S)]
  <2>1. K[0] \in Texts(S) /\ \A n \in 1 .. Len(s) : K[n - 1] \in Texts(S) => K[n] \in Texts(S)
    BY <1>2, <1>8, Zenon
  <2> QED
    BY <1>1, <1>8, <2>1, RecursionType, Zenon
<1> QED
  BY <1>7, <1>8, <1>9, Zenon

(* No comment is left after as many steps as there are symbols. *)
LEMMA UncommentedDone ==
  ASSUME NEW S, NEW s \in Seq(S)
  PROVE  Done(Uncommenting(s)[Len(s)])
<1>1. PICK N \in Nat : N = Len(s)
  BY Ends, Zenon
<1>2. PICK U \in [0 .. N -> Texts(S)] :
        /\ U = Uncommenting(s) /\ U[0] = Looked(s, 1) /\ \A n \in 1 .. N : U[n] = Dropped(U[n - 1])
  BY <1>1, UncommentingIs, Zenon
<1> DEFINE M == {n \in Nat : n <= N => Done(U[n]) \/ Len(U[n].code) <= N - n}
<1>3. 0 \in M
  <2>1. U[0].code = s
    BY <1>2 DEF Looked
  <2> QED
    BY <1>1, <2>1
<1>4. ASSUME NEW n \in Nat, n \in M PROVE n + 1 \in M
  <2> SUFFICES ASSUME n + 1 <= N PROVE Done(U[n + 1]) \/ Len(U[n + 1].code) <= N - (n + 1)
    OBVIOUS
  <2>1. n + 1 \in 1 .. N /\ (n + 1) - 1 = n /\ U[n] \in Texts(S) /\ n <= N
    OBVIOUS
  <2>2. U[n + 1] = Dropped(U[n])
    BY <1>2, <2>1
  <2>3. CASE Done(U[n])
    BY <2>1, <2>2, <2>3, DroppedType, Zenon
  <2>4. CASE ~Done(U[n])
    <3>1. Len(U[n + 1].code) < Len(U[n].code) /\ U[n + 1] \in Texts(S)
      BY <2>1, <2>2, <2>4, DroppedType, Zenon
    <3>2. Len(U[n].code) <= N - n
      BY <1>4, <2>1, <2>4
    <3>3. Len(U[n].code) \in Nat /\ Len(U[n + 1].code) \in Nat
      BY <2>1, <3>1 DEF Texts
    <3> QED
      BY <3>1, <3>2, <3>3
  <2> QED
    BY <2>3, <2>4
<1>5. Nat \subseteq M
  <2> HIDE DEF M
  <2> QED
    BY <1>3, <1>4, NatBySets
<1>6. Done(U[N]) \/ Len(U[N].code) <= 0
  BY <1>5
<1>7. ASSUME Len(U[N].code) <= 0 PROVE Done(U[N])
  <2>1. PICK x \in Texts(S) : x = U[N]
    OBVIOUS
  <2>2. PICK c \in Seq(S), a \in Nat \ {0} : x = Looked(c, a) /\ x.code = c /\ x.at = a
    BY LookedIs, Zenon
  <2>3. Comment(c, a) \in 1 .. Len(c) + 1
    BY DroppedIs
  <2>4. Comment(c, a) > Len(c)
    BY <1>7, <2>1, <2>2, <2>3
  <2> QED
    BY <2>1, <2>2, <2>4, Zenon DEF Done
<1> QED
  BY <1>1, <1>2, <1>6, <1>7, Zenon

LEMMA UncommentingStays ==
  ASSUME NEW S, NEW s \in Seq(S), NEW k \in 0 .. Len(s), Done(Uncommenting(s)[k])
  PROVE  Uncommenting(s)[Len(s)] = Uncommenting(s)[k]
<1>1. PICK N \in Nat : N = Len(s)
  BY Ends, Zenon
<1>2. PICK U \in [0 .. N -> Texts(S)] :
        /\ U = Uncommenting(s) /\ U[0] = Looked(s, 1) /\ \A n \in 1 .. N : U[n] = Dropped(U[n - 1])
  BY <1>1, UncommentingIs, Zenon
<1>3. k \in Nat /\ k <= N /\ Done(U[k])
  BY <1>1, <1>2
<1> DEFINE M == {n \in Nat : k + n <= N => U[k + n] = U[k]}
<1>4. 0 \in M
  BY <1>3
<1>5. ASSUME NEW n \in Nat, n \in M PROVE n + 1 \in M
  <2> SUFFICES ASSUME k + (n + 1) <= N PROVE U[k + (n + 1)] = U[k]
    OBVIOUS
  <2>1. /\ k + (n + 1) \in 1 .. N /\ (k + (n + 1)) - 1 = k + n /\ k \in 0 .. N /\ k + n <= N
        /\ U[k] \in Texts(S)
    BY <1>3
  <2>2. U[k + (n + 1)] = Dropped(U[k + n]) /\ U[k + n] = U[k]
    BY <1>2, <1>5, <2>1
  <2>3. Dropped(U[k]) = U[k]
    BY <1>3, <2>1, DroppedType, Zenon
  <2> QED
    BY <2>2, <2>3
<1>6. Nat \subseteq M
  <2> HIDE DEF M
  <2> QED
    BY <1>4, <1>5, NatBySets
<1>7. N - k \in Nat /\ k + (N - k) = N
  BY <1>3
<1>8. N - k \in M
  BY <1>6, <1>7
<1>9. U[N] = U[k]
  BY <1>7, <1>8
<1> QED
  BY <1>1, <1>2, <1>9

(* The next comment, in a part c and in what t makes of it; and behind a part u. *)
CutsBefore(S, c, t, a) ==
  \E d \in Seq(S), b \in Nat \ {0} :
    /\ Dropped(Looked(c, a)) = Looked(d, b) /\ Dropped(Looked(c \o t, a)) = Looked(d \o t, b)
    /\ Ended(d) /\ b <= Len(d) + 1

CutsBehind(S, u, c, e, a) ==
  \E d \in Seq(S), b \in Nat \ {0}, f \in Nat \ {0} :
    /\ Dropped(Looked(c, a)) = Looked(d, b) /\ Dropped(Looked(u \o c, e)) = Looked(u \o d, f)
    /\ Comment(u \o d, f) = Len(u) + Comment(d, b)

(* A comment that its part closes is cut out of the part alone. *)
LEMMA CutBefore ==
  ASSUME NEW S, NEW c \in Seq(S), NEW t \in Seq(S), Ended(c), NEW a \in Nat \ {0},
         Comment(c, a) <= Len(c), ~OpenAt(Looked(c, a), Comment(c, a))
  PROVE  CutsBefore(S, c, t, a)
<1>1. PICK n \in Nat : n = Len(c)
  BY Ends, Zenon
<1>2. PICK u \in Seq(S) : u = c \o t /\ Both(c, t, u)
  BY Joined, BothIs
<1>3. PICK k \in 1 .. n : k = Comment(c, a) /\ Comment(u, a) = k /\ k \in Opens(c)
  <2>1. Comment(c, a) \in 1 .. n /\ Comment(c, a) \in Opens(c)
    BY <1>1, CommentIs DEF First
  <2>2. Comment(u, a) = Comment(c, a)
    BY <1>2, CommentBefore
  <2> QED
    BY <2>1, <2>2, Zenon
<1>4. k <= Len(c) /\ k <= Len(u) /\ k \in 1 .. Len(c) /\ k \in Nat \ {0}
  BY <1>1, <1>2 DEF Both
<1>5. Dropped(Looked(c, a)) = CutFrom(c, k) /\ Dropped(Looked(u, a)) = CutFrom(u, k)
  <2>1. Dropped(Looked(c, a)) = CutFrom(c, k)
    BY <1>3, <1>4, DroppedIs, Zenon
  <2>2. Comment(u, a) <= Len(u)
    BY <1>3, <1>4, Zenon
  <2>3. Dropped(Looked(u, a)) = CutFrom(u, Comment(u, a))
    BY <2>2, DroppedIs, Zenon
  <2> QED
    BY <1>3, <2>1, <2>3, Zenon
<1>6. c[k] = Semi \/ \E j \in Pair(c, "*", "/") : j >= k + 2
  <2>1. c[k] = Semi \/ c[k] = "/"
    BY <1>3, Zenon DEF Opens, At, Pair
  <2>2. ASSUME c[k] = "/" PROVE \E j \in Pair(c, "*", "/") : j >= k + 2
    <3>1. PICK j \in Pair(c, "*", "/") : ~(j < k + 2)
      BY <1>3, <2>2, LookedHas, Zenon DEF OpenAt
    <3>2. j \in Nat /\ k + 2 \in Nat
      BY <1>1, <1>4, PlacesIn
    <3> QED
      BY <3>1, <3>2
  <2> QED
    BY <2>1, <2>2
<1>7. PICK to \in k + 1 .. n : to = CutEnd(c, k) /\ CutEnd(u, k) = to
  <2>1. CutEnd(c, k) \in k + 1 .. n + 1
    BY <1>1, <1>4, CutEndIs
  <2>2. CutEnd(c, k) <= n /\ CutEnd(u, k) = CutEnd(c, k)
    BY <1>1, <1>2, <1>4, <1>6, CutEndBefore
  <2>3. CutEnd(c, k) \in k + 1 .. n
    BY <2>1, <2>2
  <2> QED
    BY <2>2, <2>3, Zenon
<1>8. PICK from \in 1 .. k : from = Indented(c, k) /\ Indented(u, k) = from
  BY <1>2, <1>4, IndentedType, IndentedBefore
<1>9. from \in 1 .. n + 1 /\ to \in 1 .. n + 1 /\ to <= n
  BY <1>1
<1>10. PICK d \in Seq(S) : /\ d = Removed(c, from, to) /\ Removed(u, from, to) = d \o t
                           /\ Len(d) = (from - 1) + ((n + 1) - to) /\ d[Len(d)] = c[n]
  <2>1. /\ Removed(c, from, to) \in Seq(S) /\ Len(Removed(c, from, to)) = (from - 1) + ((n + 1) - to)
        /\ Removed(c, from, to)[Len(Removed(c, from, to))] = c[n]
    BY <1>1, <1>9, RemovedIs
  <2>2. Removed(u, from, to) = Removed(c, from, to) \o t
    BY <1>1, <1>2, <1>9, RemovedBefore
  <2> QED
    BY <2>1, <2>2, Zenon
<1>11. c[n] = "\n"
  <2>1. c # <<>>
    BY <1>1, <1>4
  <2> QED
    BY <1>1, <2>1 DEF Ended
<1>12. Ended(d) /\ from \in Nat \ {0} /\ from <= Len(d) + 1
  BY <1>9, <1>10, <1>11 DEF Ended
<1>13. CutFrom(c, k) = Looked(d, from) /\ CutFrom(u, k) = Looked(d \o t, from)
  BY <1>7, <1>8, <1>10, Zenon DEF CutFrom
<1> QED
  BY <1>2, <1>5, <1>12, <1>13, Zenon DEF CutsBefore

(* A comment behind a part that ends with a newline does not see the part. *)
LEMMA CutBehind ==
  ASSUME NEW S, NEW u \in Seq(S), NEW c \in Seq(S), Ended(u), NEW e \in Nat \ {0}, NEW a \in Nat \ {0},
         Comment(u \o c, e) = Len(u) + Comment(c, a), Comment(c, a) <= Len(c)
  PROVE  CutsBehind(S, u, c, e, a)
<1>1. PICK m \in Nat, n \in Nat : m = Len(u) /\ n = Len(c)
  BY Ends, Zenon
<1>2. PICK v \in Seq(S) : v = u \o c /\ Both(u, c, v)
  BY Joined, BothIs
<1>3. PICK k \in 1 .. n : k = Comment(c, a)
  <2>1. Comment(c, a) \in 1 .. n
    BY <1>1, CommentIs DEF First
  <2> QED
    BY <2>1, Zenon
<1>4. /\ k <= Len(c) /\ m + k <= Len(v) /\ k \in 1 .. Len(c) /\ k \in Nat \ {0} /\ m + k \in Nat \ {0}
      /\ Comment(v, e) = m + k
  BY <1>1, <1>2, <1>3 DEF Both
<1>5. Dropped(Looked(c, a)) = CutFrom(c, k) /\ Dropped(Looked(v, e)) = CutFrom(v, m + k)
  <2>1. Dropped(Looked(c, a)) = CutFrom(c, k)
    BY <1>3, <1>4, DroppedIs, Zenon
  <2>2. Comment(v, e) <= Len(v)
    BY <1>4, Zenon
  <2>3. Dropped(Looked(v, e)) = CutFrom(v, Comment(v, e))
    BY <2>2, DroppedIs, Zenon
  <2> QED
    BY <1>4, <2>1, <2>3, Zenon
<1>6. PICK to \in k + 1 .. n + 1 : to = CutEnd(c, k) /\ CutEnd(v, m + k) = m + to
  <2>1. CutEnd(c, k) \in k + 1 .. n + 1
    BY <1>1, <1>4, CutEndIs
  <2>2. CutEnd(v, m + k) = m + CutEnd(c, k)
    BY <1>1, <1>2, <1>4, CutEndBehind
  <2> QED
    BY <2>1, <2>2, Zenon
<1>7. PICK from \in 1 .. k : from = Indented(c, k) /\ Indented(v, m + k) = m + from
  <2>1. Indented(c, k) \in 1 .. k
    BY <1>4, IndentedType
  <2>2. Indented(v, Len(u) + k) = Len(u) + Indented(c, k)
    BY <1>2, <1>4, IndentedBehind
  <2> QED
    BY <1>1, <2>1, <2>2, Zenon
<1>8. from \in 1 .. n + 1 /\ to \in 1 .. n + 1 /\ from \in Nat \ {0} /\ m + from \in Nat \ {0}
  BY <1>1
<1>9. PICK d \in Seq(S) : /\ d = Removed(c, from, to) /\ Removed(v, m + from, m + to) = u \o d
                          /\ Len(d) = (from - 1) + ((n + 1) - to)
  <2>1. Removed(c, from, to) \in Seq(S) /\ Len(Removed(c, from, to)) = (from - 1) + ((n + 1) - to)
    BY <1>1, <1>8, RemovedIs
  <2>2. from \in 1 .. Len(c) + 1 /\ to \in 1 .. Len(c) + 1
    BY <1>1, <1>8, Zenon
  <2>3. Removed(u \o c, Len(u) + from, Len(u) + to) = u \o Removed(c, from, to)
    BY <2>2, RemovedBehind
  <2> QED
    BY <1>1, <1>2, <2>1, <2>3, Zenon
<1>11. CutFrom(c, k) = Looked(d, from) /\ CutFrom(v, m + k) = Looked(u \o d, m + from)
  BY <1>6, <1>7, <1>9, Zenon DEF CutFrom
<1>12. Comment(u \o d, m + from) = m + Comment(d, from)
  <2>1. PICK x \in Nat : x = m + from
    BY <1>8
  <2>2. x = Len(u) + from
    BY <1>1, <2>1
  <2>3. Comment(u \o d, x) = Len(u) + Comment(d, from)
    BY <1>8, <2>2, CommentBehind
  <2> QED
    BY <1>1, <2>1, <2>3, Zenon
<1> QED
  BY <1>1, <1>2, <1>5, <1>8, <1>11, <1>12, Zenon DEF CutsBehind

(***************************************************************************)
(* The comments of a text whose first part closes its own: those of the    *)
(* part, until it has none left, and then those of the rest.               *)
(***************************************************************************)
LEMMA UncommentedJoins ==
  ASSUME NEW S, NEW s \in Seq(S), NEW t \in Seq(S), Closed(s)
  PROVE  /\ Uncommented(s) \in Seq(S) /\ Uncommented(t) \in Seq(S) /\ Ended(Uncommented(s))
         /\ Uncommented(s \o t) = Uncommented(s) \o Uncommented(t)
<1>1. PICK N \in Nat, M \in Nat : N = Len(s) /\ M = Len(t)
  BY Ends, Zenon
<1>2. PICK st \in Seq(S) : st = s \o t /\ Len(st) = N + M
  <2>1. s \o t \in Seq(S) /\ Len(s \o t) = N + M
    BY <1>1
  <2> QED
    BY <2>1, Zenon
<1>3. PICK U \in [0 .. N -> Texts(S)] :
        /\ U = Uncommenting(s) /\ U[0] = Looked(s, 1) /\ \A n \in 1 .. N : U[n] = Dropped(U[n - 1])
        /\ Done(U[N])
  BY <1>1, UncommentingIs, UncommentedDone, Zenon
<1>4. PICK V \in [0 .. M -> Texts(S)] :
        /\ V = Uncommenting(t) /\ V[0] = Looked(t, 1) /\ \A n \in 1 .. M : V[n] = Dropped(V[n - 1])
        /\ Done(V[M])
  BY <1>1, UncommentingIs, UncommentedDone, Zenon
<1>5. PICK W \in [0 .. N + M -> Texts(S)] :
        /\ W = Uncommenting(st) /\ W[0] = Looked(st, 1)
        /\ \A n \in 1 .. N + M : W[n] = Dropped(W[n - 1])
  BY <1>2, UncommentingIs, Zenon
<1>6. Ended(s) /\ \A n \in 0 .. N : ~Done(U[n]) => ~OpenAt(U[n], Comment(U[n].code, U[n].at))
  <2>1. \A n \in 0 .. N : Comment(U[n].code, U[n].at) <= Len(U[n].code)
                           => ~OpenAt(U[n], Comment(U[n].code, U[n].at))
    BY <1>1, <1>3, Zenon DEF Closed
  <2>2. ASSUME NEW n \in 0 .. N, ~Done(U[n]) PROVE Comment(U[n].code, U[n].at) <= Len(U[n].code)
    <3>1. PICK x \in Texts(S) : x = U[n]
      OBVIOUS
    <3>2. PICK c \in Seq(S), a \in Nat \ {0} : x = Looked(c, a) /\ x.code = c /\ x.at = a
      BY LookedIs, Zenon
    <3>3. Comment(c, a) \in 1 .. Len(c) + 1
      BY DroppedIs
    <3>4. ~(Comment(c, a) > Len(c))
      BY <2>2, <3>1, <3>2, Zenon DEF Done
    <3>5. Comment(c, a) <= Len(c)
      BY <3>3, <3>4
    <3> QED
      BY <3>1, <3>2, <3>5, Zenon
  <2>3. Ended(s)
    BY Zenon DEF Closed, Ended
  <2> QED
    BY <2>1, <2>2, <2>3, Zenon
<1>7. PICK k \in 0 .. N : Done(U[k]) /\ \A n \in 0 .. N : Done(U[n]) => k <= n
  <2> DEFINE T == {n \in 0 .. N : Done(U[n])}
  <2>1. T \in SUBSET Nat /\ T # {}
    <3>1. T \in SUBSET Nat /\ N \in 0 .. N
      OBVIOUS
    <3> QED
      BY <1>3, <3>1, Zenon
  <2>2. \E n \in T : \A m \in T : n <= m
    BY <2>1, LeastNat
  <2> QED
    BY <2>2
<1>8. k \in Nat /\ k <= N
  OBVIOUS
<1> DEFINE Same(n) == \E c \in Seq(S), a \in Nat \ {0} :
             /\ U[n] = Looked(c, a) /\ W[n] = Looked(c \o t, a) /\ Ended(c) /\ a <= Len(c) + 1
           A == {n \in Nat : n <= k => Same(n)}
<1>9. 0 \in A
  <2>1. 1 \in Nat \ {0} /\ 1 <= Len(s) + 1
    OBVIOUS
  <2>2. Same(0)
    BY <1>2, <1>3, <1>5, <1>6, <2>1, Zenon
  <2> QED
    BY <2>2
<1>10. ASSUME NEW n \in Nat, n \in A PROVE n + 1 \in A
  <2> SUFFICES ASSUME n + 1 <= k PROVE Same(n + 1)
    OBVIOUS
  <2>1. /\ n + 1 \in 1 .. N /\ n + 1 \in 1 .. N + M /\ (n + 1) - 1 = n /\ n \in 0 .. N /\ n <= k
        /\ ~(k <= n)
    BY <1>8
  <2>2. PICK c \in Seq(S), a \in Nat \ {0} :
          U[n] = Looked(c, a) /\ W[n] = Looked(c \o t, a) /\ Ended(c) /\ a <= Len(c) + 1
    BY <1>10, <2>1
  <2>3. ~Done(Looked(c, a)) /\ ~OpenAt(Looked(c, a), Comment(c, a))
    <3>1. ~Done(U[n])
      BY <1>7, <2>1, Zenon
    <3>2. Looked(c, a).code = c /\ Looked(c, a).at = a
      BY LookedHas
    <3>3. ~OpenAt(U[n], Comment(U[n].code, U[n].at))
      BY <1>6, <2>1, <3>1, Zenon
    <3> QED
      BY <2>2, <3>1, <3>2, <3>3, Zenon
  <2>4. Comment(c, a) <= Len(c)
    <3>1. Comment(c, a) \in 1 .. Len(c) + 1
      BY DroppedIs
    <3>2. ~(Comment(c, a) > Len(c))
      BY <2>3, DoneIs, Zenon
    <3> QED
      BY <3>1, <3>2
  <2>5. PICK d \in Seq(S), b \in Nat \ {0} :
          /\ Dropped(Looked(c, a)) = Looked(d, b) /\ Dropped(Looked(c \o t, a)) = Looked(d \o t, b)
          /\ Ended(d) /\ b <= Len(d) + 1
    <3>1. CutsBefore(S, c, t, a)
      BY <2>2, <2>3, <2>4, CutBefore, Zenon
    <3> QED
      BY <3>1, Zenon DEF CutsBefore
  <2>6. U[n + 1] = Looked(d, b) /\ W[n + 1] = Looked(d \o t, b)
    BY <1>3, <1>5, <2>1, <2>2, <2>5, Zenon
  <2> QED
    BY <2>5, <2>6, Zenon
<1>11. Nat \subseteq A
  <2> HIDE DEF A
  <2> QED
    BY <1>9, <1>10, NatBySets
<1>12. PICK u \in Seq(S), a \in Nat \ {0} :
         U[k] = Looked(u, a) /\ W[k] = Looked(u \o t, a) /\ Ended(u) /\ a <= Len(u) + 1
  <2>1. k \in A /\ k <= k
    BY <1>8, <1>11
  <2> QED
    BY <2>1
<1> HIDE DEF A, Same
<1>13. Comment(u, a) > Len(u) /\ Comment(u \o t, a) = Len(u) + Comment(t, 1)
  <2>1. Comment(u, a) > Len(u)
    BY <1>7, <1>12, DoneIs, Zenon
  <2>2. PICK x \in Nat, y \in Nat \ {0} : x = a /\ y = 1
    OBVIOUS
  <2>3. Comment(u \o t, x) = Len(u) + Comment(t, y)
    BY <1>12, <2>1, <2>2, CommentBehind
  <2> QED
    BY <2>1, <2>2, <2>3
<1> DEFINE Behind(n) == \E c \in Seq(S), b \in Nat \ {0}, e \in Nat \ {0} :
             /\ V[n] = Looked(c, b) /\ W[k + n] = Looked(u \o c, e)
             /\ Comment(u \o c, e) = Len(u) + Comment(c, b)
           B == {n \in Nat : n <= M => Behind(n)}
<1>14. 0 \in B
  <2>1. k + 0 = k /\ 1 \in Nat \ {0}
    BY <1>8
  <2>2. Behind(0)
    BY <1>4, <1>12, <1>13, <2>1, Zenon
  <2> QED
    BY <2>2
<1>15. ASSUME NEW n \in Nat, n \in B PROVE n + 1 \in B
  <2> SUFFICES ASSUME n + 1 <= M PROVE Behind(n + 1)
    OBVIOUS
  <2>1. /\ n + 1 \in 1 .. M /\ (n + 1) - 1 = n /\ n <= M
        /\ k + (n + 1) \in 1 .. N + M /\ (k + (n + 1)) - 1 = k + n
    BY <1>8
  <2>2. PICK c \in Seq(S), b \in Nat \ {0}, e \in Nat \ {0} :
          /\ V[n] = Looked(c, b) /\ W[k + n] = Looked(u \o c, e)
          /\ Comment(u \o c, e) = Len(u) + Comment(c, b)
    BY <1>15, <2>1
  <2>3. V[n + 1] = Dropped(Looked(c, b)) /\ W[k + (n + 1)] = Dropped(Looked(u \o c, e))
    BY <1>4, <1>5, <2>1, <2>2, Zenon
  <2>4. u \o c \in Seq(S) /\ Len(u \o c) = Len(u) + Len(c) /\ Len(u) \in Nat /\ Len(c) \in Nat
    OBVIOUS
  <2>5. Comment(c, b) \in 1 .. Len(c) + 1
    BY DroppedIs
  <2>6. CASE Comment(c, b) > Len(c)
    <3>1. Comment(u \o c, e) > Len(u \o c)
      BY <2>2, <2>4, <2>5, <2>6
    <3>2. Dropped(Looked(c, b)) = Looked(c, b) /\ Dropped(Looked(u \o c, e)) = Looked(u \o c, e)
      BY <2>4, <2>6, <3>1, DroppedIs, Zenon
    <3> QED
      BY <2>2, <2>3, <3>2, Zenon
  <2>7. CASE ~(Comment(c, b) > Len(c))
    <3>1. Comment(c, b) <= Len(c)
      BY <2>4, <2>5, <2>7
    <3>2. PICK d \in Seq(S), f \in Nat \ {0}, g \in Nat \ {0} :
            /\ Dropped(Looked(c, b)) = Looked(d, f) /\ Dropped(Looked(u \o c, e)) = Looked(u \o d, g)
            /\ Comment(u \o d, g) = Len(u) + Comment(d, f)
      <4>1. CutsBehind(S, u, c, e, b)
        BY <1>12, <2>2, <3>1, CutBehind, Zenon
      <4> QED
        BY <4>1, Zenon DEF CutsBehind
    <3> QED
      BY <2>3, <3>2, Zenon
  <2> QED
    BY <2>6, <2>7
<1>16. Nat \subseteq B
  <2> HIDE DEF B
  <2> QED
    BY <1>14, <1>15, NatBySets
<1>17. PICK c \in Seq(S), b \in Nat \ {0}, e \in Nat \ {0} :
         /\ V[M] = Looked(c, b) /\ W[k + M] = Looked(u \o c, e)
         /\ Comment(u \o c, e) = Len(u) + Comment(c, b)
  <2>1. M \in B /\ M <= M
    BY <1>16
  <2> QED
    BY <2>1
<1> HIDE DEF B, Behind
<1>18. Done(W[k + M])
  <2>1. Comment(c, b) > Len(c)
    BY <1>4, <1>17, DoneIs, Zenon
  <2>2. Comment(c, b) \in 1 .. Len(c) + 1
    BY DroppedIs
  <2>3. Comment(u \o c, e) > Len(u \o c)
    BY <1>17, <2>1, <2>2
  <2> QED
    BY <1>17, <2>3, DoneIs, Zenon
<1>19. W[N + M] = W[k + M] /\ U[N] = U[k]
  <2>1. k + M \in 0 .. N + M /\ k \in 0 .. N
    BY <1>8
  <2>2. W[N + M] = W[k + M]
    BY <1>2, <1>5, <1>18, <2>1, UncommentingStays, Zenon
  <2>3. U[N] = U[k]
    BY <1>1, <1>3, <1>7, <2>1, UncommentingStays, Zenon
  <2> QED
    BY <2>2, <2>3
<1>20. Uncommented(s) = u /\ Uncommented(t) = c /\ Uncommented(st) = u \o c
  <2>1. Looked(u, a).code = u /\ Looked(c, b).code = c /\ Looked(u \o c, e).code = u \o c
    BY DEF Looked
  <2>2. Uncommented(s) = U[N].code /\ Uncommented(t) = V[M].code /\ Uncommented(st) = W[N + M].code
    BY <1>1, <1>2, <1>3, <1>4, <1>5, Zenon DEF Uncommented
  <2> QED
    BY <1>12, <1>17, <1>19, <2>1, <2>2, Zenon
<1> QED
  BY <1>2, <1>12, <1>20, Zenon

-----------------------------------------------------------------------------
(* The lines of a part by itself. *)

LEMMA AloneJoins ==
  ASSUME NEW S, "\n" \in S, Blank \in S, NEW s \in Seq(S), NEW t \in Seq(S), Closed(s)
  PROVE  /\ Alone(s) \in Seq(LineTexts(S)) /\ Alone(t) \in Seq(LineTexts(S))
         /\ Alone(s \o t) = Alone(s) \o Alone(t)
<1>1. PICK u \in Seq(S), v \in Seq(S) :
        u = Uncommented(s) /\ v = Uncommented(t) /\ Ended(u) /\ Uncommented(s \o t) = u \o v
  <2>1. /\ Uncommented(s) \in Seq(S) /\ Uncommented(t) \in Seq(S) /\ Ended(Uncommented(s))
        /\ Uncommented(s \o t) = Uncommented(s) \o Uncommented(t)
    BY UncommentedJoins
  <2> QED
    BY <2>1, Zenon
<1>2. PICK w \in Seq(S), x \in Seq(S) :
        w = Untabbed(u) /\ x = Untabbed(v) /\ Ended(w) /\ Untabbed(u \o v) = w \o x
  <2>1. Untabbed(u) \in Seq(S) /\ Untabbed(v) \in Seq(S) /\ Ended(Untabbed(u))
    BY <1>1, UntabbedIs, UntabbedEnds, Zenon
  <2>2. Untabbed(u \o v) = Untabbed(u) \o Untabbed(v)
    BY UntabbedJoins
  <2> QED
    BY <2>1, <2>2, Zenon
<1>3. Collapsed(w \o x) = Collapsed(w) \o Collapsed(x)
  BY <1>2, CollapsedJoins
<1>4. PICK y \in Seq(S), z \in Seq(S) : y = Collapsed(w) /\ z = Collapsed(x) /\ Ended(y)
  <2>1. Collapsed(w) \in Seq(S) /\ Ended(Collapsed(w))
    BY <1>2, CollapsedEnds, Zenon
  <2>2. Collapsed(x) \in Seq(S)
    BY CollapsedType
  <2> QED
    BY <2>1, <2>2, Zenon
<1>5. /\ LinesIn(y) \in Seq(LineTexts(S)) /\ LinesIn(z) \in Seq(LineTexts(S))
      /\ LinesIn(y \o z) = LinesIn(y) \o LinesIn(z)
  BY <1>4, LinesJoin
<1>6. Alone(s) = LinesIn(y) /\ Alone(t) = LinesIn(z) /\ Alone(s \o t) = LinesIn(y \o z)
  BY <1>1, <1>2, <1>3, <1>4, Zenon DEF Alone
<1> QED
  BY <1>5, <1>6, Zenon

LEMMA AloneType ==
  ASSUME NEW S, "\n" \in S, Blank \in S, NEW t \in Seq(S)
  PROVE  Alone(t) \in Seq(LineTexts(S))
<1>1. <<>> \in Seq(S) /\ Closed(<<>>)
  <2>1. <<>> \in Seq(S) /\ 0 \in 0 .. 0 /\ Len(<<>>) = 0 /\ \A n \in 0 .. 0 : n = 0
    OBVIOUS
  <2>2. PICK e \in Seq(S) : e = <<>>
    BY <2>1
  <2>3. Uncommenting(e)[0] = Looked(e, 1)
    BY UncommentingIs, Zenon
  <2>4. Comment(e, 1) \in 1 .. 1
    <3>1. PICK a \in Nat \ {0} : a = 1
      OBVIOUS
    <3>2. Comment(e, a) \in 1 .. Len(e) + 1
      BY DroppedIs
    <3> QED
      BY <2>2, <3>1, <3>2
  <2>5. ~(Comment(e, 1) <= 0)
    BY <2>4
  <2>6. Looked(e, 1).code = e /\ Looked(e, 1).at = 1
    BY LookedHas
  <2> QED
    BY <2>1, <2>2, <2>3, <2>5, <2>6, Zenon DEF Closed
<1> QED
  BY <1>1, AloneJoins, Zenon

Flattens(T, ss) ==
  {f \in [0 .. Len(ss) -> Seq(T)] :
     /\ f[0] = <<>> /\ \A n \in 1 .. Len(ss) : f[n] = f[n - 1] \o ss[n]
     /\ FlattenSeq(ss) = f[Len(ss)]}

FlattenedBy(ss, f) == f = [i \in 1 .. Len(ss) |-> IF i = 1 THEN ss[i] ELSE f[i - 1] \o ss[i]]

LEMMA FlattenSeqIs ==
  ASSUME NEW T, NEW ss \in Seq(Seq(T))
  PROVE  Flattens(T, ss) # {}
<1>1. PICK N \in Nat : N = Len(ss)
  BY Ends, Zenon
<1> DEFINE step == [n \in 1 .. N |-> [x \in Seq(T) |-> x \o ss[n]]]
           K == CHOOSE f : FlattenedBy(ss, f)
<1>2. \A n \in 1 .. N : ss[n] \in Seq(T) /\ \A x \in Seq(T) : x \o ss[n] \in Seq(T)
  <2>1. \A n \in 1 .. N : ss[n] \in Seq(T)
    BY <1>1
  <2>2. \A x, y \in Seq(T) : x \o y \in Seq(T)
    OBVIOUS
  <2> QED
    BY <2>1, <2>2, Zenon
<1>3. \A n \in 1 .. N : \A x \in Seq(T) : step[n][x] = x \o ss[n]
  BY Zenon
<1>4. step \in [1 .. N -> [Seq(T) -> Seq(T)]]
  BY <1>2
<1> HIDE DEF step
<1>5. PICK f \in [0 .. N -> Seq(T)] : f[0] = <<>> /\ \A n \in 1 .. N : f[n] = f[n - 1] \o ss[n]
  <2>1. <<>> \in Seq(T)
    OBVIOUS
  <2>2. Recursion(Seq(T), <<>>, N, step) # {}
    BY <1>4, <2>1, RecursionExists, Zenon
  <2>3. PICK f \in [0 .. N -> Seq(T)] : f[0] = <<>> /\ \A n \in 1 .. N : f[n] = step[n][f[n - 1]]
    BY <2>2, Zenon DEF Recursion
  <2>4. \A n \in 1 .. N : f[n - 1] \in Seq(T)
    OBVIOUS
  <2> QED
    BY <1>3, <2>3, <2>4, Zenon
<1>6. CASE N = 0
  <2>1. ss = <<>>
    <3>1. Len(ss) = 0
      BY <1>1, <1>6
    <3> QED
      BY <3>1, Nothing, Zenon
  <2>2. FlattenSeq(ss) = ss
    BY <1>1, <1>6, Zenon DEF FlattenSeq
  <2>3. FlattenSeq(ss) = f[N]
    BY <1>5, <1>6, <2>1, <2>2, Zenon
  <2> QED
    BY <1>1, <1>5, <2>3, Zenon DEF Flattens
<1>7. CASE N # 0
  <2> DEFINE g == [n \in 1 .. N |-> f[n]]
  <2>1. FlattenedBy(ss, g)
    <3>1. ASSUME NEW n \in 1 .. N, n = 1 PROVE f[n] = ss[n]
      <4>1. n - 1 = 0 /\ n \in 1 .. N
        BY <3>1
      <4>2. f[n] = <<>> \o ss[n]
        BY <1>5, <4>1, Zenon
      <4>3. PICK x \in Seq(T) : x = ss[n]
        BY <1>2
      <4> QED
        BY <4>2, <4>3
    <3>2. ASSUME NEW n \in 1 .. N, n # 1 PROVE f[n] = g[n - 1] \o ss[n]
      <4>1. n - 1 \in 1 .. N
        BY <3>2
      <4> QED
        BY <1>5, <4>1, Zenon
    <3> QED
      BY <1>1, <3>1, <3>2, Zenon DEF FlattenedBy
  <2>2. FlattenedBy(ss, K) /\ FlattenSeq(ss) = K[N]
    <3>1. Len(ss) # 0
      BY <1>1, <1>7
    <3> QED
      BY <1>1, <2>1, <3>1, Zenon DEF FlattenSeq, FlattenedBy
  <2> HIDE DEF K, g
  <2>3. K = [i \in 1 .. N |-> IF i = 1 THEN ss[i] ELSE K[i - 1] \o ss[i]]
    BY <1>1, <2>2, Zenon DEF FlattenedBy
  <2>4. K[1] = ss[1] /\ \A n \in 1 .. N : n # 1 => K[n] = K[n - 1] \o ss[n]
    <3>1. 1 \in 1 .. N
      BY <1>7
    <3> QED
      BY <2>3, <3>1, Zenon
  <2>5. f[1] = ss[1]
    <3>1. 1 \in 1 .. N /\ 1 - 1 = 0
      BY <1>7
    <3>2. f[1] = <<>> \o ss[1]
      BY <1>5, <3>1
    <3>3. PICK x \in Seq(T) : x = ss[1]
      BY <1>2, <3>1
    <3> QED
      BY <3>2, <3>3
  <2>6. \A k \in 1 .. N : K[k] = f[k]
    <3>1. ASSUME NEW k \in 1 .. N - 1, K[k] = f[k] PROVE K[k + 1] = f[k + 1]
      <4>1. k + 1 \in 1 .. N /\ k + 1 # 1 /\ (k + 1) - 1 = k
        OBVIOUS
      <4>2. K[k + 1] = K[k] \o ss[k + 1]
        BY <2>4, <4>1
      <4>3. f[k + 1] = f[k] \o ss[k + 1]
        BY <1>5, <4>1
      <4> QED
        BY <3>1, <4>2, <4>3, Zenon
    <3>2. N > 0 => K[1] = f[1]
      BY <2>4, <2>5
    <3>3. \A k \in 1 .. N - 1 : K[k] = f[k] => K[k + 1] = f[k + 1]
      BY <3>1
    <3> QED
      BY <3>2, <3>3, AgreeByLinks, Zenon
  <2>7. FlattenSeq(ss) = f[N]
    BY <1>7, <2>2, <2>6
  <2> QED
    BY <1>1, <1>5, <2>7, Zenon DEF Flattens
<1> QED
  BY <1>6, <1>7

(***************************************************************************)
(* The lines of parts that close their comments, and of what is behind.    *)
(***************************************************************************)
LEMMA AloneFlattens ==
  ASSUME NEW S, "\n" \in S, Blank \in S, NEW ss \in Seq(Seq(S)), NEW rest \in Seq(S),
         \A k \in 1 .. Len(ss) : Closed(ss[k])
  PROVE  Alone(FlattenSeq(ss) \o rest) = FlattenSeq([k \in 1 .. Len(ss) |-> Alone(ss[k])]) \o Alone(rest)
<1>1. PICK N \in Nat : N = Len(ss)
  BY Ends, Zenon
<1> DEFINE T == LineTexts(S)
<1>2. PICK as : as = [k \in 1 .. N |-> Alone(ss[k])]
  OBVIOUS
<1>3. \A n \in 1 .. N : ss[n] \in Seq(S) /\ Closed(ss[n])
  BY <1>1
<1>4. \A s, t \in Seq(S) : Closed(s) => /\ Alone(s) \in Seq(T) /\ Alone(t) \in Seq(T)
                                        /\ Alone(s \o t) = Alone(s) \o Alone(t)
  BY AloneJoins
<1> HIDE DEF T
<1>5. as \in Seq(Seq(T)) /\ Len(as) = N
  <2>1. \A k \in 1 .. N : as[k] \in Seq(T)
    BY <1>2, <1>3, <1>4, Zenon
  <2>2. as = [k \in 1 .. N |-> as[k]]
    BY <1>2, Zenon
  <2> QED
    BY <2>1, <2>2, MappedType, Zenon
<1>6. PICK f \in [0 .. N -> Seq(S)] :
        /\ f[0] = <<>> /\ \A n \in 1 .. N : f[n] = f[n - 1] \o ss[n]
        /\ FlattenSeq(ss) = f[N]
  BY <1>1, FlattenSeqIs, Zenon DEF Flattens
<1>7. PICK g \in [0 .. N -> Seq(T)] :
        /\ g[0] = <<>> /\ \A n \in 1 .. N : g[n] = g[n - 1] \o as[n]
        /\ FlattenSeq(as) = g[N]
  BY <1>5, FlattenSeqIs, Zenon DEF Flattens
<1>8. \A t \in Seq(S) : Alone(t) \in Seq(T)
  BY AloneType, Zenon DEF T
<1> DEFINE M == {n \in Nat : n <= N => \A q \in Seq(S) : Alone(f[n] \o q) = g[n] \o Alone(q)}
<1>9. 0 \in M
  <2>1. ASSUME NEW q \in Seq(S) PROVE Alone(f[0] \o q) = g[0] \o Alone(q)
    <3>1. <<>> \o q = q
      OBVIOUS
    <3>2. PICK a \in Seq(T) : a = Alone(q)
      BY <1>8
    <3>3. <<>> \o a = a
      OBVIOUS
    <3> QED
      BY <1>6, <1>7, <3>1, <3>2, <3>3, Zenon
  <2> QED
    BY <2>1
<1>10. ASSUME NEW n \in Nat, n \in M PROVE n + 1 \in M
  <2> SUFFICES ASSUME n + 1 <= N, NEW q \in Seq(S) PROVE Alone(f[n + 1] \o q) = g[n + 1] \o Alone(q)
    OBVIOUS
  <2>1. n + 1 \in 1 .. N /\ (n + 1) - 1 = n /\ n \in 0 .. N /\ n <= N
    OBVIOUS
  <2>2. PICK x \in Seq(S), y \in Seq(S) : x = f[n] /\ y = ss[n + 1] /\ Closed(y)
    BY <1>3, <2>1
  <2>3. PICK a \in Seq(T), b \in Seq(T), c \in Seq(T) : a = g[n] /\ b = Alone(y) /\ c = Alone(q)
    <3>1. g[n] \in Seq(T) /\ Alone(y) \in Seq(T) /\ Alone(q) \in Seq(T)
      BY <1>8, <2>1
    <3> QED
      BY <3>1, Zenon
  <2>4. f[n + 1] = x \o y /\ g[n + 1] = a \o b
    BY <1>2, <1>6, <1>7, <2>1, <2>2, <2>3, Zenon
  <2>5. (x \o y) \o q = x \o (y \o q) /\ y \o q \in Seq(S)
    <3>1. Associates(x, y, q) /\ y \o q \in Seq(S)
      BY JoinedTwice, Joined, Zenon
    <3> QED
      BY <3>1, Zenon DEF Associates
  <2>6. (a \o b) \o c = a \o (b \o c)
    <3>1. Associates(a, b, c)
      BY JoinedTwice, Zenon
    <3> QED
      BY <3>1, Zenon DEF Associates
  <2>7. Alone(x \o (y \o q)) = a \o Alone(y \o q)
    BY <1>10, <2>1, <2>2, <2>3, <2>5
  <2>8. Alone(y \o q) = b \o c
    BY <1>4, <2>2, <2>3, Zenon
  <2> QED
    BY <2>3, <2>4, <2>5, <2>6, <2>7, <2>8, Zenon
<1>11. Nat \subseteq M
  <2> HIDE DEF M
  <2> QED
    BY <1>9, <1>10, NatBySets
<1>12. Alone(f[N] \o rest) = g[N] \o Alone(rest)
  BY <1>11
<1> QED
  BY <1>1, <1>2, <1>6, <1>7, <1>12, Zenon

(* The end of every text, two newlines, makes no line. *)
EndOfText == <<"\n", "\n">>

LEMMA NoLineAtEnd ==
  ASSUME NEW S, "\n" \in S, Blank \in S
  PROVE  EndOfText \in Seq(S) /\ Alone(EndOfText) = <<>>
<1>1. PICK s \in Seq(S) : s = EndOfText /\ Len(s) = 2 /\ s[1] = "\n" /\ s[2] = "\n"
  <2>1. EndOfText \in Seq(S) /\ Len(EndOfText) = 2
    BY DEF EndOfText
  <2>2. EndOfText[1] = "\n" /\ EndOfText[2] = "\n"
    BY DEF EndOfText
  <2> QED
    BY <2>1, <2>2, Zenon
<1>2. Opens(s) = {}
  <2>1. "/" # "\n" /\ \A k \in 1 .. 2 : s[k] = "\n"
    BY <1>1
  <2>2. DOMAIN s = 1 .. 2
    BY <1>1
  <2> QED
    BY <2>1, <2>2, NewlineIsNoComment DEF Opens, At, Pair
<1>3. Uncommented(s) = s
  <2>1. PICK a \in Nat \ {0} : a = 1
    OBVIOUS
  <2>2. Comment(s, a) > Len(s)
    <3>1. First(Comment(s, a), Len(s), a, Opens(s))
      BY CommentIs
    <3>2. Comment(s, a) \in 1 .. 3 /\ ~(Comment(s, a) <= 2)
      BY <1>1, <1>2, <3>1 DEF First
    <3> QED
      BY <1>1, <3>2
  <2>3. Done(Uncommenting(s)[0]) /\ Uncommenting(s)[0] = Looked(s, 1)
    BY <2>1, <2>2, UncommentingIs, DoneIs, Zenon
  <2>4. 0 \in 0 .. Len(s)
    BY <1>1
  <2>5. Uncommenting(s)[Len(s)] = Looked(s, 1)
    BY <2>3, <2>4, UncommentingStays, Zenon
  <2> QED
    BY <2>5 DEF Uncommented, Looked
<1>4. Untabbed(s) = s
  <2>1. PICK u \in Seq(S) : u = Untabbed(s) /\ Len(u) = Len(s)
                            /\ \A k \in 1 .. Len(s) : u[k] = IF s[k] = "\t" THEN Blank ELSE s[k]
    BY UntabbedIs, Zenon
  <2>2. \A k \in 1 .. Len(s) : u[k] = s[k]
    BY <1>1, <2>1
  <2>3. u = s
    BY <2>1, <2>2, SeqEqual
  <2> QED
    BY <2>1, <2>3
<1>5. Collapsed(s) = <<>>
  <2>1. PICK K \in [0 .. Len(s) -> Seq(S)] :
          /\ K[0] = <<>> /\ \A n \in 1 .. Len(s) : K[n] = KeptWith(s, n, K[n - 1])
          /\ Collapsed(s) = K[Len(s)]
    BY CollapsedIs
  <2>2. K[1] = KeptWith(s, 1, K[0]) /\ K[2] = KeptWith(s, 2, K[1])
    BY <1>1, <2>1
  <2>3. K[1] = <<>>
    BY <1>1, <2>1, <2>2 DEF KeptWith, Newline
  <2>4. K[2] = K[1]
    BY <1>1, <2>2 DEF KeptWith, Newline
  <2> QED
    BY <1>1, <2>1, <2>3, <2>4
<1>6. LinesIn(<<>>) = <<>>
  <2>1. PICK e \in Seq(S) : e = <<>> /\ Len(e) = 0
    <3>1. <<>> \in Seq(S) /\ Len(<<>>) = 0
      OBVIOUS
    <3> QED
      BY <3>1, Zenon
  <2>2. PartsFrom(S, e, At(e, "\n")) # {}
    BY PartsIs, Zenon
  <2>3. Parts(e, At(e, "\n")) = Unparted
    BY <2>1, <2>2, Zenon DEF PartsFrom
  <2>4. LinesIn(e) = LinesOf(Unparted)
    BY <2>3, Zenon DEF LinesIn, LinesOf
  <2>5. LinesOf(Unparted) = <<>>
    BY DEF LinesOf, Unparted
  <2> QED
    BY <2>1, <2>4, <2>5
<1> QED
  BY <1>1, <1>3, <1>4, <1>5, <1>6, Zenon DEF Alone

-----------------------------------------------------------------------------
(* The passes: what they leave of the text as it is collected. *)

PartTexts(src) == [k \in DOMAIN src |-> src[k].text]
TextOf(src)    == FlattenSeq(PartTexts(src)) \o EndOfText
Symbols(src)   ==
  {"\n", Blank} \cup UNION {{src[k].text[i] : i \in DOMAIN src[k].text} : k \in DOMAIN src}

LEMMA SourceIs ==
  ASSUME NEW src \in Sources
  PROVE  /\ DOMAIN src = 1 .. Len(src) /\ Len(src) \in Nat
         /\ "\n" \in Symbols(src) /\ Blank \in Symbols(src)
         /\ PartTexts(src) \in Seq(Seq(Symbols(src))) /\ Len(PartTexts(src)) = Len(src)
         /\ TextOf(src) \in Seq(Symbols(src))
<1> DEFINE S == Symbols(src)
           parts == PartTexts(src)
<1>1. /\ src \in Seq({src[k] : k \in DOMAIN src})
      /\ \A k \in DOMAIN src : src[k].text \in Seq({src[k].text[i] : i \in DOMAIN src[k].text})
  BY SourcesAssumption, Zenon
<1>2. DOMAIN src = 1 .. Len(src) /\ Len(src) \in Nat
  BY <1>1
<1>3. "\n" \in S /\ Blank \in S
  BY Zenon DEF Symbols
<1>4. ASSUME NEW k \in DOMAIN src PROVE src[k].text \in Seq(S)
  <2>1. PICK C : C = {src[k].text[i] : i \in DOMAIN src[k].text} /\ src[k].text \in Seq(C)
    BY <1>1, Zenon
  <2>2. C \subseteq S
    BY <2>1, Zenon DEF Symbols
  <2>3. \A A, B : A \subseteq B => Seq(A) \subseteq Seq(B)
    OBVIOUS
  <2> HIDE DEF S
  <2> QED
    BY <2>1, <2>2, <2>3, Zenon
<1> HIDE DEF S
<1>5. parts = [k \in 1 .. Len(src) |-> parts[k]] /\ \A k \in 1 .. Len(src) : parts[k] \in Seq(S)
  BY <1>2, <1>4, Zenon DEF PartTexts
<1>6. parts \in Seq(Seq(S)) /\ Len(parts) = Len(src)
  <2> HIDE DEF parts
  <2> QED
    BY <1>2, <1>5, MappedType, Zenon
<1>7. FlattenSeq(parts) \in Seq(S)
  <2>1. PICK ss \in Seq(Seq(S)) : ss = parts
    BY <1>6
  <2>2. PICK f \in [0 .. Len(ss) -> Seq(S)] : FlattenSeq(ss) = f[Len(ss)]
    <3>1. Flattens(S, ss) # {}
      BY FlattenSeqIs, Zenon
    <3> QED
      BY <3>1, Zenon DEF Flattens
  <2>3. Len(ss) \in 0 .. Len(ss)
    OBVIOUS
  <2> QED
    BY <2>1, <2>2, <2>3
<1>8. TextOf(src) \in Seq(S)
  <2>1. EndOfText \in Seq(S)
    BY <1>3, NoLineAtEnd, Zenon
  <2>2. PICK a \in Seq(S), b \in Seq(S) : a = FlattenSeq(parts) /\ b = EndOfText
    BY <1>7, <2>1, Zenon
  <2>3. a \o b \in Seq(S)
    OBVIOUS
  <2> QED
    BY <2>2, <2>3, Zenon DEF TextOf
<1> QED
  BY <1>2, <1>3, <1>6, <1>8 DEF S

Uncut(texts) == [k \in DOMAIN texts |-> [text |-> texts[k], words |-> <<>>]]
Cut(texts)   == [k \in DOMAIN texts |-> [text |-> texts[k], words |-> Words(texts[k])]]

(* The inductive invariant: what is left of the text after each of the passes. *)
Passed ==
  /\ source \in Sources
  /\ phase = "comments" =>
       \E n \in 0 .. Len(TextOf(source)) : Looked(code, at) = Uncommenting(TextOf(source))[n]
  /\ phase = "newlines" => code = Untabbed(Uncommented(TextOf(source)))
  /\ phase = "lines"    => code = Collapsed(Untabbed(Uncommented(TextOf(source))))
  /\ phase = "words"    => lines = Uncut(Alone(TextOf(source)))
  /\ phase \notin {"comments", "newlines", "lines", "words"} => lines = Cut(Alone(TextOf(source)))

LEMMA PassedInit == Init => Passed
<1> SUFFICES ASSUME Init PROVE Passed
  OBVIOUS
<1>1. source \in Sources /\ phase = "comments" /\ at = 1 /\ code = TextOf(source)
  BY Zenon DEF Init, TextOf, PartTexts, EndOfText
<1>2. PICK s \in Seq(Symbols(source)) : s = TextOf(source)
  BY <1>1, SourceIs, Zenon
<1>3. Uncommenting(s)[0] = Looked(s, 1)
  BY UncommentingIs, Zenon
<1>4. 0 \in 0 .. Len(s)
  OBVIOUS
<1> QED
  BY <1>1, <1>2, <1>3, <1>4, Zenon DEF Passed

LEMMA PassedDropping ==
  ASSUME Passed, NEW start, Dropping(start)
  PROVE  Passed'
<1>1. /\ source \in Sources /\ source' = source /\ phase = "comments" /\ phase' = "comments"
      /\ Comment(code, at) <= Len(code)
  BY Zenon DEF Dropping, Passed
<1>2. PICK s \in Seq(Symbols(source)) : s = TextOf(source)
  BY <1>1, SourceIs, Zenon
<1>3. PICK N \in Nat : N = Len(s)
  BY Ends, Zenon
<1>4. PICK n \in 0 .. N : Looked(code, at) = Uncommenting(s)[n]
  BY <1>1, <1>2, <1>3, Zenon DEF Passed
<1>5. PICK U \in [0 .. N -> Texts(Symbols(source))] :
        U = Uncommenting(s) /\ (\A i \in 1 .. N : U[i] = Dropped(U[i - 1])) /\ Done(U[N])
  BY <1>3, UncommentingIs, UncommentedDone, Zenon
<1>6. ~Done(U[n])
  <2>1. PICK x \in Texts(Symbols(source)) : x = U[n]
    OBVIOUS
  <2>2. PICK c \in Seq(Symbols(source)), a \in Nat \ {0} : x = Looked(c, a) /\ x.code = c /\ x.at = a
    BY LookedIs, Zenon
  <2>3. code = c /\ at = a
    BY <1>4, <1>5, <2>1, <2>2 DEF Looked
  <2>4. Comment(c, a) \in 1 .. Len(c) + 1
    BY DroppedIs
  <2>5. ~(Comment(c, a) > Len(c))
    BY <1>1, <2>3, <2>4
  <2> QED
    BY <2>1, <2>2, <2>5, DoneIs, Zenon
<1>7. n + 1 \in 1 .. N /\ (n + 1) - 1 = n /\ n + 1 \in 0 .. N
  <2>1. n # N
    BY <1>5, <1>6
  <2> QED
    BY <2>1
<1>8. Looked(code', at') = U[n + 1]
  <2>1. U[n + 1] = Dropped(Looked(code, at))
    BY <1>4, <1>5, <1>7, Zenon
  <2>2. code' = U[n + 1].code /\ at' = U[n + 1].at
    BY <2>1, Zenon DEF Dropping
  <2>3. PICK x \in Texts(Symbols(source)) : x = U[n + 1]
    BY <1>7
  <2>4. x = Looked(x.code, x.at)
    BY LookedIs
  <2> QED
    BY <2>2, <2>3, <2>4, Zenon
<1>9. \E i \in 0 .. Len(TextOf(source')) : Looked(code', at') = Uncommenting(TextOf(source'))[i]
  BY <1>1, <1>2, <1>3, <1>5, <1>7, <1>8, Zenon
<1> QED
  BY <1>1, <1>9, Zenon DEF Passed

LEMMA PassedReplaceTabs ==
  ASSUME Passed, ReplaceTabs
  PROVE  Passed'
<1>1. /\ source \in Sources /\ source' = source /\ phase = "comments" /\ phase' = "newlines"
      /\ Comment(code, at) > Len(code) /\ code' = Untabbed(code)
  BY Zenon DEF ReplaceTabs, Pass, Passed
<1>2. PICK s \in Seq(Symbols(source)) : s = TextOf(source)
  BY <1>1, SourceIs, Zenon
<1>3. PICK n \in 0 .. Len(s) : Looked(code, at) = Uncommenting(s)[n]
  BY <1>1, <1>2, Zenon DEF Passed
<1>4. Done(Uncommenting(s)[n])
  BY <1>1, <1>3, DoneIs, Zenon
<1>5. Uncommenting(s)[Len(s)] = Looked(code, at)
  BY <1>3, <1>4, UncommentingStays, Zenon
<1>6. Looked(code, at).code = code
  BY DEF Looked
<1>7. code' = Untabbed(Uncommented(TextOf(source')))
  BY <1>1, <1>2, <1>5, <1>6, Zenon DEF Uncommented
<1> QED
  BY <1>1, <1>7, Zenon DEF Passed

LEMMA PassedSplitLines ==
  ASSUME Passed, SplitLines
  PROVE  Passed'
<1>1. /\ source \in Sources /\ source' = source /\ phase = "lines" /\ phase' = "words"
      /\ lines' = Uncut(LinesIn(code)) /\ code = Collapsed(Untabbed(Uncommented(TextOf(source))))
  BY Zenon DEF SplitLines, Pass, Passed, Uncut
<1>2. lines' = Uncut(Alone(TextOf(source')))
  BY <1>1, Zenon DEF Alone
<1> QED
  BY <1>1, <1>2, Zenon DEF Passed

LEMMA PassedSplitWords ==
  ASSUME Passed, SplitWords
  PROVE  Passed'
<1>1. PICK texts : texts = Alone(TextOf(source))
  OBVIOUS
<1>2. /\ source \in Sources /\ source' = source /\ phase = "words" /\ phase' = "reading"
      /\ lines' = [k \in DOMAIN lines |-> [lines[k] EXCEPT !.words = Words(lines[k].text)]]
      /\ lines = Uncut(texts)
  BY <1>1, Zenon DEF SplitWords, Pass, Passed
<1>3. lines' = Cut(texts)
  BY <1>2 DEF Uncut, Cut
<1> QED
  BY <1>1, <1>2, <1>3, Zenon DEF Passed

LEMMA PassedOthers ==
  ASSUME Passed, RemoveNewlines \/ ReadLine \/ ReadNoWord \/ Assembled \/ UNCHANGED tvars
  PROVE  Passed'
<1>1. CASE RemoveNewlines
  <2>1. /\ source \in Sources /\ source' = source /\ phase = "newlines" /\ phase' = "lines"
        /\ code' = Collapsed(code) /\ code = Untabbed(Uncommented(TextOf(source)))
    BY <1>1, Zenon DEF RemoveNewlines, Pass, Passed
  <2> QED
    BY <2>1, Zenon DEF Passed
<1>2. CASE ReadLine \/ ReadNoWord \/ Assembled
  <2>1. /\ source' = source /\ lines' = lines /\ phase = "reading"
        /\ phase' \notin {"comments", "newlines", "lines", "words"}
    BY <1>2, Zenon DEF ReadLine, ReadNoWord, Assembled, Untouched
  <2>2. source \in Sources /\ lines = Cut(Alone(TextOf(source)))
    BY <2>1, Zenon DEF Passed
  <2> QED
    BY <2>1, <2>2, Zenon DEF Passed
<1>3. CASE UNCHANGED tvars
  BY <1>3, Zenon DEF tvars, Passed
<1> QED
  BY <1>1, <1>2, <1>3

LEMMA PassedNext == Passed /\ [Next]_tvars => Passed'
BY PassedDropping, PassedReplaceTabs, PassedSplitLines, PassedSplitWords, PassedOthers, Zenon
   DEF Next, DropLineComment, DropBlockComment, Over

LEMMA PassedAlways == Spec => []Passed
BY PassedInit, PassedNext, PTL DEF Spec

LEMMA AloneParts ==
  ASSUME NEW src \in Sources, \A k \in DOMAIN src : Closed(src[k].text)
  PROVE  Alone(TextOf(src)) = FlattenSeq([k \in DOMAIN src |-> Alone(src[k].text)])
<1>1. PICK S : /\ S = Symbols(src) /\ "\n" \in S /\ Blank \in S
               /\ PartTexts(src) \in Seq(Seq(S)) /\ Len(PartTexts(src)) = Len(src)
  BY SourceIs, Zenon
<1>2. DOMAIN src = 1 .. Len(src)
  BY SourceIs, Zenon
<1>3. PICK ss \in Seq(Seq(S)) : ss = PartTexts(src)
  BY <1>1
<1>4. Len(ss) = Len(src) /\ \A k \in 1 .. Len(ss) : ss[k] = src[k].text
  BY <1>1, <1>2, <1>3, Zenon DEF PartTexts
<1>5. \A k \in 1 .. Len(ss) : Closed(ss[k])
  BY <1>2, <1>4, Zenon
<1>6. PICK e \in Seq(S) : e = EndOfText /\ Alone(e) = <<>>
  BY <1>1, NoLineAtEnd, Zenon
<1>7. Alone(FlattenSeq(ss) \o e) = FlattenSeq([k \in 1 .. Len(ss) |-> Alone(ss[k])]) \o Alone(e)
  BY <1>1, <1>5, AloneFlattens, Zenon
<1>8. [k \in 1 .. Len(ss) |-> Alone(ss[k])] = [k \in DOMAIN src |-> Alone(src[k].text)]
  BY <1>2, <1>4, Zenon
<1> DEFINE as == [k \in 1 .. Len(ss) |-> Alone(ss[k])]
<1>9. FlattenSeq(as) \o <<>> = FlattenSeq(as)
  <2>1. \A k \in 1 .. Len(ss) : ss[k] \in Seq(S) /\ Closed(ss[k])
    BY <1>5
  <2>2. \A k \in 1 .. Len(ss) : Alone(ss[k]) \in Seq(LineTexts(S))
    BY <1>1, <2>1, AloneJoins, Zenon
  <2>3. as = [k \in 1 .. Len(ss) |-> as[k]] /\ \A k \in 1 .. Len(ss) : as[k] \in Seq(LineTexts(S))
    BY <2>2, Zenon
  <2>4. Len(ss) \in Nat
    OBVIOUS
  <2> HIDE DEF as
  <2>5. PICK bs \in Seq(Seq(LineTexts(S))) : bs = as
    <3>1. as \in Seq(Seq(LineTexts(S)))
      BY <2>3, <2>4, MappedType, Zenon
    <3> QED
      BY <3>1
  <2>6. FlattenSeq(bs) \in Seq(LineTexts(S))
    <3>1. PICK f \in [0 .. Len(bs) -> Seq(LineTexts(S))] : FlattenSeq(bs) = f[Len(bs)]
      <4>1. Flattens(LineTexts(S), bs) # {}
        BY FlattenSeqIs, Zenon
      <4> QED
        BY <4>1, Zenon DEF Flattens
    <3>2. Len(bs) \in 0 .. Len(bs)
      OBVIOUS
    <3> QED
      BY <3>1, <3>2
  <2>7. FlattenSeq(bs) \o <<>> = FlattenSeq(bs)
    BY <2>6, JoinedNothing, Zenon
  <2> QED
    BY <2>5, <2>7, Zenon
<1> QED
  BY <1>3, <1>6, <1>7, <1>8, <1>9, Zenon DEF TextOf

(***************************************************************************)
(* For every source whose parts close their comments and their last line,  *)
(* the lines the passes leave of the whole text are the lines they leave   *)
(* of each part by itself, one after the other: the files given to the     *)
(* assembler may be joined before anything is looked at.                   *)
(***************************************************************************)
THEOREM PartsStandAlone == Spec => []LinesStandAlone
<1>1. Passed => LinesStandAlone
  <2> SUFFICES ASSUME Passed, phase = "words", AllClosed
               PROVE [k \in DOMAIN lines |-> lines[k].text] = FlattenSeq([k \in DOMAIN source |-> Alone(source[k].text)])
    BY Zenon DEF LinesStandAlone
  <2>1. PICK texts : texts = Alone(TextOf(source))
    OBVIOUS
  <2>2. lines = Uncut(texts) /\ source \in Sources
    BY <2>1, Zenon DEF Passed
  <2>3. texts = FlattenSeq([k \in DOMAIN source |-> Alone(source[k].text)])
    BY <2>1, <2>2, AloneParts, Zenon DEF AllClosed
  <2>4. [k \in DOMAIN lines |-> lines[k].text] = [k \in DOMAIN texts |-> texts[k]]
    BY <2>2 DEF Uncut
  <2>5. [k \in DOMAIN texts |-> texts[k]] = texts
    <3>1. \E S : texts \in Seq(S)
      BY <2>1, <2>2, SourceIs, AloneType, Zenon
    <3> QED
      BY <3>1
  <2> QED
    BY <2>3, <2>4, <2>5, Zenon
<1> QED
  BY <1>1, PassedAlways, PTL

-----------------------------------------------------------------------------
(* The readings: what is written in a source, and where its sections reach. *)

WrittenWith(src, n, x) == IF src[n].means.is = "nothing" THEN x ELSE Append(x, src[n])

WrittenBy(src, w) == w = [n \in 0 .. Len(src) |-> IF n = 0 THEN <<>> ELSE WrittenWith(src, n, w[n - 1])]

Writes(C) ==
  {w \in [0 .. Len(source) -> Seq(C)] :
     /\ w[0] = <<>> /\ \A n \in 1 .. Len(source) : w[n] = WrittenWith(source, n, w[n - 1])
     /\ Written = w[Len(source)]}

LEMMA WrittenIs ==
  ASSUME NEW C, source \in Seq(C)
  PROVE  Writes(C) # {}
<1>1. PICK src \in Seq(C) : src = source
  OBVIOUS
<1> DEFINE step == [n \in 1 .. Len(src) |-> [x \in Seq(C) |-> WrittenWith(src, n, x)]]
           K == CHOOSE w : WrittenBy(src, w)
<1>2. <<>> \in Seq(C) /\ Len(src) \in Nat
  OBVIOUS
<1>3. \A n \in 1 .. Len(src) : \A x \in Seq(C) : WrittenWith(src, n, x) \in Seq(C)
  BY DEF WrittenWith
<1>4. \A n \in 1 .. Len(src) : \A x \in Seq(C) : step[n][x] = WrittenWith(src, n, x)
  BY Zenon
<1>5. step \in [1 .. Len(src) -> [Seq(C) -> Seq(C)]]
  BY <1>3
<1> HIDE DEF step
<1>6. PICK f \in [0 .. Len(src) -> Seq(C)] : f[0] = <<>> /\ \A n \in 1 .. Len(src) : f[n] = step[n][f[n - 1]]
  <2>1. Recursion(Seq(C), <<>>, Len(src), step) # {}
    BY <1>2, <1>5, RecursionExists, Zenon
  <2> QED
    BY <2>1, Zenon DEF Recursion
<1>7. WrittenBy(src, f)
  <2>1. f = [n \in 0 .. Len(src) |-> f[n]] /\ f[0] = <<>>
    BY <1>6, Zenon
  <2>2. ASSUME NEW n \in 0 .. Len(src), n # 0 PROVE f[n] = WrittenWith(src, n, f[n - 1])
    <3>1. n \in 1 .. Len(src) /\ f[n - 1] \in Seq(C)
      BY <1>2, <2>2
    <3> QED
      BY <1>4, <1>6, <3>1, Zenon
  <2> QED
    BY <2>1, <2>2, Zenon DEF WrittenBy
<1>8. WrittenBy(src, K) /\ Written = K[Len(src)]
  BY <1>1, <1>7, Zenon DEF Written, WrittenBy, WrittenWith
<1> HIDE DEF K
<1>9. /\ K = [n \in 0 .. Len(src) |-> K[n]] /\ K[0] = <<>>
      /\ \A n \in 1 .. Len(src) : K[n] = WrittenWith(src, n, K[n - 1])
  <2>1. 0 \in 0 .. Len(src) /\ \A n \in 1 .. Len(src) : n \in 0 .. Len(src) /\ n # 0
    BY <1>2
  <2>2. K = [n \in 0 .. Len(src) |-> IF n = 0 THEN <<>> ELSE WrittenWith(src, n, K[n - 1])]
    BY <1>8, Zenon DEF WrittenBy
  <2>3. \A n \in 0 .. Len(src) : K[n] = IF n = 0 THEN <<>> ELSE WrittenWith(src, n, K[n - 1])
    BY <2>2, Zenon
  <2>4. K = [n \in 0 .. Len(src) |-> K[n]]
    BY <2>2, Zenon
  <2>5. \A n \in 1 .. Len(src) : K[n] = WrittenWith(src, n, K[n - 1])
    BY <2>1, <2>3, Zenon
  <2>6. K[0] = <<>>
    BY <2>1, <2>3, Zenon
  <2> QED
    BY <2>4, <2>5, <2>6, Zenon
<1>10. K \in [0 .. Len(src) -> Seq(C)]
  <2>1. K[0] \in Seq(C) /\ \A n \in 1 .. Len(src) : K[n - 1] \in Seq(C) => K[n] \in Seq(C)
    BY <1>2, <1>3, <1>9, Zenon
  <2> QED
    BY <1>2, <1>9, <2>1, RecursionType, Zenon
<1> QED
  BY <1>1, <1>8, <1>9, <1>10, Zenon DEF Writes

(* One line for each part that is written, and none for the others. *)
LEMMA LinesOfWritten ==
  ASSUME source \in Sources, LinesReadAlone
  PROVE  /\ Len(Written) \in Nat /\ DOMAIN Written = 1 .. Len(Written)
         /\ Alone(TextOf(source)) = [k \in 1 .. Len(Written) |-> Alone(Written[k].text)[1]]
<1>1. PICK src \in Sources : src = source
  OBVIOUS
<1>2. PICK C : src \in Seq(C)
  BY SourcesAssumption, Zenon
<1>3. PICK N \in Nat : N = Len(src) /\ DOMAIN src = 1 .. N
  BY <1>2
<1>4. PICK w \in [0 .. N -> Seq(C)] :
        /\ w[0] = <<>> /\ \A n \in 1 .. N : w[n] = WrittenWith(src, n, w[n - 1])
        /\ Written = w[N]
  <2>1. Writes(C) # {}
    BY <1>1, <1>2, WrittenIs, Zenon
  <2> QED
    BY <1>1, <1>3, <2>1, Zenon DEF Writes
<1>5. PICK S : /\ S = Symbols(src) /\ "\n" \in S /\ Blank \in S
               /\ PartTexts(src) \in Seq(Seq(S)) /\ Len(PartTexts(src)) = Len(src)
  BY SourceIs, Zenon
<1>6. PICK T : T = LineTexts(S)
  OBVIOUS
<1>7. PICK as : as = [k \in 1 .. N |-> Alone(src[k].text)]
  OBVIOUS
<1>8. \A n \in 1 .. N : as[n] \in Seq(T) /\ Len(as[n]) = IF src[n].means.is = "nothing" THEN 0 ELSE 1
  <2> SUFFICES ASSUME NEW n \in 1 .. N
               PROVE  as[n] \in Seq(T) /\ Len(as[n]) = IF src[n].means.is = "nothing" THEN 0 ELSE 1
    BY Zenon
  <2>1. as[n] = Alone(src[n].text) /\ n \in DOMAIN src
    BY <1>3, <1>7, Zenon
  <2>2. src[n].text \in Seq(S)
    <3>1. PartTexts(src)[n] \in Seq(S)
      BY <1>3, <1>5
    <3> QED
      BY <2>1, <3>1, Zenon DEF PartTexts
  <2>3. as[n] \in Seq(T)
    BY <1>5, <1>6, <2>1, <2>2, AloneType, Zenon
  <2> QED
    BY <1>1, <2>1, <2>3, Zenon DEF LinesReadAlone
<1>9. as \in Seq(Seq(T)) /\ Len(as) = N
  <2>1. as = [k \in 1 .. N |-> as[k]] /\ \A k \in 1 .. N : as[k] \in Seq(T)
    BY <1>7, <1>8, Zenon
  <2> QED
    BY <2>1, MappedType, Zenon
<1>10. PICK g \in [0 .. N -> Seq(T)] :
         /\ g[0] = <<>> /\ \A n \in 1 .. N : g[n] = g[n - 1] \o as[n]
         /\ FlattenSeq(as) = g[N]
  <2>1. Flattens(T, as) # {}
    BY <1>9, FlattenSeqIs, Zenon
  <2> QED
    BY <1>9, <2>1, Zenon DEF Flattens
<1> DEFINE Same(n) == Len(g[n]) = Len(w[n]) /\ \A k \in 1 .. Len(w[n]) : g[n][k] = Alone(w[n][k].text)[1]
           M == {n \in Nat : n <= N => Same(n)}
<1>11. 0 \in M
  <2>1. Len(g[0]) = 0 /\ Len(w[0]) = 0
    BY <1>4, <1>10
  <2> QED
    BY <2>1
<1>12. ASSUME NEW n \in Nat, n \in M PROVE n + 1 \in M
  <2> SUFFICES ASSUME n + 1 <= N PROVE Same(n + 1)
    OBVIOUS
  <2>1. n + 1 \in 1 .. N /\ (n + 1) - 1 = n /\ n <= N /\ n \in 0 .. N
    OBVIOUS
  <2>2. PICK x \in Seq(C), a \in Seq(T), b \in Seq(T) :
          x = w[n] /\ a = g[n] /\ b = as[n + 1] /\ b = Alone(src[n + 1].text)
    <3>1. w[n] \in Seq(C) /\ g[n] \in Seq(T) /\ as[n + 1] \in Seq(T)
      BY <1>8, <2>1
    <3> QED
      BY <1>7, <2>1, <3>1, Zenon
  <2>3. Len(a) = Len(x) /\ \A k \in 1 .. Len(x) : a[k] = Alone(x[k].text)[1]
    BY <1>12, <2>1, <2>2, Zenon
  <2>4. w[n + 1] = WrittenWith(src, n + 1, x) /\ g[n + 1] = a \o b
    BY <1>4, <1>10, <2>1, <2>2, Zenon
  <2>5. CASE src[n + 1].means.is = "nothing"
    <3>1. w[n + 1] = x
      BY <2>4, <2>5, Zenon DEF WrittenWith
    <3>2. Len(b) = 0
      BY <1>8, <2>1, <2>2, <2>5
    <3>3. a \o b = a
      BY <3>2
    <3> QED
      BY <2>3, <2>4, <3>1, <3>3, Zenon
  <2>6. CASE src[n + 1].means.is # "nothing"
    <3>1. PICK c \in C : c = src[n + 1]
      BY <1>2, <1>3, <2>1
    <3>2. w[n + 1] = Append(x, c)
      BY <2>4, <2>6, <3>1, Zenon DEF WrittenWith
    <3>3. Len(b) = 1
      BY <1>8, <2>1, <2>2, <2>6
    <3>4. PICK m \in Nat : m = Len(x) /\ m = Len(a)
      BY <2>3
    <3>5. PICK y : y = Append(x, c) /\ Len(y) = m + 1 /\ y[m + 1] = c /\ \A k \in 1 .. m : y[k] = x[k]
      <4>1. /\ Len(Append(x, c)) = m + 1 /\ Append(x, c)[m + 1] = c
            /\ \A k \in 1 .. m : Append(x, c)[k] = x[k]
        <5>1. x \in Seq(C) /\ c \in C /\ m = Len(x)
          BY <3>4
        <5> QED
          BY <5>1, Appended
      <4> QED
        BY <4>1, Zenon
    <3>6. PICK z : z = a \o b /\ Len(z) = m + 1 /\ z[m + 1] = b[1] /\ \A k \in 1 .. m : z[k] = a[k]
      <4>1. Len(a \o b) = m + 1 /\ (a \o b)[m + 1] = b[1] /\ \A k \in 1 .. m : (a \o b)[k] = a[k]
        <5>1. /\ Len(a \o b) = m + Len(b) /\ \A k \in 1 .. m : (a \o b)[k] = a[k]
              /\ \A i \in 1 .. Len(b) : (a \o b)[m + i] = b[i]
          BY <3>4, Joined
        <5>2. 1 \in 1 .. Len(b)
          BY <3>3
        <5> QED
          BY <3>3, <5>1, <5>2, Zenon
      <4> QED
        BY <4>1, Zenon
    <3>7. ASSUME NEW k \in 1 .. m + 1 PROVE z[k] = Alone(y[k].text)[1]
      <4>1. CASE k = m + 1
        BY <2>2, <3>1, <3>5, <3>6, <4>1, Zenon
      <4>2. CASE k # m + 1
        <5>1. k \in 1 .. m
          BY <4>2
        <5> QED
          BY <2>3, <3>4, <3>5, <3>6, <5>1, Zenon
      <4> QED
        BY <4>1, <4>2
    <3>8. w[n + 1] = y /\ g[n + 1] = z
      BY <2>4, <3>2, <3>5, <3>6, Zenon
    <3> QED
      BY <3>5, <3>6, <3>7, <3>8, Zenon
  <2> QED
    BY <2>5, <2>6
<1>13. Nat \subseteq M
  <2> HIDE DEF M
  <2> QED
    BY <1>11, <1>12, NatBySets
<1>14. Same(N)
  <2>1. N \in M /\ N <= N
    BY <1>13
  <2> QED
    BY <2>1
<1> HIDE DEF M
<1>15. PICK x \in Seq(C), a \in Seq(T) : x = w[N] /\ a = g[N]
  BY <1>3
<1>16. Len(x) \in Nat /\ DOMAIN x = 1 .. Len(x) /\ a = [k \in 1 .. Len(a) |-> a[k]]
  OBVIOUS
<1>17. a = [k \in 1 .. Len(x) |-> Alone(x[k].text)[1]]
  BY <1>14, <1>15, <1>16, Zenon
<1>18. Alone(TextOf(src)) = FlattenSeq(as)
  <2>1. \A k \in DOMAIN src : Closed(src[k].text)
    BY <1>1, Zenon DEF LinesReadAlone, AllClosed
  <2> QED
    BY <1>3, <1>7, <2>1, AloneParts, Zenon
<1> QED
  BY <1>1, <1>4, <1>10, <1>15, <1>16, <1>17, <1>18, Zenon

LEMMA InSectionNext ==
  ASSUME NEW k \in Nat \ {0}
  PROVE  InSection(k + 1) <=>
           Written[k].means.is = "section" \/ (InSection(k) /\ Written[k].means.is # "label")
<1>1. (k + 1) - 1 = k /\ k \in 1 .. k
  OBVIOUS
<1>2. ASSUME NEW j \in 1 .. k, Written[j].means.is = "section",
             \A i \in j + 1 .. k : Written[i].means.is # "label"
      PROVE  Written[k].means.is = "section" \/ (InSection(k) /\ Written[k].means.is # "label")
  <2>1. CASE j = k
    BY <1>2, <2>1
  <2>2. CASE j # k
    <3>1. j \in 1 .. k - 1 /\ k \in j + 1 .. k /\ \A i \in j + 1 .. k - 1 : i \in j + 1 .. k
      BY <2>2
    <3> QED
      BY <1>2, <3>1, Zenon DEF InSection
  <2> QED
    BY <2>1, <2>2
<1>3. ASSUME Written[k].means.is = "section"
      PROVE  \E j \in 1 .. k : Written[j].means.is = "section" /\ \A i \in j + 1 .. k : Written[i].means.is # "label"
  <2>1. \A i \in k + 1 .. k : FALSE
    OBVIOUS
  <2> QED
    BY <1>1, <1>3, <2>1, Zenon
<1>4. ASSUME InSection(k), Written[k].means.is # "label"
      PROVE  \E j \in 1 .. k : Written[j].means.is = "section" /\ \A i \in j + 1 .. k : Written[i].means.is # "label"
  <2>1. PICK j \in 1 .. k - 1 :
          Written[j].means.is = "section" /\ \A i \in j + 1 .. k - 1 : Written[i].means.is # "label"
    BY <1>4, Zenon DEF InSection
  <2>2. j \in 1 .. k /\ \A i \in j + 1 .. k : i = k \/ i \in j + 1 .. k - 1
    OBVIOUS
  <2> QED
    BY <1>4, <2>1, <2>2, Zenon
<1>5. InSection(k + 1) <=>
        \E j \in 1 .. k : Written[j].means.is = "section" /\ \A i \in j + 1 .. k : Written[i].means.is # "label"
  BY <1>1, Zenon DEF InSection
<1> QED
  BY <1>2, <1>3, <1>4, <1>5, Zenon

LEMMA RightBehindNext ==
  ASSUME NEW name, NEW k \in Nat \ {0}
  PROVE  RightBehind(name, k + 1) <=>
           \/ Written[k].means.is = "section" /\ Written[k].means.name = <<name>>
           \/ RightBehind(name, k) /\ Written[k].means.is = "data"
<1> DEFINE Begins(j) == Written[j].means.is = "section" /\ Written[j].means.name = <<name>>
           Reaches == \E j \in 1 .. k : Begins(j) /\ \A i \in j + 1 .. k : Written[i].means.is = "data"
<1>1. (k + 1) - 1 = k /\ k \in 1 .. k
  OBVIOUS
<1>2. RightBehind(name, k) <=> \E j \in 1 .. k - 1 : Begins(j) /\ \A i \in j + 1 .. k - 1 : Written[i].means.is = "data"
  BY Zenon DEF RightBehind
<1>3. RightBehind(name, k + 1) <=> Reaches
  BY <1>1, Zenon DEF RightBehind
<1> HIDE DEF Begins
<1>4. ASSUME NEW j \in 1 .. k, Begins(j), \A i \in j + 1 .. k : Written[i].means.is = "data"
      PROVE  Begins(k) \/ (RightBehind(name, k) /\ Written[k].means.is = "data")
  <2>1. CASE j = k
    BY <1>4, <2>1
  <2>2. CASE j # k
    <3>1. j \in 1 .. k - 1 /\ k \in j + 1 .. k /\ \A i \in j + 1 .. k - 1 : i \in j + 1 .. k
      BY <2>2
    <3> QED
      BY <1>2, <1>4, <3>1, Zenon
  <2> QED
    BY <2>1, <2>2
<1>5. ASSUME Begins(k) PROVE Reaches
  <2>1. \A i \in k + 1 .. k : FALSE
    OBVIOUS
  <2> QED
    BY <1>1, <1>5, <2>1, Zenon
<1>6. ASSUME RightBehind(name, k), Written[k].means.is = "data" PROVE Reaches
  <2>1. PICK j \in 1 .. k - 1 : Begins(j) /\ \A i \in j + 1 .. k - 1 : Written[i].means.is = "data"
    BY <1>2, <1>6, Zenon
  <2>2. j \in 1 .. k /\ \A i \in j + 1 .. k : i = k \/ i \in j + 1 .. k - 1
    OBVIOUS
  <2> QED
    BY <1>6, <2>1, <2>2, Zenon
<1>7. Reaches => Begins(k) \/ (RightBehind(name, k) /\ Written[k].means.is = "data")
  BY <1>4, Zenon
<1>8. Begins(k) \/ (RightBehind(name, k) /\ Written[k].means.is = "data") => Reaches
  BY <1>5, <1>6, Zenon
<1> QED
  BY <1>3, <1>7, <1>8, Zenon DEF Begins

(* The section of a line, from the line before it: as the readers keep it. *)
LEMMA SectionNext ==
  ASSUME NEW k \in Nat \ {0}
  PROVE  SectionOf(k + 1) =
           IF Written[k].means.is = "label" THEN "none"
           ELSE IF Written[k].means.is = "section" THEN Opened(Written[k].means.name)
           ELSE IF Written[k].means.is = "data" \/ SectionOf(k) = "none" THEN SectionOf(k) ELSE "lost"
<1>1. PICK is : is = Written[k].means.is
  OBVIOUS
<1>2. InSection(k + 1) <=> is = "section" \/ (InSection(k) /\ is # "label")
  BY <1>1, InSectionNext, Zenon
<1>3. \A name : RightBehind(name, k + 1) <=>
        (is = "section" /\ Written[k].means.name = <<name>>) \/ (RightBehind(name, k) /\ is = "data")
  BY <1>1, RightBehindNext, Zenon
<1>4. CASE is = "label"
  BY <1>1, <1>2, <1>4, Zenon DEF SectionOf
<1>5. CASE is = "section"
  <2>1. InSection(k + 1)
    BY <1>2, <1>5, Zenon
  <2>2. is # "label" /\ is # "data"
    BY <1>5
  <2>3. \A name : RightBehind(name, k + 1) <=> Written[k].means.name = <<name>>
    BY <1>3, <1>5, <2>2, Zenon
  <2>4. /\ RightBehind(".data", k + 1) <=> Written[k].means.name = <<".data">>
        /\ RightBehind(".bss", k + 1) <=> Written[k].means.name = <<".bss">>
    BY <2>3, Zenon
  <2>5. SectionOf(k + 1) = Opened(Written[k].means.name)
    BY <2>1, <2>4 DEF SectionOf, Opened
  <2> QED
    BY <1>1, <1>5, <2>2, <2>5, Zenon
<1>6. CASE is \notin {"label", "section", "data"}
  <2>1. is # "label" /\ is # "section" /\ is # "data"
    BY <1>6, Zenon
  <2>2. \A name : ~RightBehind(name, k + 1)
    BY <1>3, <2>1, Zenon
  <2>3. SectionOf(k) = "none" <=> ~InSection(k)
    BY DEF SectionOf
  <2>4. SectionOf(k + 1) = IF InSection(k) THEN "lost" ELSE "none"
    BY <1>2, <2>1, <2>2, Zenon DEF SectionOf
  <2> QED
    BY <1>1, <2>1, <2>3, <2>4, Zenon
<1>7. CASE is = "data"
  <2>1. is # "label" /\ is # "section"
    BY <1>7
  <2>2. \A name : RightBehind(name, k + 1) <=> RightBehind(name, k)
    BY <1>3, <1>7, <2>1, Zenon
  <2>3. InSection(k + 1) <=> InSection(k)
    BY <1>2, <2>1, Zenon
  <2>4. SectionOf(k + 1) = SectionOf(k)
    BY <2>2, <2>3, Zenon DEF SectionOf
  <2> QED
    BY <1>1, <1>7, <2>1, <2>4, Zenon
<1> QED
  BY <1>4, <1>5, <1>6, <1>7, Zenon

LEMMA WrittenStays ==
  ASSUME source' = source
  PROVE  /\ Written' = Written /\ (LinesReadAlone' <=> LinesReadAlone)
         /\ \A k : SectionOf(k)' = SectionOf(k) /\ Arriving(k)' = Arriving(k)
<1>1. Written' = Written
  BY Zenon DEF Written
<1>2. ASSUME NEW k PROVE SectionOf(k)' = SectionOf(k)
  BY <1>1, Zenon DEF SectionOf, InSection, RightBehind
<1>3. ASSUME NEW k PROVE Arriving(k)' = Arriving(k)
  BY <1>1, <1>2, Zenon DEF Arriving
<1>4. AllClosed' <=> AllClosed
  BY Zenon DEF AllClosed
<1>5. ASSUME NEW k PROVE ReadAlone(k)' <=> ReadAlone(k)
  BY <1>1, <1>2, <1>3, Zenon DEF ReadAlone
<1>6. LinesReadAlone' <=> LinesReadAlone
  BY <1>1, <1>4, <1>5, Zenon DEF LinesReadAlone
<1> QED
  BY <1>1, <1>2, <1>3, <1>6, Zenon

Early == {"comments", "newlines", "lines", "words"}

SaidUpTo(n) == [k \in 1 .. n |-> Arriving(k)]

(* The readings so far are what becomes of the first n lines. *)
SoFar(n) ==
  /\ said = SaidUpTo(n)
  /\ phase = "reading" => at = n + 1 /\ section = SectionOf(n + 1)
  /\ phase = "over" => n = Len(Written)
  /\ phase = "undefined" => Written[n + 1].means.is = "gap"

(* The inductive invariant of the readers, on top of the one of the passes. *)
ReadSoFar ==
  /\ phase \in Early => said = <<>> /\ section = "none"
  /\ phase \in {"newlines", "lines", "words"} => at = 1
  /\ phase \notin Early /\ LinesReadAlone => phase # "rejected" /\ \E n \in 0 .. Len(Written) : SoFar(n)

LEMMA SaidNext ==
  ASSUME NEW n \in Nat
  PROVE  SaidUpTo(n + 1) = Append(SaidUpTo(n), Arriving(n + 1))
BY DEF SaidUpTo

LEMMA SaidNothing == SaidUpTo(0) = <<>>
BY DEF SaidUpTo

LEMMA NoSectionFirst == SectionOf(1) = "none"
<1>1. \A j \in 1 .. 1 - 1 : FALSE
  OBVIOUS
<1> QED
  BY <1>1, Zenon DEF SectionOf, InSection

(* The n-th line is the only line of the n-th part that is written. *)
LineOf(k) == Alone(Written[k].text)[1]

LEMMA LineIs ==
  ASSUME source \in Sources, LinesReadAlone, lines = Cut(Alone(TextOf(source)))
  PROVE  /\ Len(Written) \in Nat /\ Len(lines) = Len(Written) /\ DOMAIN lines = 1 .. Len(Written)
         /\ \A k \in 1 .. Len(Written) :
              /\ lines[k] = [text |-> LineOf(k), words |-> Words(LineOf(k))]
              /\ ReadAlone(k)
<1>1. PICK N \in Nat : N = Len(Written) /\ DOMAIN Written = 1 .. N
  BY LinesOfWritten, Zenon
<1>2. Alone(TextOf(source)) = [k \in 1 .. N |-> LineOf(k)]
  BY <1>1, LinesOfWritten, Zenon DEF LineOf
<1>3. lines = [k \in 1 .. N |-> [text |-> LineOf(k), words |-> Words(LineOf(k))]]
  BY <1>2, Zenon DEF Cut
<1>4. Len(lines) = N /\ DOMAIN lines = 1 .. N
  BY <1>3
<1>5. \A k \in 1 .. N : ReadAlone(k)
  BY <1>1, Zenon DEF LinesReadAlone
<1> QED
  BY <1>1, <1>3, <1>4, <1>5, Zenon

(* A line that is not a gap: its words are there, and it reads as what becomes of it. *)
LEMMA LineReads ==
  ASSUME NEW k, ReadAlone(k), NEW line, line = [text |-> LineOf(k), words |-> Words(LineOf(k))],
         ~Missing(line.words, SectionOf(k))
  PROVE  LET kind == Kind(line.words, SectionOf(k))
         IN  /\ kind = Written[k].means.is /\ Legal(kind, SectionOf(k), line.words)
             /\ Reads(kind, SectionOf(k), line) = Arriving(k)
<1>1. line.words = Words(LineOf(k))
  OBVIOUS
<1>2. Written[k].means.is # "gap"
  BY <1>1, Zenon DEF ReadAlone, LineOf, Missing
<1> QED
  BY <1>1, <1>2, Zenon DEF ReadAlone, LineOf

LEMMA LineMissing ==
  ASSUME NEW k, ReadAlone(k), Missing(Words(LineOf(k)), SectionOf(k))
  PROVE  Written[k].means.is = "gap"
BY Zenon DEF ReadAlone, LineOf

(* The name of a section is its second word. *)
LEMMA SectionRead ==
  ASSUME NEW k, NEW line, NEW opened, Reads("section", opened, line) = Arriving(k),
         Written[k].means.is = "section"
  PROVE  line.words[2] = Written[k].means.name
<1>1. Reads("section", opened, line) = Reading("section", line.words[2], <<>>, <<>>)
  BY Zenon DEF Reads
<1>2. Arriving(k) = Written[k].means
  BY DEF Arriving
<1>3. PICK w : w = line.words[2]
  OBVIOUS
<1>4. Reading("section", w, <<>>, <<>>).name = w
  BY DEF Reading
<1> QED
  BY <1>1, <1>2, <1>3, <1>4, Zenon

LEMMA ReadSoFarLine ==
  ASSUME Passed, ReadSoFar, ReadLine
  PROVE  ReadSoFar'
<1>1. /\ source' = source /\ phase = "reading" /\ at <= Len(lines) /\ ~Missing(lines[at].words, section)
      /\ at' = at + 1 /\ phase' \in {"reading", "rejected"}
  BY Zenon DEF ReadLine, Untouched
<1> SUFFICES ASSUME LinesReadAlone PROVE phase' # "rejected" /\ \E n \in 0 .. Len(Written) : SoFar(n)'
  BY <1>1, WrittenStays, Zenon DEF ReadSoFar, Early
<1>2. source \in Sources /\ lines = Cut(Alone(TextOf(source)))
  BY <1>1, Zenon DEF Passed
<1>3. PICK N \in Nat : N = Len(Written)
  BY <1>2, LineIs, Zenon
<1>4. PICK n \in 0 .. N : SoFar(n)
  BY <1>1, <1>3, Zenon DEF ReadSoFar, Early
<1>5. said = SaidUpTo(n) /\ at = n + 1 /\ section = SectionOf(n + 1)
  BY <1>1, <1>4, Zenon DEF SoFar
<1>6. PICK k \in 1 .. N : k = n + 1
  BY <1>1, <1>2, <1>3, <1>5, LineIs
<1>7. lines[k] = [text |-> LineOf(k), words |-> Words(LineOf(k))] /\ ReadAlone(k)
  BY <1>2, <1>3, LineIs, Zenon
<1>8. PICK line, opened, kind :
        /\ line = lines[k] /\ line = lines[at] /\ opened = SectionOf(k) /\ opened = section
        /\ kind = Kind(line.words, opened)
  BY <1>5, <1>6, Zenon
<1>9. ~Missing(line.words, opened)
  BY <1>1, <1>8, Zenon
<1>10. kind = Written[k].means.is /\ Legal(kind, opened, line.words) /\ Reads(kind, opened, line) = Arriving(k)
  BY <1>7, <1>8, <1>9, LineReads, Zenon
<1>11. /\ said' = Append(said, Arriving(k)) /\ phase' = "reading"
       /\ section' = SectionAfter(opened, kind, line.words)
  BY <1>1, <1>8, <1>10, Zenon DEF ReadLine
<1>12. said' = SaidUpTo(k)
  <2>1. n \in Nat
    OBVIOUS
  <2>2. SaidUpTo(k) = Append(SaidUpTo(n), Arriving(k))
    BY <1>6, <2>1, SaidNext
  <2> QED
    BY <1>5, <1>11, <2>2, Zenon
<1>13. section' = SectionOf(k + 1)
  <2>1. kind = "section" => line.words[2] = Written[k].means.name
    BY <1>10, SectionRead, Zenon
  <2>2. SectionOf(k + 1) =
          IF kind = "label" THEN "none"
          ELSE IF kind = "section" THEN Opened(Written[k].means.name)
          ELSE IF kind = "data" \/ opened = "none" THEN opened ELSE "lost"
    <3>1. k \in Nat \ {0}
      OBVIOUS
    <3> QED
      BY <1>8, <1>10, <3>1, SectionNext, Zenon
  <2> QED
    BY <1>11, <2>1, <2>2, Zenon DEF SectionAfter
<1>14. SaidUpTo(k)' = SaidUpTo(k)
  BY <1>1, WrittenStays, Zenon DEF SaidUpTo
<1>15. SoFar(k)'
  BY <1>1, <1>5, <1>6, <1>11, <1>12, <1>13, <1>14, WrittenStays, Zenon DEF SoFar
<1> QED
  <2>1. k \in 0 .. N /\ phase' # "rejected"
    BY <1>11
  <2> QED
    BY <1>3, <1>15, <2>1, Zenon

LEMMA ReadSoFarInit == Init => ReadSoFar
BY Zenon DEF Init, ReadSoFar, Early

LEMMA ReadSoFarEarly ==
  ASSUME ReadSoFar, DropLineComment \/ DropBlockComment \/ ReplaceTabs \/ RemoveNewlines \/ SplitLines
  PROVE  ReadSoFar'
<1>1. /\ phase \in Early /\ said' = said /\ section' = section
      /\ \/ phase' = "comments"
         \/ phase' = "newlines" /\ at' = 1
         \/ phase \in {"newlines", "lines"} /\ phase' \in {"lines", "words"} /\ at' = at
  BY Zenon DEF DropLineComment, DropBlockComment, Dropping, ReplaceTabs, RemoveNewlines, SplitLines, Pass, Early
<1> QED
  BY <1>1, Zenon DEF ReadSoFar, Early

LEMMA ReadSoFarWords ==
  ASSUME Passed, ReadSoFar, SplitWords
  PROVE  ReadSoFar'
<1>1. /\ source' = source /\ phase = "words" /\ phase' = "reading" /\ said' = said /\ section' = section
      /\ at' = at
  BY Zenon DEF SplitWords, Pass
<1> SUFFICES ASSUME LinesReadAlone PROVE \E n \in 0 .. Len(Written) : SoFar(n)'
  BY <1>1, WrittenStays, Zenon DEF ReadSoFar, Early
<1>2. said = <<>> /\ section = "none" /\ at = 1
  BY <1>1, Zenon DEF ReadSoFar, Early
<1>3. source \in Sources
  BY Zenon DEF Passed
<1>4. 0 \in 0 .. Len(Written) /\ 0 + 1 = 1
  BY <1>3, LinesOfWritten
<1>5. SaidUpTo(0)' = SaidUpTo(0)
  BY <1>1, WrittenStays, Zenon DEF SaidUpTo
<1>6. SoFar(0)'
  BY <1>1, <1>2, <1>4, <1>5, SaidNothing, NoSectionFirst, WrittenStays, Zenon DEF SoFar
<1> QED
  BY <1>4, <1>6, Zenon

LEMMA ReadSoFarEnds ==
  ASSUME Passed, ReadSoFar, ReadNoWord \/ Assembled \/ UNCHANGED tvars
  PROVE  ReadSoFar'
<1>1. CASE ReadNoWord \/ Assembled
  <2>1. /\ source' = source /\ phase = "reading" /\ said' = said
        /\ \/ phase' = "undefined" /\ at <= Len(lines) /\ Missing(lines[at].words, section)
           \/ phase' = "over" /\ at > Len(lines)
    BY <1>1, Zenon DEF ReadNoWord, Assembled, Untouched
  <2> SUFFICES ASSUME LinesReadAlone PROVE \E n \in 0 .. Len(Written) : SoFar(n)'
    BY <2>1, WrittenStays, Zenon DEF ReadSoFar, Early
  <2>2. source \in Sources /\ lines = Cut(Alone(TextOf(source)))
    BY <2>1, Zenon DEF Passed
  <2>3. PICK N \in Nat : N = Len(Written) /\ N = Len(lines)
    BY <2>2, LineIs, Zenon
  <2>4. PICK n \in 0 .. N : SoFar(n)
    BY <2>1, <2>3, Zenon DEF ReadSoFar, Early
  <2>5. said = SaidUpTo(n) /\ at = n + 1 /\ section = SectionOf(n + 1)
    BY <2>1, <2>4, Zenon DEF SoFar
  <2>6. ASSUME phase' = "over" PROVE n = N
    <3>1. n + 1 > N
      BY <2>1, <2>3, <2>5, <2>6
    <3> QED
      BY <3>1
  <2>7. ASSUME phase' = "undefined" PROVE Written[n + 1].means.is = "gap"
    <3>1. PICK k \in 1 .. N : k = n + 1
      BY <2>1, <2>3, <2>5, <2>7
    <3>2. lines[k] = [text |-> LineOf(k), words |-> Words(LineOf(k))] /\ ReadAlone(k)
      BY <2>2, <2>3, LineIs, Zenon
    <3>3. lines[k].words = Words(LineOf(k))
      BY <3>2
    <3>4. Missing(lines[at].words, section) /\ at = k /\ section = SectionOf(k)
      BY <2>1, <2>5, <2>7, <3>1, Zenon
    <3> QED
      BY <3>1, <3>2, <3>3, <3>4, LineMissing, Zenon
  <2>8. SaidUpTo(n)' = SaidUpTo(n)
    BY <2>1, WrittenStays, Zenon DEF SaidUpTo
  <2>9. SoFar(n)'
    BY <2>1, <2>3, <2>5, <2>6, <2>7, <2>8, WrittenStays, Zenon DEF SoFar
  <2> QED
    BY <2>3, <2>9, Zenon
<1>2. CASE UNCHANGED tvars
  <2>1. source' = source /\ phase' = phase /\ said' = said /\ section' = section /\ at' = at
    BY <1>2 DEF tvars
  <2>2. ASSUME NEW n, SoFar(n) PROVE SoFar(n)'
    <3>1. SaidUpTo(n)' = SaidUpTo(n)
      BY <2>1, WrittenStays, Zenon DEF SaidUpTo
    <3> QED
      BY <2>1, <2>2, <3>1, WrittenStays, Zenon DEF SoFar
  <2> QED
    BY <2>1, <2>2, WrittenStays, Zenon DEF ReadSoFar, Early
<1> QED
  BY <1>1, <1>2

LEMMA ReadSoFarNext == Passed /\ ReadSoFar /\ [Next]_tvars => ReadSoFar'
BY ReadSoFarLine, ReadSoFarEarly, ReadSoFarWords, ReadSoFarEnds, Zenon DEF Next, Over

LEMMA ReadSoFarAlways == Spec => [](Passed /\ ReadSoFar)
BY PassedInit, PassedNext, ReadSoFarInit, ReadSoFarNext, PTL DEF Spec

LEMMA SoFarOf ==
  ASSUME Passed, ReadSoFar, LinesReadAlone
  PROVE  phase # "rejected" /\ \E n \in Nat : /\ n <= Len(Written) /\ said = SaidUpTo(n)
                                              /\ phase = "over" => n = Len(Written)
                                              /\ phase = "undefined" => Written[n + 1].means.is = "gap"
<1>1. source \in Sources
  BY Zenon DEF Passed
<1>2. PICK N \in Nat : N = Len(Written)
  BY <1>1, LinesOfWritten, Zenon
<1>3. CASE phase \in Early
  <2>1. said = SaidUpTo(0) /\ phase \notin {"rejected", "over", "undefined"}
    BY <1>3, SaidNothing, Zenon DEF ReadSoFar, Early
  <2>2. 0 \in Nat /\ 0 <= N
    OBVIOUS
  <2> QED
    BY <1>2, <2>1, <2>2, Zenon
<1>4. CASE phase \notin Early
  <2>1. PICK n \in 0 .. N : SoFar(n)
    BY <1>2, <1>4, Zenon DEF ReadSoFar
  <2>2. n \in Nat /\ n <= N
    OBVIOUS
  <2>3. phase # "rejected"
    BY <1>4, Zenon DEF ReadSoFar
  <2> QED
    BY <1>2, <2>1, <2>2, <2>3, Zenon DEF SoFar
<1> QED
  BY <1>3, <1>4

(***************************************************************************)
(* For every source, a program whose lines, each by itself, read as        *)
(* written is read line by line, to its end or to its first line without   *)
(* words: nothing is carried from one line to the next but the section it  *)
(* is in. Every line becomes what was written except the data behind a     *)
(* constant in its section and the data of a section other than .data and  *)
(* .bss, which the assembler skips without a word.                         *)
(***************************************************************************)
THEOREM LinesInOrder == Spec => []ReadInOrder
<1>1. Passed /\ ReadSoFar => ReadInOrder
  <2> SUFFICES ASSUME Passed, ReadSoFar, LinesReadAlone
               PROVE /\ phase # "rejected"
                     /\ \A k \in DOMAIN said : said[k] = Arriving(k)
                     /\ phase = "over" => Len(said) = Len(Written)
                     /\ phase = "undefined" => Written[Len(said) + 1].means.is = "gap"
    BY Zenon DEF ReadInOrder
  <2>1. PICK n \in Nat : /\ n <= Len(Written) /\ said = SaidUpTo(n)
                         /\ phase = "over" => n = Len(Written)
                         /\ phase = "undefined" => Written[n + 1].means.is = "gap"
    BY SoFarOf, Zenon
  <2>2. phase # "rejected"
    BY SoFarOf, Zenon
  <2>3. Len(said) = n /\ \A k \in DOMAIN said : said[k] = Arriving(k)
    BY <2>1 DEF SaidUpTo
  <2> QED
    BY <2>1, <2>2, <2>3, Zenon
<1> QED
  BY <1>1, ReadSoFarAlways, PTL

(***************************************************************************)
(* For every source whose lines, each by itself, read as written: of the   *)
(* whole program, exactly the known gaps arrive as lines without words.    *)
(***************************************************************************)
THEOREM GapsArrive == Spec => [](LinesReadAlone => LinesHaveWords)
<1>1. Passed => (LinesReadAlone => LinesHaveWords)
  <2> SUFFICES ASSUME Passed, LinesReadAlone, phase = "reading"
               PROVE [k \in DOMAIN lines |-> lines[k].words = <<>>] = [k \in DOMAIN Written |-> Written[k].means.is = "gap"]
    BY Zenon DEF LinesHaveWords
  <2>1. source \in Sources /\ lines = Cut(Alone(TextOf(source)))
    BY Zenon DEF Passed
  <2>2. DOMAIN Written = 1 .. Len(Written) /\ DOMAIN lines = 1 .. Len(Written)
    BY <2>1, LineIs, LinesOfWritten, Zenon
  <2>3. ASSUME NEW k \in 1 .. Len(Written) PROVE (lines[k].words = <<>>) = (Written[k].means.is = "gap")
    <3>1. lines[k] = [text |-> LineOf(k), words |-> Words(LineOf(k))] /\ ReadAlone(k)
      BY <2>1, LineIs, Zenon
    <3>2. lines[k].words = Words(LineOf(k))
      BY <3>1
    <3>3. lines[k].words = <<>> <=> Written[k].means.is = "gap"
      BY <3>1, <3>2, Zenon DEF ReadAlone, LineOf, Missing
    <3> QED
      BY <3>3, Zenon
  <2> QED
    BY <2>2, <2>3, Zenon
<1> QED
  BY <1>1, PassedAlways, PTL

(***************************************************************************)
(* For every source whose lines, each by itself, read as written: the      *)
(* instructions and labels of the whole program are the ones written.      *)
(***************************************************************************)
THEOREM CodeArrives == Spec => [](LinesReadAlone => CodeAsWritten)
<1>1. ReadInOrder => (LinesReadAlone => CodeAsWritten)
  BY Zenon DEF ReadInOrder, CodeAsWritten, SaidAsWritten
<1> QED
  BY <1>1, LinesInOrder, PTL
=============================================================================
