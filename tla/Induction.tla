----------------------------- MODULE Induction ------------------------------
(***************************************************************************)
(* Induction over the natural numbers, stated with sets in place of the    *)
(* operators of NaturalsInduction: the numbers that have a property are a  *)
(* set, and that set is everything when it is closed under + 1.            *)
(***************************************************************************)
EXTENDS Integers, WellFoundedInduction, TLAPS

(* A set of natural numbers has a least element. *)
LEMMA LeastNat ==
  ASSUME NEW T \in SUBSET Nat, T # {}
  PROVE  \E n \in T : \A m \in T : n <= m
<1>1. \A m, n \in Nat : m < n => <<m, n>> \in OpToRel(<, Nat)
  BY Zenon DEF OpToRel
<1>2. \E n \in T : \A m \in T : ~(<<m, n>> \in OpToRel(<, Nat))
  BY NatLessThanWellFounded, WFMin, Zenon
<1>3. \E n \in T : \A m \in T : ~(m < n)
  BY <1>1, <1>2, Zenon
<1> QED
  BY <1>3

(* What holds of 0, and of n + 1 whenever of n, holds of every number. *)
LEMMA NatBySets ==
  ASSUME NEW S, 0 \in S, \A n \in Nat : n \in S => n + 1 \in S
  PROVE  Nat \subseteq S
<1> SUFFICES ASSUME Nat \ S # {} PROVE FALSE
  OBVIOUS
<1>1. PICK n \in Nat \ S : \A m \in Nat \ S : n <= m
  BY LeastNat
<1>2. n - 1 \in Nat /\ n - 1 \in S
  BY <1>1
<1> QED
  BY <1>1, <1>2

(* Two functions that agree at 1, and at k + 1 where they do at k, agree. *)
LEMMA AgreeByLinks ==
  ASSUME NEW f, NEW g, NEW n \in Nat, n > 0 => f[1] = g[1],
         \A k \in 1 .. n - 1 : f[k] = g[k] => f[k + 1] = g[k + 1]
  PROVE  \A k \in 1 .. n : f[k] = g[k]
<1> DEFINE S == {k \in Nat : k + 1 \in 1 .. n => f[k + 1] = g[k + 1]}
<1>1. 0 \in S
  OBVIOUS
<1>2. ASSUME NEW k \in Nat, k \in S PROVE k + 1 \in S
  <2> SUFFICES ASSUME k + 2 \in 1 .. n PROVE f[k + 2] = g[k + 2]
    OBVIOUS
  <2>1. k + 1 \in 1 .. n - 1 /\ f[k + 1] = g[k + 1]
    BY <1>2
  <2>2. k + 1 + 1 = k + 2
    OBVIOUS
  <2> QED
    BY <2>1, <2>2
<1>3. Nat \subseteq S
  <2> HIDE DEF S
  <2> QED
    BY <1>1, <1>2, NatBySets
<1> SUFFICES ASSUME NEW k \in 1 .. n PROVE f[k] = g[k]
  OBVIOUS
<1>4. k - 1 \in S /\ (k - 1) + 1 = k
  BY <1>3
<1> QED
  BY <1>4

(* Two functions that agree at 0, and at n where they do at n - 1, agree. *)
Links(f, g, N) == \A n \in 1 .. N : f[n - 1] = g[n - 1] => f[n] = g[n]

LEMMA AgreeFromZero ==
  ASSUME NEW f, NEW g, NEW N \in Nat, f[0] = g[0], Links(f, g, N)
  PROVE  f[N] = g[N]
<1> DEFINE M == {n \in Nat : n <= N => f[n] = g[n]}
<1>1. 0 \in M
  OBVIOUS
<1>2. ASSUME NEW n \in Nat, n \in M PROVE n + 1 \in M
  <2>1. n + 1 <= N => n + 1 \in 1 .. N /\ (n + 1) - 1 = n /\ f[n] = g[n]
    BY <1>2
  <2> QED
    BY <2>1 DEF Links
<1>3. Nat \subseteq M
  <2> HIDE DEF M
  <2> QED
    BY <1>1, <1>2, NatBySets
<1> QED
  BY <1>3

(* A function on 0 .. N is given by its value at 0 and the way from each value to the next. *)
Recursion(S, e, N, next) ==
  {f \in [0 .. N -> S] : f[0] = e /\ \A n \in 1 .. N : f[n] = next[n][f[n - 1]]}

LEMMA RecursionExists ==
  ASSUME NEW S, NEW e \in S, NEW N \in Nat, NEW next \in [1 .. N -> [S -> S]]
  PROVE  Recursion(S, e, N, next) # {}
<1> DEFINE Defines(n, f) == f[0] = e /\ \A k \in 1 .. n : f[k] = next[k][f[k - 1]]
           M == {n \in Nat : n <= N => \E f \in [0 .. n -> S] : Defines(n, f)}
<1>1. 0 \in M
  <2>1. [k \in 0 .. 0 |-> e] \in [0 .. 0 -> S] /\ Defines(0, [k \in 0 .. 0 |-> e])
    OBVIOUS
  <2> QED
    BY <2>1
<1>2. ASSUME NEW n \in Nat, n \in M PROVE n + 1 \in M
  <2> SUFFICES ASSUME n + 1 <= N PROVE \E f \in [0 .. n + 1 -> S] : Defines(n + 1, f)
    OBVIOUS
  <2>1. PICK f \in [0 .. n -> S] : Defines(n, f)
    BY <1>2
  <2>2. PICK v \in S : v = next[n + 1][f[n]]
    OBVIOUS
  <2> DEFINE g == [k \in 0 .. n + 1 |-> IF k = n + 1 THEN v ELSE f[k]]
  <2>3. g \in [0 .. n + 1 -> S] /\ g[0] = e
    BY <2>1
  <2>4. ASSUME NEW k \in 1 .. n + 1 PROVE g[k] = next[k][g[k - 1]]
    <3>1. CASE k = n + 1
      <4>1. g[k] = v /\ g[k - 1] = f[n]
        BY <3>1
      <4> QED
        BY <2>2, <3>1, <4>1
    <3>2. CASE k # n + 1
      <4>1. k \in 1 .. n /\ g[k] = f[k] /\ g[k - 1] = f[k - 1]
        BY <3>2
      <4> QED
        BY <2>1, <4>1
    <3> QED
      BY <3>1, <3>2
  <2> HIDE DEF g
  <2> QED
    BY <2>3, <2>4
<1>3. Nat \subseteq M
  <2> HIDE DEF M
  <2> QED
    BY <1>1, <1>2, NatBySets
<1>4. \E f \in [0 .. N -> S] : Defines(N, f)
  BY <1>3
<1> QED
  BY <1>4 DEF Recursion

(* What is in S at 0, and at n + 1 whenever at n, is in S everywhere. *)
LEMMA RecursionType ==
  ASSUME NEW S, NEW N \in Nat, NEW f, f = [n \in 0 .. N |-> f[n]], f[0] \in S,
         \A n \in 1 .. N : f[n - 1] \in S => f[n] \in S
  PROVE  f \in [0 .. N -> S]
<1> DEFINE M == {n \in Nat : n <= N => f[n] \in S}
<1>1. 0 \in M
  OBVIOUS
<1>2. ASSUME NEW n \in Nat, n \in M PROVE n + 1 \in M
  <2>1. n + 1 <= N => n + 1 \in 1 .. N /\ (n + 1) - 1 = n /\ f[n] \in S
    BY <1>2
  <2>2. n + 1 <= N => f[n + 1] \in S
    BY <2>1
  <2> QED
    BY <2>2
<1>3. Nat \subseteq M
  <2> HIDE DEF M
  <2> QED
    BY <1>1, <1>2, NatBySets
<1>4. \A n \in 0 .. N : f[n] \in S
  BY <1>3
<1> QED
  BY <1>4
=============================================================================
