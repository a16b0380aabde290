---------------------------- MODULE SetInduction ----------------------------
(***************************************************************************)
(* Induction over the naturals as statements about sets and functions, for  *)
(* the proofs about loops, scans and lists: a scan that stops at its first  *)
(* hit, and a loop as the recursive function of its turns.                  *)
(***************************************************************************)
EXTENDS Integers, FiniteSetsExt, TLAPS, WellFoundedInduction

\* A scan that stops at the first hit finds one: a non-empty set of naturals
\* has a least element.
LEMMA LeastInSet ==
    ASSUME NEW S, S \subseteq Nat, S # {}
    PROVE  Min(S) \in S /\ \A y \in S : Min(S) <= y
<1> DEFINE R == {ss \in Nat \X Nat : ss[1] < ss[2]}
<1>1. IsWellFoundedOn(R, Nat)
  BY NatLessThanWellFounded, Zenon DEF OpToRel
<1>2. PICK x \in S : \A y \in S : ~(<<y, x>> \in R)
  <2> HIDE DEF R
  <2> QED BY <1>1, WFMin
<1>3. \A y \in S : x <= y
  <2> SUFFICES ASSUME NEW y \in S, ~(x <= y) PROVE FALSE
    OBVIOUS
  <2>1. x \in Nat /\ y \in Nat /\ y < x
    OBVIOUS
  <2> QED BY <1>2, <2>1
<1> QED BY <1>3 DEF Min

\* Induction as a statement about sets: a set of naturals without a least
\* element is empty.
LEMMA NoLeast ==
    ASSUME NEW S, S \subseteq Nat, \A m \in S : \E k \in S : k < m
    PROVE  S = {}
<1> SUFFICES ASSUME S # {} PROVE FALSE
  OBVIOUS
<1>1. PICK m \in S : \A y \in S : m <= y
  BY LeastInSet
<1>2. PICK k \in S : k < m
  OBVIOUS
<1>3. m <= k /\ m \in Nat /\ k \in Nat
  BY <1>1
<1> QED BY <1>2, <1>3

\* The runs of a loop of N steps that starts with a and computes the value of
\* step i from that of step i - 1.
Loop(V, N, a, G) ==
    {f \in [1 .. N -> V] :
        \A i \in 1 .. N : f[i] = IF i = 1 THEN a ELSE G[<<f[i - 1], i>>]}

\* There is one.
LEMMA LoopExists ==
    ASSUME NEW V, NEW N \in Nat, NEW a \in V, NEW G \in [V \X (1 .. N) -> V]
    PROVE  Loop(V, N, a, G) # {}
<1> DEFINE Has(n) == \E f \in [1 .. n -> V] :
                        \A i \in 1 .. n : f[i] = IF i = 1 THEN a ELSE G[<<f[i - 1], i>>]
           S == {n \in 0 .. N : ~Has(n)}
<1>1. ASSUME NEW m \in S PROVE \E k \in S : k < m
  <2>1. m # 0
    <3>1. 1 .. 0 = {}
      OBVIOUS
    <3>2. [i \in 1 .. 0 |-> a] \in [1 .. 0 -> V]
      OBVIOUS
    <3>3. Has(0)
      BY <3>1, <3>2
    <3> QED BY <3>3
  <2>2. CASE Has(m - 1)
    <3>1. PICK f \in [1 .. m - 1 -> V] :
            \A i \in 1 .. m - 1 : f[i] = IF i = 1 THEN a ELSE G[<<f[i - 1], i>>]
      BY <2>2
    <3> DEFINE last == IF m = 1 THEN a ELSE G[<<f[m - 1], m>>]
               g == [i \in 1 .. m |-> IF i < m THEN f[i] ELSE last]
    <3>2. last \in V
      <4>1. CASE m = 1
        BY <4>1
      <4>2. CASE m # 1
        <5>1. m - 1 \in 1 .. m - 1 /\ m \in 1 .. N
          BY <2>1, <4>2
        <5>2. <<f[m - 1], m>> \in V \X (1 .. N)
          BY <5>1
        <5> QED BY <4>2, <5>2
      <4> QED BY <4>1, <4>2
    <3> HIDE DEF last
    <3>3. g \in [1 .. m -> V]
      BY <3>2
    <3>4. \A i \in 1 .. m : g[i] = IF i = 1 THEN a ELSE G[<<g[i - 1], i>>]
      <4> SUFFICES ASSUME NEW i \in 1 .. m
                   PROVE  g[i] = IF i = 1 THEN a ELSE G[<<g[i - 1], i>>]
        OBVIOUS
      <4>1. CASE i < m
        <5>1. i \in 1 .. m - 1
          BY <4>1
        <5>2. i # 1 => g[i - 1] = f[i - 1]
          BY <5>1
        <5>3. g[i] = f[i]
          BY <4>1
        <5> HIDE DEF g
        <5> QED BY <3>1, <5>1, <5>2, <5>3
      <4>2. CASE i = m
        <5>1. i # 1 => g[i - 1] = f[i - 1]
          BY <4>2
        <5>2. g[i] = last
          BY <4>2
        <5> HIDE DEF g
        <5> QED BY <4>2, <5>1, <5>2 DEF last
      <4> QED BY <4>1, <4>2
    <3>5. Has(m)
      <4> HIDE DEF g
      <4> QED BY <3>3, <3>4
    <3> QED BY <3>5
  <2>3. CASE ~Has(m - 1)
    <3> HIDE DEF Has
    <3> QED BY <2>1, <2>3
  <2> QED BY <2>2, <2>3
<1>2. S = {}
  <2>1. S \subseteq Nat
    OBVIOUS
  <2> HIDE DEF S
  <2> QED BY <1>1, <2>1, NoLeast
<1>3. Has(N)
  <2> HIDE DEF Has
  <2> QED BY <1>2
<1> QED BY <1>3 DEF Loop

\* A bounded set of naturals has a greatest element.
LEMMA GreatestInSet ==
    ASSUME NEW N \in Nat, NEW S, S \subseteq 0 .. N, S # {}
    PROVE  Max(S) \in S /\ \A y \in S : Max(S) >= y
<1> DEFINE T == {k \in 0 .. N : N - k \in S}
<1>1. T \subseteq Nat
  OBVIOUS
<1>2. T # {}
  <2>1. PICK x \in S : TRUE
    OBVIOUS
  <2>2. N - x \in 0 .. N /\ N - (N - x) = x
    OBVIOUS
  <2>3. N - x \in T
    BY <2>2
  <2> QED BY <2>3
<1>3. PICK k \in T : \A y \in T : k <= y
  <2> HIDE DEF T
  <2> QED BY <1>1, <1>2, LeastInSet
<1>4. N - k \in S /\ k \in 0 .. N
  BY <1>3
<1>5. \A y \in S : N - k >= y
  <2> SUFFICES ASSUME NEW y \in S PROVE N - k >= y
    OBVIOUS
  <2>1. y \in 0 .. N /\ N - y \in 0 .. N /\ N - (N - y) = y
    OBVIOUS
  <2>2. N - y \in T
    BY <2>1
  <2>3. k <= N - y
    BY <1>3, <2>2
  <2> QED BY <1>4, <2>1, <2>3
<1> QED BY <1>4, <1>5 DEF Max
=============================================================================
