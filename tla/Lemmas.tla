------------------------------- MODULE Lemmas -------------------------------
(***************************************************************************)
(* Induction over the natural numbers for the proofs about data, stated of *)
(* a set of numbers and derived from the order's being well founded: the   *)
(* library's induction theorems have a predicate for a parameter, which    *)
(* the provers used here cannot instantiate.                               *)
(***************************************************************************)
EXTENDS Integers, WellFoundedInduction, TLAPS

\* A set of natural numbers that is not empty has a least one.
LEMMA LeastNumber ==
  ASSUME NEW T, T \subseteq Nat, T # {}
  PROVE  \E m \in T : \A k \in T : m <= k
<1> DEFINE R == {ss \in Nat \X Nat : ss[1] < ss[2]}
<1>1. IsWellFoundedOn(R, Nat)
  BY NatLessThanWellFounded DEF OpToRel
<1>2. PICK m \in T : \A k \in T : ~(<<k, m>> \in R)
  <2> HIDE DEF R
  <2> QED BY <1>1, WFMin
<1>3. \A k \in T : m <= k
  <2>1. ASSUME NEW k \in T, k < m PROVE FALSE
    <3>1. <<k, m>> \in Nat \X Nat /\ <<k, m>>[1] = k /\ <<k, m>>[2] = m
      OBVIOUS
    <3>2. <<k, m>> \in R
      BY <2>1, <3>1
    <3> QED BY <1>2, <3>2
  <2> QED BY <2>1
<1> QED BY <1>3

\* A set that has 0, and with a number the next, has all natural numbers.
LEMMA SetInduction ==
  ASSUME NEW T, 0 \in T, \A n \in Nat : n \in T => n + 1 \in T
  PROVE  Nat \subseteq T
<1>1. SUFFICES ASSUME Nat \ T # {} PROVE FALSE
  OBVIOUS
<1>2. PICK m \in Nat \ T : \A k \in Nat \ T : m <= k
  BY <1>1, LeastNumber
<1>3. m - 1 \in Nat /\ m - 1 \in T
  BY <1>2
<1> QED BY <1>2, <1>3

\* f[i] is what the first i steps make of a.
IsFold(f, A, a, n, step) ==
  f \in [0..n -> A] /\ f[0] = a /\ \A i \in 1..n : f[i] = step[<<f[i - 1], i>>]

\* What is computed step by step is there.
LEMMA FoldExists ==
  ASSUME NEW A, NEW a \in A, NEW n \in Nat, NEW step \in [A \X (1..n) -> A]
  PROVE  \E f : IsFold(f, A, a, n, step)
<1> DEFINE Upto(m) == \E f \in [0..m -> A] : f[0] = a /\ \A i \in 1..m : f[i] = step[<<f[i - 1], i>>]
           T == {m \in Nat : m <= n => Upto(m)}
<1>1. 0 \in T
  <2> DEFINE f == [i \in 0..0 |-> a]
  <2>1. f \in [0..0 -> A] /\ f[0] = a
    OBVIOUS
  <2>2. \A i \in 1..0 : f[i] = step[<<f[i - 1], i>>]
    OBVIOUS
  <2>3. Upto(0)
    <3> HIDE DEF f
    <3> QED BY <2>1, <2>2
  <2> QED BY <2>3
<1>2. ASSUME NEW m \in Nat, m + 1 <= n, Upto(m)
      PROVE  Upto(m + 1)
  <2>1. PICK f \in [0..m -> A] : f[0] = a /\ \A i \in 1..m : f[i] = step[<<f[i - 1], i>>]
    BY <1>2
  <2> DEFINE g == [i \in 0..(m + 1) |-> IF i = m + 1 THEN step[<<f[m], m + 1>>] ELSE f[i]]
  <2>2. /\ g \in [0..(m + 1) -> A]
        /\ \A i \in 0..m : g[i] = f[i]
        /\ g[m + 1] = step[<<f[m], m + 1>>]
    <3>1. m + 1 \in 1..n /\ m \in 0..m
      BY <1>2
    <3>2. <<f[m], m + 1>> \in A \X (1..n)
      BY <3>1
    <3>3. step[<<f[m], m + 1>>] \in A
      BY <3>2
    <3>4. \A i \in 0..(m + 1) : i = m + 1 \/ i \in 0..m
      OBVIOUS
    <3> QED BY <3>3, <3>4
  <2> HIDE DEF g
  <2>3. g[0] = a
    BY <2>1, <2>2
  <2>4. \A i \in 1..(m + 1) : g[i] = step[<<g[i - 1], i>>]
    <3>1. SUFFICES ASSUME NEW i \in 1..(m + 1) PROVE g[i] = step[<<g[i - 1], i>>]
      OBVIOUS
    <3>2. i - 1 \in 0..m /\ g[i - 1] = f[i - 1]
      BY <2>2
    <3>3. CASE i = m + 1
      BY <2>2, <3>2, <3>3
    <3>4. CASE i \in 1..m
      BY <2>1, <2>2, <3>2, <3>4
    <3> QED BY <3>3, <3>4
  <2> QED BY <2>2, <2>3, <2>4
<1>3. Nat \subseteq T
  <2> HIDE DEF Upto
  <2>1. \A m \in Nat : m \in T => m + 1 \in T
    BY <1>2
  <2> HIDE DEF T
  <2> QED BY <1>1, <2>1, SetInduction
<1>4. n \in T
  BY <1>3
<1> QED BY <1>4 DEF IsFold
=============================================================================
