------------------------------ MODULE Iteration ------------------------------
(***************************************************************************)
(* The facts about natural numbers by which the proofs of this directory   *)
(* reason step by step: a least counterexample, a set that goes on for     *)
(* ever, and the values of what is defined by recursion.                   *)
(***************************************************************************)
EXTENDS WellFoundedInduction, TLAPS

(* A set of natural numbers has a least member.                            *)
LEMMA LeastNat ==
  ASSUME NEW S \in SUBSET Nat, S # {}
  PROVE  \E m \in S : \A k \in S : m <= k
<1> DEFINE R == OpToRel(<, Nat)
<1>1. IsWellFoundedOn(R, Nat)
  BY NatLessThanWellFounded
<1>2. \A x, y \in Nat : x < y => <<x, y>> \in R
  BY DEF OpToRel
<1> HIDE DEF R
<1>3. PICK m \in S : \A k \in S : <<k, m>> \notin R
  BY <1>1, WFMin
<1>4. ASSUME NEW k \in S
      PROVE  m <= k
  <2>1. ~(k < m)
    BY <1>2, <1>3
  <2> QED
    BY <2>1
<1> QED
  BY <1>4

(* Every natural number is in a set that has 0 and, with each, the next.   *)
LEMMA EveryNat ==
  ASSUME NEW S, 0 \in S, \A n \in Nat : n \in S => n + 1 \in S
  PROVE  Nat \subseteq S
<1> DEFINE T == Nat \ S
<1> SUFFICES ASSUME T # {} PROVE FALSE
  OBVIOUS
<1>1. PICK m \in T : \A k \in T : m <= k
  <2>1. T \in SUBSET Nat
    OBVIOUS
  <2> HIDE DEF T
  <2> QED BY <2>1, LeastNat
<1>2. m # 0 /\ m \in Nat
  OBVIOUS
<1>3. m - 1 \in Nat /\ (m - 1) + 1 = m
  BY <1>2
<1> QED BY <1>1, <1>3

(* The sequence of what start, step[start], step[step[start]] are.         *)
LEMMA IterationExists ==
  ASSUME NEW S, NEW start \in S, NEW step \in [S -> S]
  PROVE  \E f \in [Nat -> S] : f[0] = start /\ \A n \in Nat : f[n + 1] = step[f[n]]
<1> DEFINE Begins(f, n) == /\ f \in [0..n -> S] /\ f[0] = start
                           /\ \A k \in 0..n : k # n => f[k + 1] = step[f[k]]
<1>1. \A n \in Nat : \E f : Begins(f, n)
  <2> DEFINE N == {n \in Nat : \E f : Begins(f, n)}
  <2>1. 0 \in N
    <3>1. Begins([k \in 0..0 |-> start], 0)
      OBVIOUS
    <3> QED BY <3>1
  <2>2. ASSUME NEW n \in Nat, n \in N PROVE n + 1 \in N
    <3>1. PICK f : Begins(f, n)
      BY <2>2
    <3> DEFINE g == [k \in 0..n + 1 |-> IF k = n + 1 THEN step[f[n]] ELSE f[k]]
    <3>2. g \in [0..n + 1 -> S]
      BY <3>1
    <3>3. ASSUME NEW k \in 0..n + 1, k # n + 1 PROVE g[k + 1] = step[g[k]]
      BY <3>1, <3>3
    <3>4. g[0] = start
      BY <3>1
    <3>5. Begins(g, n + 1)
      BY <3>2, <3>3, <3>4
    <3> QED BY <3>5
  <2> QED
    <3> HIDE DEF N
    <3>1. Nat \subseteq N
      BY <2>1, <2>2, EveryNat
    <3> QED BY <3>1 DEF N
<1>2. ASSUME NEW n \in Nat, NEW m \in Nat, NEW f, NEW g, Begins(f, n), Begins(g, m)
      PROVE  \A k \in Nat : k <= n /\ k <= m => f[k] = g[k]
  <2> DEFINE N == {k \in Nat : k <= n /\ k <= m => f[k] = g[k]}
  <2>1. 0 \in N
    BY <1>2
  <2>2. ASSUME NEW k \in Nat, k \in N PROVE k + 1 \in N
    <3> SUFFICES ASSUME k + 1 <= n, k + 1 <= m PROVE f[k + 1] = g[k + 1]
      OBVIOUS
    <3>1. k \in 0..n /\ k # n /\ k \in 0..m /\ k # m /\ f[k] = g[k]
      BY <2>2
    <3> QED BY <1>2, <3>1
  <2> QED
    <3> HIDE DEF N
    <3>1. Nat \subseteq N
      BY <2>1, <2>2, EveryNat
    <3> QED BY <3>1 DEF N
<1> DEFINE part(n) == CHOOSE f : Begins(f, n)
           all == [n \in Nat |-> part(n)[n]]
<1>3. \A n \in Nat : Begins(part(n), n)
  BY <1>1
<1> HIDE DEF part
<1>4. all \in [Nat -> S] /\ all[0] = start
  BY <1>3
<1>5. ASSUME NEW n \in Nat PROVE all[n + 1] = step[all[n]]
  <2>1. n \in 0..n + 1 /\ n # n + 1 /\ n + 1 \in Nat
    OBVIOUS
  <2>2. part(n + 1)[n + 1] = step[part(n + 1)[n]]
    BY <1>3, <2>1
  <2>3. part(n + 1)[n] = part(n)[n]
    <3> HIDE DEF Begins
    <3> QED BY <1>2, <1>3, <2>1
  <2> QED BY <2>2, <2>3
<1> QED BY <1>4, <1>5

=============================================================================
