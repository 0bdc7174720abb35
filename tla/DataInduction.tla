--------------------------- MODULE DataInduction ----------------------------
(***************************************************************************)
(* Induction on the natural numbers as facts about sets of them, without an  *)
(* operator parameter: what the proofs about sequences of any length rest on.*)
(***************************************************************************)
EXTENDS Integers, WellFoundedInduction, TLAPS

(* A set of natural numbers has a least element.                             *)
LEMMA Least ==
  ASSUME NEW T, T \subseteq Nat, T # {}
  PROVE  \E n \in T : \A m \in T : n <= m
<1>1. PICK R : /\ IsWellFoundedOn(R, Nat)
               /\ \A m, n \in Nat : m < n => <<m, n>> \in R
  <2>1. \A m, n \in Nat : m < n => <<m, n>> \in OpToRel(<, Nat)
    BY DEF OpToRel
  <2>. QED  BY <2>1, NatLessThanWellFounded
<1>2. PICK n \in T : \A m \in T : ~(<<m, n>> \in R)
  <2>1. IsWellFoundedOn(R, Nat)
    BY <1>1
  <2>2. \E n \in T : \A m \in T : ~(<<m, n>> \in R)
    BY <2>1, WFMin, Zenon
  <2>. QED  BY <2>2
<1>3. \A m \in T : ~(m < n)
  BY <1>1, <1>2
<1>4. \A m \in T : m \in Int /\ n \in Int
  OBVIOUS
<1>5. \A m \in T : n <= m
  BY <1>3, <1>4
<1>. QED  BY <1>5

(* What holds of 0 and passes from n to n + 1 holds of every number.         *)
LEMMA Induct ==
  ASSUME NEW G, 0 \in G, \A n \in Nat : n \in G => n + 1 \in G
  PROVE  Nat \subseteq G
<1>. SUFFICES ASSUME Nat \ G # {} PROVE FALSE
  OBVIOUS
<1>1. PICK n \in Nat \ G : \A m \in Nat \ G : n <= m
  BY Least
<1>2. n - 1 \in Nat /\ n - 1 \in G
  BY <1>1
<1>. QED  BY <1>1, <1>2
=============================================================================
