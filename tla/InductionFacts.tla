---------------------------- MODULE InductionFacts ----------------------------
(***************************************************************************)
(* Induction over the naturals, stated of sets rather than of predicates:  *)
(* each use of it names the set of the numbers that have the property.     *)
(***************************************************************************)
EXTENDS Integers, FiniteSets, WellFoundedInduction, TLAPS

\* A set of naturals that is not empty has a least member.
LEMMA MinExists ==
  ASSUME NEW S \in SUBSET Nat, S # {}
  PROVE  \E m \in S : \A k \in S : m <= k
<1> DEFINE R == OpToRel(<, Nat)
<1>1. IsWellFoundedOn(R, Nat)
  BY NatLessThanWellFounded
<1>2. \A i, j \in Nat : <<i, j>> \in R <=> i < j
  BY DEF OpToRel
<1> HIDE DEF R
<1>3. PICK m \in S : \A k \in S : ~ (<<k, m>> \in R)
  BY <1>1, WFMin
<1>4. \A k \in S : ~ (k < m)
  BY <1>2, <1>3
<1>5. \A k \in S : k \in Nat
  OBVIOUS
<1> QED BY <1>4, <1>5

\* A set of naturals with zero and every successor is all of them.
LEMMA NatSetInduction ==
  ASSUME NEW T, 0 \in T, \A n \in Nat : n \in T => n + 1 \in T
  PROVE  \A n \in Nat : n \in T
<1> SUFFICES ASSUME Nat \ T # {} PROVE FALSE
  OBVIOUS
<1>1. PICK m \in Nat \ T : \A k \in Nat \ T : m <= k
  BY MinExists
<1>2. m # 0 /\ m - 1 \in Nat
  BY <1>1
<1>3. m - 1 \in T
  BY <1>1, <1>2
<1> QED BY <1>1, <1>2, <1>3
=============================================================================
