------------------------------ MODULE Minimum ------------------------------
(* The least element of a set of natural numbers, for the proofs about        *)
(* operators that choose a first occurrence.                                  *)
EXTENDS Integers, WellFoundedInduction, TLAPS

\* A set of natural numbers that is not empty has a least element: what a scan
\* for the first token, newline or free slot relies on.
LEMMA MinExists ==
    ASSUME NEW S, S \subseteq Nat, S # {}
    PROVE  \E x \in S : \A y \in S : x <= y
  <1> DEFINE R == {ss \in Nat \X Nat : ss[1] < ss[2]}
  <1>1. IsWellFoundedOn(R, Nat)
    BY NatLessThanWellFounded DEF OpToRel
  <1>2. PICK x \in S : \A y \in S : ~ (<<y, x>> \in R)
    <2> HIDE DEF R
    <2> QED BY <1>1, WFMin
  <1>3. ASSUME NEW y \in S PROVE x <= y
    <2>1. <<y, x>> \notin R
      BY <1>2
    <2>2. <<y, x>> \in Nat \X Nat
      OBVIOUS
    <2>3. ~(<<y, x>>[1] < <<y, x>>[2])
      BY <2>1, <2>2
    <2>4. QED
      BY <2>3
  <1>4. QED
    BY <1>3
=============================================================================
