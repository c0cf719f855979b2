---------------------------- MODULE LeastNumber ----------------------------
(***************************************************************************)
(* A set of numbers that is not empty has a least element.  The proofs of  *)
(* StrPool and BcTraverse use this for what is otherwise an induction: a   *)
(* fact about a recursive function that fails for some number fails for a  *)
(* least one.                                                              *)
(***************************************************************************)
EXTENDS Integers, WellFoundedInduction, TLAPS

LEMMA LeastNatural ==
    ASSUME NEW T \in SUBSET Nat, T # {}
    PROVE  \E x \in T : \A y \in T : x <= y
<1>. DEFINE R == OpToRel(<, Nat)
<1>1. IsWellFoundedOn(R, Nat)
    BY NatLessThanWellFounded
<1>2. \A x, y \in Nat : x < y => <<x, y>> \in R
    BY DEF OpToRel
<1>. HIDE DEF R
<1>3. PICK x \in T : \A y \in T : ~ <<y, x>> \in R
    BY <1>1, WFMin
<1>4. \A y \in T : ~ y < x
    BY <1>2, <1>3
<1>. QED
    BY <1>4
=============================================================================
