---------------------------- MODULE LeastNumber ----------------------------
(***************************************************************************)
(* The proofs about loops argue by a least counterexample: the set of the  *)
(* numbers of iterations for which a fact fails would have a least element *)
(* if it were not empty.                                                   *)
(***************************************************************************)
EXTENDS Integers, NaturalsInduction, WellFoundedInduction, TLAPS

\* A non-empty set of natural numbers has a smallest element.
LEMMA NatMinimum ==
  ASSUME NEW T, T \subseteq Nat, T # {}
  PROVE  \E n \in T : \A m \in T : n <= m
<1>1. ASSUME NEW R, R = {ss \in Nat \X Nat : ss[1] < ss[2]}, IsWellFoundedOn(R, Nat)
      PROVE  \E n \in T : \A m \in T : n <= m
  <2>1. PICK n \in T : \A m \in T : <<m, n>> \notin R
    BY <1>1, WFMin
  <2>2. ASSUME NEW m \in T PROVE n <= m
    <3>1. ~ (m < n)
      BY <1>1, <2>1
    <3> QED BY <3>1
  <2> QED BY <2>2
<1>2. OpToRel(<, Nat) = {ss \in Nat \X Nat : ss[1] < ss[2]}
  BY Zenon DEF OpToRel
<1> QED BY <1>1, <1>2, NatLessThanWellFounded, Zenon
=============================================================================
