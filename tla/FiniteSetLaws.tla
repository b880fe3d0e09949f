---------------------------- MODULE FiniteSetLaws ----------------------------
(***************************************************************************)
(* The facts about finite sets, cardinalities and least elements that the  *)
(* proofs about the table of sockets and its users rest on. They are       *)
(* theorems of the library; the lemmas take them as a hypothesis, and the  *)
(* modules that prove the theorems derive them from the library at their   *)
(* end. (A proof obligation carries every fact stated before it, so that   *)
(* the library in front of a long development makes it slow to check.)     *)
(***************************************************************************)
EXTENDS Integers, FiniteSets, FiniteSetsExt, Functions

EmptyLaw ==
  /\ IsFiniteSet({})
  /\ Cardinality({}) = 0
  /\ \A S : IsFiniteSet(S) => (Cardinality(S) = 0 <=> S = {})

CountLaw == \A S : IsFiniteSet(S) => Cardinality(S) \in Nat

SubsetLaw ==
  \A S, T : IsFiniteSet(S) /\ T \subseteq S =>
    /\ IsFiniteSet(T)
    /\ Cardinality(T) <= Cardinality(S)
    /\ Cardinality(S) = Cardinality(T) => S = T

AddLaw ==
  \A S, x : IsFiniteSet(S) =>
    /\ IsFiniteSet(S \cup {x})
    /\ Cardinality(S \cup {x}) = IF x \in S THEN Cardinality(S) ELSE Cardinality(S) + 1

RemoveLaw ==
  \A S, x : IsFiniteSet(S) =>
    /\ IsFiniteSet(S \ {x})
    /\ Cardinality(S \ {x}) = IF x \in S THEN Cardinality(S) - 1 ELSE Cardinality(S)

IntervalLaw ==
  \A a, b \in Int :
    /\ IsFiniteSet(a .. b)
    /\ Cardinality(a .. b) = IF a > b THEN 0 ELSE b - a + 1

PowersetLaw ==
  \A S : IsFiniteSet(S) =>
    /\ IsFiniteSet(SUBSET S)
    /\ Cardinality(SUBSET S) = 2 ^ Cardinality(S)

InjectionLaw ==
  \A S, T : \A f \in Injection(S, T) : IsFiniteSet(T) =>
    /\ IsFiniteSet(S)
    /\ Cardinality(S) <= Cardinality(T)
    /\ Cardinality(S) = Cardinality(T) <=> f \in Surjection(S, T)

(* A set of natural numbers that is not empty has a least element, Min. *)
LeastLaw ==
  \A S \in SUBSET Nat : S # {} => Min(S) \in S /\ \A y \in S : Min(S) <= y

Laws == EmptyLaw /\ CountLaw /\ SubsetLaw /\ AddLaw /\ RemoveLaw /\ IntervalLaw
          /\ PowersetLaw /\ InjectionLaw /\ LeastLaw
==============================================================================
