------------------------------ MODULE SetFacts ------------------------------
(***************************************************************************)
(* What the proofs about the load generator use of finite sets, as one     *)
(* hypothesis.  The lemmas about the workers, about main and about the     *)
(* steps assume SetFacts; the module EngineProofs, which sees the library  *)
(* of theorems about finite sets, proves it (lemma SetFactsHold), so that  *)
(* the theorems do not assume it.                                          *)
(***************************************************************************)
EXTENDS Integers, FiniteSets, Functions

(* The size of a finite set is a natural number. *)
CountIsNat == \A S : IsFiniteSet(S) => Cardinality(S) \in Nat

(* The empty set, and only it, has no element. *)
CountEmpty ==
  /\ IsFiniteSet({}) /\ Cardinality({}) = 0
  /\ \A S : IsFiniteSet(S) => (Cardinality(S) = 0 <=> S = {})

(* Another element is one more. *)
CountAdd ==
  \A S, x : IsFiniteSet(S) =>
    /\ IsFiniteSet(S \cup {x})
    /\ Cardinality(S \cup {x}) = IF x \in S THEN Cardinality(S) ELSE Cardinality(S) + 1

(* An element taken out is one less. *)
CountRemove ==
  \A S, x : IsFiniteSet(S) =>
    /\ IsFiniteSet(S \ {x})
    /\ Cardinality(S \ {x}) = IF x \in S THEN Cardinality(S) - 1 ELSE Cardinality(S)

(* A part is no larger than the whole, and smaller unless it is the whole. *)
CountSubset ==
  \A S, T : IsFiniteSet(S) /\ T \in SUBSET S =>
    /\ IsFiniteSet(T) /\ Cardinality(T) <= Cardinality(S)
    /\ Cardinality(S) = Cardinality(T) => S = T

CountInterval ==
  \A a, b \in Int :
    IsFiniteSet(a..b) /\ Cardinality(a..b) = IF a > b THEN 0 ELSE b - a + 1

CountSingle == \A x : IsFiniteSet({x}) /\ Cardinality({x}) = 1

CountProduct == \A S, T : IsFiniteSet(S) /\ IsFiniteSet(T) => IsFiniteSet(S \X T)

CountUNION ==
  \A S : IsFiniteSet(S) /\ (\A T \in S : IsFiniteSet(T)) => IsFiniteSet(UNION S)

CountSurjection ==
  \A S, T, f : IsFiniteSet(S) /\ f \in Surjection(S, T) => IsFiniteSet(T)

CountBijection ==
  \A S, T : IsFiniteSet(S) /\ ExistsBijection(S, T) =>
    IsFiniteSet(T) /\ Cardinality(T) = Cardinality(S)

(* A finite set is numbered from 1 to its size. *)
CountNumbered == \A S : IsFiniteSet(S) => ExistsBijection(1..Cardinality(S), S)

CountUnion ==
  \A S, T : IsFiniteSet(S) /\ IsFiniteSet(T) =>
    /\ IsFiniteSet(S \cup T) /\ IsFiniteSet(S \cap T)
    /\ Cardinality(S \cup T) = Cardinality(S) + Cardinality(T) - Cardinality(S \cap T)

(* A set of naturals with an element has a least one. *)
LeastNat == \A S \in SUBSET Nat : S # {} => \E x \in S : \A y \in S : x <= y

SetFacts ==
  /\ CountIsNat /\ CountEmpty /\ CountAdd /\ CountRemove /\ CountSubset
  /\ CountInterval /\ CountSingle /\ CountProduct /\ CountUNION /\ CountSurjection
  /\ CountBijection /\ CountNumbered /\ CountUnion /\ LeastNat
=============================================================================
