----------------------------- MODULE LeastElement -----------------------------
(***************************************************************************)
(* A set of natural numbers has a least element.  With it the proofs argue *)
(* by the least counterexample where others would use induction.  Its      *)
(* first use: among finitely many that all wait, some wait in a circle.    *)
(***************************************************************************)
EXTENDS Naturals, FiniteSets, FiniteSetTheorems, WellFoundedInduction, TLAPS

LEMMA Least ==
    ASSUME NEW S \in SUBSET Nat, S # {}
    PROVE  \E x \in S : \A y \in S : x <= y
<1> DEFINE R == OpToRel(<, Nat)
<1>1. IsWellFoundedOn(R, Nat)
  BY NatLessThanWellFounded
<1>2. \A x, y \in Nat : x < y => <<x, y>> \in R
  BY DEF OpToRel
<1> HIDE DEF R
<1>3. PICK x \in S : \A y \in S : ~ (<<y, x>> \in R)
  BY <1>1, WFMin
<1>4. ASSUME NEW y \in S
      PROVE  x <= y
  <2>1. ~ (y < x)
    BY <1>2, <1>3
  <2> QED
    BY <2>1
<1> QED
  BY <1>4

\* Where each of finitely many waits for one of them, some of them form a set in
\* which each waits for one and is waited for by one: a smallest set in which
\* each waits for one has nobody to leave out.
LEMMA WaitInCircle ==
    ASSUME NEW S, IsFiniteSet(S), S # {},
           NEW E, \A x \in S : \E y \in S : <<x, y>> \in E
    PROVE  \E C \in SUBSET S :
               /\ C # {}
               /\ \A x \in C : (\E y \in C : <<x, y>> \in E) /\ (\E y \in C : <<y, x>> \in E)
<1> DEFINE Closed(C) == C # {} /\ \A x \in C : \E y \in C : <<x, y>> \in E
           Sizes == {Cardinality(C) : C \in {D \in SUBSET S : Closed(D)}}
<1>1. \A C \in SUBSET S : IsFiniteSet(C) /\ Cardinality(C) \in Nat
  BY FS_Subset, FS_CardinalityType
<1>2. Sizes \in SUBSET Nat /\ Sizes # {}
  <2>1. Closed(S)
    OBVIOUS
  <2>2. QED BY <1>1, <2>1
<1>3. PICK C \in SUBSET S : Closed(C) /\ \A D \in SUBSET S : Closed(D) => Cardinality(C) <= Cardinality(D)
  <2> HIDE DEF Closed
  <2>1. PICK k \in Sizes : \A n \in Sizes : k <= n
    BY <1>2, Least
  <2>2. QED BY <2>1
<1>4. ASSUME NEW x \in C, \A y \in C : <<y, x>> \notin E
      PROVE  FALSE
  <2>1. Closed(C \ {x})
    <3>1. \A z \in C : \E y \in C : <<z, y>> \in E
      BY <1>3
    <3>2. \A z \in C : \E y \in C \ {x} : <<z, y>> \in E
      BY <1>4, <3>1
    <3>3. C \ {x} # {}
      BY <1>3, <3>2
    <3>4. QED BY <3>2, <3>3
  <2>2. Cardinality(C \ {x}) = Cardinality(C) - 1
    BY <1>1, FS_RemoveElement
  <2>3. Cardinality(C) <= Cardinality(C \ {x})
    BY <1>3, <2>1
  <2>4. QED BY <1>1, <2>2, <2>3
<1>5. QED BY <1>3, <1>4
=============================================================================
