------------------------------- MODULE DataProofs -------------------------------
(***************************************************************************)
(* Facts about data that the proofs of several components need.  Induction *)
(* is stated of sets of numbers: the set of those for which a claim holds. *)
(***************************************************************************)
EXTENDS Integers, FiniteSets, SequencesExt, FiniteSetTheorems, SequenceTheorems,
        WellFoundedInduction, TLAPS

\* A set of numbers has a least one.
LEMMA LeastNumber ==
    ASSUME NEW S \in SUBSET Nat, S # {}
    PROVE  \E x \in S : \A y \in S : x <= y
  <1>1. PICK x \in S : \A y \in S : ~(<<y, x>> \in OpToRel(<, Nat))
    BY WFMin, NatLessThanWellFounded, Zenon
  <1>2. ASSUME NEW y \in S
        PROVE  x <= y
    <2>1. ~(y < x)
      <3>1. <<y, x>> \in Nat \X Nat
        OBVIOUS
      <3>2. <<y, x>>[1] = y /\ <<y, x>>[2] = x
        OBVIOUS
      <3> QED
        BY <1>1, <3>1, <3>2, Zenon DEF OpToRel
    <2> QED
      BY <2>1
  <1> QED
    BY <1>2

LEMMA MinFacts ==
    ASSUME NEW S \in SUBSET Nat, S # {}
    PROVE  Min(S) \in S /\ \A y \in S : Min(S) <= y
  BY LeastNumber DEF Min

\* Induction: what is true of 0, and of n + 1 if of n, is true of every number.
LEMMA Induction ==
    ASSUME NEW T, 0 \in T, \A n \in Nat : n \in T => n + 1 \in T
    PROVE  Nat \subseteq T
  <1> SUFFICES ASSUME Nat \ T # {} PROVE FALSE
    OBVIOUS
  <1>1. PICK x \in Nat \ T : \A y \in Nat \ T : x <= y
    BY LeastNumber
  <1>2. x - 1 \in Nat /\ x - 1 \in T
    BY <1>1
  <1> QED
    BY <1>1, <1>2

\* Induction up to a number.
LEMMA InductionTo ==
    ASSUME NEW n \in Nat, NEW T, 0 \in T, \A i \in 0 .. n - 1 : i \in T => i + 1 \in T
    PROVE  \A i \in 0 .. n : i \in T
  <1> DEFINE U == {i \in Nat : i <= n => i \in T}
  <1>1. 0 \in U /\ \A i \in Nat : i \in U => i + 1 \in U
    OBVIOUS
  <1> HIDE DEF U
  <1>2. Nat \subseteq U
    BY <1>1, Induction
  <1> QED
    BY <1>2 DEF U
=============================================================================
