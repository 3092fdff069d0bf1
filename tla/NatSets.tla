-------------------------------- MODULE NatSets --------------------------------
(***************************************************************************)
(* What proofs of several components need of bounded sets of numbers       *)
(* (times, ids): they can be counted and have a greatest member.           *)
(***************************************************************************)
EXTENDS Integers, FiniteSets, WellFoundedInduction, FiniteSetTheorems, TLAPS

\* Numbers up to n are finitely many.
LEMMA Countable ==
  ASSUME NEW n \in Nat, NEW S, S \subseteq 1..n
  PROVE  IsFiniteSet(S) /\ Cardinality(S) \in Nat
<1>1. IsFiniteSet(1..n)
  BY FS_Interval
<1>2. IsFiniteSet(S)
  BY <1>1, FS_Subset
<1> QED
  BY <1>2, FS_CardinalityType

\* A set of positive numbers with an upper bound has a greatest member.
LEMMA Greatest ==
  ASSUME NEW n \in Nat, NEW S, S \subseteq 1..n, S # {}
  PROVE  \E i \in S : \A j \in S : j <= i
<1> DEFINE R == {ss \in Nat \X Nat : ss[1] < ss[2]}
           T == {b \in Nat : \A j \in S : j <= b}
<1>1. IsWellFoundedOn(R, Nat)
  BY NatLessThanWellFounded DEF OpToRel
<1>2. T \subseteq Nat /\ n \in T
  OBVIOUS
<1>3. PICK x \in T : \A y \in T : ~(<<y, x>> \in R)
  <2> HIDE DEF R, T
  <2> QED
    BY <1>1, <1>2, WFMin
<1>4. ASSUME x \notin S PROVE FALSE
  <2>1. x \in Nat /\ \A j \in S : j \in Nat /\ 0 < j /\ j <= x /\ j # x
    BY <1>3, <1>4
  <2>2. x > 0 /\ x - 1 \in Nat
    <3>1. PICK j \in S : TRUE
      OBVIOUS
    <3>2. j \in Nat /\ 0 < j /\ j <= x
      BY <2>1, <3>1
    <3> QED
      BY <2>1, <3>2
  <2>3. \A j \in S : j <= x - 1
    BY <2>1
  <2>4. x - 1 \in T /\ <<x - 1, x>> \in R
    BY <2>1, <2>2, <2>3
  <2> QED
    BY <1>3, <2>4
<1> QED
  BY <1>3, <1>4

\* Two members make a set of at least two, and nothing else does.
LEMMA TwoMembers ==
  ASSUME NEW S, IsFiniteSet(S)
  PROVE  Cardinality(S) >= 2 <=> \E a, b \in S : a # b
<1>0. IsFiniteSet(S) /\ Cardinality(S) \in Nat
  BY FS_CardinalityType
<1>1. ASSUME NEW a \in S, NEW b \in S, a # b PROVE Cardinality(S) >= 2
  <2>1. {a, b} \subseteq S
    OBVIOUS
  <2>2. Cardinality({a, b}) = 2
    <3>1. IsFiniteSet({a}) /\ Cardinality({a}) = 1
      BY FS_Singleton
    <3>2. Cardinality({a} \cup {b}) = Cardinality({a}) + 1
      BY <1>1, <3>1, FS_AddElement
    <3>3. {a, b} = {a} \cup {b}
      OBVIOUS
    <3> QED
      BY <3>1, <3>2, <3>3
  <2>3. Cardinality({a, b}) <= Cardinality(S)
    BY <1>0, <2>1, FS_Subset
  <2> QED
    BY <1>0, <2>2, <2>3
<1>2. ASSUME Cardinality(S) >= 2 PROVE \E a, b \in S : a # b
  <2>1. S # {}
    <3>1. Cardinality({}) = 0
      BY FS_EmptySet
    <3> QED
      BY <1>2, <3>1
  <2>2. PICK a \in S : TRUE
    BY <2>1
  <2>3. S # {a}
    <3>1. Cardinality({a}) = 1
      BY FS_Singleton
    <3> QED
      BY <1>2, <3>1
  <2> QED
    BY <2>2, <2>3
<1> QED
  BY <1>1, <1>2
===============================================================================
