------------------------------ MODULE NatSets -------------------------------
(* Smallest and largest elements of sets of naturals.                      *)
EXTENDS Integers, FiniteSets, FiniteSetTheorems, TLAPS

(* A nonempty finite set of naturals has a smallest element.               *)
LEMMA SmallestOfNat ==
  ASSUME NEW T \in SUBSET Nat, T # {}, IsFiniteSet(T)
  PROVE  \E x \in T : \A y \in T : x <= y
<1> DEFINE Below == [x \in T |-> {y \in T : y < x}]
           B == {Below[x] : x \in T}
           R == StrictSubsetOrdering(T)
<1>1. IsWellFoundedOn(R, FiniteSubsetsOf(T))
  BY FS_StrictSubsetOrderingWellFounded
<1>2. B \subseteq FiniteSubsetsOf(T) /\ B # {}
  <2>1. \A x \in T : Below[x] \in SUBSET T
    OBVIOUS
  <2>2. FiniteSubsetsOf(T) = SUBSET T
    BY FS_FiniteSubsetsOfFinite
  <2>3. \A c \in B : c \in SUBSET T
    BY <2>1
  <2>4. B # {}
    OBVIOUS
  <2> HIDE DEF B
  <2> QED
    BY <2>2, <2>3, <2>4
<1> HIDE DEF R, B
<1>3. PICK b \in B : \A c \in B : ~ (<<c, b>> \in R)
  BY <1>1, <1>2, WFMin
<1>4. PICK x \in T : b = Below[x]
  BY DEF B
<1>5. ASSUME NEW y \in T, y < x
      PROVE  FALSE
  <2>1. x \in Nat /\ y \in Nat /\ T \subseteq Nat
    OBVIOUS
  <2>2. Below[y] \subseteq T /\ b \subseteq T /\ y \in b /\ y \notin Below[y]
    BY <2>1, <1>4, <1>5
  <2>3. Below[y] \subseteq b
    <3> SUFFICES ASSUME NEW z \in T, z < y
                 PROVE  z < x
      BY <1>4
    <3> QED
      BY <2>1, <1>5
  <2>4. Below[y] \in B
    BY DEF B
  <2>5. <<Below[y], b>> \in R
    BY <2>2, <2>3 DEF R, StrictSubsetOrdering
  <2> QED
    BY <2>4, <2>5, <1>3
<1> QED
  BY <1>5

(* And a nonempty bounded one has a largest element.                       *)
LEMMA LargestOfNat ==
  ASSUME NEW T \in SUBSET Nat, T # {}, NEW m \in Nat, \A t \in T : t <= m
  PROVE  \E x \in T : \A y \in T : y <= x
<1> DEFINE M == {m - t : t \in T}
<1>1. M \in SUBSET Nat /\ M # {} /\ \A x \in M : x <= m
  <2>1. \A t \in T : m - t \in Nat /\ m - t <= m
    <3> TAKE t \in T
    <3>1. t \in Nat /\ t <= m
      OBVIOUS
    <3> QED
      BY <3>1
  <2>2. M # {}
    OBVIOUS
  <2> QED
    BY <2>1, <2>2
<1>2. IsFiniteSet(M)
  <2> HIDE DEF M
  <2> QED
    BY <1>1, FS_BoundedSetOfNaturals
<1>3. PICK x \in M : \A y \in M : x <= y
  BY <1>1, <1>2, SmallestOfNat
<1>4. PICK t \in T : x = m - t
  BY <1>3
<1>5. \A y \in T : m - t <= m - y
  BY <1>3, <1>4
<1> QED
  BY <1>4, <1>5
=============================================================================
