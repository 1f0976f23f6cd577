--------------------------- MODULE PollTableProofs ---------------------------
(***************************************************************************)
(* The layout of the poll array is a bijection between the connected       *)
(* servers and the slots 1..Cardinality(C), whatever the set of connected  *)
(* servers.                                                                *)
(***************************************************************************)
EXTENDS PollTable, TLAPS, FiniteSetTheorems

(* The slot given to a connected server lies between the listener's and    *)
(* the end of the array.                                                   *)
LEMMA RankInRange ==
  ASSUME NEW C \in SUBSET Nat, IsFiniteSet(C), NEW s \in C
  PROVE  Rank(C, s) \in 1..Cardinality(C)
<1> DEFINE T == {t \in C : t <= s}
<1>1. s \in T
  OBVIOUS
<1>2. IsFiniteSet(T) /\ Cardinality(T) <= Cardinality(C)
  BY FS_Subset
<1>3. Cardinality(T) \in Nat /\ Cardinality(C) \in Nat
  BY <1>2, FS_CardinalityType
<1>4. Cardinality(T) # 0
  BY <1>1, <1>2, FS_EmptySet
<1>5. Rank(C, s) = Cardinality(T)
  BY DEF Rank
<1> QED  BY <1>2, <1>3, <1>4, <1>5

(* A server that comes later in the list gets a higher slot.               *)
LEMMA RankIncreasing ==
  ASSUME NEW C \in SUBSET Nat, IsFiniteSet(C), NEW s \in C, NEW u \in C, s < u
  PROVE  Rank(C, s) < Rank(C, u)
<1> DEFINE S == {t \in C : t <= s}
           U == {t \in C : t <= u}
<1>1. S \subseteq U /\ u \in U /\ u \notin S
  <2>1. \A t \in C : t <= s => t <= u
    OBVIOUS
  <2>2. u <= u /\ ~(u <= s)
    OBVIOUS
  <2> QED  BY <2>1, <2>2
<1>2. IsFiniteSet(S) /\ IsFiniteSet(U)
  BY FS_Subset
<1>3. Cardinality(S) <= Cardinality(U) /\ (Cardinality(U) = Cardinality(S) => U = S)
  BY <1>1, <1>2, FS_Subset
<1>4. Cardinality(S) \in Nat /\ Cardinality(U) \in Nat
  BY <1>2, FS_CardinalityType
<1>5. Cardinality(S) # Cardinality(U)
  BY <1>1, <1>3
<1>6. Rank(C, s) = Cardinality(S) /\ Rank(C, u) = Cardinality(U)
  BY DEF Rank
<1> QED  BY <1>3, <1>4, <1>5, <1>6

(* No two connected servers get the same slot.                             *)
LEMMA RankInjective ==
  ASSUME NEW C \in SUBSET Nat, IsFiniteSet(C), NEW s \in C, NEW u \in C,
         Rank(C, s) = Rank(C, u)
  PROVE  s = u
<1>1. Rank(C, s) \in Nat /\ Rank(C, u) \in Nat
  <2>1. Cardinality(C) \in Nat
    BY FS_CardinalityType
  <2>2. Rank(C, s) \in 1..Cardinality(C) /\ Rank(C, u) \in 1..Cardinality(C)
    BY RankInRange
  <2> QED  BY <2>1, <2>2
<1>2. ~(s < u) /\ ~(u < s)
  BY <1>1, RankIncreasing
<1> QED  BY <1>2

(* The occupant of the slot given to a server is that server.              *)
LEMMA OccupantOfRank ==
  ASSUME NEW C \in SUBSET Nat, IsFiniteSet(C), NEW s \in C
  PROVE  Occupant(C, Rank(C, s)) = s
<1> DEFINE o == Occupant(C, Rank(C, s))
<1>1. o \in C /\ Rank(C, o) = Rank(C, s)
  BY DEF Occupant
<1> HIDE DEF o
<1>2. o = s
  BY <1>1, RankInjective
<1> QED  BY <1>2 DEF o

(* Every slot up to the number of connected servers is used.               *)
LEMMA OccupantOfSlot ==
  ASSUME NEW C \in SUBSET Nat, IsFiniteSet(C), NEW j \in 1..Cardinality(C)
  PROVE  Occupant(C, j) \in C /\ Rank(C, Occupant(C, j)) = j
<1> DEFINE T == 1..Cardinality(C)
           r == [s \in C |-> Rank(C, s)]
<1>1. Cardinality(C) \in Nat
  BY FS_CardinalityType
<1>2. IsFiniteSet(T) /\ Cardinality(T) = Cardinality(C)
  BY <1>1, FS_Interval
<1>3. r \in [C -> T]
  BY RankInRange
<1>4. \A a, b \in C : r[a] = r[b] => a = b
  BY RankInjective
<1>5. r \in Injection(C, T)
  BY <1>3, <1>4 DEF Injection, IsInjective
<1>6. r \in Surjection(C, T)
  BY <1>2, <1>5, FS_Injection
<1>7. \E s \in C : r[s] = j
  BY <1>6 DEF Surjection
<1>8. \E s \in C : Rank(C, s) = j
  BY <1>7
<1> QED  BY <1>8 DEF Occupant

(* A set of numbers that is not empty has a least one.                     *)
LEMMA LeastNumber ==
  ASSUME NEW S \in SUBSET Nat, S # {}
  PROVE  \E k \in S : \A j \in S : k <= j
<1>1. PICK n \in S : TRUE
  OBVIOUS
<1> DEFINE C == {j \in S : j <= n}
<1>2. C \in SUBSET Nat /\ n \in C /\ n \in Nat
  <2>1. n \in Nat
    BY <1>1
  <2>2. n <= n
    BY <2>1
  <2> QED  BY <1>1, <2>1, <2>2
<1>3. IsFiniteSet(C)
  BY <1>2, FS_BoundedSetOfNaturals
<1>4. Cardinality(C) \in Nat /\ Cardinality(C) # 0
  BY <1>2, <1>3, FS_CardinalityType, FS_EmptySet
<1> DEFINE o == Occupant(C, 1)
           T == {t \in C : t <= o}
<1>5. o \in C /\ Rank(C, o) = 1
  <2>1. 1 \in 1..Cardinality(C)
    BY <1>4
  <2> HIDE DEF C
  <2> QED  BY <1>2, <1>3, <2>1, OccupantOfSlot
<1>6. Cardinality(T) = 1
  BY <1>5 DEF Rank
<1> HIDE DEF o
<1>7. IsFiniteSet(T) /\ o \in T
  BY <1>2, <1>3, <1>5, FS_Subset
<1>8. T = {o}
  BY <1>6, <1>7, FS_Singleton
<1>9. \A j \in S : o <= j
  <2> SUFFICES ASSUME NEW j \in S, j < o PROVE FALSE
    BY <1>2, <1>5
  <2>1. j \in T
    BY <1>2, <1>5
  <2> QED  BY <1>8, <2>1
<1> QED  BY <1>5, <1>9
=============================================================================
