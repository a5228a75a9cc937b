------------------------------ MODULE Counting ------------------------------
(***************************************************************************)
(* What the proofs need to know of numbers: least members, induction from  *)
(* one number to the next, and how members of a set are numbered in order; *)
(* and of sequences that grow by a member at a time.                       *)
(***************************************************************************)
EXTENDS Integers, Sequences, FiniteSets, FiniteSetTheorems, WellFoundedInduction, TLAPS

(* A set of numbers that is not empty has a least one.                     *)
LEMMA LeastNumber ==
  ASSUME NEW S, S \subseteq Nat, S # {}
  PROVE  \E x \in S : \A y \in S : x <= y
<1> DEFINE Below(x) == {y \in S : y < x}
<1>1. PICK top \in S : TRUE
  OBVIOUS
<1> DEFINE Low == {y \in S : y <= top}
           T == {Below(x) : x \in Low}
<1>2. IsFiniteSet(Low)
  <2>1. top \in Nat /\ \A y \in S : y \in Nat
    OBVIOUS
  <2>2. \A y \in S : y <= top => y \in 0 .. top
    BY <2>1
  <2>3. Low \subseteq 0 .. top
    BY <2>2
  <2>4. 0 \in Int /\ top \in Int
    BY <2>1
  <2> QED
    BY <2>3, <2>4, FS_Interval, FS_Subset
<1>3. IsWellFoundedOn(StrictSubsetOrdering(Low), FiniteSubsetsOf(Low))
  BY FS_StrictSubsetOrderingWellFounded
<1>4. \A x \in Low : Below(x) \subseteq Low
  <2>1. \A y, x \in Nat : y < x /\ x <= top => y <= top
    OBVIOUS
  <2>2. \A x \in S : x \in Nat
    OBVIOUS
  <2> QED
    BY <2>1, <2>2
<1>5. T \subseteq FiniteSubsetsOf(Low) /\ T # {}
  <2>1. \A U \in SUBSET Low : IsFiniteSet(U)
    BY <1>2, FS_Subset
  <2>2. top \in Low
    OBVIOUS
  <2> HIDE DEF Low, Below
  <2> QED
    BY <1>4, <2>1, <2>2 DEF FiniteSubsetsOf
<1>6. PICK U \in T : \A V \in T : <<V, U>> \notin StrictSubsetOrdering(Low)
  BY <1>3, <1>5, WFMin
<1>7. PICK x \in Low : U = Below(x)
  OBVIOUS
<1>8. ASSUME NEW y \in S, ~(x <= y)
      PROVE  FALSE
  <2>1. x \in Nat /\ y \in Nat /\ x <= top /\ top \in Nat /\ \A z \in S : z \in Nat
    OBVIOUS
  <2>2. y < x /\ ~(y < y) /\ y <= top /\ \A z \in Nat : z < y => z < x
    BY <1>8, <2>1
  <2>3. Below(y) \subseteq Below(x) /\ y \in Below(x) /\ y \notin Below(y)
    BY <2>1, <2>2
  <2>4. y \in Low /\ Below(y) \subseteq Low
    BY <1>4, <2>2
  <2>5. <<Below(y), Below(x)>> \in StrictSubsetOrdering(Low)
    BY <1>4, <2>3, <2>4 DEF StrictSubsetOrdering
  <2> QED
    BY <1>6, <1>7, <2>4, <2>5
<1> QED
  BY <1>8

(* A set that has 0 and the successor of each of its numbers has them all. *)
LEMMA AllNumbers ==
  ASSUME NEW S, 0 \in S, \A k \in Nat : k \in S => k + 1 \in S
  PROVE  \A k \in Nat : k \in S
<1> SUFFICES ASSUME NEW k \in Nat, k \notin S PROVE FALSE
  OBVIOUS
<1> DEFINE U == {j \in Nat : j \notin S}
<1>1. PICK m \in U : \A j \in U : m <= j
  <2>1. U \subseteq Nat /\ k \in U
    OBVIOUS
  <2> HIDE DEF U
  <2> QED
    BY <2>1, LeastNumber
<1>2. m \in Nat /\ m # 0 /\ m \notin S
  OBVIOUS
<1>3. m - 1 \in Nat /\ ~(m <= m - 1) /\ m - 1 + 1 = m
  BY <1>2
<1>4. m - 1 \in S
  BY <1>1, <1>3
<1> QED
  BY <1>2, <1>3, <1>4

(* As far as a bound n, for what is known of each number below it.         *)
LEMMA NumbersUpTo ==
  ASSUME NEW S, NEW n \in Nat, 0 \in S, \A k \in 0 .. n : k \in S /\ k < n => k + 1 \in S
  PROVE  \A k \in 0 .. n : k \in S
<1> DEFINE T == {k \in Nat : k <= n => k \in S}
<1>1. 0 \in T
  OBVIOUS
<1>2. \A k \in Nat : k \in T => k + 1 \in T
  OBVIOUS
<1>3. \A k \in Nat : k \in T
  <2> HIDE DEF T
  <2> QED
    BY <1>1, <1>2, AllNumbers
<1> QED
  BY <1>3

------------------------------------------------------------------------------
(* Members of S are numbered by how many are not behind them.              *)

LEMMA RankStep ==
  ASSUME NEW S, NEW k \in Nat \ {0}
  PROVE  /\ IsFiniteSet(S \cap (1 .. k)) /\ IsFiniteSet(S \cap (1 .. k - 1))
         /\ Cardinality(S \cap (1 .. k)) \in Nat
         /\ Cardinality(S \cap (1 .. k - 1)) \in Nat
         /\ Cardinality(S \cap (1 .. k)) =
              IF k \in S THEN Cardinality(S \cap (1 .. k - 1)) + 1
              ELSE Cardinality(S \cap (1 .. k - 1))
<1>1. IsFiniteSet(1 .. k) /\ IsFiniteSet(1 .. k - 1)
  <2>1. k \in Int /\ k - 1 \in Int /\ 1 \in Int
    OBVIOUS
  <2> QED
    BY <2>1, FS_Interval
<1>2. IsFiniteSet(S \cap (1 .. k)) /\ IsFiniteSet(S \cap (1 .. k - 1))
  BY <1>1, FS_Subset
<1>3. Cardinality(S \cap (1 .. k)) \in Nat /\ Cardinality(S \cap (1 .. k - 1)) \in Nat
  BY <1>2, FS_CardinalityType
<1>4. CASE k \in S
  <2>1. S \cap (1 .. k) = (S \cap (1 .. k - 1)) \cup {k} /\ k \notin S \cap (1 .. k - 1)
    BY <1>4
  <2>2. Cardinality((S \cap (1 .. k - 1)) \cup {k}) = Cardinality(S \cap (1 .. k - 1)) + 1
    BY <1>2, <2>1, FS_AddElement
  <2> QED
    BY <1>2, <1>3, <1>4, <2>1, <2>2
<1>5. CASE k \notin S
  <2>1. S \cap (1 .. k) = S \cap (1 .. k - 1)
    BY <1>5
  <2> QED
    BY <1>2, <1>3, <1>5, <2>1
<1> QED
  BY <1>4, <1>5

LEMMA RankBounds ==
  ASSUME NEW S, NEW n \in Nat, NEW k \in S \cap (1 .. n)
  PROVE  Cardinality(S \cap (1 .. k)) \in 1 .. Cardinality(S \cap (1 .. n))
<1>1. k \in Nat \ {0} /\ n \in Nat \ {0}
  OBVIOUS
<1>2. /\ IsFiniteSet(S \cap (1 .. n))
      /\ Cardinality(S \cap (1 .. n)) \in Nat /\ Cardinality(S \cap (1 .. k)) \in Nat
      /\ Cardinality(S \cap (1 .. k - 1)) \in Nat
      /\ Cardinality(S \cap (1 .. k)) = Cardinality(S \cap (1 .. k - 1)) + 1
  BY <1>1, RankStep
<1>3. S \cap (1 .. k) \in SUBSET (S \cap (1 .. n))
  OBVIOUS
<1>4. Cardinality(S \cap (1 .. k)) <= Cardinality(S \cap (1 .. n))
  BY <1>2, <1>3, FS_Subset
<1> QED
  BY <1>2, <1>4

------------------------------------------------------------------------------
(* What Append adds to, and what it leaves.                                *)
LEMMA AppendFacts ==
  ASSUME NEW T, NEW s \in Seq(T), NEW x \in T
  PROVE  /\ Append(s, x) \in Seq(T)
         /\ Len(s) \in Nat
         /\ Len(Append(s, x)) = Len(s) + 1
         /\ Append(s, x)[Len(s) + 1] = x
         /\ \A k \in 1 .. Len(s) : Append(s, x)[k] = s[k]
OBVIOUS
==============================================================================
