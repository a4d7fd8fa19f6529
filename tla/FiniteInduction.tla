---------------------------- MODULE FiniteInduction ----------------------------
(***************************************************************************)
(* Induction over the positions 1..n and 0..n, stated of a set of them     *)
(* instead of a predicate, so that it can be cited: what a recursive       *)
(* function of the other modules gives for each position is proved with    *)
(* it, for any length. It rests on the cardinalities of intervals.         *)
(***************************************************************************)
EXTENDS Integers, FiniteSetTheorems, TLAPS

(* Positions without a gap are those up to their number.                   *)
LEMMA InitialSegment ==
    ASSUME NEW n \in Nat, NEW I \in SUBSET (1..n),
           \A i \in I : \A j \in 1..n : j < i => j \in I
    PROVE  Cardinality(I) \in 0..n /\ I = 1..Cardinality(I)
<1>1. IsFiniteSet(1..n) /\ Cardinality(1..n) = n
  BY FS_Interval
<1>2. IsFiniteSet(I) /\ Cardinality(I) <= n
  BY <1>1, FS_Subset
<1> DEFINE c == Cardinality(I)
<1>3. c \in Nat
  BY <1>2, FS_CardinalityType
<1>4. ASSUME NEW i \in I PROVE i \in 1..c
  <2>1. (1..i) \in SUBSET I
    OBVIOUS
  <2>2. Cardinality(1..i) = i
    BY FS_Interval
  <2>3. Cardinality(1..i) <= c
    BY <1>2, <2>1, FS_Subset
  <2>4. QED
    BY <1>3, <2>2, <2>3
<1>5. IsFiniteSet(1..c) /\ Cardinality(1..c) = c
  BY <1>3, FS_Interval
<1> HIDE DEF c
<1>6. I \in SUBSET (1..c)
  BY <1>4
<1>7. Cardinality(I) = c
  BY DEF c
<1>8. I = 1..c
  BY <1>5, <1>6, <1>7, FS_Subset
<1>9. QED
  BY <1>2, <1>3, <1>8 DEF c

(* A set that has the first position, and with each position the next one, *)
(* has them all.                                                           *)
LEMMA PositionInduction ==
    ASSUME NEW n \in Nat, NEW I,
           n > 0 => 1 \in I,
           \A i \in 1..n : i \in I /\ i + 1 <= n => i + 1 \in I
    PROVE  \A i \in 1..n : i \in I
<1> DEFINE J == {i \in 1..n : \A j \in 1..i : j \in I}
           c == Cardinality(J)
<1>1. J \in SUBSET (1..n)
  OBVIOUS
<1>2. \A i \in J : \A j \in 1..n : j < i => j \in J
  OBVIOUS
<1>3. c \in 0..n /\ J = 1..c
  BY <1>1, <1>2, InitialSegment
<1>4. \A i \in J : i \in I
  OBVIOUS
<1>5. ASSUME NEW i \in 1..n, i \in I, \A j \in 1..n : j < i => j \in I PROVE i \in J
  BY <1>5
<1> HIDE DEF J, c
<1>6. ASSUME c # n PROVE FALSE
  <2>1. c + 1 \in 1..n /\ \A j \in 1..n : j < c + 1 => j \in I
    BY <1>3, <1>4, <1>6
  <2>2. c + 1 \in I
    <3>1. CASE c = 0
      BY <2>1, <3>1
    <3>2. CASE c # 0
      <4>1. c \in 1..n /\ c \in I
        BY <1>3, <1>4, <3>2
      <4>2. QED
        BY <2>1, <4>1
    <3>3. QED
      BY <3>1, <3>2
  <2>3. c + 1 \in J
    BY <1>5, <2>1, <2>2
  <2>4. QED
    BY <1>3, <2>3
<1>7. QED
  BY <1>3, <1>4, <1>6

(* The same from 0 on.                                                     *)
LEMMA CountInduction ==
    ASSUME NEW n \in Nat, NEW I,
           0 \in I,
           \A i \in 0..n : i \in I /\ i + 1 <= n => i + 1 \in I
    PROVE  \A i \in 0..n : i \in I
<1>1. \A i \in 1..n : i \in I
  BY PositionInduction
<1>2. QED
  BY <1>1
=============================================================================
