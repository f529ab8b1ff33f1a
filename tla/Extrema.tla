------------------------------- MODULE Extrema -------------------------------
(***************************************************************************)
(* A set of numbers between two bounds has a least and a greatest element, *)
(* so the CHOOSE of Min, Max and FirstFree chooses one.  It is shown by    *)
(* the well-foundedness of the subsets of a finite set, which needs no     *)
(* induction theorem with an operator parameter.                           *)
(***************************************************************************)
EXTENDS Integers, FiniteSetsExt, FiniteSetTheorems, WellFoundedInduction, TLAPS

\* Of the intervals 1..x with x in S one has no other inside it.
LEMMA LeastOf ==
  ASSUME NEW n \in Nat, NEW S, S \subseteq 1..n, S # {}
  PROVE  \E x \in S : \A y \in S : x <= y
<1> DEFINE R == StrictSubsetOrdering(1..n)
           T == {1..x : x \in S}
<1>1. IsWellFoundedOn(R, SUBSET (1..n))
  <2>1. FiniteSubsetsOf(1..n) = SUBSET (1..n)
    <3>1. 1 \in Int /\ n \in Int
      OBVIOUS
    <3>2. IsFiniteSet(1..n)
      BY ONLY <3>1, FS_Interval
    <3>3. QED
      BY ONLY <3>2, FS_FiniteSubsetsOfFinite
  <2>2. QED
    BY <2>1, FS_StrictSubsetOrderingWellFounded
<1>2. T \subseteq SUBSET (1..n)
  <2>1. \A x \in S : x \in 1..n
    OBVIOUS
  <2>2. \A x \in 1..n : 1..x \subseteq 1..n
    OBVIOUS
  <2>3. QED
    BY <2>1, <2>2
<1>3. \E X \in T : \A Y \in T : ~(<<Y, X>> \in R)
  <2>1. T # {}
    OBVIOUS
  <2> HIDE DEF R, T
  <2>2. QED
    BY <1>1, <1>2, <2>1, WFMin
<1>4. PICK x \in S : \A y \in S : ~(<<1..y, 1..x>> \in R)
  BY <1>3
<1>5. ASSUME NEW y \in S, y < x PROVE FALSE
  <2>1. 1..y \subseteq 1..x /\ x \in 1..x /\ x \notin 1..y
    BY <1>5
  <2>2. 1..y \in SUBSET (1..n) /\ 1..x \in SUBSET (1..n)
    BY <1>2
  <2>3. <<1..y, 1..x>> \in R
    BY <2>1, <2>2 DEF StrictSubsetOrdering
  <2>4. QED
    BY <2>3, <1>4
<1>6. QED
  BY <1>5

\* The same for a set that starts anywhere, and for its greatest element.
LEMMA MinOf ==
  ASSUME NEW lo \in Int, NEW hi \in Int, NEW S, S \subseteq lo..hi, S # {}
  PROVE  Min(S) \in S /\ \A y \in S : Min(S) <= y
<1> DEFINE U == {x - lo + 1 : x \in S}
           n == hi - lo + 1
<1>1. \A x \in S : x \in Int /\ x - lo + 1 \in 1..n
  <2>1. \A x \in lo..hi : x \in Int /\ x - lo + 1 \in 1..n
    OBVIOUS
  <2>2. QED
    BY <2>1
<1>2. U # {} /\ U \subseteq 1..n
  BY <1>1
<1>3. n \in Nat
  <2>1. \E x \in lo..hi : TRUE
    OBVIOUS
  <2>2. QED
    BY <2>1
<1>4. PICK u \in U : \A v \in U : u <= v
  <2> HIDE DEF U, n
  <2>1. QED
    BY <1>2, <1>3, LeastOf
<1>5. PICK x \in S : u = x - lo + 1
  BY <1>4
<1>6. ASSUME NEW y \in S PROVE x <= y
  <2>1. u <= y - lo + 1
    BY <1>4
  <2>2. QED
    BY <1>1, <1>5, <2>1
<1>7. QED
  BY <1>6 DEF Min

LEMMA MaxOf ==
  ASSUME NEW lo \in Int, NEW hi \in Int, NEW S, S \subseteq lo..hi, S # {}
  PROVE  Max(S) \in S /\ \A y \in S : Max(S) >= y
<1> DEFINE U == {hi - x + 1 : x \in S}
           n == hi - lo + 1
<1>1. \A x \in S : x \in Int /\ hi - x + 1 \in 1..n
  <2>1. \A x \in lo..hi : x \in Int /\ hi - x + 1 \in 1..n
    OBVIOUS
  <2>2. QED
    BY <2>1
<1>2. U # {} /\ U \subseteq 1..n
  BY <1>1
<1>3. n \in Nat
  <2>1. \E x \in lo..hi : TRUE
    OBVIOUS
  <2>2. QED
    BY <2>1
<1>4. PICK u \in U : \A v \in U : u <= v
  <2> HIDE DEF U, n
  <2>1. QED
    BY <1>2, <1>3, LeastOf
<1>5. PICK x \in S : u = hi - x + 1
  BY <1>4
<1>6. ASSUME NEW y \in S PROVE x >= y
  <2>1. u <= hi - y + 1
    BY <1>4
  <2>2. QED
    BY <1>1, <1>5, <2>1
<1>7. QED
  BY <1>6 DEF Max
=============================================================================
