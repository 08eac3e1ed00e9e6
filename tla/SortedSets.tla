------------------------------- MODULE SortedSets -------------------------------
(***************************************************************************)
(* Facts about sorting a finite set of numbers, which the codecs do with   *)
(* `v.sort()` after collecting a HashSet (key ids and paths of a role or   *)
(* delegation) and with sort_by on names (the delegated roles).  Sorting   *)
(* is stated as a list each of whose entries is smaller than the next.     *)
(* The facts are proved by taking a least counterexample (WFMin on the     *)
(* naturals), which stands in for induction over the size of the set.     *)
(***************************************************************************)
EXTENDS Naturals, FiniteSets, FiniteSetTheorems, WellFoundedInduction, TLAPS

\* The first n entries of s each smaller than the next, and a set that has
\* such a list of all its members.
AdjacentSorted(s, n) == \A i \in 1..(n - 1) : s[i] < s[i + 1]
HasSortedEnum(S) ==
  \E s \in [1..Cardinality(S) -> S] : AdjacentSorted(s, Cardinality(S))

(* 1..n has n members.                                                     *)
LEMMA IntervalCardinality ==
  ASSUME NEW n \in Nat
  PROVE  IsFiniteSet(1..n) /\ Cardinality(1..n) = n
<1>1. IsFiniteSet(1..n) /\ Cardinality(1..n) = IF 1 > n THEN 0 ELSE n - 1 + 1
  BY FS_Interval
<1> QED BY <1>1

(* A non-empty set of naturals has a least element.                        *)
LEMMA NatSetHasMin ==
  ASSUME NEW T \in SUBSET Nat, T # {}
  PROVE  \E x \in T : \A y \in T : x <= y
<1> DEFINE R == OpToRel(<, Nat)
<1>1. PICK x \in T : \A y \in T : ~(<<y, x>> \in R)
  BY NatLessThanWellFounded, WFMin
<1>2. \A y \in T : x <= y
  <2> SUFFICES ASSUME NEW y \in T, y < x PROVE FALSE
    OBVIOUS
  <2>1. <<y, x>> \in R
    BY DEF OpToRel
  <2> QED BY <1>1, <2>1
<1> QED BY <1>2

(* A non-empty bounded set of naturals has a greatest element.             *)
LEMMA NatSetHasMax ==
  ASSUME NEW T \in SUBSET Nat, T # {}, NEW n \in Nat, \A x \in T : x <= n
  PROVE  \E x \in T : \A y \in T : y <= x
<1> DEFINE U == {u \in Nat : \A y \in T : y <= u}
<1>1. n \in U
  OBVIOUS
<1>2. PICK u \in U : \A v \in U : u <= v
  BY <1>1, NatSetHasMin
<1>3. u \in T
  <2> SUFFICES ASSUME u \notin T PROVE FALSE
    OBVIOUS
  <2>1. \A y \in T : y < u
    BY <1>2
  <2>2. PICK t \in T : TRUE
    OBVIOUS
  <2>3. u > 0
    BY <2>1, <2>2
  <2>4. u - 1 \in U
    BY <2>1, <2>3
  <2> QED BY <1>2, <2>3, <2>4
<1> QED BY <1>2, <1>3

(* Each entry smaller than the next makes every entry smaller than every  *)
(* later one.                                                              *)
LEMMA SortedIncreasing ==
  ASSUME NEW n \in Nat, NEW s \in [1..n -> Nat], AdjacentSorted(s, n)
  PROVE  \A i, j \in 1..n : i < j => s[i] < s[j]
<1> DEFINE Gap == {d \in Nat : \E i \in 1..n : i + d \in 1..n /\ d > 0 /\ ~(s[i] < s[i + d])}
<1> SUFFICES ASSUME Gap # {} PROVE FALSE
  <2> SUFFICES ASSUME NEW i \in 1..n, NEW j \in 1..n, i < j, ~(s[i] < s[j]) PROVE FALSE
    OBVIOUS
  <2>1. j - i \in Gap
    OBVIOUS
  <2> QED BY <2>1
<1>1. PICK d \in Gap : \A e \in Gap : d <= e
  BY NatSetHasMin
<1>2. PICK i \in 1..n : i + d \in 1..n /\ d > 0 /\ ~(s[i] < s[i + d])
  BY <1>1
<1>3. CASE d = 1
  BY <1>2, <1>3 DEF AdjacentSorted
<1>4. CASE d > 1
  <2>1. d - 1 \notin Gap
    <3>1. d \in Nat
      BY <1>1
    <3>2. SUFFICES ASSUME d - 1 \in Gap PROVE FALSE
      OBVIOUS
    <3>3. d <= d - 1
      BY <1>1, <3>2
    <3> QED BY <3>1, <3>3
  <2>2. s[i] < s[i + (d - 1)]
    BY <1>2, <1>4, <2>1
  <2>3. s[i + (d - 1)] < s[i + d]
    <3>1. i + (d - 1) \in 1..(n - 1) /\ i + (d - 1) + 1 = i + d
      BY <1>2, <1>4
    <3> QED BY <3>1 DEF AdjacentSorted
  <2> QED BY <1>2, <2>2, <2>3
<1> QED BY <1>2, <1>3, <1>4

(* Every finite set of naturals has a sorted enumeration: the CHOOSE of    *)
(* SortedKeyIds has something to choose.                                   *)
LEMMA SortedEnumExists ==
  ASSUME NEW S \in SUBSET Nat, IsFiniteSet(S)
  PROVE  HasSortedEnum(S)
<1> DEFINE Bad == {n \in Nat : \E T \in SUBSET Nat :
                      IsFiniteSet(T) /\ Cardinality(T) = n /\ ~HasSortedEnum(T)}
<1> SUFFICES ASSUME ~HasSortedEnum(S) PROVE FALSE
  OBVIOUS
<1>1. Cardinality(S) \in Bad
  BY FS_CardinalityType
<1>2. PICK n \in Bad : \A k \in Bad : n <= k
  BY <1>1, NatSetHasMin
<1>3. PICK T \in SUBSET Nat : IsFiniteSet(T) /\ Cardinality(T) = n /\ ~HasSortedEnum(T)
  BY <1>2
<1>4. CASE n = 0
  <2>1. [i \in 1..0 |-> 0] \in [1..Cardinality(T) -> T]
    BY <1>3, <1>4
  <2>2. AdjacentSorted([i \in 1..0 |-> 0], Cardinality(T))
    BY <1>3, <1>4 DEF AdjacentSorted
  <2> QED BY <1>3, <2>1, <2>2 DEF HasSortedEnum
<1>5. CASE n # 0
  <2>1. T # {}
    BY <1>3, <1>5, FS_EmptySet
  <2>2. PICK m \in T : \A y \in T : m <= y
    BY <2>1, NatSetHasMin
  <2> DEFINE U == T \ {m}
  <2>3. IsFiniteSet(U) /\ Cardinality(U) = n - 1
    BY <1>3, <2>2, FS_RemoveElement
  <2>4. n - 1 \in Nat /\ n - 1 \notin Bad
    BY <1>2, <1>5
  <2>5. HasSortedEnum(U)
    BY <2>3, <2>4
  <2>6. PICK u \in [1..(n - 1) -> U] : AdjacentSorted(u, n - 1)
    BY <2>3, <2>5 DEF HasSortedEnum
  <2> DEFINE t == [i \in 1..n |-> IF i = 1 THEN m ELSE u[i - 1]]
  <2>7. t \in [1..n -> T]
    BY <2>4, <2>6
  <2>8. AdjacentSorted(t, n)
    <3> SUFFICES ASSUME NEW i \in 1..(n - 1) PROVE t[i] < t[i + 1]
      BY DEF AdjacentSorted
    <3>1. CASE i = 1
      <4>0. n \in Nat /\ 1 \in 1..(n - 1)
        BY <1>2, <3>1
      <4>1. u[1] \in U
        BY <2>6, <4>0
      <4>2. t[1] = m /\ t[2] = u[1]
        BY <4>0
      <4>3. u[1] \in T /\ u[1] # m /\ u[1] \in Nat /\ m \in Nat
        BY <1>3, <4>1
      <4>4. m <= u[1]
        BY <2>2, <4>3
      <4> QED BY <3>1, <4>2, <4>3, <4>4
    <3>2. CASE i # 1
      <4>1. i - 1 \in 1..(n - 2) /\ i - 1 + 1 = i
        BY <3>2
      <4>2. u[i - 1] < u[i]
        BY <2>6, <4>1 DEF AdjacentSorted
      <4> QED BY <3>2, <4>2
    <3> QED BY <3>1, <3>2
  <2> QED BY <1>3, <2>7, <2>8 DEF HasSortedEnum
<1> QED BY <1>4, <1>5

(* A sorted enumeration of a finite set of naturals lists its members in   *)
(* increasing order, each of them at some position.                        *)
LEMMA SortedEnumOnto ==
  ASSUME NEW S \in SUBSET Nat, IsFiniteSet(S),
         NEW s \in [1..Cardinality(S) -> S], AdjacentSorted(s, Cardinality(S))
  PROVE  /\ \A i, j \in 1..Cardinality(S) : i < j => s[i] < s[j]
         /\ \A x \in S : \E i \in 1..Cardinality(S) : s[i] = x
<1> DEFINE N == Cardinality(S)
<1>0. N \in Nat
  BY FS_CardinalityType
<1>1. \A i, j \in 1..N : i < j => s[i] < s[j]
  BY <1>0, SortedIncreasing
<1>2. s \in Injection(1..N, S)
  <2> SUFFICES ASSUME NEW i \in 1..N, NEW j \in 1..N, s[i] = s[j], i # j PROVE FALSE
    BY DEF Injection, IsInjective
  <2>1. s[i] \in Nat /\ s[j] \in Nat
    OBVIOUS
  <2>2. i < j \/ j < i
    BY <1>0
  <2> QED BY <1>1, <2>1, <2>2
<1>3. IsFiniteSet(1..N) /\ Cardinality(1..N) = N
  BY <1>0, FS_Interval
<1>4. s \in Surjection(1..N, S)
  BY <1>2, <1>3, FS_Injection
<1> QED BY <1>1, <1>4 DEF Surjection

=============================================================================
