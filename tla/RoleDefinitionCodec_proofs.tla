--------------------- MODULE RoleDefinitionCodec_proofs ---------------------
(***************************************************************************)
(* Proofs about the role-definition key-id decoder, for every set of key   *)
(* ids and every bound on the list length.                                 *)
(***************************************************************************)
EXTENDS RoleDefinitionCodec, SortedSets, FiniteSetTheorems, TLAPS

USE ConstantsAssumption

\* The ids the TryFrom loop has read after n iterations.
Prefix(n) == {wire[i] : i \in 1..n}

(***************************************************************************)
(* The inductive invariant: while the TryFrom loop runs, and when it has   *)
(* returned Ok, the HashSet holds exactly the ids read so far and has one  *)
(* member per id read; before decoding starts it is empty.  It needs       *)
(* nothing about the shape of the list From wrote, so the proof does not   *)
(* depend on a sorted enumeration of the key-id set existing (TLC checks   *)
(* that part, with EncodedRoundTrip).                                      *)
(***************************************************************************)
IInv ==
  /\ idx \in Nat
  /\ status \in Results
  /\ status = "encoding" => seen = {} /\ idx = 0
  /\ status \in {"decoding", "ok"} =>
       /\ seen = Prefix(idx)
       /\ IsFiniteSet(seen)
       /\ Cardinality(seen) = idx
  /\ status = "ok" => idx = Len(wire)

LEMMA InitIInv == Init => IInv
BY FS_EmptySet DEF Init, IInv, Results

LEMMA NextIInv == IInv /\ [Next]_vars => IInv'
<1> SUFFICES ASSUME IInv, [Next]_vars PROVE IInv'
  OBVIOUS
<1>1. CASE RoleDefinitionFrom \/ ReceiveForeign
  <2>1. status = "encoding" /\ status' = "decoding" /\ seen' = {} /\ idx' = 0
    BY <1>1 DEF IInv, RoleDefinitionFrom, ReceiveForeign
  <2>2. Prefix(0)' = {}
    BY DEF Prefix
  <2> QED BY <2>1, <2>2, FS_EmptySet DEF IInv, Results
<1>2. CASE ReplaceNew
  <2> DEFINE x == wire[idx + 1]
  <2>1. /\ status = "decoding" /\ status' = "decoding"
        /\ x \notin seen /\ seen' = seen \cup {x}
        /\ idx' = idx + 1 /\ wire' = wire
    BY <1>2 DEF ReplaceNew
  <2>2. /\ seen = Prefix(idx) /\ IsFiniteSet(seen) /\ Cardinality(seen) = idx
        /\ idx \in Nat
    BY <2>1 DEF IInv
  <2>3. Prefix(idx + 1) = Prefix(idx) \cup {x}
    BY <2>2 DEF Prefix
  <2>4. IsFiniteSet(seen') /\ Cardinality(seen') = idx + 1
    BY <2>1, <2>2, FS_AddElement
  <2>5. Prefix(idx)' = Prefix(idx + 1)
    BY <2>1 DEF Prefix
  <2>6. seen' = Prefix(idx)'
    BY <2>1, <2>2, <2>3, <2>5
  <2>7. idx' \in Nat /\ status' \in Results
    BY <2>1, <2>2 DEF Results
  <2> QED BY <2>1, <2>4, <2>6, <2>7 DEF IInv
<1>3. CASE ReplaceDuplicate
  BY <1>3 DEF ReplaceDuplicate, IInv, Results
<1>4. CASE LoopEnd
  BY <1>4 DEF LoopEnd, IInv, Results, Prefix
<1>5. CASE UNCHANGED vars
  BY <1>5 DEF vars, IInv, Prefix
<1> QED BY <1>1, <1>2, <1>3, <1>4, <1>5 DEF Next

LEMMA IInvCounted == IInv => KeyIdsCounted
BY DEF IInv, KeyIdsCounted, Prefix, Elems

(***************************************************************************)
(* For every key-id set and list bound, a role definition that TryFrom     *)
(* accepts has one distinct key id per entry of its `keyids` list: a       *)
(* repeated id can never count twice towards a threshold.                  *)
(***************************************************************************)
THEOREM ThresholdCountingSound == Spec => []KeyIdsCounted
<1>1. Init => IInv
  BY InitIInv
<1>2. IInv /\ [Next]_vars => IInv'
  BY NextIInv
<1>3. IInv => KeyIdsCounted
  BY IInvCounted
<1> QED BY <1>1, <1>2, <1>3, PTL DEF Spec

-----------------------------------------------------------------------------
\* A list that names every member of S exactly once.
ListOfSet(w, S) ==
  /\ w \in [1..Cardinality(S) -> S]
  /\ \A i, j \in 1..Cardinality(S) : w[i] = w[j] => i = j
  /\ Elems(w) = S

(* The list From writes for a finite set of key ids names each id once.    *)
LEMMA SortedKeyIdsList ==
  ASSUME NEW S \in SUBSET Nat, IsFiniteSet(S)
  PROVE  ListOfSet(SortedKeyIds(S), S)
<1> DEFINE N == Cardinality(S)
           w == SortedKeyIds(S)
<1>0. N \in Nat
  BY FS_CardinalityType
<1>1. HasSortedEnum(S)
  BY SortedEnumExists
<1>2. w \in [1..N -> S] /\ AdjacentSorted(w, N)
  BY <1>1 DEF HasSortedEnum, SortedKeyIds, AdjacentSorted
<1>3. /\ \A i, j \in 1..N : i < j => w[i] < w[j]
      /\ \A x \in S : \E i \in 1..N : w[i] = x
  BY <1>2, SortedEnumOnto
<1>4. \A i, j \in 1..N : w[i] = w[j] => i = j
  <2> SUFFICES ASSUME NEW i \in 1..N, NEW j \in 1..N, w[i] = w[j], i # j PROVE FALSE
    OBVIOUS
  <2>1. w[i] \in Nat /\ w[j] \in Nat
    BY <1>2
  <2>2. i < j \/ j < i
    BY <1>0
  <2> QED BY <1>3, <2>1, <2>2
<1>5. Elems(w) = S
  <2>1. Len(w) = N
    BY <1>0, <1>2
  <2> QED BY <1>2, <1>3, <2>1 DEF Elems
<1> QED BY <1>2, <1>4, <1>5 DEF ListOfSet

(***************************************************************************)
(* The inductive invariant of the round trip: IInv and the types, and for  *)
(* a list From wrote, that it names each id of `origin` exactly once, so   *)
(* the replace loop never meets an id it has seen.                         *)
(***************************************************************************)
RInv ==
  /\ IInv
  /\ TypeOK
  /\ ~foreign =>
       /\ status # "duplicate"
       /\ status # "encoding" => ListOfSet(wire, origin)

LEMMA InitRInv == Init => RInv
<1> SUFFICES ASSUME Init PROVE RInv
  OBVIOUS
<1>1. IInv
  BY InitIInv
<1>2. TypeOK
  <2>1. wire = <<>> /\ idx = 0 /\ origin \subseteq KeyIds /\ seen = {}
        /\ foreign = FALSE /\ status = "encoding"
    BY DEF Init
  <2>2. wire \in Seq(KeyIds) /\ Len(wire) = 0
    BY <2>1
  <2>3. idx \in 0..Len(wire)
    BY <2>1, <2>2
  <2>4. foreign \in BOOLEAN /\ status \in Results /\ seen \subseteq KeyIds
    BY <2>1 DEF Results
  <2> QED BY <2>1, <2>2, <2>3, <2>4 DEF TypeOK
<1>3. status = "encoding" /\ status # "duplicate"
  BY DEF Init
<1> QED BY <1>1, <1>2, <1>3 DEF RInv

LEMMA NextRInv == RInv /\ [Next]_vars => RInv'
<1> SUFFICES ASSUME RInv, [Next]_vars PROVE RInv'
  OBVIOUS
<1>0. IInv' /\ IInv /\ TypeOK
  BY NextIInv DEF RInv
<1>1. CASE RoleDefinitionFrom
  <2>1. /\ status = "encoding" /\ status' = "decoding" /\ wire' = SortedKeyIds(origin)
        /\ origin' = origin /\ foreign' = foreign /\ idx' = idx /\ seen' = seen
    BY <1>1 DEF RoleDefinitionFrom
  <2>2. origin \subseteq Nat /\ IsFiniteSet(origin)
    BY <1>0, FS_Subset DEF TypeOK
  <2>3. ListOfSet(wire', origin')
    BY <2>1, <2>2, SortedKeyIdsList
  <2>4. wire' \in Seq(KeyIds) /\ idx' \in 0..Len(wire')
    <3>1. Cardinality(origin) \in Nat
      BY <2>2, FS_CardinalityType
    <3>2. wire' \in [1..Cardinality(origin) -> KeyIds]
      BY <1>0, <2>1, <2>3 DEF ListOfSet, TypeOK
    <3>3. idx = 0
      BY <1>0, <2>1 DEF IInv
    <3> QED BY <2>1, <3>1, <3>2, <3>3
  <2> QED BY <1>0, <2>1, <2>3, <2>4 DEF RInv, TypeOK, Results
<1>2. CASE ReceiveForeign
  <2>1. /\ status = "encoding" /\ status' = "decoding" /\ wire' \in IdLists
        /\ foreign' = TRUE /\ origin' = origin /\ idx' = idx /\ seen' = seen
    BY <1>2 DEF ReceiveForeign
  <2>2. wire' \in Seq(KeyIds)
    BY <2>1 DEF IdLists
  <2>3. idx = 0
    BY <1>0, <2>1 DEF IInv
  <2> QED BY <1>0, <2>1, <2>2, <2>3 DEF RInv, TypeOK, Results
<1>3. CASE ReplaceNew
  <2>1. /\ status = "decoding" /\ status' = "decoding" /\ idx < Len(wire)
        /\ seen' = seen \cup {wire[idx + 1]} /\ idx' = idx + 1
        /\ UNCHANGED <<origin, wire, foreign>>
    BY <1>3 DEF ReplaceNew
  <2>2. wire[idx + 1] \in KeyIds
    BY <1>0, <2>1 DEF TypeOK
  <2>3. TypeOK'
    <3>1. idx' \in 0..Len(wire')
      BY <1>0, <2>1 DEF TypeOK
    <3>2. seen' \subseteq KeyIds
      BY <1>0, <2>1, <2>2 DEF TypeOK
    <3> QED BY <1>0, <2>1, <3>1, <3>2 DEF TypeOK
  <2>4. (~foreign => status # "duplicate" /\ (status # "encoding" => ListOfSet(wire, origin)))'
    BY <2>1 DEF RInv
  <2> QED BY <1>0, <2>3, <2>4 DEF RInv
<1>4. CASE ReplaceDuplicate
  <2>1. /\ status = "decoding" /\ status' = "duplicate" /\ idx < Len(wire)
        /\ wire[idx + 1] \in seen /\ idx' = idx + 1
        /\ UNCHANGED <<origin, wire, foreign, seen>>
    BY <1>4 DEF ReplaceDuplicate
  <2>2. ~foreign => FALSE
    <3> SUFFICES ASSUME ~foreign PROVE FALSE
      OBVIOUS
    <3>1. ListOfSet(wire, origin)
      BY <2>1 DEF RInv
    <3>2. Len(wire) = Cardinality(origin) /\ Cardinality(origin) \in Nat
          /\ \A i, j \in 1..Cardinality(origin) : wire[i] = wire[j] => i = j
      <4>1. IsFiniteSet(origin)
        BY <1>0, FS_Subset DEF TypeOK
      <4> QED BY <3>1, <4>1, FS_CardinalityType DEF ListOfSet
    <3>3. seen = Prefix(idx) /\ idx \in Nat
      BY <1>0, <2>1 DEF IInv
    <3>4. PICK i \in 1..idx : wire[i] = wire[idx + 1]
      BY <2>1, <3>3 DEF Prefix
    <3> QED BY <2>1, <3>2, <3>3, <3>4
  <2> QED BY <1>0, <2>1, <2>2 DEF RInv, TypeOK, Results
<1>5. CASE LoopEnd
  <2>1. /\ status = "decoding" /\ status' = "ok"
        /\ UNCHANGED <<origin, wire, foreign, idx, seen>>
    BY <1>5 DEF LoopEnd
  <2> QED BY <1>0, <2>1 DEF RInv, TypeOK, Results
<1>6. CASE UNCHANGED vars
  BY <1>0, <1>6 DEF vars, RInv, TypeOK
<1> QED BY <1>1, <1>2, <1>3, <1>4, <1>5, <1>6 DEF Next

(***************************************************************************)
(* For every finite set of numeric key ids and every list bound, the      *)
(* role-definition codec is well typed: the list From writes is a list of *)
(* key ids, and the TryFrom loop's cursor never passes its end.            *)
(***************************************************************************)
THEOREM RoleDefinitionTypeCorrect == Spec => []TypeOK
<1>1. Init => RInv
  BY InitRInv
<1>2. RInv /\ [Next]_vars => RInv'
  BY NextRInv
<1>3. RInv => TypeOK
  BY DEF RInv
<1> QED BY <1>1, <1>2, <1>3, PTL DEF Spec

(***************************************************************************)
(* Spec section 8 for role definitions, for every finite set of key ids:   *)
(* the sorted list From (lines 133-145) writes is never rejected by the    *)
(* replace loop of TryFrom (lines 147-165), and decodes to the very set    *)
(* that was encoded.                                                       *)
(***************************************************************************)
THEOREM RoleDefinitionRoundTrip == Spec => []EncodedRoundTrip
<1>1. Init => RInv
  BY InitRInv
<1>2. RInv /\ [Next]_vars => RInv'
  BY NextRInv
<1>3. RInv => EncodedRoundTrip
  <2> SUFFICES ASSUME RInv, ~foreign, status \in {"ok", "duplicate"}
               PROVE  status = "ok" /\ seen = origin
    BY DEF EncodedRoundTrip
  <2>1. status = "ok" /\ ListOfSet(wire, origin)
    BY DEF RInv
  <2>2. seen = Prefix(idx) /\ idx = Len(wire)
    BY <2>1 DEF RInv, IInv
  <2>3. Prefix(Len(wire)) = Elems(wire)
    BY DEF Prefix, Elems
  <2> QED BY <2>1, <2>2, <2>3 DEF ListOfSet
<1> QED BY <1>1, <1>2, <1>3, PTL DEF Spec

=============================================================================
