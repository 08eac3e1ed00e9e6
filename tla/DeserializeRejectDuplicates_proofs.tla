---------------- MODULE DeserializeRejectDuplicates_proofs ----------------
(***************************************************************************)
(* Proofs about the duplicate-rejecting map decoder, for every set of keys *)
(* and values and every bound on the size of the wire object.              *)
(***************************************************************************)
EXTENDS DeserializeRejectDuplicates, TLAPS

(***************************************************************************)
(* The inductive invariant.  DecodeExact speaks of the whole wire object;  *)
(* what visit_map knows in the middle of its loop is a fact about the      *)
(* entries it has read so far: they are distinct, well formed and in the   *)
(* map while the loop runs, and the entry that ended the loop early is the *)
(* one that broke the rule.                                                *)
(***************************************************************************)
IInv ==
  /\ TypeOK
  /\ status \in {"visiting", "ok"} =>
       KeysDistinct(pos) /\ AllWellFormed(pos) /\ MapHolds(pos)
  /\ status = "ok" => pos = Len(wire)
  /\ status = "duplicate" => ~KeysDistinct(pos)
  /\ status = "malformed" => pos < Len(wire) /\ wire[pos + 1].val = Malformed

USE ConstantsAssumption

(* A repeated key among the first n entries is one among the first m >= n. *)
LEMMA DuplicateStays ==
  ASSUME NEW n \in Nat, NEW m \in Nat, n <= m, ~KeysDistinct(n)
  PROVE  ~KeysDistinct(m)
BY DEF KeysDistinct

(* Each step keeps the decoder well typed.                                *)
LEMMA TypeStep == TypeOK /\ [Next]_vars => TypeOK'
<1> SUFFICES ASSUME TypeOK, [Next]_vars PROVE TypeOK'
  OBVIOUS
<1>1. CASE InsertNew \/ InsertDuplicate
  <2>1. /\ pos \in Nat /\ pos + 1 \in 1..Len(wire)
        /\ pos' = pos + 1 /\ wire' = wire
        /\ map' = [map EXCEPT ![Current.key] = Current.val]
        /\ status' \in Results /\ Current.val # Malformed
    BY <1>1 DEF TypeOK, InsertNew, InsertDuplicate, Results
  <2>2. Current \in Entry
    BY <2>1 DEF TypeOK, Current
  <2>3. Current.val \in Values
    BY <2>1, <2>2 DEF Entry
  <2> QED BY <2>1, <2>2, <2>3 DEF TypeOK, Entry
<1>2. CASE EntryMalformed \/ EndOfMap
  BY <1>2 DEF TypeOK, EntryMalformed, EndOfMap, Results
<1>3. CASE UNCHANGED vars
  BY <1>3 DEF TypeOK, vars
<1> QED BY <1>1, <1>2, <1>3 DEF Next

(* visit_map is well typed in every reachable state, for every key and     *)
(* value set and object bound: the cursor stays within the object and the *)
(* map only ever holds decoded values.                                     *)
THEOREM TypeCorrect == Spec => []TypeOK
<1>1. Init => TypeOK
  BY DEF Init, TypeOK, WireObjects, EmptyMap, Results
<1>2. TypeOK /\ [Next]_vars => TypeOK'
  BY TypeStep
<1>3. QED BY <1>1, <1>2, PTL DEF Spec

LEMMA InitIInv == Init => IInv
BY DEF Init, IInv, TypeOK, WireObjects, EmptyMap, Results, KeysDistinct,
       AllWellFormed, MapHolds

LEMMA NextIInv == IInv /\ [Next]_vars => IInv'
<1> SUFFICES ASSUME IInv, [Next]_vars PROVE IInv'
  OBVIOUS
<1>0. TypeOK'
  BY TypeStep DEF IInv
<1>1. CASE InsertNew
  <2> USE <1>1
  <2>1. /\ status = "visiting" /\ status' = "visiting"
        /\ KeysDistinct(pos) /\ AllWellFormed(pos) /\ MapHolds(pos)
    BY DEF InsertNew, IInv
  <2> DEFINE e == wire[pos + 1]
  <2>2. /\ pos \in Nat /\ pos + 1 <= Len(wire) /\ pos' = pos + 1 /\ wire' = wire
        /\ e \in Entry /\ e.val # Malformed /\ map[e.key] = Absent
        /\ map' = [map EXCEPT ![e.key] = e.val]
    BY DEF InsertNew, Current, IInv, TypeOK
  <2>3. \A i \in 1..pos : wire[i].key # e.key
    <3> SUFFICES ASSUME NEW i \in 1..pos, wire[i].key = e.key PROVE FALSE
      OBVIOUS
    <3>1. wire[i] \in Entry
      BY <2>2 DEF IInv, TypeOK
    <3>2. wire[i].val \in Values
      BY <2>1, <3>1 DEF AllWellFormed, Entry
    <3>3. map[wire[i].key] = wire[i].val
      BY <2>1 DEF MapHolds
    <3> QED BY <2>2, <3>2, <3>3
  <2>4. KeysDistinct(pos)'
    <3> SUFFICES ASSUME NEW i \in 1..pos + 1, NEW j \in 1..pos + 1,
                        wire[i].key = wire[j].key
                 PROVE  i = j
      BY <2>2 DEF KeysDistinct
    <3>1. CASE i <= pos /\ j <= pos
      BY <2>1, <2>2, <3>1 DEF KeysDistinct
    <3>2. CASE i = pos + 1 \/ j = pos + 1
      BY <2>2, <2>3, <3>2
    <3> QED BY <2>2, <3>1, <3>2
  <2>5. AllWellFormed(pos)'
    BY <2>1, <2>2 DEF AllWellFormed
  <2>6. MapHolds(pos)'
    BY <2>1, <2>2, <2>3 DEF MapHolds, IInv, TypeOK, Entry
  <2> QED BY <1>0, <2>1, <2>4, <2>5, <2>6 DEF IInv
<1>2. CASE InsertDuplicate
  <2> USE <1>2
  <2>1. /\ status = "visiting" /\ MapHolds(pos)
        /\ pos \in Nat /\ pos + 1 <= Len(wire) /\ pos' = pos + 1 /\ wire' = wire
        /\ map[wire[pos + 1].key] # Absent /\ status' = "duplicate"
    BY DEF InsertDuplicate, Current, IInv, TypeOK
  <2>2. wire[pos + 1] \in Entry
    BY <2>1 DEF IInv, TypeOK
  <2>3. PICK i \in 1..pos : wire[i].key = wire[pos + 1].key
    BY <2>1, <2>2 DEF MapHolds, Entry
  <2>4. ~KeysDistinct(pos)'
    BY <2>1, <2>3 DEF KeysDistinct
  <2> QED BY <1>0, <2>1, <2>4 DEF IInv
<1>3. CASE EntryMalformed
  BY <1>0, <1>3 DEF EntryMalformed, Current, IInv, KeysDistinct,
                   AllWellFormed, MapHolds
<1>4. CASE EndOfMap
  BY <1>0, <1>4 DEF EndOfMap, IInv, KeysDistinct, AllWellFormed, MapHolds
<1>5. CASE UNCHANGED vars
  BY <1>0, <1>5 DEF vars, IInv, KeysDistinct, AllWellFormed, MapHolds
<1> QED BY <1>1, <1>2, <1>3, <1>4, <1>5 DEF Next

LEMMA IInvImpliesDecodeExact == IInv => DecodeExact
<1> SUFFICES ASSUME IInv PROVE DecodeExact
  OBVIOUS
<1>1. pos \in Nat /\ Len(wire) \in Nat /\ pos <= Len(wire)
  BY DEF IInv, TypeOK
<1>2. status = "ok" =>
        KeysDistinct(Len(wire)) /\ AllWellFormed(Len(wire)) /\ MapHolds(Len(wire))
  BY DEF IInv
<1>3. status = "duplicate" => ~KeysDistinct(Len(wire))
  BY <1>1, DuplicateStays DEF IInv
<1>4. status = "malformed" => ~AllWellFormed(Len(wire))
  BY <1>1 DEF IInv, AllWellFormed
<1> QED BY <1>2, <1>3, <1>4 DEF DecodeExact

(***************************************************************************)
(* visit_map returns Ok exactly for duplicate-free, well-formed objects,   *)
(* with every entry in the BTreeMap, and reports each error only when the  *)
(* object really has it, whatever the keys, values and object size.        *)
(***************************************************************************)
THEOREM DecodeExactness == Spec => []DecodeExact
<1>1. Init => IInv
  BY InitIInv
<1>2. IInv /\ [Next]_vars => IInv'
  BY NextIInv
<1>3. IInv => DecodeExact
  BY IInvImpliesDecodeExact
<1> QED BY <1>1, <1>2, <1>3, PTL DEF Spec

=============================================================================
