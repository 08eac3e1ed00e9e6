------------- MODULE DeserializeRejectDuplicates_refinement -------------
(***************************************************************************)
(* The visit_map loop implements the one-step decoder DecodeMapAbstract    *)
(* under the mapping DecodedMap, for every key and value set and object    *)
(* size (safety part; TLC checks the fairness part on the instance of      *)
(* MCDeserializeRejectDuplicatesRefines.cfg).                              *)
(***************************************************************************)
EXTENDS DeserializeRejectDuplicates_proofs

USE ConstantsAssumption

(* When every entry is held under its key and the map holds nothing else,  *)
(* the map is the map of the entries.                                      *)
LEMMA MapHoldsIsMapOf ==
  ASSUME TypeOK, MapHolds(Len(wire))
  PROVE  map = Abstract!MapOf
<1> DEFINE W == 1..Len(wire)
<1>1. ASSUME NEW k \in Keys, \E i \in W : wire[i].key = k
      PROVE  map[k] = wire[CHOOSE i \in W : wire[i].key = k].val
  <2> DEFINE c == CHOOSE i \in W : wire[i].key = k
  <2>1. c \in W /\ wire[c].key = k
    BY <1>1
  <2> QED BY <2>1 DEF MapHolds
<1>2. ASSUME NEW k \in Keys, ~\E i \in W : wire[i].key = k
      PROVE  map[k] = Absent
  BY <1>2 DEF MapHolds
<1> QED BY <1>1, <1>2 DEF TypeOK, Abstract!MapOf

(* An empty wire object is one of the objects the abstract decoder starts  *)
(* from, and so is every other object of at most MaxEntries entries.       *)
LEMMA InitRefined == Init => Abstract!Init
BY DEF Init, Abstract!Init, WireObjects, Entry, Abstract!Entry, DecodedMap,
       EmptyMap, Abstract!EmptyMap

(* Each loop iteration either leaves what the caller sees unchanged or is  *)
(* the one-step decode.                                                    *)
LEMMA NextRefined ==
  IInv /\ IInv' /\ [Next]_vars => [Abstract!Next]_Abstract!vars
<1> SUFFICES ASSUME IInv, IInv', [Next]_vars
             PROVE  [Abstract!Next]_Abstract!vars
  OBVIOUS
<1>0. pos \in Nat /\ wire \in Seq(Entry)
  BY DEF IInv, TypeOK
<1>1. CASE InsertNew
  BY <1>1 DEF InsertNew, Abstract!vars, DecodedMap
<1>2. CASE InsertDuplicate
  <2>0. (~KeysDistinct(pos))' /\ wire' = wire /\ pos' = pos + 1 /\ pos < Len(wire)
    BY <1>2 DEF IInv, InsertDuplicate
  <2>1. ~KeysDistinct(pos + 1) /\ pos + 1 <= Len(wire)
    BY <1>0, <2>0 DEF KeysDistinct
  <2>2. ~Abstract!Distinct
    BY <1>0, <2>1 DEF KeysDistinct, Abstract!Distinct
  <2> QED BY <1>2, <2>2 DEF InsertDuplicate, DecodedMap, Abstract!Next, Abstract!Decode
<1>3. CASE EntryMalformed
  <2>1. ~Abstract!WellFormed
    BY <1>0, <1>3 DEF EntryMalformed, Current, Abstract!WellFormed
  <2> QED BY <1>3, <2>1 DEF EntryMalformed, DecodedMap, Abstract!Next, Abstract!Decode
<1>4. CASE EndOfMap
  <2>1. KeysDistinct(Len(wire)) /\ AllWellFormed(Len(wire)) /\ MapHolds(Len(wire))
    BY <1>4 DEF EndOfMap, IInv
  <2>2. Abstract!Distinct /\ Abstract!WellFormed
    BY <2>1 DEF KeysDistinct, AllWellFormed, Abstract!Distinct, Abstract!WellFormed
  <2>3. map = Abstract!MapOf
    BY <2>1, MapHoldsIsMapOf DEF IInv
  <2>4. DecodedMap' = map
    BY <1>4 DEF EndOfMap, DecodedMap
  <2> QED BY <1>4, <2>2, <2>3, <2>4 DEF EndOfMap, Abstract!Next, Abstract!Decode, Abstract!MapOf
<1>5. CASE UNCHANGED vars
  BY <1>5 DEF vars, Abstract!vars, DecodedMap
<1> QED BY <1>1, <1>2, <1>3, <1>4, <1>5 DEF Next

(***************************************************************************)
(* visit_map refines the one-step decoder: every behaviour of the loop,    *)
(* seen through what the caller can observe (the object, the returned map  *)
(* and the result), is a behaviour of DecodeMapAbstract's safety part,     *)
(* whatever the keys, values and object size.                              *)
(***************************************************************************)
THEOREM LoopRefinesDecodeMap == Spec => Abstract!SafeSpec
<1>1. Init => Abstract!Init
  BY InitRefined
<1>2. IInv /\ IInv' /\ [Next]_vars => [Abstract!Next]_Abstract!vars
  BY NextRefined
<1>3. Spec => []IInv
  BY InitIInv, NextIInv, PTL DEF Spec
<1> QED BY <1>1, <1>2, <1>3, InitIInv, PTL DEF Spec, Abstract!SafeSpec

=============================================================================
