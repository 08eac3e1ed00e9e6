------------------------- MODULE DecodeMapAbstract -------------------------
(***************************************************************************)
(* What deserialize_reject_duplicates promises its callers (the `keys`     *)
(* maps of root and delegations, the `meta` map of snapshot), in one       *)
(* step: a wire object decodes to the map of its entries exactly when its  *)
(* keys are distinct and its values deserialize; otherwise the decode      *)
(* fails with an error the object really has.  When an object has both a   *)
(* repeated key and a bad value, either error may be reported: which one   *)
(* is the business of the loop that DeserializeRejectDuplicates models.    *)
(***************************************************************************)
EXTENDS Naturals, Sequences

CONSTANTS Keys, Values, Malformed, Absent, MaxEntries

VARIABLES
  wire,     \* the entries of the JSON object, in document order
  map,      \* the decoded BTreeMap, once the decode returned Ok
  status    \* "visiting" until the decode returns, then its result

vars == <<wire, map, status>>

Entry == [key : Keys, val : Values \cup {Malformed}]

EmptyMap == [k \in Keys |-> Absent]

Distinct == \A i, j \in 1..Len(wire) : wire[i].key = wire[j].key => i = j

WellFormed == \A i \in 1..Len(wire) : wire[i].val # Malformed

(* The map of the entries: each key to the value it is written with.       *)
MapOf ==
  [k \in Keys |->
     IF \E i \in 1..Len(wire) : wire[i].key = k
       THEN wire[CHOOSE i \in 1..Len(wire) : wire[i].key = k].val
       ELSE Absent]

Init ==
  /\ wire \in UNION {[1..n -> Entry] : n \in 0..MaxEntries}
  /\ map = EmptyMap
  /\ status = "visiting"

Decode ==
  /\ status = "visiting"
  /\ \/ Distinct /\ WellFormed /\ status' = "ok" /\ map' = MapOf
     \/ ~Distinct /\ status' = "duplicate" /\ UNCHANGED map
     \/ ~WellFormed /\ status' = "malformed" /\ UNCHANGED map
  /\ UNCHANGED wire

Next == Decode

SafeSpec == Init /\ [][Next]_vars

(* A decode that has started returns.                                      *)
Spec == SafeSpec /\ WF_vars(Next)

=============================================================================
