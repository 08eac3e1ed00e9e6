------------------------- MODULE RoleDefinitionCodec -------------------------
(***************************************************************************)
(* The role-definition codec of src/tuf/src/pouf/pouf1/shims.rs, lines    *)
(* 124-165: From<&metadata::RoleDefinition> writes the key ids of a       *)
(* validated role definition as a sorted list, and TryFrom reads a        *)
(* `keyids` list back, inserting each id into a HashSet with replace and  *)
(* failing on the first id it has already seen.                           *)
(*                                                                         *)
(* `origin` is the key-id set of a validated role definition.  The list   *)
(* the decoder reads is either the one From wrote for it or, since the     *)
(* bytes come from the network, any list of at most MaxLen ids             *)
(* (`foreign`).  One iteration of the TryFrom loop is one step.  Key ids   *)
(* are numbers so that `key_ids.sort()` has an order to follow; the        *)
(* threshold is carried through unchanged by both directions and is left   *)
(* out.                                                                    *)
(***************************************************************************)
EXTENDS Naturals, Sequences, FiniteSets

CONSTANTS
  KeyIds,   \* the key ids that occur, ordered as KeyId's Ord orders them
  MaxLen    \* bound on the length of a foreign `keyids` list

ASSUME ConstantsAssumption ==
  /\ KeyIds \subseteq Nat
  /\ IsFiniteSet(KeyIds)
  /\ MaxLen \in Nat

VARIABLES
  origin,   \* key ids of the in-memory RoleDefinition that was encoded
  wire,     \* the `keyids` list the decoder reads
  foreign,  \* TRUE when that list was not written by From
  idx,      \* ids the TryFrom loop has consumed
  seen,     \* the HashSet being built
  status    \* "encoding", "decoding", or the result of try_from

vars == <<origin, wire, foreign, idx, seen, status>>

Results == {"encoding", "decoding", "ok", "duplicate"}

IdLists == UNION {[1..n -> KeyIds] : n \in 0..MaxLen}

\* The elements of a list.
Elems(s) == {s[i] : i \in 1..Len(s)}

(***************************************************************************)
(* The in-memory RoleDefinition holds a HashSet of key ids, so any subset  *)
(* of KeyIds is a state the program can start from.                        *)
(***************************************************************************)
Init ==
  /\ origin \in SUBSET KeyIds
  /\ wire = <<>>
  /\ foreign = FALSE
  /\ idx = 0
  /\ seen = {}
  /\ status = "encoding"

(***************************************************************************)
(* From: collect the set into a Vec and sort it (lines 133-145).           *)
(***************************************************************************)
SortedKeyIds(S) ==
  CHOOSE s \in [1..Cardinality(S) -> S] :
    \A i \in 1..Cardinality(S) - 1 : s[i] < s[i + 1]

RoleDefinitionFrom ==
  /\ status = "encoding"
  /\ wire' = SortedKeyIds(origin)
  /\ status' = "decoding"
  /\ UNCHANGED <<origin, foreign, idx, seen>>

(* The decoder is handed a list some other writer produced.                *)
ReceiveForeign ==
  /\ status = "encoding"
  /\ wire' \in IdLists
  /\ foreign' = TRUE
  /\ status' = "decoding"
  /\ UNCHANGED <<origin, idx, seen>>

(* Mutant of ReplaceDuplicate: HashSet::insert whose result is ignored, so *)
(* a repeated id is absorbed silently.                                     *)
ReplaceDuplicateIgnored ==
  /\ status = "decoding"
  /\ idx < Len(wire)
  /\ wire[idx + 1] \in seen
  /\ idx' = idx + 1
  /\ UNCHANGED <<origin, wire, foreign, seen, status>>

(* Mutant of ReplaceNew: the id is inserted into a copy of the set (a      *)
(* `clone()` before `replace`), so the HashSet being built never grows.    *)
ReplaceNewDropped ==
  /\ status = "decoding"
  /\ idx < Len(wire)
  /\ wire[idx + 1] \notin seen
  /\ idx' = idx + 1
  /\ UNCHANGED <<origin, wire, foreign, seen, status>>

(***************************************************************************)
(* TryFrom loop, `key_ids.replace(key_id)` returns None: the id is new.    *)
(***************************************************************************)
ReplaceNew ==
  /\ status = "decoding"
  /\ idx < Len(wire)
  /\ wire[idx + 1] \notin seen
  /\ seen' = seen \cup {wire[idx + 1]}
  /\ idx' = idx + 1
  /\ UNCHANGED <<origin, wire, foreign, status>>

(***************************************************************************)
(* replace returns Some(old_key_id): Err(MetadataRoleHasDuplicateKeyId).   *)
(***************************************************************************)
ReplaceDuplicate ==
  /\ status = "decoding"
  /\ idx < Len(wire)
  /\ wire[idx + 1] \in seen
  /\ idx' = idx + 1
  /\ status' = "duplicate"
  /\ UNCHANGED <<origin, wire, foreign, seen>>

(* Mutant of LoopEnd: the loop counts one iteration past the last id.    *)
LoopEndOverrun ==
  /\ status = "decoding"
  /\ idx = Len(wire)
  /\ idx' = idx + 1
  /\ status' = "ok"
  /\ UNCHANGED <<origin, wire, foreign, seen>>

(***************************************************************************)
(* The loop ends: metadata::RoleDefinition::new(threshold, key_ids).       *)
(***************************************************************************)
LoopEnd ==
  /\ status = "decoding"
  /\ idx = Len(wire)
  /\ status' = "ok"
  /\ UNCHANGED <<origin, wire, foreign, idx, seen>>

Next ==
  \/ RoleDefinitionFrom
  \/ ReceiveForeign
  \/ ReplaceNew
  \/ ReplaceDuplicate
  \/ LoopEnd

Spec == Init /\ [][Next]_vars

-----------------------------------------------------------------------------
TypeOK ==
  /\ origin \subseteq KeyIds
  /\ wire \in Seq(KeyIds)
  /\ foreign \in BOOLEAN
  /\ idx \in 0..Len(wire)
  /\ seen \subseteq KeyIds
  /\ status \in Results

(***************************************************************************)
(* Threshold counting is sound: a decoded role definition has exactly as   *)
(* many distinct key ids as the `keyids` list names, so repeating an id    *)
(* cannot make a threshold look met by more keys than there are.           *)
(***************************************************************************)
KeyIdsCounted ==
  status = "ok" => seen = Elems(wire) /\ Cardinality(seen) = Len(wire)

(***************************************************************************)
(* Spec section 8, round trip: a list that From wrote is never rejected    *)
(* and decodes to the very set that was encoded.                           *)
(***************************************************************************)
EncodedRoundTrip ==
  ~foreign /\ status \in {"ok", "duplicate"} => status = "ok" /\ seen = origin

=============================================================================
