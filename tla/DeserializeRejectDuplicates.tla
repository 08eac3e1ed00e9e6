------------------- MODULE DeserializeRejectDuplicates -------------------
(***************************************************************************)
(* The duplicate-rejecting map decoder of src/tuf/src/pouf/pouf1/shims.rs *)
(* (module deserialize_reject_duplicates, lines 567-612).  serde hands    *)
(* BTreeVisitor::visit_map the entries of a JSON object one at a time in  *)
(* document order; each entry is deserialized by access.next_entry()?,     *)
(* inserted into a BTreeMap, and the decode fails the moment insert       *)
(* returns the value of an earlier entry with the same key.               *)
(*                                                                         *)
(* The JSON object is `wire`, a sequence of entries chosen in Init among   *)
(* every object of at most MaxEntries entries; one loop iteration of       *)
(* visit_map is one step.  The BTreeMap is `map`, a function from Keys to *)
(* Values with Absent for a key it does not hold.                          *)
(***************************************************************************)
EXTENDS Naturals, Sequences

CONSTANTS
  Keys,        \* map keys as the wire holds them (key ids, metadata paths)
  Values,      \* values that deserialize successfully
  Malformed,   \* a value next_entry() fails to deserialize
  Absent,      \* BTreeMap::get returns None
  MaxEntries   \* bound on the number of entries of the wire object

ASSUME ConstantsAssumption ==
  /\ MaxEntries \in Nat
  /\ Malformed \notin Values
  /\ Absent \notin Values \cup {Malformed}

VARIABLES
  wire,     \* the entries of the JSON object, in document order
  pos,      \* number of entries next_entry() has returned so far
  map,      \* the BTreeMap being built
  status    \* "visiting" inside the while loop, else the result returned

vars == <<wire, pos, map, status>>

Entry == [key : Keys, val : Values \cup {Malformed}]

WireObjects == UNION {[1..n -> Entry] : n \in 0..MaxEntries}

EmptyMap == [k \in Keys |-> Absent]

Results == {"visiting", "ok", "duplicate", "malformed"}

(***************************************************************************)
(* visit_map: `let mut map = BTreeMap::new();` before the loop.            *)
(***************************************************************************)
Init ==
  /\ wire \in WireObjects
  /\ pos = 0
  /\ map = EmptyMap
  /\ status = "visiting"

\* The entry next_entry() reads in the current iteration.
Current == wire[pos + 1]

(* Mutant of InsertNew: the entry is stored without the `?` on            *)
(* next_entry(), so a value that failed to deserialize reaches the map.    *)
InsertNewUnchecked ==
  /\ status = "visiting"
  /\ pos < Len(wire)
  /\ map[Current.key] = Absent
  /\ map' = [map EXCEPT ![Current.key] = Current.val]
  /\ pos' = pos + 1
  /\ UNCHANGED <<wire, status>>

(***************************************************************************)
(* One iteration whose entry deserializes and whose key is new:           *)
(* map.insert returns None and the loop continues.                         *)
(***************************************************************************)
InsertNew ==
  /\ status = "visiting"
  /\ pos < Len(wire)
  /\ Current.val # Malformed
  /\ map[Current.key] = Absent
  /\ map' = [map EXCEPT ![Current.key] = Current.val]
  /\ pos' = pos + 1
  /\ UNCHANGED <<wire, status>>

(* Mutant of InsertDuplicate: serde's default map decoding, where a        *)
(* repeated key silently replaces the earlier value (last write wins).     *)
InsertDuplicateLastWriteWins ==
  /\ status = "visiting"
  /\ pos < Len(wire)
  /\ Current.val # Malformed
  /\ map[Current.key] # Absent
  /\ map' = [map EXCEPT ![Current.key] = Current.val]
  /\ pos' = pos + 1
  /\ UNCHANGED <<wire, status>>

(***************************************************************************)
(* One iteration whose key is already in the map: insert overwrites the    *)
(* old value and returns it, and visit_map returns                         *)
(* Err("Cannot have duplicate keys").                                      *)
(***************************************************************************)
InsertDuplicate ==
  /\ status = "visiting"
  /\ pos < Len(wire)
  /\ Current.val # Malformed
  /\ map[Current.key] # Absent
  /\ map' = [map EXCEPT ![Current.key] = Current.val]
  /\ pos' = pos + 1
  /\ status' = "duplicate"
  /\ UNCHANGED wire

(***************************************************************************)
(* next_entry() fails to deserialize the value; `?` returns its error.     *)
(***************************************************************************)
EntryMalformed ==
  /\ status = "visiting"
  /\ pos < Len(wire)
  /\ Current.val = Malformed
  /\ status' = "malformed"
  /\ UNCHANGED <<wire, pos, map>>

(***************************************************************************)
(* next_entry() returns None: the loop ends and visit_map returns Ok(map). *)
(***************************************************************************)
EndOfMap ==
  /\ status = "visiting"
  /\ pos = Len(wire)
  /\ status' = "ok"
  /\ UNCHANGED <<wire, pos, map>>

Next == InsertNew \/ InsertDuplicate \/ EntryMalformed \/ EndOfMap

Spec == Init /\ [][Next]_vars

(***************************************************************************)
(* visit_map runs on the thread that called the deserializer and keeps     *)
(* stepping while it has an entry to read or a result to return, so the    *)
(* loop is weakly fair.                                                    *)
(***************************************************************************)
FairSpec == Spec /\ WF_vars(Next)

-----------------------------------------------------------------------------
(* Facts about the first n entries of the wire object.                     *)

KeysDistinct(n) == \A i, j \in 1..n : wire[i].key = wire[j].key => i = j

AllWellFormed(n) == \A i \in 1..n : wire[i].val # Malformed

(* map holds exactly the first n entries, each under its own key.          *)
MapHolds(n) ==
  /\ \A i \in 1..n : map[wire[i].key] = wire[i].val
  /\ \A k \in Keys : map[k] # Absent => \E i \in 1..n : wire[i].key = k

TypeOK ==
  /\ wire \in Seq(Entry)
  /\ pos \in 0..Len(wire)
  /\ map \in [Keys -> Values \cup {Absent}]
  /\ status \in Results

(***************************************************************************)
(* The decoder is exact: it returns Ok only for an object whose keys are   *)
(* pairwise distinct and whose values all deserialize, and the BTreeMap it *)
(* returns holds every entry under its own key (no entry lost to a later   *)
(* one, as serde's default last-write-wins map decoding would); it         *)
(* reports a duplicate only for an object that has a repeated key, and a   *)
(* deserialization error only for one with a malformed value.              *)
(***************************************************************************)
DecodeExact ==
  /\ status = "ok" =>
       KeysDistinct(Len(wire)) /\ AllWellFormed(Len(wire)) /\ MapHolds(Len(wire))
  /\ status = "duplicate" => ~KeysDistinct(Len(wire))
  /\ status = "malformed" => ~AllWellFormed(Len(wire))

-----------------------------------------------------------------------------
(***************************************************************************)
(* The loop implements the one-step decoder of DecodeMapAbstract.  The     *)
(* BTreeMap is visible to the caller only once visit_map returns Ok;       *)
(* before that, and after an error, the caller holds no map.              *)
(***************************************************************************)
DecodedMap == IF status = "ok" THEN map ELSE EmptyMap

Abstract == INSTANCE DecodeMapAbstract WITH map <- DecodedMap

(***************************************************************************)
(* visit_map returns Ok(map) with exactly the map of the object's entries  *)
(* when the object has distinct keys and well-formed values, and an error  *)
(* the object really has otherwise; it always returns.                     *)
(***************************************************************************)
ImplementsDecodeMap == Abstract!Spec

=============================================================================
