--------------------------- MODULE DelegationsCodec ---------------------------
(***************************************************************************)
(* The delegation codecs of src/tuf/src/pouf/pouf1/shims.rs, lines        *)
(* 382-488.  Encode (Delegations::from) turns every delegated role into   *)
(* its wire form with Delegation::from, which sorts its paths and key ids, *)
(* and then sorts the roles by name.  Decode (TryFrom<Delegations>) runs   *)
(* Delegation's TryFrom on the roles in document order, collecting into a  *)
(* Result<Vec<_>> that stops at the first error; each TryFrom collects the *)
(* key ids, then the paths, into a HashSet and fails when the set is       *)
(* smaller than the list.                                                  *)
(*                                                                         *)
(* The order of `roles` is the delegation search precedence.  Names, key   *)
(* ids and paths are numbers ordered as their Ord impls order them; the    *)
(* terminating flag and threshold are copied unchanged both ways and are   *)
(* left out, as is the `keys` map (DeserializeRejectDuplicates models it). *)
(* The in-memory role lists are those with distinct names.                 *)
(***************************************************************************)
EXTENDS Naturals, Sequences, FiniteSets, TLC

CONSTANTS
  Names,     \* delegated role names (MetadataPath)
  KeyIds,    \* key ids
  Paths,     \* target path patterns
  MaxRoles,  \* bound on the number of delegated roles
  MaxLen     \* bound on the length of a foreign keyids or paths list

ASSUME ConstantsAssumption ==
  /\ Names \subseteq Nat /\ KeyIds \subseteq Nat /\ Paths \subseteq Nat
  /\ MaxRoles \in Nat /\ MaxLen \in Nat

VARIABLES
  roles,     \* metadata::Delegations::roles() that was encoded
  wire,      \* the `roles` array the decoder reads
  foreign,   \* TRUE when that array was not written by Delegations::from
  decoded,   \* the Vec<metadata::Delegation> collected so far
  status     \* "encoding", "decoding", or the result of try_from

vars == <<roles, wire, foreign, decoded, status>>

Elems(s) == {s[i] : i \in 1..Len(s)}

SeqsUpTo(S, n) == UNION {[1..k -> S] : k \in 0..n}

\* The key-id and path HashSets of a role are finite.
FiniteSubsets(S) == {T \in SUBSET S : IsFiniteSet(T)}

Delegation == [name : Names, keyids : FiniteSubsets(KeyIds), paths : FiniteSubsets(Paths)]

WireDelegation ==
  [name : Names, keyids : SeqsUpTo(KeyIds, MaxLen), paths : SeqsUpTo(Paths, MaxLen)]

NamesDistinct(s) == \A i, j \in 1..Len(s) : s[i].name = s[j].name => i = j

(* The sorted Vec of a set of numbers (`v.sort()` after collecting).       *)
Sorted(S) ==
  CHOOSE s \in [1..Cardinality(S) -> S] :
    \A i \in 1..Cardinality(S) - 1 : s[i] < s[i + 1]

(* The order a HashSet of numbers may iterate in, here decreasing.         *)
HashOrder(S) ==
  CHOOSE s \in [1..Cardinality(S) -> S] :
    \A i \in 1..Cardinality(S) - 1 : s[i] > s[i + 1]

(* Mutant of DelegationFrom: the `.sort()` calls are dropped, so the lists *)
(* keep the HashSets' iteration order.                                     *)
DelegationFromUnsorted(d) ==
  [name |-> d.name, keyids |-> HashOrder(d.keyids), paths |-> HashOrder(d.paths)]

(* Delegation::from (lines 392-416).                                       *)
DelegationFrom(d) == [name |-> d.name, keyids |-> Sorted(d.keyids), paths |-> Sorted(d.paths)]

\* The reorderings of a list of length n.
Reorderings(n) == {q \in [1..n -> 1..n] : \A w \in 1..n : \E v \in 1..n : q[v] = w}

(* `roles.sort_by(|lhs, rhs| lhs.name.cmp(&rhs.name))` (line 462): the     *)
(* list reordered so that no name is greater than the one after it.        *)
SortByName(s) ==
  LET p == CHOOSE q \in Reorderings(Len(s)) :
             \A i \in 1..Len(s) - 1 : s[q[i]].name <= s[q[i + 1]].name
  IN  [i \in 1..Len(s) |-> s[p[i]]]

(***************************************************************************)
(* Two kinds of start: a validated Delegations value about to be encoded,  *)
(* or a decoder handed a `roles` array that some other writer produced     *)
(* (the bytes come from the network).                                      *)
(***************************************************************************)
Init ==
  \/ /\ roles \in {s \in SeqsUpTo(Delegation, MaxRoles) : NamesDistinct(s)}
     /\ wire = <<>>
     /\ foreign = FALSE
     /\ decoded = <<>>
     /\ status = "encoding"
  \/ /\ roles = <<>>
     /\ wire \in SeqsUpTo(WireDelegation, MaxRoles)
     /\ foreign = TRUE
     /\ decoded = <<>>
     /\ status = "decoding"

(***************************************************************************)
(* Delegations::from (lines 453-473): map Delegation::from, then           *)
(* `roles.sort_by(|lhs, rhs| lhs.name.cmp(&rhs.name))`.                    *)
(***************************************************************************)
DelegationsFrom ==
  /\ status = "encoding"
  /\ wire' = SortByName([i \in 1..Len(roles) |-> DelegationFrom(roles[i])])
  /\ status' = "decoding"
  /\ UNCHANGED <<roles, foreign, decoded>>

\* The wire delegation the next iteration of the collect reads.
NextRole == wire[Len(decoded) + 1]

(* Mutant of DecodeDelegation: the path list is not checked for repeats.   *)
DecodeDelegationPathsUnchecked ==
  /\ status = "decoding"
  /\ Len(decoded) < Len(wire)
  /\ Cardinality(Elems(NextRole.keyids)) = Len(NextRole.keyids)
  /\ decoded' = Append(decoded, [name |-> NextRole.name,
                                 keyids |-> Elems(NextRole.keyids),
                                 paths |-> Elems(NextRole.paths)])
  /\ UNCHANGED <<roles, wire, foreign, status>>

(* Mutant of DecodeDelegation: a copy-paste slip builds the path set from *)
(* the key-id list.                                                        *)
DecodeDelegationSwapped ==
  /\ status = "decoding"
  /\ Len(decoded) < Len(wire)
  /\ Cardinality(Elems(NextRole.keyids)) = Len(NextRole.keyids)
  /\ Cardinality(Elems(NextRole.paths)) = Len(NextRole.paths)
  /\ decoded' = Append(decoded, [name |-> NextRole.name,
                                 keyids |-> Elems(NextRole.keyids),
                                 paths |-> Elems(NextRole.keyids)])
  /\ UNCHANGED <<roles, wire, foreign, status>>

(***************************************************************************)
(* TryFrom<Delegation> (lines 418-444) succeeds: both lists are as long as *)
(* their HashSets; metadata::Delegation::new and the collect goes on.      *)
(***************************************************************************)
DecodeDelegation ==
  /\ status = "decoding"
  /\ Len(decoded) < Len(wire)
  /\ Cardinality(Elems(NextRole.keyids)) = Len(NextRole.keyids)
  /\ Cardinality(Elems(NextRole.paths)) = Len(NextRole.paths)
  /\ decoded' = Append(decoded, [name |-> NextRole.name,
                                 keyids |-> Elems(NextRole.keyids),
                                 paths |-> Elems(NextRole.paths)])
  /\ UNCHANGED <<roles, wire, foreign, status>>

(* "Non-unique delegation key IDs." ends the collect.                      *)
DuplicateKeyIds ==
  /\ status = "decoding"
  /\ Len(decoded) < Len(wire)
  /\ Cardinality(Elems(NextRole.keyids)) # Len(NextRole.keyids)
  /\ status' = "duplicate_key_ids"
  /\ UNCHANGED <<roles, wire, foreign, decoded>>

(* "Non-unique delegation paths." ends the collect.                        *)
DuplicatePaths ==
  /\ status = "decoding"
  /\ Len(decoded) < Len(wire)
  /\ Cardinality(Elems(NextRole.keyids)) = Len(NextRole.keyids)
  /\ Cardinality(Elems(NextRole.paths)) # Len(NextRole.paths)
  /\ status' = "duplicate_paths"
  /\ UNCHANGED <<roles, wire, foreign, decoded>>

(* Every role decoded: metadata::Delegations::new(keys, roles).            *)
DecodeEnd ==
  /\ status = "decoding"
  /\ Len(decoded) = Len(wire)
  /\ status' = "ok"
  /\ UNCHANGED <<roles, wire, foreign, decoded>>

Next ==
  \/ DelegationsFrom
  \/ DecodeDelegation
  \/ DuplicateKeyIds
  \/ DuplicatePaths
  \/ DecodeEnd

Spec == Init /\ [][Next]_vars

-----------------------------------------------------------------------------
TypeOK ==
  /\ roles \in Seq(Delegation)
  /\ wire \in Seq([name : Names, keyids : Seq(KeyIds), paths : Seq(Paths)])
  /\ foreign \in BOOLEAN
  /\ decoded \in Seq(Delegation)
  /\ Len(decoded) <= Len(wire)
  /\ status \in {"encoding", "decoding", "ok", "duplicate_key_ids", "duplicate_paths"}

\* s lists the members of the set S, each smaller than the next.
SortedListOf(s, S) == Elems(s) = S /\ \A i \in 1..Len(s) - 1 : s[i] < s[i + 1]

\* The array entry w is what the role d is written as.
Writes(w, d) ==
  /\ w.name = d.name
  /\ SortedListOf(w.keyids, d.keyids)
  /\ SortedListOf(w.paths, d.paths)

(***************************************************************************)
(* Spec section 8, deterministic ordering: what Delegations::from writes   *)
(* depends only on the set of delegated roles, not on the order they are   *)
(* held in, nor on the iteration order of their HashSets: one entry per    *)
(* role, the roles by strictly increasing name, each with its key ids and  *)
(* its paths listed in increasing order.                                   *)
(***************************************************************************)
EncodingCanonical ==
  status # "encoding" /\ ~foreign =>
    /\ Len(wire) = Len(roles)
    /\ \A i \in 1..Len(wire) - 1 : wire[i].name < wire[i + 1].name
    /\ \A i \in 1..Len(wire) : \E d \in Elems(roles) : Writes(wire[i], d)
    /\ \A d \in Elems(roles) : \E i \in 1..Len(wire) : Writes(wire[i], d)

(***************************************************************************)
(* Decode keeps what the document says: a successful decode holds one      *)
(* delegation per wire entry, in document order, and each of them has      *)
(* exactly as many key ids and paths as its lists name (a repeated key id  *)
(* cannot count twice towards a threshold, nor a repeated pattern widen or *)
(* hide a delegation).                                                     *)
(***************************************************************************)
DecodeFaithful ==
  status = "ok" =>
    /\ Len(decoded) = Len(wire)
    /\ \A i \in 1..Len(wire) :
         /\ decoded[i].name = wire[i].name
         /\ decoded[i].keyids = Elems(wire[i].keyids)
         /\ Cardinality(decoded[i].keyids) = Len(wire[i].keyids)
         /\ decoded[i].paths = Elems(wire[i].paths)
         /\ Cardinality(decoded[i].paths) = Len(wire[i].paths)

(***************************************************************************)
(* Spec section 8, round trip, together with section 4.6 (roles order is   *)
(* the delegation search precedence): decoding what Delegations::from      *)
(* wrote gives back the delegated roles in their original order.           *)
(***************************************************************************)
RoundTripKeepsPrecedence == status = "ok" /\ ~foreign => decoded = roles

=============================================================================
