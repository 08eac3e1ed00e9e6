# Formal model of the TUF metadata wire codec (rust-tuf `pouf1/shims.rs`)

This directory holds TLA+ modules of the wire-format codec that rust-tuf uses
to turn signed TUF metadata (root, timestamp, snapshot, targets, delegations)
into its canonical JSON form and back. It also holds the TLC configurations
that model-check the modules and the TLAPS proofs about them. All of the
source is in one file, `src/tuf/src/pouf/pouf1/shims.rs`. In this README a
line number `L` means that file.

## 1. Inventory

### The system

The codec is a set of *shim* structs, one for each wire object. Each shim has
two conversions:

* `From` (encode) projects a validated `metadata::*` value onto the wire
  shape. serde then writes it out as JSON.
* `try_into` / `TryFrom` (decode) checks a shim that serde has already filled
  from JSON, and builds the validated value from it.

serde runs the field deserializers in document order. They include the
custom `deserialize_reject_duplicates` and, through `#[serde(try_from)]` on
the `metadata` types, the shims' `TryFrom` for role definitions, delegations
and descriptions. Only after that does `try_into` check the envelope fields.

Nothing is shared and nothing runs concurrently. Every call is a pure,
synchronous function of its input (spec §5). What makes this code hard is
therefore not interleaving. It is:

* **adversarial input**: JSON objects with repeated keys, lists with repeated
  key ids or paths, odd timestamps and wrong role tags;
* **loops with early exits**, where the result depends on which entry comes
  first;
* **canonicalisation on encode**: sorting, dropping sub-second precision,
  the `.json` suffix and the spec version `"1.0"`. Each of these must
  survive a decode and a re-encode, and must not change what the document
  means;
* **numeric edges**: `{:04}` years, UTC offsets that carry a timestamp across
  a year boundary, and `u32` counters.

### Components, their state and operations

| Component | Source | State (wire / in-memory) | Operations |
|---|---|---|---|
| SpecVersionGate | L16-24 | the `spec_version` string | `valid_spec_version`; encode writes `SPEC_VERSION = "1.0"` |
| DateTimeCodec | L26-42 | `expires` text / `DateTime<Utc>` | `parse_datetime` (RFC 3339, offset normalised to UTC), `format_datetime` (`{:04}-{:02}-…Z`, whole seconds) |
| DuplicateRejectingMapCodec | L566-613 | JSON object entries / `BTreeMap` | `visit_map` loop: insert, fail on the first repeated key, propagate a value error |
| RoleDefinitionCodec | L116-165 | `{threshold, keyids}` / `RoleDefinition` | `From`: sort key ids; `TryFrom`: `HashSet::replace` loop, fail on the first repeat |
| DelegationCodec | L382-444 | `{name, terminating, threshold, keyids, paths}` / `Delegation` | `From`: sort paths and key ids; `TryFrom`: collect each list into a `HashSet` and compare lengths |
| DelegationsCodec | L446-488 | `{keys, roles}` / `Delegations` | `From`: encode each role and sort the roles by name; `TryFrom`: decode the roles in document order, keys through the duplicate-rejecting codec |
| Leaf codecs | L336-380, L490-564 | PublicKey, TargetDescription, MetadataDescription | field-by-field copies; their `hashes` and `custom` maps use serde's default decoding |
| Root codec | L44-114 | envelope, `keys`, `roles` | `from`; `try_into`: role tag, spec version, filter keys whose id is not the recomputed id, parse expiry, `RootMetadata::new` |
| Timestamp codec | L167-218 | envelope, `meta{"snapshot.json"}` | `from`; `try_into`: role tag, spec version, expiry |
| Snapshot codec | L220-282 | envelope, `meta` map with `".json"` keys | `from` appends `.json`; `try_into` checks the tag and spec version, then strips the suffix from each key in `BTreeMap` order, failing on the first key without it |
| Targets codec | L284-334 | envelope, `targets` map, `delegations` | `from`; `try_into`: role tag, spec version, expiry |

The validated `metadata::*` constructors, `PublicKey::key_id` and the
`Deserialize` impls of the `metadata` types live outside `src/`. Where a module
needs them it models them from the spec (marked `spec_modelled` in
`PROJECT.json`).

### How the components interact

Every interaction is a call. A top-level codec's decode first runs serde over
the document. serde calls `deserialize_reject_duplicates` for `keys` and
`meta`, and the role-definition and delegation `TryFrom`s for `roles` and
`delegations`. Then `try_into` runs the envelope checks in a fixed order: role
tag, spec version, key filter (root only), `parse_datetime`, and (snapshot
only) suffix stripping. It returns the first error it meets. Encode is the
reverse projection. `Delegations::from` calls `Delegation::from`, and
`RootMetadata::from` calls `RoleDefinition::from` through serde.

### What makes each component correct

* Duplicate-rejecting map: decode accepts exactly the objects without a
  repeated key. The map it returns holds every entry under its own key.
  Nothing is lost to last-write-wins.
* Role definition / delegation: a decoded key-id set has exactly as many ids
  as the wire list, so a threshold cannot be inflated by repetition. Encode
  output is sorted and decodes back to the same set.
* Delegations: decode keeps document order, because delegation search
  precedence depends on it. Encode sorts by name. The two meet only if the
  in-memory order is already by name.
* DateTime: the canonical text never names a later instant than the value
  (a re-encoded expiry never extends validity). A timestamp that was
  accepted on decode re-encodes into text that decodes again.
* Top-level codecs: a successful decode implies the right role tag, an
  accepted spec version, no repeated map key and, for root, a key pool that
  holds exactly the wire keys whose id is correct. The snapshot suffix
  stripping loses no entry.

## 2. Plan

Modules, in the order they were built (most important behaviour first):

1. `DeserializeRejectDuplicates`: the `visit_map` loop, one iteration per
   step. *Done, checked and proved.*
2. `RoleDefinitionCodec`: the role-definition key-id list, with the
   `replace` loop and the sorted encode. *Done, checked, and
   `KeyIdsCounted`, `EncodedRoundTrip` and `TypeOK` proved.*
3. `DateTimeCodec`: parse and format over a scaled calendar. *Done,
   checked, and `ExpiryNeverExtended` and `TypeOK` proved.*
4. `DelegationsCodec`: the key-id and path checks of one delegation, the
   encode sort, and the order-preserving decode. *Done, checked, and
   `DecodeFaithful`, `EncodingCanonical` and `TypeOK` proved.*
5. `MetadataCodec`: the four top-level `from`/`try_into` pipelines, with the
   spec-version gate. It decodes `keys` and `meta` through module 6 and
   `targets` with serde's default decoding. *Done, checked, and the root key
   pool, the snapshot meta map, the round trip and `TypeOK` proved.*
6. `DecodeMapAbstract`: the one-step decoder that module 1 implements.
   *Done. TLC checks the refinement with fairness, and TLAPS proves its
   safety part.*

Left for later:

* Compose `DelegationsCodec` with a delegation `keys` map and with the
  targets document.

## 3. Modules and runs

(This section grows with the project; see `PROJECT.json` for the exact list.)

### DeserializeRejectDuplicates (L566-613)

* State: `wire` is the JSON object as a sequence of `[key, val]` entries. It
  is chosen in `Init` among every object of at most `MaxEntries` entries
  over `Keys` and `Values ∪ {Malformed}`. `pos` is the number of entries
  `next_entry()` has returned. `map` is the `BTreeMap` (`Absent` for no
  entry). `status` is `"visiting"` inside the loop, else the result.
* Actions, one per path through one loop iteration: `InsertNew` (insert
  returns `None`), `InsertDuplicate` (insert returns `Some`: the new value is
  stored, then `Err("Cannot have duplicate keys")`), `EntryMalformed`
  (`next_entry()?` fails) and `EndOfMap` (`next_entry()` returns `None`, so
  the result is `Ok(map)`).
* Property `DecodeExact` has three parts. `Ok` means the keys were distinct,
  every value deserialized, and every entry is in the map under its key.
  `duplicate` means the object repeats a key. `malformed` means a value was
  bad.
* Run `dup_map`: `MCDeserializeRejectDuplicates.cfg` with 2 keys, 2 values
  and up to 3 entries. That covers a repeat right after a fresh key, a
  repeat with the same value (which last-write-wins would accept without
  trace), and a repeat next to a malformed value in either order. There
  are 746 distinct states. Deadlock is not checked: a finished decode is a
  final state.
* Run `dup_map_refines` checks the loop under `FairSpec`, which adds weak
  fairness. `visit_map` runs on the caller's thread and keeps stepping
  until it returns, which justifies the fairness. The run checks one
  property:
  * `ImplementsDecodeMap`: the loop implements `DecodeMapAbstract!Spec`
    (fairness included, so a decode eventually returns) under the mapping
    `DecodedMap == IF status = "ok" THEN map ELSE EmptyMap`. The caller
    sees a map only once `visit_map` returns `Ok`.

  `DecodeMapAbstract` decides in one step:
  * `Ok` with `MapOf` (each key to the value it is written with) exactly
    when the keys are distinct and every value deserializes;
  * otherwise an error the object really has. Either error is allowed when
    the object has both defects; which one is reported depends on the
    loop's order.
* Proved (`DeserializeRejectDuplicates_proofs`): `TypeCorrect` and
  `DecodeExactness == Spec => []DecodeExact`, for all `Keys`, `Values` and
  `MaxEntries`. The inductive invariant `IInv` restates `DecodeExact` for
  the prefix `wire[1..pos]` read so far. While the loop runs, the prefix is
  distinct, well formed and held by the map. The entry that stopped the
  loop is the one that broke the rule. `DuplicateStays` lifts a repeat in
  the prefix to the whole object.

* Proved (`DeserializeRejectDuplicates_refinement`):
  `LoopRefinesDecodeMap == Spec => Abstract!SafeSpec`, by the standard
  argument.
  * `Init` maps to the abstract `Init`.
  * Under `IInv` and `IInv'`, `InsertNew` is a stutter of the mapped
    variables. `InsertDuplicate`, `EntryMalformed` and `EndOfMap` are the
    abstract `Decode`.
  * `EndOfMap` needs `MapHoldsIsMapOf`: a map that holds every entry under
    its key, and nothing else, is `MapOf`.

### RoleDefinitionCodec (L124-165)

* State:
  * `origin` is the key-id set of an in-memory `RoleDefinition`. Any subset
    of `KeyIds` is allowed.
  * `wire` is the `keyids` list.
  * `foreign` is TRUE when the list came from another writer. Such a list
    is any list of at most `MaxLen` ids.
  * `idx` and `seen` are the `TryFrom` loop's position and its `HashSet`.
  * `status` is the decode status.
* Actions:
  * `RoleDefinitionFrom` is `From`: collect the set, then sort it.
    `SortedKeyIds` is the strictly increasing enumeration of the set.
  * `ReceiveForeign` hands the decoder a list written by someone else.
  * `ReplaceNew` and `ReplaceDuplicate` are the two outcomes of
    `key_ids.replace(key_id)`. A duplicate ends the decode with
    `MetadataRoleHasDuplicateKeyId`.
  * `LoopEnd` is the call to `RoleDefinition::new`.
* Properties:
  * `KeyIdsCounted`: a decode that succeeds holds exactly the ids of the
    list, one per entry. A threshold therefore never counts a repeated id
    twice.
  * `EncodedRoundTrip`: a list written by `From` always decodes back to the
    encoded set.
* Run `role_definition`: 3 key ids and lists of up to 4 entries. This
  covers a list with a repeat at every position and a list longer than the
  id set. It reaches 3748 distinct states.
* Proved in `RoleDefinitionCodec_proofs`, for every finite `KeyIds ⊆ Nat`
  and every `MaxLen`:
  * `ThresholdCountingSound == Spec => []KeyIdsCounted`. The inductive
    invariant `IInv` says that while the loop runs, `seen` is the set of
    the first `idx` list entries and has `idx` members. The step
    `ReplaceNew` adds an id not yet in `seen` (`FS_AddElement`). `IInv`
    says nothing about the shape of the list `From` wrote, so it holds for
    foreign lists too.
  * `RoleDefinitionRoundTrip == Spec => []EncodedRoundTrip` and
    `RoleDefinitionTypeCorrect == Spec => []TypeOK`. Both rest on `RInv`:
    `IInv`, the types, and for a list `From` wrote, that it names each id
    of `origin` exactly once (`ListOfSet`). Under `RInv`, `ReplaceDuplicate`
    cannot fire on a list `From` wrote: the id it meets would sit at two
    positions. TLC checks `RInv` on the `role_definition` instance.
  * `RInv` needs the `CHOOSE` of `SortedKeyIds` to have something to
    choose. Lemma `SortedKeyIdsList` gets that from `SortedSets` (below).

### DateTimeCodec (L26-42)

* The scaled calendar:
  * A year has `SecondsPerYear` seconds. `YearMax` stands for 9999.
  * Offsets are whole seconds, smaller than a year.
  * Instants are counted in half seconds, so a non-zero fraction is the
    odd half.
  * What the code's behaviour depends on is kept: where a year boundary
    lies relative to an offset, floor division before year 0, and the
    dropped fraction.
* Actions:
  * `ParseOk` and `ParseError` model `parse_datetime`. The year must have
    exactly four digits.
  * `FormatDatetime` models re-encoding the decoded value.
  * `Refetch` replaces a document that failed to decode.
* Run `datetime` checks `ExpiryNeverExtended`: re-encoding moves an expiry
  earlier by less than a second and never later. It uses `YearMax = 1`,
  `SecondsPerYear = 3` and offsets -1, 0 and +1, which puts texts on both
  sides of both year limits. It reaches 602 distinct states.
* Run `datetime_reencode` (expected violation) checks `CodecTextDecodes`.
  * Finding: the text `0000-01-01T00:00:00+00:01` is accepted,
    and its UTC instant lies in year -1.
  * `format_datetime` then writes a year that is not four digits, and
    `parse_datetime` rejects its own output. The same happens to
    `9999-12-31T23:59:59-00:01`, which becomes year 10000.
  * This contradicts spec section 8 (round trip).
* Proved (`DateTimeCodec_proofs`): `ReencodeNeverExtends == Spec =>
  []ExpiryNeverExtended` and `DateTimeTypeCorrect == Spec => []TypeOK`, for
  every `YearMax`, `SecondsPerYear` and set of offsets smaller than a year.
  * The inductive invariant is `TypeOK`, that a decoded `value` is an
    integer, and `ExpiryNeverExtended` itself. The integer fact is what
    `FormatDatetime` needs to reuse the arithmetic.
  * Lemma `FormatOfInstant`: `format_datetime` of an instant `v` is a
    well-formed text naming `2 * (v \div 2)`, which is `v` or `v - 1`
    half-seconds (the dropped fraction). That is the whole of the
    property's content; the lemma needs only the floor-division facts of
    the integers, which SMT proves.

### DelegationsCodec (L382-488)

* State:
  * A delegation's key ids and paths are finite sets (`FiniteSubsets`), as
    a `HashSet` is.
  * `Init` either holds `roles` with distinct names about to be encoded, or
    a foreign `roles` array of at most `MaxRoles` wire delegations. Each
    wire delegation has key-id and path lists of at most `MaxLen` entries.
  * `decoded` is the `Vec` the collect has built.
* Actions:
  * `DelegationsFrom`: `Delegation::from` for each role, then `sort_by`
    name (`SortByName`). `SortByName` reorders the list by a permutation
    that leaves no name greater than the next one.
  * `DecodeDelegation`, `DuplicateKeyIds` and `DuplicatePaths`: one role of
    the collect, checking key ids before paths.
  * `DecodeEnd`.
* Run `delegations` uses 2 names, 2 key ids and 2 path patterns, so that
  memory order and name order, and HashSet order and sorted order, can
  differ. It checks `TypeOK` and two properties in 29,547 distinct states:
  * `EncodingCanonical`: the array has one entry per role and no other,
    by strictly increasing name, and each entry lists its role's key ids
    and paths in increasing order (`SortedListOf`). The property is stated
    without `Sorted` or `DelegationFrom`, so dropping `.sort()` at L399 or
    L406 breaks it: that is its mutant.
  * `DecodeFaithful`: each decoded role has exactly the ids and paths of
    its lists, one per entry, in document order.
* Run `delegations_roundtrip` (expected violation) checks
  `RoundTripKeepsPrecedence`.
  * Finding: `roles` `[b, a]` encodes as `[a, b]` and decodes in that order.
  * The order of `roles` is the delegation search precedence (spec 4.6). A
    round trip through this codec therefore changes which delegation a
    client consults first, and changes the signed bytes whenever roles are
    not already sorted.
* Proved (`DelegationsCodec_proofs`): `DecodeKeepsDocument == Spec =>
  []DecodeFaithful`, for every set of names, key ids and paths and every
  bound.
  * The inductive invariant says the decoded prefix is, entry by entry,
    the decoding of the wire prefix (`DecodingOf`) and each of its wire
    entries has distinct lists (`ListsDistinct`). It also says the prefix
    is empty while encoding and the whole wire once `ok`.
  * It does not mention the sorted encode, so it holds whoever wrote the
    wire.
* Proved (`DelegationsCodec_proofs`): `DelegationsEncodingCanonical ==
  Spec => []EncodingCanonical` and `DelegationsTypeCorrect == Spec =>
  []TypeOK`, for every set of names, key ids and paths and every bound.
  * The inductive invariant `TInv` is `IInv`, the types, and this: while
    the roles held are the in-memory value (distinct names), the array
    decoded is `Encoded(roles)`, which is what `Delegations::from` writes.
  * Lemma `SortedIsListOf`: `Sorted(S)` of a finite set of numbers lists
    `S` in increasing order (`SortedEnumExists`, `SortedEnumOnto`). Lemma
    `WritesFrom` then says `Delegation::from` writes each role as its name
    and its two sorted lists.
  * Lemma `SortByNameCanonical`: for a list with distinct numeric names,
    `SortByName` has a reordering to choose. Position `i` takes the role
    named by entry `i` of a sorted enumeration of the names, which exists
    by `SortedEnumExists`. The chosen reordering is injective because a
    surjection of `1..n` onto itself is. So the result keeps every entry
    once, and adjacent names differ and are ordered, hence strictly
    increasing.
  * Lemma `DelegationFromType`: the key-id and path lists of
    `Delegation::from` are lists. The sets are finite, so `Sorted` has an
    enumeration to choose.

### MetadataCodec (L16-24, L44-115, L166-334)

One document of one role (`kind`) goes through the pipeline.

* State:
  * `origin` is a validated in-memory body, or the document came from
    another writer (`foreign`).
  * `doc` is the wire document: `_type`, `spec_version`, whether `expires`
    parses, and the body map as a sequence of entries.
  * `decoded` is the body after serde.
  * `todo` and `out` are the snapshot collect's remaining keys and the
    value being built.
* Actions, in pipeline order:
  1. `From`.
  2. Serde: `SerdeOk`, `SerdeDuplicate` and `SerdeMalformed`. The `keys`
     and `meta` maps use `DecodeMapAbstract`, whose loop is proved above.
     The timestamp struct also rejects a repeated or missing
     `snapshot.json`. `targets` uses `LastWriteWins`.
  3. `EnvelopeError`: the role tag, then `valid_spec_version`, then
     `parse_datetime`, each returning the first error.
  4. `RootTryInto` (key filter), `TimestampOrTargetsTryInto` and
     `SnapshotTryInto`.
  5. The snapshot collect, one key per step in `BTreeMap` order:
     `CollectEntry`, `CollectNoSuffix`, `CollectBadPath` and `CollectEnd`.
     The first error drops the partial map.
* Abstractions:
  * `expires` is reduced to whether it parses (`DateTimeCodec` has the
    arithmetic).
  * `version`, the role definitions and delegations are copied unchanged
    and left out. They have their own modules.
  * The constructors `metadata::*::new` are taken to accept what reaches
    them.
  * `MetadataPath::new` is modelled as accepting the paths in `Paths`.
* Run `metadata` uses 2 key ids and 2 keys, so a legacy entry can list a
  key under the other key's id. It uses snapshot texts `""`, `a` and `b`,
  with and without `.json`, and maps of up to 2 entries.
  It reaches 26,791 distinct states and checks four properties:
  * `RootKeyPoolExact`: a key is kept exactly when it is listed under its
    recomputed id, and no key is kept under two ids, so a root threshold
    counts distinct keys.
  * `SnapshotMetaExact`: the decoded map is exactly the `.json` keys with
    the suffix stripped.
  * `RoundTrip` for all four roles.
  * `TypeOK`.
* Run `metadata_targets` (expected violation) checks
  `TargetsRejectDuplicates`.
  * Finding (L291): the `targets` map has no duplicate-rejecting
    deserializer. A targets document that lists one target path twice
    decodes, and serde keeps the last entry.
  * This contradicts spec rule 3 and §9. Two parsers that resolve the
    repeat differently can take different hashes for one target from the
    same signed bytes.
  * The `hashes` and `custom` maps of the leaf descriptions (L493, L534)
    decode the same way.
* Proved (`MetadataCodec_proofs`):
  `RootKeyPoolSound == Spec => []RootKeyPoolExact`, for every key-id set,
  key set, `KeyIdOf` and bound.
  * The inductive invariant says:
    * every wire entry names a key id and carries a value;
    * once serde has run, the wire has no repeated id and `decoded` is its
      `MapOf`;
    * `out` is `KeysWithCorrectKeyId(decoded)`.
  * Injectivity then follows: a kept key `k` sits under `KeyIdOf[k]` and
    nowhere else.
  * The output of `from` is covered by `EncodeMapEntries`: every entry of
    an enumeration comes from the pool. `EncodeMap` falls back to `<<>>`
    if no enumeration exists, so the lemma needs no induction.
* Proved (`MetadataCodec_proofs`): `SnapshotMetaSound == Spec =>
  []SnapshotMetaExact`, for every universe of meta paths and every
  `KeyRank`.
  * The inductive invariant `SInv` is the loop invariant of the collect:
    * the keys still to visit are live keys of `decoded`;
    * every visited live key has `.json`, a valid path, and its
      description in `out` under that path;
    * every path `out` holds comes from a visited `.json` key.
  * Lemma `NextKeyInTodo`: the key of least `KeyRank` exists. It uses the
    well-foundedness of `<` on `Nat` from `WellFoundedInduction`.
* Proved (`MetadataCodec_roundtrip`): `RoundTripSound == Spec =>
  []RoundTrip`, for every role, every finite `KeyIds`, `PathStrings` and
  `TargetPaths`, every `KeyIdOf` and every `KeyRank`.
  * Lemma `EncodeMapIsMap`: for a map with finitely many held keys, the
    list `from` writes names each held key once with its value and nothing
    else. An enumeration exists because a finite set is in bijection with
    `1..Cardinality` (`FS_CardinalityType`). `EncodeMap` asks for any
    enumeration, not a sorted one, so no induction is needed. A surjection
    from `1..N` onto a set of `N` elements is injective, which gives the
    distinct keys.
  * Lemma `DecodeEncodeMap`: both decodes give the map back, the
    first-entry decode of `deserialize_reject_duplicates` and serde's
    last-write-wins decode.
  * The inductive invariant `RInv` is `SInv` together with `OwnDoc`. For a
    document `from` wrote, `OwnDoc` says:
    * from serde on, `doc` is that encoding;
    * after serde, `decoded` is `DecodedOf(kind, origin)`;
    * during the collect, `todo` holds only `.json` keys of held paths, and
      `out` holds `origin` at every path whose key has been visited;
    * `ok` comes with `out = origin`.
    It also says no error status is ever reached: the error actions'
    guards contradict `EncodedBody`, `EnvelopeOk` and the `.json` keys.
    TLC checks `RInv` on the `metadata` instance.
  * The finiteness of `KeyIds`, `PathStrings` and `TargetPaths` is part of
    `ConstantsAssumption`. Rust's `BTreeMap`s and `HashMap`s are finite,
    and a validated body is drawn from these sets.
* Proved (`MetadataCodec_roundtrip`): `MetadataTypeCorrect == Spec =>
  []TypeOK`, under the same assumptions.
  * `TypeOK` types `doc` with `WireDoc`, whose body is a list of any
    length. `WireDocs`, the set `Init` draws a foreign document from, adds
    the bound `MaxEntries`. That bound is a model-checking bound, not a
    type: the document `from` writes has one entry per held key.
  * The inductive invariant `TyInv` says: a document exists from serde on;
    from `try_into` on, `decoded` has its role's type (`DecodedType`; the
    timestamp struct holds a description); the collect's `out` is a map of
    descriptions; and `ok` comes with an `out` of the role's type.
  * Lemma `ListMapsTyped`: both of serde's map decodes of a well-formed
    body give a map of values. The last-write-wins decode needs the last
    entry of a key to exist, which is `NatSetHasMax`.
  * Lemma `FromBodyTyped`: the body `from` writes is a list of wire
    entries (the fourth conclusion of `EncodeMapIsMap`).

### SortedSets (no source of its own)

Lemmas about sorting finite sets of numbers, used by the proofs of the
two sorted encoders (`key_ids.sort()`, `paths.sort()` and
`roles.sort_by`):

* `SortedEnumExists`: every finite set of naturals has a list of its
  members, each smaller than the next.
* `SortedEnumOnto`: such a list is increasing and names every member.
* `NatSetHasMin` and `NatSetHasMax`: least and greatest elements.

Induction over finite sets is out of the provers' reach, because the
library states it with an operator parameter. `SortedEnumExists` takes a
least counterexample instead. Suppose some finite set has no sorted
enumeration; take one of least cardinality (`WFMin` on `Nat`, through
`NatSetHasMin`). Remove its minimum. The rest is smaller, so it has a
sorted enumeration, and putting the minimum in front of it gives one for
the whole set.

## 4. What is proved and what is only model-checked

* TLAPS proves the following for every value of the constants, under each
  module's `ConstantsAssumption`:
  * `DecodeExactness` and `TypeCorrect` (visit_map);
  * `LoopRefinesDecodeMap`, the safety part of the refinement;
  * `ThresholdCountingSound`, `RoleDefinitionRoundTrip` and
    `RoleDefinitionTypeCorrect`;
  * `ReencodeNeverExtends` and `DateTimeTypeCorrect`;
  * `DecodeKeepsDocument`, `DelegationsEncodingCanonical` and
    `DelegationsTypeCorrect`;
  * `RootKeyPoolSound`, `SnapshotMetaSound`, `RoundTripSound` and
    `MetadataTypeCorrect`.
* So every safety invariant that a passing run checks is also proved.
  TLC's runs remain the check that the properties are not vacuous on
  concrete instances, and that the mutants break them.
* Liveness: the fairness half of `ImplementsDecodeMap` (a decode
  eventually returns).
  * It is checked by TLC under `WF_vars(Next)`. Every decode is a
    synchronous computation on the caller's thread (spec §5), so it keeps
    stepping until it returns. No other fairness is assumed.
  * TLAPS does not handle liveness or `ENABLED`.
* No module with a theorem uses `RECURSIVE`.

## 5. Not modelled

* The leaf codecs `PublicKey`, `TargetDescription` and
  `MetadataDescription`.
  * They are field-by-field conversions with no loop, check or ordering of
    their own.
  * A leaf that fails to decode is the `Malformed` value.
  * Their `hashes` and `custom` maps decode like `targets`, with last write
    wins, and the `metadata_targets` finding covers that behaviour.
* `version` and `consistent_snapshot`. They are copied unchanged both ways,
  and the `u32` is never computed with.
* The constructors `metadata::*::new`, `MetadataPath::new`,
  `PublicKey::key_id` and the cryptography. They are outside `src/`, and
  the model uses them only as given functions and sets.
* Formatting of the JSON text itself.
