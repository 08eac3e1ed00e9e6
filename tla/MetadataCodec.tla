---------------------------- MODULE MetadataCodec ----------------------------
(***************************************************************************)
(* The top-level role codecs of src/tuf/src/pouf/pouf1/shims.rs: the       *)
(* from / try_into pairs of RootMetadata (lines 44-115), TimestampMetadata *)
(* (166-218), SnapshotMetadata (220-282) and TargetsMetadata (284-334),    *)
(* with valid_spec_version (16-24).                                        *)
(*                                                                         *)
(* One document of one role (`kind`) goes through the pipeline: encode     *)
(* with from (or arrive from another writer), serde's derived decoding of  *)
(* its fields, then try_into.  Serde decodes the map-typed body: root      *)
(* `keys` and snapshot `meta` with deserialize_reject_duplicates (its      *)
(* one-step abstraction DecodeMapAbstract, which the visit_map loop is     *)
(* proved to implement), the timestamp `meta` struct with serde's struct   *)
(* visitor (which also rejects a repeated field), and targets `targets`    *)
(* with serde's default BTreeMap visitor.  The snapshot collect that       *)
(* strips ".json" runs one key per step, in BTreeMap order.                *)
(*                                                                         *)
(* Abstracted: `version` and the role definitions (RoleDefinitionCodec),   *)
(* the expires text to whether parse_datetime accepts it (DateTimeCodec),  *)
(* delegations (DelegationsCodec), leaf values to model values, and the    *)
(* constructors metadata::*::new, which this layer calls last and which    *)
(* are taken to accept what reaches them.                                  *)
(***************************************************************************)
EXTENDS Naturals, Sequences, FiniteSets

CONSTANTS
  KeyIds,       \* key ids (crypto::KeyId)
  PubKeys,      \* public keys
  KeyIdOf,      \* PublicKey::key_id(): the id recomputed from key material
  PathStrings,  \* the text before ".json" in a snapshot meta key
  Paths,        \* those texts MetadataPath::new accepts
  TargetPaths,  \* target paths
  Descs,        \* metadata and target descriptions that deserialize
  Malformed,    \* a value serde fails to deserialize
  Absent,       \* no entry under a key
  KeyRank,      \* the BTreeMap order of snapshot meta keys
  MaxEntries    \* bound on the number of entries of a wire map

MetaKey == [path : PathStrings, json : BOOLEAN]  \* "<path>" or "<path>.json"

ASSUME ConstantsAssumption ==
  /\ KeyIdOf \in [PubKeys -> KeyIds]
  /\ Paths \subseteq PathStrings
  /\ KeyRank \in [MetaKey -> Nat]
  /\ \A a, b \in MetaKey : KeyRank[a] = KeyRank[b] => a = b
  /\ Malformed \notin Descs \cup PubKeys
  /\ Absent \notin Descs \cup PubKeys \cup {Malformed}
  /\ MaxEntries \in Nat
  /\ IsFiniteSet(KeyIds) /\ IsFiniteSet(PathStrings) /\ IsFiniteSet(TargetPaths)

VARIABLES
  kind,     \* the role whose codec is used
  origin,   \* the validated in-memory value that was encoded (its body)
  foreign,  \* TRUE when the document was not written by from
  doc,      \* the wire document: _type, spec_version, expires, body
  decoded,  \* the body as serde decoded it
  todo,     \* snapshot meta keys the collect has still to visit
  out,      \* the body of the metadata value try_into builds
  status    \* the stage of the pipeline, or its result

vars == <<kind, origin, foreign, doc, decoded, todo, out, status>>

Kinds == {"root", "timestamp", "snapshot", "targets"}

SPEC_VERSION == "1.0"

(* valid_spec_version: the literals "1.0" and "1.0.0" only.                *)
ValidSpecVersion(v) == v \in {"1.0", "1.0.0"}

BodyKeys(k) ==
  CASE k = "root"      -> KeyIds
    [] k = "timestamp" -> {"snapshot.json"}
    [] k = "snapshot"  -> MetaKey
    [] k = "targets"   -> TargetPaths

BodyValues(k) == IF k = "root" THEN PubKeys ELSE Descs

Body(k) ==
  INSTANCE DecodeMapAbstract
    WITH Keys <- BodyKeys(k), Values <- BodyValues(k),
         wire <- doc.body, map <- decoded, status <- status

BodyEntry(k) == [key : BodyKeys(k), val : BodyValues(k) \cup {Malformed}]

\* A wire document of role k: its envelope fields and a body of entries.
WireDoc(k) ==
  [typ : Kinds, spec : {"1.0", "1.0.0", "1.0.1"}, expires : {"parses", "rejected"},
   body : Seq(BodyEntry(k))]

\* The documents a foreign writer can hand the decoder, up to MaxEntries
\* entries in the body.
WireDocs(k) ==
  [typ : Kinds, spec : {"1.0", "1.0.0", "1.0.1"}, expires : {"parses", "rejected"},
   body : UNION {[1..n -> BodyEntry(k)] : n \in 0..MaxEntries}]

(* Validated in-memory bodies: a root key pool holds each key under the id *)
(* recomputed from it.                                                     *)
InMemory(k) ==
  CASE k = "root" ->
         {f \in [KeyIds -> PubKeys \cup {Absent}] :
            \A i \in KeyIds : f[i] # Absent => KeyIdOf[f[i]] = i}
    [] k = "timestamp" -> Descs
    [] k = "snapshot"  -> [Paths -> Descs \cup {Absent}]
    [] k = "targets"   -> [TargetPaths -> Descs \cup {Absent}]

(* Serializing a BTreeMap writes each entry once; decoding does not depend *)
(* on the order, so any enumeration stands for key order.                  *)
(* (A finite map always has such an enumeration; the ELSE never applies.)  *)
EncodeMap(f) ==
  LET E == {[key |-> x, val |-> f[x]] : x \in {x \in DOMAIN f : f[x] # Absent}}
      Enumerates(s) == {s[i] : i \in 1..Len(s)} = E
  IN  IF \E s \in [1..Cardinality(E) -> E] : Enumerates(s)
        THEN CHOOSE s \in [1..Cardinality(E) -> E] : Enumerates(s)
        ELSE <<>>

(* Mutant of SnapshotWire: the meta keys are written without ".json".     *)
SnapshotWireBare(f) ==
  [m \in MetaKey |-> IF ~m.json /\ m.path \in Paths THEN f[m.path] ELSE Absent]

(* format!("{}.json", p) for every path of the snapshot meta map.          *)
SnapshotWire(f) ==
  [m \in MetaKey |-> IF m.json /\ m.path \in Paths THEN f[m.path] ELSE Absent]

(* The body each from writes (lines 58-76, 185-196, 232-245, 297-311).     *)
FromBody(k, o) ==
  CASE k = "root"      -> EncodeMap(o)
    [] k = "timestamp" -> <<[key |-> "snapshot.json", val |-> o]>>
    [] k = "snapshot"  -> EncodeMap(SnapshotWire(o))
    [] k = "targets"   -> EncodeMap(o)

Entries(s) == {s[i] : i \in 1..Len(s)}

(* serde's BTreeMap visitor: insert every entry; a later one overwrites.   *)
LastWriteWins(s) ==
  [x \in TargetPaths |->
     IF \E i \in 1..Len(s) : s[i].key = x
       THEN s[CHOOSE i \in 1..Len(s) :
                /\ s[i].key = x
                /\ \A j \in 1..Len(s) : s[j].key = x => j <= i].val
       ELSE Absent]

Final == {"ok", "duplicate", "malformed", "wrong_type", "bad_version",
          "bad_expires", "no_suffix", "bad_path"}

Init ==
  /\ kind \in Kinds
  /\ decoded = Absent
  /\ todo = {}
  /\ out = Absent
  /\ \/ /\ origin \in InMemory(kind)
        /\ foreign = FALSE
        /\ doc = Absent
        /\ status = "encoding"
     \/ /\ origin = Absent
        /\ foreign = TRUE
        /\ doc \in WireDocs(kind)
        /\ status = "serde"

(***************************************************************************)
(* from: the role tag, SPEC_VERSION, format_datetime of the expiry (a      *)
(* four-digit year here; DateTimeCodec covers the others) and the body.    *)
(***************************************************************************)
From ==
  /\ status = "encoding"
  /\ doc' = [typ |-> kind, spec |-> SPEC_VERSION, expires |-> "parses",
             body |-> FromBody(kind, origin)]
  /\ status' = "serde"
  /\ UNCHANGED <<kind, origin, foreign, decoded, todo, out>>

(***************************************************************************)
(* Serde's derived Deserialize succeeds: every value deserializes, the     *)
(* duplicate-rejecting maps and the timestamp struct have no repeated key  *)
(* and the struct has its one field; targets keeps the last of a repeat.   *)
(***************************************************************************)
SerdeOk ==
  /\ status = "serde"
  /\ Body(kind)!WellFormed
  /\ kind # "targets" => Body(kind)!Distinct
  /\ kind = "timestamp" => doc.body # <<>>
  /\ decoded' = IF kind = "targets" THEN LastWriteWins(doc.body) ELSE Body(kind)!MapOf
  /\ status' = "try_into"
  /\ UNCHANGED <<kind, origin, foreign, doc, todo, out>>

(* "Cannot have duplicate keys", or serde's "duplicate field".            *)
SerdeDuplicate ==
  /\ status = "serde"
  /\ kind # "targets"
  /\ ~Body(kind)!Distinct
  /\ status' = "duplicate"
  /\ UNCHANGED <<kind, origin, foreign, doc, decoded, todo, out>>

(* A value fails to deserialize, or the timestamp's "snapshot.json" field  *)
(* is missing.                                                             *)
SerdeMalformed ==
  /\ status = "serde"
  /\ ~Body(kind)!WellFormed \/ (kind = "timestamp" /\ doc.body = <<>>)
  /\ status' = "malformed"
  /\ UNCHANGED <<kind, origin, foreign, doc, decoded, todo, out>>

(***************************************************************************)
(* The checks every try_into makes first, in this order: the role tag,     *)
(* valid_spec_version, then parse_datetime(&self.expires)?.                *)
(***************************************************************************)
EnvelopeOk ==
  doc.typ = kind /\ ValidSpecVersion(doc.spec) /\ doc.expires = "parses"

(* The error the first failing check returns.                               *)
EnvelopeErrorOf ==
  CASE doc.typ # kind              -> "wrong_type"
    [] ~ValidSpecVersion(doc.spec) -> "bad_version"
    [] doc.expires # "parses"      -> "bad_expires"

EnvelopeError ==
  /\ status = "try_into"
  /\ ~EnvelopeOk
  /\ status' = EnvelopeErrorOf
  /\ UNCHANGED <<kind, origin, foreign, doc, decoded, todo, out>>

(* `.filter(|(key_id, pkey)| key_id == pkey.key_id())` (lines 96-100).    *)
KeysWithCorrectKeyId(d) ==
  [i \in KeyIds |-> IF d[i] # Absent /\ KeyIdOf[d[i]] = i THEN d[i] ELSE Absent]

(* Mutant of RootTryInto: the legacy-key filter is left out.               *)
RootTryIntoUnfiltered ==
  /\ status = "try_into"
  /\ kind = "root"
  /\ EnvelopeOk
  /\ out' = decoded
  /\ status' = "ok"
  /\ UNCHANGED <<kind, origin, foreign, doc, decoded, todo>>

(***************************************************************************)
(* RootMetadata::try_into (lines 79-115): keep the keys whose map key is   *)
(* the id recomputed from the key (`key_id == pkey.key_id()`), dropping    *)
(* the others silently, then RootMetadata::new.                            *)
(***************************************************************************)
RootTryInto ==
  /\ status = "try_into"
  /\ kind = "root"
  /\ EnvelopeOk
  /\ out' = KeysWithCorrectKeyId(decoded)
  /\ status' = "ok"
  /\ UNCHANGED <<kind, origin, foreign, doc, decoded, todo>>

(* Mutant of TimestampOrTargetsTryInto: the timestamp's TimestampMeta      *)
(* wrapper is handed on instead of its snapshot description.               *)
TryIntoMetaWrapper ==
  /\ status = "try_into"
  /\ kind \in {"timestamp", "targets"}
  /\ EnvelopeOk
  /\ out' = decoded
  /\ status' = "ok"
  /\ UNCHANGED <<kind, origin, foreign, doc, decoded, todo>>

(* TimestampMetadata::try_into (199-218) and TargetsMetadata::try_into     *)
(* (314-334): the body is handed to the constructor as it is.              *)
TimestampOrTargetsTryInto ==
  /\ status = "try_into"
  /\ kind \in {"timestamp", "targets"}
  /\ EnvelopeOk
  /\ out' = IF kind = "timestamp" THEN decoded["snapshot.json"] ELSE decoded
  /\ status' = "ok"
  /\ UNCHANGED <<kind, origin, foreign, doc, decoded, todo>>

(* SnapshotMetadata::try_into (248-282) up to the collect over self.meta.  *)
SnapshotTryInto ==
  /\ status = "try_into"
  /\ kind = "snapshot"
  /\ EnvelopeOk
  /\ todo' = {m \in MetaKey : decoded[m] # Absent}
  /\ out' = [p \in Paths |-> Absent]
  /\ status' = "collecting"
  /\ UNCHANGED <<kind, origin, foreign, doc, decoded>>

\* The key the collect visits next: into_iter() goes in key order.
NextKey == CHOOSE m \in todo : \A n \in todo : KeyRank[m] <= KeyRank[n]

(* Mutant of CollectEntry: the key is cut where ".json" would start        *)
(* without checking that it is there.                                      *)
CollectEntryUnchecked ==
  /\ status = "collecting"
  /\ todo # {}
  /\ NextKey.path \in Paths
  /\ out' = [out EXCEPT ![NextKey.path] = decoded[NextKey]]
  /\ todo' = todo \ {NextKey}
  /\ UNCHANGED <<kind, origin, foreign, doc, decoded, status>>

(***************************************************************************)
(* One key of the collect (lines 262-276): it ends with ".json", the rest  *)
(* is a valid MetadataPath, and the pair goes into the new map.            *)
(***************************************************************************)
CollectEntry ==
  /\ status = "collecting"
  /\ todo # {}
  /\ NextKey.json
  /\ NextKey.path \in Paths
  /\ out' = [out EXCEPT ![NextKey.path] = decoded[NextKey]]
  /\ todo' = todo \ {NextKey}
  /\ UNCHANGED <<kind, origin, foreign, doc, decoded, status>>

(* "Metadata does not end with .json": the collect stops, the map built so *)
(* far is dropped.                                                         *)
CollectNoSuffix ==
  /\ status = "collecting"
  /\ todo # {}
  /\ ~NextKey.json
  /\ status' = "no_suffix"
  /\ UNCHANGED <<kind, origin, foreign, doc, decoded, todo, out>>

(* MetadataPath::new(s)? fails on what is left after the suffix.           *)
CollectBadPath ==
  /\ status = "collecting"
  /\ todo # {}
  /\ NextKey.json
  /\ NextKey.path \notin Paths
  /\ status' = "bad_path"
  /\ UNCHANGED <<kind, origin, foreign, doc, decoded, todo, out>>

(* Every key collected: SnapshotMetadata::new.                             *)
CollectEnd ==
  /\ status = "collecting"
  /\ todo = {}
  /\ status' = "ok"
  /\ UNCHANGED <<kind, origin, foreign, doc, decoded, todo, out>>

Next ==
  \/ From
  \/ SerdeOk \/ SerdeDuplicate \/ SerdeMalformed
  \/ EnvelopeError
  \/ RootTryInto \/ TimestampOrTargetsTryInto \/ SnapshotTryInto
  \/ CollectEntry \/ CollectNoSuffix \/ CollectBadPath \/ CollectEnd

Spec == Init /\ [][Next]_vars

-----------------------------------------------------------------------------
Stages == {"encoding", "serde", "try_into", "collecting"}

TypeOK ==
  /\ kind \in Kinds
  /\ foreign \in BOOLEAN
  /\ origin \in InMemory(kind) \cup {Absent}
  /\ doc \in WireDoc(kind) \cup {Absent}
  /\ todo \subseteq MetaKey
  /\ status \in Stages \cup Final
  /\ status = "ok" =>
       out \in CASE kind = "root"      -> [KeyIds -> PubKeys \cup {Absent}]
                 [] kind = "timestamp" -> Descs
                 [] kind = "snapshot"  -> [Paths -> Descs \cup {Absent}]
                 [] kind = "targets"   -> [TargetPaths -> Descs \cup {Absent}]

(***************************************************************************)
(* The root key pool (lines 96-103, spec rule 6): a decoded root holds a   *)
(* key under an id exactly when the document lists that key under the id   *)
(* recomputed from it, so two ids of the pool never name the same key and  *)
(* a root threshold counted over key ids counts distinct keys, however     *)
(* many legacy entries repeat a key under a stale id.                      *)
(***************************************************************************)
RootKeyPoolExact ==
  kind = "root" /\ status = "ok" =>
    /\ \A i \in KeyIds :
         out[i] # Absent <=> \E e \in Entries(doc.body) : e.key = i /\ KeyIdOf[e.val] = i
    /\ \A e \in Entries(doc.body) : KeyIdOf[e.val] = e.key => out[e.key] = e.val
    /\ \A i, j \in KeyIds : out[i] # Absent /\ out[i] = out[j] => i = j

(***************************************************************************)
(* The snapshot meta map (lines 259-277, spec rule 7): a decoded snapshot  *)
(* describes path p exactly when the document has the key "p.json", with   *)
(* that key's description; a key without the suffix makes the whole decode *)
(* fail, never a partial map.                                              *)
(***************************************************************************)
SnapshotMetaExact ==
  kind = "snapshot" /\ status = "ok" =>
    /\ \A e \in Entries(doc.body) :
         e.key.json /\ e.key.path \in Paths /\ out[e.key.path] = e.val
    /\ \A p \in Paths :
         out[p] # Absent => \E e \in Entries(doc.body) : e.key = [path |-> p, json |-> TRUE]

(***************************************************************************)
(* Spec section 8, round trip: for every role, decoding what from wrote    *)
(* succeeds and gives back the body that was encoded (the snapshot paths   *)
(* without their ".json", the root pool without loss).                     *)
(***************************************************************************)
RoundTrip ==
  ~foreign /\ status \in Final => status = "ok" /\ out = origin

(***************************************************************************)
(* Spec rule 3 and the note on duplicate-rejecting deserialization: no map *)
(* of the wire encoding may repeat a key, the targets map included.        *)
(***************************************************************************)
TargetsRejectDuplicates ==
  kind = "targets" /\ status = "ok" => Body("targets")!Distinct

=============================================================================
