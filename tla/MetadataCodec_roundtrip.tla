---------------------- MODULE MetadataCodec_roundtrip ----------------------
(***************************************************************************)
(* Proof of the round trip of spec section 8 for the four top-level role   *)
(* codecs: decoding what from wrote succeeds and gives back the body that  *)
(* was encoded, for every finite universe of key ids, path strings and     *)
(* target paths, every key-id recomputation and every BTreeMap order.      *)
(***************************************************************************)
EXTENDS MetadataCodec_proofs, SortedSets, FiniteSetTheorems

USE ConstantsAssumption

\* The keys of a map that hold a value, and the map the entries of a list
\* spell: by the first entry of a key (what a decode of distinct keys
\* keeps) and by the last one (serde's BTreeMap visitor).
Held(f) == {x \in DOMAIN f : f[x] # Absent}
MapOfList(s, K) ==
  [k \in K |->
     IF \E i \in 1..Len(s) : s[i].key = k
       THEN s[CHOOSE i \in 1..Len(s) : s[i].key = k].val
       ELSE Absent]
LastOfList(s, K) ==
  [k \in K |->
     IF \E i \in 1..Len(s) : s[i].key = k
       THEN s[CHOOSE i \in 1..Len(s) :
                /\ s[i].key = k
                /\ \A j \in 1..Len(s) : s[j].key = k => j <= i].val
       ELSE Absent]

\* What a list of entries says of the map f over K: no key twice, every
\* entry a held entry of f, every held entry of f there.
ListKeysDistinct(s) == \A a, b \in 1..Len(s) : s[a].key = s[b].key => a = b
ListEntriesOf(s, f, K) ==
  \A n \in 1..Len(s) : s[n].key \in K /\ s[n].val = f[s[n].key] /\ s[n].val # Absent
ListCovers(s, f, K) == \A x \in K : f[x] # Absent => \E n \in 1..Len(s) : s[n].key = x
ListWellFormed(s) == \A i \in 1..Len(s) : s[i].val # Malformed

(***************************************************************************)
(* Serializing a finite map writes every held entry once and nothing else. *)
(***************************************************************************)
(* A list of members of A is a list of members of any superset of A.     *)
LEMMA SeqMonotone ==
  ASSUME NEW A, NEW B, A \subseteq B, NEW s \in Seq(A)
  PROVE  s \in Seq(B)
OBVIOUS

(* Each entry of a list of members of R is a member of R.                  *)
LEMMA SeqEntry ==
  ASSUME NEW R, NEW s \in Seq(R), NEW i \in 1..Len(s)
  PROVE  s[i] \in R
OBVIOUS

(* A function on 1..n is a list.                                          *)
LEMMA FunctionIsSeq ==
  ASSUME NEW R, NEW n \in Nat, NEW s \in [1..n -> R]
  PROVE  s \in Seq(R)
OBVIOUS

LEMMA EncodeMapIsMap ==
  ASSUME NEW K, NEW V, NEW f \in [K -> V], IsFiniteSet(Held(f))
  PROVE  /\ ListKeysDistinct(EncodeMap(f))
         /\ ListEntriesOf(EncodeMap(f), f, K)
         /\ ListCovers(EncodeMap(f), f, K)
         /\ EncodeMap(f) \in Seq([key : K, val : V \ {Absent}])
<1> DEFINE D == Held(f)
           E == {[key |-> x, val |-> f[x]] : x \in D}
           N == Cardinality(E)
           Enum(t) == {t[i] : i \in 1..Len(t)} = E
<1> HIDE DEF E, N, Enum
<1>1. IsFiniteSet(E)
  <2> DEFINE g == [x \in D |-> [key |-> x, val |-> f[x]]]
  <2>1. g \in Surjection(D, E)
    BY DEF Surjection, E
  <2> QED BY <2>1, FS_Surjection
<1>2. N \in Nat /\ ExistsBijection(1..N, E)
  BY <1>1, FS_CardinalityType DEF N
<1>3. \E t \in [1..N -> E] : Enum(t)
  <2>1. PICK t \in Bijection(1..N, E) : TRUE
    BY <1>2 DEF ExistsBijection
  <2>2. t \in [1..N -> E] /\ \A e \in E : \E i \in 1..N : t[i] = e
    BY <2>1 DEF Bijection, Surjection
  <2>3. Len(t) = N
    BY <1>2, <2>2
  <2>4. {t[i] : i \in 1..N} = E
    BY <2>2
  <2> QED BY <2>2, <2>3, <2>4, Zenon DEF Enum
<1> DEFINE c == EncodeMap(f)
<1>4. c \in [1..N -> E] /\ {c[i] : i \in 1..Len(c)} = E /\ Len(c) = N
  <2> DEFINE ch == CHOOSE t \in [1..N -> E] : Enum(t)
  <2>1. ch \in [1..N -> E]
    BY <1>3
  <2>2. Enum(ch)
    BY <1>3
  <2>3. c = ch
    BY <1>3 DEF EncodeMap, Held, Enum, E, N
  <2>9. \A t \in [1..N -> E] : Len(t) = N
    BY <1>2
  <2>4. Len(ch) = N
    BY <2>1, <2>9
  <2>8. Len(c) = N
    BY <2>3, <2>4
  <2>5. c \in [1..N -> E]
    BY <2>1, <2>3
  <2>6. Enum(c)
    BY <2>2, <2>3
  <2>7. Enum(c) = ({c[i] : i \in 1..Len(c)} = E)
    BY DEF Enum
  <2> QED BY <2>8, <2>5, <2>6, <2>7
<1>6. c \in Injection(1..N, E)
  <2>1. c \in Surjection(1..N, E)
    BY <1>4 DEF Surjection
  <2>2. IsFiniteSet(1..N) /\ Cardinality(1..N) = N
    BY <1>2, FS_Interval
  <2> QED BY <2>1, <2>2, FS_SurjSameCardinalityImpliesInj DEF N
<1>7. \A n \in 1..N : \E x \in D : c[n] = [key |-> x, val |-> f[x]]
  <2> SUFFICES ASSUME NEW n \in 1..N PROVE \E x \in D : c[n] = [key |-> x, val |-> f[x]]
    OBVIOUS
  <2>1. c[n] \in E
    BY <1>4
  <2> QED BY <2>1, Zenon DEF E
<1>8. \A a, b \in 1..N : c[a].key = c[b].key => a = b
  <2> SUFFICES ASSUME NEW a \in 1..N, NEW b \in 1..N, c[a].key = c[b].key PROVE a = b
    OBVIOUS
  <2>1. PICK x \in D : c[a] = [key |-> x, val |-> f[x]]
    BY <1>7
  <2>2. PICK y \in D : c[b] = [key |-> y, val |-> f[y]]
    BY <1>7
  <2>3. c[a] = c[b]
    BY <2>1, <2>2
  <2>4. \A u, v \in 1..N : c[u] = c[v] => u = v
    BY <1>6 DEF Injection, IsInjective
  <2> QED BY <2>3, <2>4
<1>9. \A n \in 1..N : c[n].key \in K /\ c[n].val = f[c[n].key] /\ c[n].val # Absent
  <2> SUFFICES ASSUME NEW n \in 1..N
               PROVE  c[n].key \in K /\ c[n].val = f[c[n].key] /\ c[n].val # Absent
    OBVIOUS
  <2>1. PICK x \in D : c[n] = [key |-> x, val |-> f[x]]
    BY <1>7
  <2> QED BY <2>1 DEF Held
<1>10. \A x \in K : f[x] # Absent => \E n \in 1..N : c[n].key = x
  <2> SUFFICES ASSUME NEW x \in K, f[x] # Absent PROVE \E n \in 1..N : c[n].key = x
    OBVIOUS
  <2>1. [key |-> x, val |-> f[x]] \in E
    BY DEF Held, E
  <2>2. [key |-> x, val |-> f[x]] \in {c[i] : i \in 1..Len(c)}
    BY <1>4, <2>1
  <2>3. PICK n \in 1..N : c[n] = [key |-> x, val |-> f[x]]
    BY <1>4, <2>2
  <2> QED BY <2>3
<1>11. c \in Seq([key : K, val : V \ {Absent}])
  <2>1. \A n \in 1..N : c[n] \in [key : K, val : V \ {Absent}]
    <3> SUFFICES ASSUME NEW n \in 1..N PROVE c[n] \in [key : K, val : V \ {Absent}]
      OBVIOUS
    <3>1. PICK x \in D : c[n] = [key |-> x, val |-> f[x]]
      BY <1>7
    <3> QED BY <3>1 DEF Held
  <2>2. c \in [1..N -> [key : K, val : V \ {Absent}]]
    BY <1>4, <2>1
  <2>3. N \in Nat
    BY <1>2
  <2> QED BY <2>2, <2>3, FunctionIsSeq
<1> QED BY <1>4, <1>8, <1>9, <1>10, <1>11 DEF ListKeysDistinct, ListEntriesOf, ListCovers

(* Decoding a list from wrote gives back the map that was encoded, by      *)
(* insertion (deserialize_reject_duplicates) and by last write (serde's    *)
(* BTreeMap visitor) alike.                                                *)
LEMMA DecodeEncodeMap ==
  ASSUME NEW K, NEW V, NEW f \in [K -> V], IsFiniteSet(Held(f))
  PROVE  MapOfList(EncodeMap(f), K) = f /\ LastOfList(EncodeMap(f), K) = f
<1> DEFINE s == EncodeMap(f)
<1>1. ListKeysDistinct(s) /\ ListEntriesOf(s, f, K) /\ ListCovers(s, f, K)
  BY EncodeMapIsMap
<1>2. ASSUME NEW k \in K, \E i \in 1..Len(s) : s[i].key = k
      PROVE  /\ s[CHOOSE i \in 1..Len(s) : s[i].key = k].val = f[k]
             /\ s[CHOOSE i \in 1..Len(s) :
                    s[i].key = k /\ \A j \in 1..Len(s) : s[j].key = k => j <= i].val = f[k]
  <2>1. PICK n \in 1..Len(s) : s[n].key = k
    BY <1>2
  <2>2. \A j \in 1..Len(s) : s[j].key = k => j <= n
    BY <1>1, <2>1 DEF ListKeysDistinct
  <2> DEFINE i1 == CHOOSE i \in 1..Len(s) : s[i].key = k
             i2 == CHOOSE i \in 1..Len(s) :
                     s[i].key = k /\ \A j \in 1..Len(s) : s[j].key = k => j <= i
  <2>3. i1 \in 1..Len(s) /\ s[i1].key = k
    BY <2>1
  <2>4. i2 \in 1..Len(s) /\ s[i2].key = k
    BY <2>1, <2>2
  <2>5. s[i1].val = f[k] /\ s[i2].val = f[k]
    BY <1>1, <2>3, <2>4 DEF ListEntriesOf
  <2> QED BY <2>5
<1>3. ASSUME NEW k \in K, ~\E i \in 1..Len(s) : s[i].key = k
      PROVE  f[k] = Absent
  BY <1>1, <1>3 DEF ListCovers
<1>4. MapOfList(s, K) = f
  BY <1>2, <1>3 DEF MapOfList
<1>5. LastOfList(s, K) = f
  BY <1>2, <1>3 DEF LastOfList
<1> QED BY <1>4, <1>5

(* A validated body names finitely many keys.                              *)
LEMMA InMemoryFinite ==
  ASSUME NEW k \in Kinds, NEW o \in InMemory(k)
  PROVE  /\ k \in {"root", "targets"} => IsFiniteSet(Held(o))
         /\ k = "snapshot" => IsFiniteSet(Held(SnapshotWire(o)))
<1>1. CASE k = "root"
  <2>1. Held(o) \subseteq KeyIds
    BY <1>1 DEF InMemory, Held
  <2> QED BY <1>1, <2>1, FS_Subset
<1>2. CASE k = "targets"
  <2>1. Held(o) \subseteq TargetPaths
    BY <1>2 DEF InMemory, Held
  <2> QED BY <1>2, <2>1, FS_Subset
<1>3. CASE k = "snapshot"
  <2> DEFINE J == {[path |-> p, json |-> TRUE] : p \in Paths}
             g == [p \in Paths |-> [path |-> p, json |-> TRUE]]
  <2>1. IsFiniteSet(Paths)
    BY FS_Subset
  <2>2. g \in Surjection(Paths, J)
    BY DEF Surjection
  <2>3. IsFiniteSet(J)
    BY <2>1, <2>2, FS_Surjection
  <2>4. Held(SnapshotWire(o)) \subseteq J
    BY DEF Held, SnapshotWire, MetaKey
  <2> QED BY <1>3, <2>3, <2>4, FS_Subset
<1> QED BY <1>1, <1>2, <1>3 DEF Kinds

(* The list from writes for a finite map: every value deserializes, no   *)
(* key repeats, and both decodes give the map back.                        *)
LEMMA EncodedMapBody ==
  ASSUME NEW K, NEW V, NEW f \in [K -> V], IsFiniteSet(Held(f)), Malformed \notin V
  PROVE  /\ ListWellFormed(EncodeMap(f))
         /\ ListKeysDistinct(EncodeMap(f))
         /\ MapOfList(EncodeMap(f), K) = f
         /\ LastOfList(EncodeMap(f), K) = f
<1>1. ListKeysDistinct(EncodeMap(f)) /\ ListEntriesOf(EncodeMap(f), f, K)
  BY EncodeMapIsMap
<1>2. MapOfList(EncodeMap(f), K) = f /\ LastOfList(EncodeMap(f), K) = f
  BY DecodeEncodeMap
<1>3. ListWellFormed(EncodeMap(f))
  BY <1>1 DEF ListEntriesOf, ListWellFormed
<1> QED BY <1>1, <1>2, <1>3

\* What serde decodes from the body from writes.
DecodedOf(k, o) ==
  CASE k = "root"      -> o
    [] k = "timestamp" -> [x \in {"snapshot.json"} |-> o]
    [] k = "snapshot"  -> SnapshotWire(o)
    [] k = "targets"   -> o

(* The map decode of a body is the map its entries spell.                  *)
LEMMA BodyMapOf ==
  ASSUME NEW k
  PROVE  /\ Body(k)!MapOf = MapOfList(doc.body, BodyKeys(k))
         /\ Body(k)!Distinct = ListKeysDistinct(doc.body)
         /\ LastWriteWins(doc.body) = LastOfList(doc.body, TargetPaths)
BY DEF Body!MapOf, MapOfList, Body!Distinct, ListKeysDistinct, LastWriteWins, LastOfList

(***************************************************************************)
(* The body from writes for a validated value passes serde's checks and    *)
(* decodes to that value (the snapshot paths with ".json" appended).       *)
(***************************************************************************)
LEMMA EncodedBody ==
  ASSUME NEW k \in Kinds, NEW o \in InMemory(k), doc.body = FromBody(k, o)
  PROVE  /\ Body(k)!WellFormed
         /\ k # "targets" => Body(k)!Distinct
         /\ k = "timestamp" => doc.body # <<>>
         /\ k # "targets" => Body(k)!MapOf = DecodedOf(k, o)
         /\ k = "targets" => LastWriteWins(doc.body) = o
<1>0. Body(k)!MapOf = MapOfList(doc.body, BodyKeys(k))
      /\ Body(k)!Distinct = ListKeysDistinct(doc.body)
      /\ LastWriteWins(doc.body) = LastOfList(doc.body, TargetPaths)
  BY BodyMapOf
<1>a. Body(k)!WellFormed = ListWellFormed(doc.body)
  BY DEF Body!WellFormed, ListWellFormed
<1>1. CASE k = "root"
  <2>1. o \in [KeyIds -> PubKeys \cup {Absent}] /\ doc.body = EncodeMap(o)
    BY <1>1 DEF InMemory, FromBody
  <2>2. IsFiniteSet(Held(o))
    BY <1>1, InMemoryFinite
  <2>3. Malformed \notin PubKeys \cup {Absent}
    OBVIOUS
  <2>6. /\ ListWellFormed(EncodeMap(o))
        /\ ListKeysDistinct(EncodeMap(o))
        /\ MapOfList(EncodeMap(o), KeyIds) = o
    BY <2>1, <2>2, <2>3, EncodedMapBody
  <2>4. ListWellFormed(doc.body) /\ ListKeysDistinct(doc.body) /\ MapOfList(doc.body, KeyIds) = o
    BY <2>1, <2>6
  <2>5. BodyKeys(k) = KeyIds /\ DecodedOf(k, o) = o
    BY <1>1 DEF BodyKeys, DecodedOf
  <2> QED BY <1>0, <1>a, <1>1, <2>4, <2>5
<1>2. CASE k = "snapshot"
  <2>1. SnapshotWire(o) \in [MetaKey -> Descs \cup {Absent}]
        /\ doc.body = EncodeMap(SnapshotWire(o))
    BY <1>2 DEF InMemory, FromBody, SnapshotWire
  <2>2. IsFiniteSet(Held(SnapshotWire(o)))
    BY <1>2, InMemoryFinite
  <2>3. Malformed \notin Descs \cup {Absent}
    OBVIOUS
  <2>6. /\ ListWellFormed(EncodeMap(SnapshotWire(o)))
        /\ ListKeysDistinct(EncodeMap(SnapshotWire(o)))
        /\ MapOfList(EncodeMap(SnapshotWire(o)), MetaKey) = SnapshotWire(o)
    BY <2>1, <2>2, <2>3, EncodedMapBody
  <2>4. /\ ListWellFormed(doc.body) /\ ListKeysDistinct(doc.body)
        /\ MapOfList(doc.body, MetaKey) = SnapshotWire(o)
    BY <2>1, <2>6
  <2>5. BodyKeys(k) = MetaKey /\ DecodedOf(k, o) = SnapshotWire(o)
    BY <1>2 DEF BodyKeys, DecodedOf
  <2> QED BY <1>0, <1>a, <1>2, <2>4, <2>5
<1>3. CASE k = "targets"
  <2>1. o \in [TargetPaths -> Descs \cup {Absent}] /\ doc.body = EncodeMap(o)
    BY <1>3 DEF InMemory, FromBody
  <2>2. IsFiniteSet(Held(o))
    BY <1>3, InMemoryFinite
  <2>3. Malformed \notin Descs \cup {Absent}
    OBVIOUS
  <2>6. ListWellFormed(EncodeMap(o)) /\ LastOfList(EncodeMap(o), TargetPaths) = o
    BY <2>1, <2>2, <2>3, EncodedMapBody
  <2>4. ListWellFormed(doc.body) /\ LastOfList(doc.body, TargetPaths) = o
    BY <2>1, <2>6
  <2> QED BY <1>0, <1>a, <1>3, <2>4
<1>4. CASE k = "timestamp"
  <2>1. o \in Descs /\ doc.body = <<[key |-> "snapshot.json", val |-> o]>>
    BY <1>4 DEF InMemory, FromBody
  <2>2. ListWellFormed(doc.body)
    BY <2>1 DEF ListWellFormed
  <2>3. ListKeysDistinct(doc.body) /\ doc.body # <<>>
    BY <2>1 DEF ListKeysDistinct
  <2>4. BodyKeys(k) = {"snapshot.json"} /\ DecodedOf(k, o) = [x \in {"snapshot.json"} |-> o]
    BY <1>4 DEF BodyKeys, DecodedOf
  <2>5. MapOfList(doc.body, {"snapshot.json"}) = [x \in {"snapshot.json"} |-> o]
    BY <2>1 DEF MapOfList
  <2> QED BY <1>0, <1>a, <1>4, <2>2, <2>3, <2>4, <2>5
<1> QED BY <1>1, <1>2, <1>3, <1>4 DEF Kinds

-----------------------------------------------------------------------------
\* The document from wrote, the snapshot meta keys it holds, and the map the
\* collect has built once it has visited all but `todo`.
EncodedDoc ==
  [typ |-> kind, spec |-> SPEC_VERSION, expires |-> "parses", body |-> FromBody(kind, origin)]
Uncollected == {m \in MetaKey : m.json /\ m.path \in Paths /\ origin[m.path] # Absent}
Collected ==
  [p \in Paths |-> IF [path |-> p, json |-> TRUE] \in todo THEN Absent ELSE origin[p]]

(***************************************************************************)
(* The inductive invariant.  A document from wrote is never failed: it is  *)
(* the encoding of `origin` from serde on, serde decodes it to the body    *)
(* that was encoded, the snapshot collect visits only keys of that body    *)
(* and has moved every visited one to its path, and try_into ends with     *)
(* `origin`.  SInv supplies the status and kind facts.                     *)
(***************************************************************************)
OwnDoc ==
  /\ origin \in InMemory(kind)
  /\ status \in {"encoding", "serde", "try_into", "collecting", "ok"}
  /\ status # "encoding" => doc = EncodedDoc
  /\ status \in {"try_into", "collecting", "ok"} => decoded = DecodedOf(kind, origin)
  /\ status = "collecting" => kind = "snapshot" /\ todo \subseteq Uncollected /\ out = Collected
  /\ status = "ok" => out = origin

RInv == SInv /\ (~foreign => OwnDoc)

(* The legacy-key filter keeps every key of a validated pool.              *)
LEMMA FilterKeepsPool ==
  ASSUME NEW o \in InMemory("root")
  PROVE  KeysWithCorrectKeyId(o) = o
BY DEF InMemory, KeysWithCorrectKeyId

LEMMA InitRInv == Init => RInv
<1> SUFFICES ASSUME Init PROVE RInv
  OBVIOUS
<1>1. SInv
  BY InitSInv
<1>2. ~foreign => OwnDoc
  BY DEF Init, OwnDoc
<1> QED BY <1>1, <1>2 DEF RInv

LEMMA NextRInv == RInv /\ [Next]_vars => RInv'
<1> SUFFICES ASSUME RInv, [Next]_vars PROVE RInv'
  OBVIOUS
<1>0. SInv'
  BY NextSInv DEF RInv
<1> SUFFICES ASSUME ~foreign' PROVE OwnDoc'
  BY <1>0 DEF RInv
<1>a. foreign' = foreign /\ kind' = kind /\ origin' = origin
  BY DEF Next, vars, From, SerdeOk, SerdeDuplicate, SerdeMalformed, EnvelopeError,
         RootTryInto, TimestampOrTargetsTryInto, SnapshotTryInto, CollectEntry,
         CollectNoSuffix, CollectBadPath, CollectEnd
<1>b. OwnDoc /\ kind \in Kinds
  BY <1>a DEF RInv, SInv
<1>c. EncodedDoc' = EncodedDoc /\ Uncollected' = Uncollected
  BY <1>a DEF EncodedDoc, Uncollected
<1>d. origin \in InMemory(kind)
  BY <1>b DEF OwnDoc
<1>e. origin' \in InMemory(kind')
  BY <1>a, <1>d
<1>1. CASE From
  <2>1. status' = "serde" /\ doc' = EncodedDoc
    BY <1>1 DEF From, EncodedDoc
  <2> QED BY <1>a, <1>c, <1>d, <2>1 DEF OwnDoc
<1>2. CASE SerdeOk
  <2>1. status = "serde" /\ status' = "try_into" /\ doc' = doc
        /\ decoded' = IF kind = "targets" THEN LastWriteWins(doc.body) ELSE Body(kind)!MapOf
    BY <1>2 DEF SerdeOk
  <2>2. doc.body = FromBody(kind, origin)
    BY <1>b, <2>1 DEF OwnDoc, EncodedDoc
  <2>3. /\ kind # "targets" => Body(kind)!MapOf = DecodedOf(kind, origin)
        /\ kind = "targets" => LastWriteWins(doc.body) = origin
    BY <1>b, <1>d, <2>2, EncodedBody
  <2>4. decoded' = DecodedOf(kind, origin)
    BY <2>1, <2>3 DEF DecodedOf
  <2> QED BY <1>a, <1>b, <1>c, <2>1, <2>4 DEF OwnDoc
<1>3. CASE SerdeDuplicate \/ SerdeMalformed
  <2>1. status = "serde"
    BY <1>3 DEF SerdeDuplicate, SerdeMalformed
  <2>2. doc.body = FromBody(kind, origin)
    BY <1>b, <2>1 DEF OwnDoc, EncodedDoc
  <2>3. /\ Body(kind)!WellFormed
        /\ kind # "targets" => Body(kind)!Distinct
        /\ kind = "timestamp" => doc.body # <<>>
    BY <1>b, <1>d, <2>2, EncodedBody
  <2> QED BY <1>3, <2>3 DEF SerdeDuplicate, SerdeMalformed
<1>4. CASE EnvelopeError
  <2>1. status = "try_into" /\ ~EnvelopeOk
    BY <1>4 DEF EnvelopeError
  <2>2. doc = EncodedDoc
    BY <1>b, <2>1 DEF OwnDoc
  <2> QED BY <2>1, <2>2 DEF EncodedDoc, EnvelopeOk, ValidSpecVersion, SPEC_VERSION
<1>5. CASE RootTryInto
  <2>1. /\ status = "try_into" /\ kind = "root" /\ status' = "ok"
        /\ out' = KeysWithCorrectKeyId(decoded) /\ doc' = doc /\ decoded' = decoded
    BY <1>5 DEF RootTryInto
  <2>2. decoded = origin
    BY <1>b, <2>1 DEF OwnDoc, DecodedOf
  <2>3. out' = origin
    BY <1>d, <2>1, <2>2, FilterKeepsPool
  <2> QED BY <1>a, <1>b, <1>c, <2>1, <2>3 DEF OwnDoc
<1>6. CASE TimestampOrTargetsTryInto
  <2>1. /\ status = "try_into" /\ kind \in {"timestamp", "targets"} /\ status' = "ok"
        /\ out' = IF kind = "timestamp" THEN decoded["snapshot.json"] ELSE decoded
        /\ doc' = doc /\ decoded' = decoded
    BY <1>6 DEF TimestampOrTargetsTryInto
  <2>2. decoded = DecodedOf(kind, origin)
    BY <1>b, <2>1 DEF OwnDoc
  <2>3. out' = origin
    BY <2>1, <2>2 DEF DecodedOf
  <2> QED BY <1>a, <1>b, <1>c, <2>1, <2>3 DEF OwnDoc
<1>7. CASE SnapshotTryInto
  <2>1. /\ status = "try_into" /\ kind = "snapshot" /\ status' = "collecting"
        /\ todo' = {m \in MetaKey : decoded[m] # Absent}
        /\ out' = [p \in Paths |-> Absent] /\ doc' = doc /\ decoded' = decoded
    BY <1>7 DEF SnapshotTryInto
  <2>2. decoded = SnapshotWire(origin)
    BY <1>b, <2>1 DEF OwnDoc, DecodedOf
  <2>3. todo' = Uncollected
    BY <2>1, <2>2 DEF SnapshotWire, Uncollected
  <2>4. origin \in [Paths -> Descs \cup {Absent}]
    BY <1>d, <2>1 DEF InMemory
  <2>5. \A p \in Paths : [path |-> p, json |-> TRUE] \in MetaKey
    BY DEF MetaKey
  <2>6. out' = Collected'
    BY <1>a, <2>1, <2>3, <2>4, <2>5 DEF Collected, Uncollected
  <2>7. decoded' = DecodedOf(kind', origin') /\ doc' = EncodedDoc'
    BY <1>a, <1>b, <1>c, <2>1 DEF OwnDoc
  <2> QED BY <1>a, <1>c, <1>e, <2>1, <2>3, <2>6, <2>7 DEF OwnDoc
<1>8. CASE CollectEntry \/ CollectNoSuffix \/ CollectBadPath
  <2>1. status = "collecting" /\ todo # {}
    BY <1>8 DEF CollectEntry, CollectNoSuffix, CollectBadPath
  <2>2. kind = "snapshot" /\ todo \subseteq Uncollected /\ out = Collected
        /\ decoded = SnapshotWire(origin) /\ doc = EncodedDoc
    BY <1>b, <2>1 DEF OwnDoc, DecodedOf
  <2>3. NextKey \in todo
    BY <2>1, <2>2, NextKeyInTodo DEF Uncollected
  <2>4. NextKey.json /\ NextKey.path \in Paths /\ NextKey \in MetaKey
    BY <2>2, <2>3 DEF Uncollected
  <2>5. CASE CollectEntry
    <3> DEFINE m == NextKey
    <3>1. /\ status' = "collecting" /\ doc' = doc /\ decoded' = decoded
          /\ out' = [out EXCEPT ![m.path] = decoded[m]] /\ todo' = todo \ {m}
      BY <2>5 DEF CollectEntry
    <3>2. m = [path |-> m.path, json |-> TRUE]
      BY <2>4, JsonKeyOfPath
    <3>3. decoded[m] = origin[m.path]
      BY <2>2, <2>4 DEF SnapshotWire
    <3>4. ASSUME NEW p \in Paths, p # m.path
          PROVE  ([path |-> p, json |-> TRUE] \in todo') = ([path |-> p, json |-> TRUE] \in todo)
      BY <3>1, <3>2, <3>4
    <3>5. out' = Collected'
      <4>1. ASSUME NEW p \in Paths PROVE out'[p] = Collected'[p]
        <5>1. CASE p = m.path
          BY <1>a, <2>2, <2>4, <3>1, <3>2, <3>3, <5>1 DEF Collected
        <5>2. CASE p # m.path
          BY <1>a, <2>2, <3>1, <3>4, <5>2 DEF Collected
        <5> QED BY <5>1, <5>2
      <4>2. DOMAIN out' = Paths
        BY <2>2, <3>1 DEF Collected
      <4> QED BY <2>2, <3>1, <4>1, <4>2 DEF Collected
    <3>6. decoded' = DecodedOf(kind', origin') /\ doc' = EncodedDoc'
      BY <1>a, <1>b, <1>c, <2>1, <3>1 DEF OwnDoc
    <3>7. todo' \subseteq Uncollected'
      BY <1>c, <2>2, <3>1
    <3> QED BY <1>a, <1>e, <2>2, <3>1, <3>5, <3>6, <3>7 DEF OwnDoc
  <2>6. CASE CollectNoSuffix
    BY <2>4, <2>6 DEF CollectNoSuffix
  <2>7. CASE CollectBadPath
    BY <2>4, <2>7 DEF CollectBadPath
  <2> QED BY <1>8, <2>5, <2>6, <2>7
<1>9. CASE CollectEnd
  <2>1. /\ status = "collecting" /\ todo = {} /\ status' = "ok"
        /\ out' = out /\ todo' = todo /\ doc' = doc /\ decoded' = decoded
    BY <1>9 DEF CollectEnd
  <2>2. kind = "snapshot" /\ out = Collected
    BY <1>b, <2>1 DEF OwnDoc
  <2>3. origin \in [Paths -> Descs \cup {Absent}]
    BY <1>d, <2>2 DEF InMemory
  <2>4. out' = origin
    BY <2>1, <2>2, <2>3 DEF Collected
  <2> QED BY <1>a, <1>b, <1>c, <2>1, <2>4 DEF OwnDoc
<1>10. CASE UNCHANGED vars
  <2>1. status' = status /\ doc' = doc /\ decoded' = decoded /\ todo' = todo /\ out' = out
    BY <1>10 DEF vars
  <2>2. Collected' = Collected
    BY <1>a, <2>1 DEF Collected
  <2> QED BY <1>a, <1>b, <1>c, <2>1, <2>2 DEF OwnDoc
<1> QED BY <1>1, <1>2, <1>3, <1>4, <1>5, <1>6, <1>7, <1>8, <1>9, <1>10 DEF Next

(***************************************************************************)
(* Spec section 8: for every role, every finite universe of key ids, meta  *)
(* paths and target paths, every key-id function and every BTreeMap order, *)
(* decoding what from wrote from a validated value ends with that value:   *)
(* from, serde and try_into agree on the whole pipeline.                   *)
(***************************************************************************)
THEOREM RoundTripSound == Spec => []RoundTrip
<1>1. Init => RInv
  BY InitRInv
<1>2. RInv /\ [Next]_vars => RInv'
  BY NextRInv
<1>3. RInv => RoundTrip
  BY DEF RInv, OwnDoc, RoundTrip, Final
<1> QED BY <1>1, <1>2, <1>3, PTL DEF Spec

-----------------------------------------------------------------------------
(***************************************************************************)
(* The types of the pipeline, for a foreign document as well as for one    *)
(* from wrote: what serde decodes from a body of any length, and what each *)
(* try_into builds from it.                                                *)
(***************************************************************************)

(* A well-formed body decodes to a map of values, by first entry and by    *)
(* last entry alike: each key holds the value of some entry, or nothing.   *)
LEMMA ListMapsTyped ==
  ASSUME NEW K, NEW V, NEW s \in Seq([key : K, val : V \cup {Malformed}]),
         ListWellFormed(s)
  PROVE  /\ MapOfList(s, K) \in [K -> V \cup {Absent}]
         /\ LastOfList(s, K) \in [K -> V \cup {Absent}]
<1>1. \A i \in 1..Len(s) : s[i].val \in V
  <2> SUFFICES ASSUME NEW i \in 1..Len(s) PROVE s[i].val \in V
    OBVIOUS
  <2>1. s[i] \in [key : K, val : V \cup {Malformed}]
    BY SeqEntry
  <2>2. s[i].val # Malformed
    BY DEF ListWellFormed
  <2> QED BY <2>1, <2>2
<1>2. MapOfList(s, K) \in [K -> V \cup {Absent}]
  BY <1>1 DEF MapOfList
<1>3. ASSUME NEW k \in K, \E i \in 1..Len(s) : s[i].key = k
      PROVE  \E i \in 1..Len(s) : s[i].key = k /\ \A j \in 1..Len(s) : s[j].key = k => j <= i
  <2> DEFINE T == {i \in 1..Len(s) : s[i].key = k}
  <2>1. T \subseteq Nat /\ T # {} /\ Len(s) \in Nat /\ \A x \in T : x <= Len(s)
    BY <1>3
  <2>2. PICK i \in T : \A j \in T : j <= i
    BY <2>1, NatSetHasMax
  <2> QED BY <2>2
<1>4. LastOfList(s, K) \in [K -> V \cup {Absent}]
  <2> SUFFICES ASSUME NEW k \in K, \E i \in 1..Len(s) : s[i].key = k
               PROVE  s[CHOOSE i \in 1..Len(s) :
                          /\ s[i].key = k
                          /\ \A j \in 1..Len(s) : s[j].key = k => j <= i].val \in V
    BY DEF LastOfList
  <2>1. \E i \in 1..Len(s) : s[i].key = k /\ \A j \in 1..Len(s) : s[j].key = k => j <= i
    BY <1>3
  <2> QED BY <1>1, <2>1
<1> QED BY <1>2, <1>4

(* The body from writes for a validated value is a list of wire entries.   *)
LEMMA FromBodyTyped ==
  ASSUME NEW k \in Kinds, NEW o \in InMemory(k)
  PROVE  FromBody(k, o) \in Seq(BodyEntry(k))
<1>1. CASE k = "root"
  <2>1. o \in [KeyIds -> PubKeys \cup {Absent}] /\ FromBody(k, o) = EncodeMap(o)
    BY <1>1 DEF InMemory, FromBody
  <2>2. IsFiniteSet(Held(o))
    BY <1>1, InMemoryFinite
  <2>3. EncodeMap(o) \in Seq([key : KeyIds, val : (PubKeys \cup {Absent}) \ {Absent}])
    BY <2>1, <2>2, EncodeMapIsMap
  <2>4. [key : KeyIds, val : (PubKeys \cup {Absent}) \ {Absent}] \subseteq BodyEntry(k)
    BY <1>1 DEF BodyEntry, BodyKeys, BodyValues
  <2>5. EncodeMap(o) \in Seq(BodyEntry(k))
    BY <2>3, <2>4, SeqMonotone
  <2> QED BY <2>1, <2>5
<1>2. CASE k = "snapshot"
  <2>1. SnapshotWire(o) \in [MetaKey -> Descs \cup {Absent}]
        /\ FromBody(k, o) = EncodeMap(SnapshotWire(o))
    BY <1>2 DEF InMemory, FromBody, SnapshotWire
  <2>2. IsFiniteSet(Held(SnapshotWire(o)))
    BY <1>2, InMemoryFinite
  <2>3. EncodeMap(SnapshotWire(o)) \in Seq([key : MetaKey, val : (Descs \cup {Absent}) \ {Absent}])
    BY <2>1, <2>2, EncodeMapIsMap
  <2>4. [key : MetaKey, val : (Descs \cup {Absent}) \ {Absent}] \subseteq BodyEntry(k)
    BY <1>2 DEF BodyEntry, BodyKeys, BodyValues
  <2>5. EncodeMap(SnapshotWire(o)) \in Seq(BodyEntry(k))
    BY <2>3, <2>4, SeqMonotone
  <2> QED BY <2>1, <2>5
<1>3. CASE k = "targets"
  <2>1. o \in [TargetPaths -> Descs \cup {Absent}] /\ FromBody(k, o) = EncodeMap(o)
    BY <1>3 DEF InMemory, FromBody
  <2>2. IsFiniteSet(Held(o))
    BY <1>3, InMemoryFinite
  <2>3. EncodeMap(o) \in Seq([key : TargetPaths, val : (Descs \cup {Absent}) \ {Absent}])
    BY <2>1, <2>2, EncodeMapIsMap
  <2>4. [key : TargetPaths, val : (Descs \cup {Absent}) \ {Absent}] \subseteq BodyEntry(k)
    BY <1>3 DEF BodyEntry, BodyKeys, BodyValues
  <2>5. EncodeMap(o) \in Seq(BodyEntry(k))
    BY <2>3, <2>4, SeqMonotone
  <2> QED BY <2>1, <2>5
<1>4. CASE k = "timestamp"
  <2>1. o \in Descs /\ FromBody(k, o) = <<[key |-> "snapshot.json", val |-> o]>>
    BY <1>4 DEF InMemory, FromBody
  <2>2. [key |-> "snapshot.json", val |-> o] \in BodyEntry(k)
    BY <1>4, <2>1 DEF BodyEntry, BodyKeys, BodyValues
  <2> QED BY <2>1, <2>2
<1> QED BY <1>1, <1>2, <1>3, <1>4 DEF Kinds

\* The body serde has decoded, by role: the timestamp struct has its one
\* field; the maps hold a value or nothing under each key.
DecodedType(k) ==
  CASE k = "root"      -> [KeyIds -> PubKeys \cup {Absent}]
    [] k = "timestamp" -> [{"snapshot.json"} -> Descs]
    [] k = "snapshot"  -> [MetaKey -> Descs \cup {Absent}]
    [] k = "targets"   -> [TargetPaths -> Descs \cup {Absent}]

\* The body of the metadata value try_into builds, by role.
OutType(k) ==
  CASE k = "root"      -> [KeyIds -> PubKeys \cup {Absent}]
    [] k = "timestamp" -> Descs
    [] k = "snapshot"  -> [Paths -> Descs \cup {Absent}]
    [] k = "targets"   -> [TargetPaths -> Descs \cup {Absent}]

(***************************************************************************)
(* The inductive invariant of the types: a document exists from serde on,  *)
(* serde's result is typed from try_into on, the collect's map is a map of *)
(* descriptions, and an Ok result has its role's type.                     *)
(***************************************************************************)
TyInv ==
  /\ kind \in Kinds
  /\ foreign \in BOOLEAN
  /\ status \in Stages \cup Final
  /\ origin \in InMemory(kind) \cup {Absent}
  /\ status = "encoding" => origin \in InMemory(kind) /\ doc = Absent
  /\ status # "encoding" => doc \in WireDoc(kind)
  /\ todo \subseteq MetaKey
  /\ status \in {"try_into", "collecting"} => decoded \in DecodedType(kind)
  /\ status = "collecting" => kind = "snapshot" /\ out \in [Paths -> Descs \cup {Absent}]
  /\ status = "ok" => out \in OutType(kind)

LEMMA InitTyInv == Init => TyInv
<1> SUFFICES ASSUME Init PROVE TyInv
  OBVIOUS
<1>1. kind \in Kinds /\ todo = {}
  BY DEF Init
<1>2. CASE origin \in InMemory(kind) /\ foreign = FALSE /\ doc = Absent /\ status = "encoding"
  BY <1>1, <1>2 DEF TyInv, Stages
<1>3. CASE origin = Absent /\ foreign = TRUE /\ doc \in WireDocs(kind) /\ status = "serde"
  <2>1. UNION {[1..n -> BodyEntry(kind)] : n \in 0..MaxEntries} \subseteq Seq(BodyEntry(kind))
    OBVIOUS
  <2>2. doc \in WireDoc(kind)
    BY <1>3, <2>1 DEF WireDocs, WireDoc
  <2> QED BY <1>1, <1>3, <2>2 DEF TyInv, Stages
<1> QED BY <1>2, <1>3 DEF Init

(* What serde decodes from a typed wire body has its role's type.          *)
LEMMA SerdeTyped ==
  ASSUME NEW k \in Kinds, doc \in WireDoc(k), Body(k)!WellFormed,
         k = "timestamp" => doc.body # <<>>
  PROVE  (IF k = "targets" THEN LastWriteWins(doc.body) ELSE Body(k)!MapOf) \in DecodedType(k)
<1>0. /\ Body(k)!MapOf = MapOfList(doc.body, BodyKeys(k))
      /\ LastWriteWins(doc.body) = LastOfList(doc.body, TargetPaths)
  BY BodyMapOf
<1>1. /\ doc.body \in Seq([key : BodyKeys(k), val : BodyValues(k) \cup {Malformed}])
      /\ ListWellFormed(doc.body)
  BY DEF WireDoc, BodyEntry, Body!WellFormed, ListWellFormed
<1>2. /\ MapOfList(doc.body, BodyKeys(k)) \in [BodyKeys(k) -> BodyValues(k) \cup {Absent}]
      /\ LastOfList(doc.body, BodyKeys(k)) \in [BodyKeys(k) -> BodyValues(k) \cup {Absent}]
  BY <1>1, ListMapsTyped
<1>3. CASE k = "root"
  BY <1>0, <1>2, <1>3 DEF BodyKeys, BodyValues, DecodedType
<1>4. CASE k = "snapshot"
  BY <1>0, <1>2, <1>4 DEF BodyKeys, BodyValues, DecodedType
<1>5. CASE k = "targets"
  BY <1>0, <1>2, <1>5 DEF BodyKeys, BodyValues, DecodedType
<1>6. CASE k = "timestamp"
  <2> DEFINE m == MapOfList(doc.body, {"snapshot.json"})
  <2>1. m \in [{"snapshot.json"} -> Descs \cup {Absent}]
    BY <1>2, <1>6 DEF BodyKeys, BodyValues
  <2>2. Len(doc.body) > 0 /\ doc.body[1].key \in {"snapshot.json"}
    <3>1. doc.body # <<>>
      BY <1>6
    <3>2. Len(doc.body) > 0
      BY <1>1, <3>1
    <3>3. 1 \in 1..Len(doc.body)
      BY <1>1, <3>2
    <3>4. doc.body[1] \in [key : BodyKeys(k), val : BodyValues(k) \cup {Malformed}]
      BY <1>1, <3>3, SeqEntry
    <3> QED BY <1>6, <3>2, <3>4 DEF BodyKeys
  <2>3. m["snapshot.json"] # Absent
    <3>1. \E i \in 1..Len(doc.body) : doc.body[i].key = "snapshot.json"
      BY <1>1, <2>2
    <3>2. m["snapshot.json"] = doc.body[CHOOSE i \in 1..Len(doc.body) :
                                         doc.body[i].key = "snapshot.json"].val
      BY <3>1 DEF MapOfList
    <3>3. \A i \in 1..Len(doc.body) : doc.body[i].val \in Descs
      <4> SUFFICES ASSUME NEW i \in 1..Len(doc.body) PROVE doc.body[i].val \in Descs
        OBVIOUS
      <4>1. doc.body[i] \in [key : BodyKeys(k), val : BodyValues(k) \cup {Malformed}]
        BY <1>1, SeqEntry
      <4>2. doc.body[i].val # Malformed
        BY <1>1 DEF ListWellFormed
      <4> QED BY <1>6, <4>1, <4>2 DEF BodyValues
    <3> QED BY <3>1, <3>2, <3>3
  <2>4. m \in [{"snapshot.json"} -> Descs]
    BY <2>1, <2>3
  <2> QED BY <1>0, <1>6, <2>4 DEF BodyKeys, DecodedType
<1> QED BY <1>3, <1>4, <1>5, <1>6 DEF Kinds

LEMMA NextTyInv == TyInv /\ [Next]_vars => TyInv'
<1> SUFFICES ASSUME TyInv, [Next]_vars PROVE TyInv'
  OBVIOUS
<1>0. kind \in Kinds /\ todo \subseteq MetaKey /\ origin \in InMemory(kind) \cup {Absent}
  BY DEF TyInv
<1>1. CASE From
  <2>1. /\ status = "encoding" /\ origin \in InMemory(kind) /\ status' = "serde"
        /\ doc' = [typ |-> kind, spec |-> SPEC_VERSION, expires |-> "parses",
                   body |-> FromBody(kind, origin)]
        /\ UNCHANGED <<kind, origin, foreign, decoded, todo, out>>
    BY <1>1 DEF From, TyInv
  <2>2. FromBody(kind, origin) \in Seq(BodyEntry(kind))
    BY <1>0, <2>1, FromBodyTyped
  <2>3. doc' \in WireDoc(kind)'
    BY <1>0, <2>1, <2>2 DEF WireDoc, SPEC_VERSION
  <2> QED BY <2>1, <2>3 DEF TyInv, Stages
<1>2. CASE SerdeOk
  <2>1. /\ status = "serde" /\ Body(kind)!WellFormed
        /\ kind = "timestamp" => doc.body # <<>>
        /\ decoded' = IF kind = "targets" THEN LastWriteWins(doc.body) ELSE Body(kind)!MapOf
        /\ status' = "try_into"
        /\ UNCHANGED <<kind, origin, foreign, doc, todo, out>>
    BY <1>2 DEF SerdeOk
  <2>2. doc \in WireDoc(kind)
    BY <2>1 DEF TyInv
  <2>3. decoded' \in DecodedType(kind)
    BY <1>0, <2>1, <2>2, SerdeTyped
  <2> QED BY <2>1, <2>2, <2>3 DEF TyInv, Stages
<1>3. CASE SerdeDuplicate \/ SerdeMalformed \/ EnvelopeError \/ CollectNoSuffix \/ CollectBadPath
  <2>1. EnvelopeError => status' \in {"wrong_type", "bad_version", "bad_expires"}
    BY DEF EnvelopeError, EnvelopeErrorOf, EnvelopeOk
  <2>2. /\ status \in Stages /\ status # "encoding"
        /\ status' \in Final \ {"ok"}
        /\ UNCHANGED <<kind, origin, foreign, doc, decoded, todo, out>>
    BY <1>3, <2>1 DEF SerdeDuplicate, SerdeMalformed, EnvelopeError, CollectNoSuffix,
                      CollectBadPath, Stages, Final
  <2> QED BY <2>2 DEF TyInv, Stages, Final
<1>4. CASE RootTryInto
  <2>1. /\ kind = "root" /\ status = "try_into" /\ status' = "ok"
        /\ out' = KeysWithCorrectKeyId(decoded)
        /\ UNCHANGED <<kind, origin, foreign, doc, decoded, todo>>
    BY <1>4 DEF RootTryInto
  <2>2. decoded \in [KeyIds -> PubKeys \cup {Absent}]
    BY <2>1 DEF TyInv, DecodedType
  <2>3. out' \in OutType(kind)
    BY <2>1, <2>2 DEF KeysWithCorrectKeyId, OutType
  <2> QED BY <2>1, <2>3 DEF TyInv, Stages, Final
<1>5. CASE TimestampOrTargetsTryInto
  <2>1. /\ kind \in {"timestamp", "targets"} /\ status = "try_into" /\ status' = "ok"
        /\ out' = IF kind = "timestamp" THEN decoded["snapshot.json"] ELSE decoded
        /\ UNCHANGED <<kind, origin, foreign, doc, decoded, todo>>
    BY <1>5 DEF TimestampOrTargetsTryInto
  <2>2. decoded \in DecodedType(kind)
    BY <2>1 DEF TyInv
  <2>3. out' \in OutType(kind)
    <3>1. CASE kind = "timestamp"
      BY <2>1, <2>2, <3>1 DEF DecodedType, OutType
    <3>2. CASE kind = "targets"
      BY <2>1, <2>2, <3>2 DEF DecodedType, OutType
    <3> QED BY <2>1, <3>1, <3>2
  <2> QED BY <2>1, <2>3 DEF TyInv, Stages, Final
<1>6. CASE SnapshotTryInto
  <2>1. /\ kind = "snapshot" /\ status = "try_into" /\ status' = "collecting"
        /\ todo' = {m \in MetaKey : decoded[m] # Absent}
        /\ out' = [p \in Paths |-> Absent]
        /\ UNCHANGED <<kind, origin, foreign, doc, decoded>>
    BY <1>6 DEF SnapshotTryInto
  <2>2. decoded \in DecodedType(kind)
    BY <2>1 DEF TyInv
  <2> QED BY <2>1, <2>2 DEF TyInv, Stages
<1>7. CASE CollectEntry
  <2>1. /\ status = "collecting" /\ todo # {} /\ NextKey.path \in Paths
        /\ out' = [out EXCEPT ![NextKey.path] = decoded[NextKey]]
        /\ todo' = todo \ {NextKey}
        /\ UNCHANGED <<kind, origin, foreign, doc, decoded, status>>
    BY <1>7 DEF CollectEntry
  <2>2. kind = "snapshot" /\ out \in [Paths -> Descs \cup {Absent}]
        /\ decoded \in [MetaKey -> Descs \cup {Absent}]
    BY <2>1 DEF TyInv, DecodedType
  <2>3. NextKey \in MetaKey
    BY <1>0, <2>1, NextKeyInTodo
  <2>4. out' \in [Paths -> Descs \cup {Absent}]
    BY <2>1, <2>2, <2>3
  <2> QED BY <2>1, <2>2, <2>4 DEF TyInv, Stages
<1>8. CASE CollectEnd
  <2>1. /\ status = "collecting" /\ status' = "ok"
        /\ UNCHANGED <<kind, origin, foreign, doc, decoded, todo, out>>
    BY <1>8 DEF CollectEnd
  <2>2. kind = "snapshot" /\ out \in [Paths -> Descs \cup {Absent}]
    BY <2>1 DEF TyInv
  <2> QED BY <2>1, <2>2 DEF TyInv, OutType, Stages, Final
<1>9. CASE UNCHANGED vars
  BY <1>9 DEF vars, TyInv
<1> QED BY <1>1, <1>2, <1>3, <1>4, <1>5, <1>6, <1>7, <1>8, <1>9 DEF Next

LEMMA TyInvTypeOK == TyInv => TypeOK
BY DEF TyInv, TypeOK, OutType

(***************************************************************************)
(* For every universe of key ids, keys, paths and descriptions, every      *)
(* key-id function, BTreeMap order and bound: the four role codecs keep    *)
(* their types, for a document from wrote and for one of any length from   *)
(* any other writer.  An Ok result is a root key pool, a snapshot          *)
(* description, a snapshot meta map or a targets map, as its role says.    *)
(***************************************************************************)
THEOREM MetadataTypeCorrect == Spec => []TypeOK
<1>1. Init => TyInv
  BY InitTyInv
<1>2. TyInv /\ [Next]_vars => TyInv'
  BY NextTyInv
<1>3. TyInv => TypeOK
  BY TyInvTypeOK
<1> QED BY <1>1, <1>2, <1>3, PTL DEF Spec

=============================================================================
