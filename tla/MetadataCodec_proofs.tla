------------------------- MODULE MetadataCodec_proofs -------------------------
(***************************************************************************)
(* Proofs that a decoded root key pool is exact and never names one key    *)
(* under two ids, and that a decoded snapshot meta map is exactly the      *)
(* document's entries, for every set of key ids, keys and path strings,    *)
(* every KeyIdOf, BTreeMap order and bound on the wire maps.               *)
(***************************************************************************)
EXTENDS MetadataCodec, WellFoundedInduction, TLAPS

USE ConstantsAssumption

\* The root wire body and the one-step decode of the `keys` map.
RootWire == doc.body
RootMap == Body("root")!MapOf

(***************************************************************************)
(* The inductive invariant, for a root document.  Every entry on the wire  *)
(* names a key id and carries a value (foreign documents by their type,    *)
(* from's output because each entry comes from an entry of the pool).      *)
(* Once serde has decoded `keys`, the wire has no repeated id and          *)
(* `decoded` is the map of its entries; try_into's result is the filter of *)
(* `decoded`.                                                              *)
(***************************************************************************)
IInv ==
  /\ kind \in Kinds
  /\ status \in Stages \cup Final
  /\ kind = "root" => status # "collecting"
  /\ kind = "root" /\ status = "encoding" => origin \in InMemory("root")
  /\ kind = "root" /\ status # "encoding" =>
       \A n \in 1..Len(RootWire) : RootWire[n].key \in KeyIds /\ RootWire[n].val # Absent
  /\ kind = "root" /\ status \in {"try_into", "ok"} =>
       Body("root")!Distinct /\ decoded = RootMap
  /\ kind = "root" /\ status = "ok" => out = KeysWithCorrectKeyId(decoded)

LEMMA BodyRoot ==
  /\ BodyKeys("root") = KeyIds
  /\ BodyValues("root") = PubKeys
  /\ BodyEntry("root") = [key : KeyIds, val : PubKeys \cup {Malformed}]
BY DEF BodyKeys, BodyValues, BodyEntry

LEMMA InitIInv == Init => IInv
<1> SUFFICES ASSUME Init PROVE IInv
  OBVIOUS
<1>1. kind = "root" /\ status # "encoding" =>
        \A n \in 1..Len(RootWire) : RootWire[n].key \in KeyIds /\ RootWire[n].val # Absent
  <2> SUFFICES ASSUME kind = "root", status # "encoding", NEW n \in 1..Len(RootWire)
               PROVE  RootWire[n].key \in KeyIds /\ RootWire[n].val # Absent
    OBVIOUS
  <2>1. doc \in WireDocs("root")
    BY DEF Init
  <2>2. PICK m \in 0..MaxEntries : doc.body \in [1..m -> BodyEntry("root")]
    BY <2>1 DEF WireDocs
  <2>3. n \in 1..m
    BY <2>2 DEF RootWire
  <2>4. RootWire[n] \in [key : KeyIds, val : PubKeys \cup {Malformed}]
    BY <2>2, <2>3, BodyRoot DEF RootWire
  <2> QED BY <2>4
<1> QED BY <1>1 DEF Init, IInv, Kinds, Stages, Final

(* Every entry from writes for a map names a key of its domain and has a  *)
(* value.                                                                  *)
LEMMA EncodeMapEntries ==
  ASSUME NEW K, NEW V, NEW f \in [K -> V]
  PROVE  \A n \in 1..Len(EncodeMap(f)) :
           EncodeMap(f)[n].key \in K /\ EncodeMap(f)[n].val # Absent
<1> DEFINE E == {[key |-> x, val |-> f[x]] : x \in {x \in DOMAIN f : f[x] # Absent}}
           Enum(s) == {s[i] : i \in 1..Len(s)} = E
<1>1. \A e \in E : e.key \in K /\ e.val # Absent
  OBVIOUS
<1>2. CASE \E s \in [1..Cardinality(E) -> E] : Enum(s)
  <2> DEFINE c == CHOOSE s \in [1..Cardinality(E) -> E] : Enum(s)
  <2>1. Enum(c)
    BY <1>2
  <2>2. EncodeMap(f) = c
    BY <1>2 DEF EncodeMap
  <2>3. \A n \in 1..Len(c) : c[n] \in E
    BY <2>1
  <2> QED BY <1>1, <2>2, <2>3
<1>3. CASE ~\E s \in [1..Cardinality(E) -> E] : Enum(s)
  <2>1. EncodeMap(f) = <<>>
    BY <1>3 DEF EncodeMap
  <2> QED BY <2>1
<1> QED BY <1>2, <1>3

LEMMA NextIInv == IInv /\ [Next]_vars => IInv'
<1> SUFFICES ASSUME IInv, [Next]_vars PROVE IInv'
  OBVIOUS
<1>1. CASE From
  <2>1. /\ status = "encoding" /\ status' = "serde" /\ kind' = kind
        /\ doc'.body = FromBody(kind, origin)
    BY <1>1 DEF From
  <2>2. kind = "root" =>
          \A n \in 1..Len(RootWire') : RootWire'[n].key \in KeyIds /\ RootWire'[n].val # Absent
    <3> SUFFICES ASSUME kind = "root"
                 PROVE  \A n \in 1..Len(RootWire') :
                          RootWire'[n].key \in KeyIds /\ RootWire'[n].val # Absent
      OBVIOUS
    <3>1. origin \in [KeyIds -> PubKeys \cup {Absent}]
      BY <2>1 DEF IInv, InMemory
    <3>2. RootWire' = EncodeMap(origin)
      BY <2>1 DEF RootWire, FromBody
    <3>3. \A n \in 1..Len(EncodeMap(origin)) :
            EncodeMap(origin)[n].key \in KeyIds /\ EncodeMap(origin)[n].val # Absent
      BY <3>1, EncodeMapEntries, Zenon
    <3> QED BY <3>2, <3>3
  <2> QED BY <2>1, <2>2 DEF IInv, Stages
<1>2. CASE SerdeOk
  <2>1. /\ status = "serde" /\ status' = "try_into" /\ kind' = kind /\ doc' = doc
        /\ (kind = "root" => Body("root")!Distinct /\ decoded' = RootMap)
    BY <1>2 DEF SerdeOk, RootMap
  <2>2. RootMap' = RootMap /\ RootWire' = RootWire
    BY <2>1 DEF RootMap, RootWire, Body!MapOf
  <2>3. (Body("root")!Distinct)' = Body("root")!Distinct
    BY <2>1 DEF Body!Distinct
  <2> QED BY <2>1, <2>2, <2>3 DEF IInv, Stages
<1>3. CASE SerdeDuplicate \/ SerdeMalformed \/ EnvelopeError
  <2>1. /\ status \in {"serde", "try_into"}
        /\ status' \in Final \ {"ok"} /\ kind' = kind /\ doc' = doc
    <3>1. CASE SerdeDuplicate \/ SerdeMalformed
      BY <3>1 DEF SerdeDuplicate, SerdeMalformed, Final
    <3>2. CASE EnvelopeError
      BY <3>2 DEF EnvelopeError, EnvelopeErrorOf, EnvelopeOk, Final
    <3> QED BY <1>3, <3>1, <3>2
  <2>2. RootWire' = RootWire
    BY <2>1 DEF RootWire
  <2>3. status' \notin Stages \cup {"ok"}
    BY <2>1 DEF Stages, Final
  <2>4. status' \in Stages \cup Final
    BY <2>1
  <2>5. kind = "root" =>
          \A n \in 1..Len(RootWire') : RootWire'[n].key \in KeyIds /\ RootWire'[n].val # Absent
    BY <2>1, <2>2 DEF IInv
  <2> QED BY <2>1, <2>3, <2>4, <2>5 DEF IInv, Stages
<1>4. CASE RootTryInto
  <2>1. /\ status = "try_into" /\ status' = "ok" /\ kind' = kind /\ doc' = doc
        /\ decoded' = decoded /\ out' = KeysWithCorrectKeyId(decoded)
    BY <1>4 DEF RootTryInto
  <2>2. RootMap' = RootMap /\ RootWire' = RootWire
    BY <2>1 DEF RootMap, RootWire, Body!MapOf
  <2>3. (Body("root")!Distinct)' = Body("root")!Distinct
    BY <2>1 DEF Body!Distinct
  <2> QED BY <2>1, <2>2, <2>3 DEF IInv, Stages, Final
<1>5. CASE TimestampOrTargetsTryInto \/ SnapshotTryInto
  <2>1. kind # "root" /\ kind' = kind /\ status' \in {"ok", "collecting"}
    BY <1>5 DEF TimestampOrTargetsTryInto, SnapshotTryInto
  <2> QED BY <2>1 DEF IInv, Stages, Final
<1>6. CASE CollectEntry \/ CollectNoSuffix \/ CollectBadPath \/ CollectEnd
  <2>1. status = "collecting" /\ kind' = kind
        /\ status' \in {"collecting", "no_suffix", "bad_path", "ok"}
    BY <1>6 DEF CollectEntry, CollectNoSuffix, CollectBadPath, CollectEnd
  <2>2. kind # "root"
    BY <2>1 DEF IInv
  <2> QED BY <2>1, <2>2 DEF IInv, Stages, Final
<1>7. CASE UNCHANGED vars
  <2>1. RootMap' = RootMap /\ RootWire' = RootWire
    BY <1>7 DEF vars, RootMap, RootWire, Body!MapOf
  <2>2. (Body("root")!Distinct)' = Body("root")!Distinct
    BY <1>7 DEF vars, Body!Distinct
  <2> QED BY <1>7, <2>1, <2>2 DEF vars, IInv
<1> QED BY <1>1, <1>2, <1>3, <1>4, <1>5, <1>6, <1>7 DEF Next

LEMMA IInvImpliesRootKeyPoolExact == IInv => RootKeyPoolExact
<1> SUFFICES ASSUME IInv, kind = "root", status = "ok"
             PROVE  /\ \A i \in KeyIds :
                         out[i] # Absent <=>
                           \E e \in Entries(doc.body) : e.key = i /\ KeyIdOf[e.val] = i
                    /\ \A e \in Entries(doc.body) : KeyIdOf[e.val] = e.key => out[e.key] = e.val
                    /\ \A i, j \in KeyIds : out[i] # Absent /\ out[i] = out[j] => i = j
  BY DEF RootKeyPoolExact
<1> DEFINE W == doc.body
<1>1. /\ \A n \in 1..Len(W) : W[n].key \in KeyIds /\ W[n].val # Absent
      /\ \A m, n \in 1..Len(W) : W[m].key = W[n].key => m = n
      /\ decoded = RootMap
      /\ out = KeysWithCorrectKeyId(decoded)
  BY DEF IInv, RootWire, Body!Distinct
<1>2. \A i \in KeyIds :
        decoded[i] = IF \E n \in 1..Len(W) : W[n].key = i
                       THEN W[CHOOSE n \in 1..Len(W) : W[n].key = i].val
                       ELSE Absent
  BY <1>1, BodyRoot DEF RootMap, Body!MapOf
<1>3. \A n \in 1..Len(W) : decoded[W[n].key] = W[n].val
  <2> SUFFICES ASSUME NEW n \in 1..Len(W) PROVE decoded[W[n].key] = W[n].val
    OBVIOUS
  <2>1. (CHOOSE m \in 1..Len(W) : W[m].key = W[n].key) = n
    BY <1>1
  <2>2. W[n].key \in KeyIds /\ \E m \in 1..Len(W) : W[m].key = W[n].key
    BY <1>1
  <2>3. decoded[W[n].key] = W[CHOOSE m \in 1..Len(W) : W[m].key = W[n].key].val
    BY <1>2, <2>2
  <2> QED BY <2>1, <2>3
<1>4. \A i \in KeyIds : decoded[i] # Absent =>
        \E n \in 1..Len(W) : W[n].key = i /\ W[n].val = decoded[i]
  BY <1>2
<1>5. \A i \in KeyIds :
        out[i] = IF decoded[i] # Absent /\ KeyIdOf[decoded[i]] = i THEN decoded[i] ELSE Absent
  BY <1>1 DEF KeysWithCorrectKeyId
<1>6. ASSUME NEW i \in KeyIds
      PROVE  out[i] # Absent <=> \E e \in Entries(W) : e.key = i /\ KeyIdOf[e.val] = i
  BY <1>1, <1>3, <1>4, <1>5 DEF Entries
<1>7. \A e \in Entries(W) : KeyIdOf[e.val] = e.key => out[e.key] = e.val
  BY <1>1, <1>3, <1>5 DEF Entries
<1>8. \A i, j \in KeyIds : out[i] # Absent /\ out[i] = out[j] => i = j
  BY <1>5
<1> QED BY <1>6, <1>7, <1>8

(***************************************************************************)
(* For every key-id set, key set, recomputation KeyIdOf and map bound, the *)
(* root key pool RootMetadata::try_into hands to RootMetadata::new holds a *)
(* key under an id exactly when the document lists it under the id         *)
(* recomputed from it, and no key under two ids: a threshold counted over  *)
(* distinct key ids counts distinct keys.                                  *)
(***************************************************************************)
THEOREM RootKeyPoolSound == Spec => []RootKeyPoolExact
<1>1. Init => IInv
  BY InitIInv
<1>2. IInv /\ [Next]_vars => IInv'
  BY NextIInv
<1>3. IInv => RootKeyPoolExact
  BY IInvImpliesRootKeyPoolExact
<1> QED BY <1>1, <1>2, <1>3, PTL DEF Spec

-----------------------------------------------------------------------------
(***************************************************************************)
(* Proof that a decoded snapshot's meta map is exactly the document's      *)
(* "<path>.json" entries, for every set of path strings, valid paths,      *)
(* descriptions, BTreeMap order and map bound.                             *)
(***************************************************************************)

\* The snapshot wire body, its one-step decode, and the keys that decode
\* gave a description.
SnapWire == doc.body
SnapMap == Body("snapshot")!MapOf
Live == {m \in MetaKey : decoded[m] # Absent}

(***************************************************************************)
(* The inductive invariant, for a snapshot document.  Every wire entry     *)
(* names a meta key and carries a value; once serde has decoded `meta`,    *)
(* the wire has no repeated key and `decoded` is the map of its entries.   *)
(* During the collect, the keys still to visit are live, and the map built *)
(* so far holds, under its path, the description of every live key that   *)
(* was visited (each of them with ".json" and a valid path), and nothing   *)
(* else.                                                                   *)
(***************************************************************************)
SInv ==
  /\ kind \in Kinds
  /\ status \in Stages \cup Final
  /\ kind = "snapshot" /\ status = "encoding" => origin \in InMemory("snapshot")
  /\ kind = "snapshot" /\ status # "encoding" =>
       \A n \in 1..Len(SnapWire) : SnapWire[n].key \in MetaKey /\ SnapWire[n].val # Absent
  /\ kind = "snapshot" /\ status \in {"try_into", "collecting", "ok"} =>
       Body("snapshot")!Distinct /\ decoded = SnapMap
  /\ kind = "snapshot" /\ status \in {"collecting", "ok"} =>
       /\ todo \subseteq Live
       /\ DOMAIN out = Paths
       /\ \A m \in Live \ todo : m.json /\ m.path \in Paths /\ out[m.path] = decoded[m]
       /\ \A p \in Paths : out[p] # Absent => [path |-> p, json |-> TRUE] \in Live \ todo
  /\ kind = "snapshot" /\ status = "ok" => todo = {}

LEMMA BodySnapshot ==
  /\ BodyKeys("snapshot") = MetaKey
  /\ BodyEntry("snapshot") = [key : MetaKey, val : Descs \cup {Malformed}]
BY DEF BodyKeys, BodyEntry, BodyValues

(* The collect's into_iter() has a next key: a non-empty set of meta keys  *)
(* has one of least BTreeMap rank.                                         *)
LEMMA NextKeyInTodo ==
  ASSUME todo \subseteq MetaKey, todo # {}
  PROVE  NextKey \in todo
<1> DEFINE R == OpToRel(<, Nat)
           T == {KeyRank[m] : m \in todo}
<1>0. \A m \in todo : KeyRank[m] \in Nat
  BY ConstantsAssumption
<1>1. T \subseteq Nat /\ T # {}
  BY <1>0
<1>2. PICK x \in T : \A y \in T : ~(<<y, x>> \in R)
  BY <1>1, NatLessThanWellFounded, WFMin
<1>3. \A y \in T : x <= y
  <2> SUFFICES ASSUME NEW y \in T, y < x PROVE FALSE
    BY <1>1
  <2>1. <<y, x>> \in R
    BY <1>1 DEF OpToRel
  <2> QED BY <1>2, <2>1
<1>4. \E m \in todo : \A n \in todo : KeyRank[m] <= KeyRank[n]
  BY <1>3
<1> QED BY <1>4 DEF NextKey

(* Two meta keys with ".json" and the same path are the same key.          *)
LEMMA JsonKeyOfPath ==
  ASSUME NEW m \in MetaKey, m.json
  PROVE  m = [path |-> m.path, json |-> TRUE]
BY DEF MetaKey

LEMMA InitSInv == Init => SInv
<1> SUFFICES ASSUME Init PROVE SInv
  OBVIOUS
<1>1. kind = "snapshot" /\ status # "encoding" =>
        \A n \in 1..Len(SnapWire) : SnapWire[n].key \in MetaKey /\ SnapWire[n].val # Absent
  <2> SUFFICES ASSUME kind = "snapshot", status # "encoding", NEW n \in 1..Len(SnapWire)
               PROVE  SnapWire[n].key \in MetaKey /\ SnapWire[n].val # Absent
    OBVIOUS
  <2>1. PICK m \in 0..MaxEntries : doc.body \in [1..m -> BodyEntry("snapshot")]
    BY DEF Init, WireDocs
  <2>2. n \in 1..m
    BY <2>1 DEF SnapWire
  <2>3. SnapWire[n] \in [key : MetaKey, val : Descs \cup {Malformed}]
    BY <2>1, <2>2, BodySnapshot DEF SnapWire
  <2> QED BY <2>3
<1> QED BY <1>1 DEF Init, SInv, Kinds, Stages, Final

LEMMA NextSInv == SInv /\ [Next]_vars => SInv'
<1> SUFFICES ASSUME SInv, [Next]_vars PROVE SInv'
  OBVIOUS
<1> DEFINE Snap == kind = "snapshot"
<1>1. CASE From
  <2>1. /\ status = "encoding" /\ status' = "serde" /\ kind' = kind
        /\ doc'.body = FromBody(kind, origin)
    BY <1>1 DEF From
  <2>2. Snap =>
          \A n \in 1..Len(SnapWire') : SnapWire'[n].key \in MetaKey /\ SnapWire'[n].val # Absent
    <3> SUFFICES ASSUME Snap
                 PROVE  \A n \in 1..Len(SnapWire') :
                          SnapWire'[n].key \in MetaKey /\ SnapWire'[n].val # Absent
      OBVIOUS
    <3>1. origin \in [Paths -> Descs \cup {Absent}]
      BY <2>1 DEF SInv, InMemory
    <3>2. SnapshotWire(origin) \in [MetaKey -> Descs \cup {Absent}]
      BY <3>1 DEF SnapshotWire
    <3>3. SnapWire' = EncodeMap(SnapshotWire(origin))
      BY <2>1 DEF SnapWire, FromBody
    <3>4. \A n \in 1..Len(EncodeMap(SnapshotWire(origin))) :
            /\ EncodeMap(SnapshotWire(origin))[n].key \in MetaKey
            /\ EncodeMap(SnapshotWire(origin))[n].val # Absent
      BY <3>2, EncodeMapEntries, Zenon
    <3> QED BY <3>3, <3>4
  <2> QED BY <2>1, <2>2 DEF SInv, Stages
<1>2. CASE SerdeOk
  <2>1. /\ status = "serde" /\ status' = "try_into" /\ kind' = kind /\ doc' = doc
        /\ (Snap => Body("snapshot")!Distinct /\ decoded' = SnapMap)
    BY <1>2 DEF SerdeOk, SnapMap
  <2>2. SnapMap' = SnapMap /\ SnapWire' = SnapWire
    BY <2>1 DEF SnapMap, SnapWire, Body!MapOf
  <2>3. (Body("snapshot")!Distinct)' = Body("snapshot")!Distinct
    BY <2>1 DEF Body!Distinct
  <2> QED BY <2>1, <2>2, <2>3 DEF SInv, Stages
<1>3. CASE SerdeDuplicate \/ SerdeMalformed \/ EnvelopeError
        \/ CollectNoSuffix \/ CollectBadPath
  <2>1. /\ status \in {"serde", "try_into", "collecting"}
        /\ status' \in Final \ {"ok"} /\ kind' = kind /\ doc' = doc
    <3>1. CASE SerdeDuplicate \/ SerdeMalformed
      BY <3>1 DEF SerdeDuplicate, SerdeMalformed, Final
    <3>2. CASE EnvelopeError
      BY <3>2 DEF EnvelopeError, EnvelopeErrorOf, EnvelopeOk, Final
    <3>3. CASE CollectNoSuffix \/ CollectBadPath
      BY <3>3 DEF CollectNoSuffix, CollectBadPath, Final
    <3> QED BY <1>3, <3>1, <3>2, <3>3
  <2>2. SnapWire' = SnapWire
    BY <2>1 DEF SnapWire
  <2>3. status' \notin Stages \cup {"ok"}
    BY <2>1 DEF Stages, Final
  <2>4. status' \in Stages \cup Final
    BY <2>1
  <2>5. Snap =>
          \A n \in 1..Len(SnapWire') : SnapWire'[n].key \in MetaKey /\ SnapWire'[n].val # Absent
    BY <2>1, <2>2 DEF SInv
  <2> QED BY <2>1, <2>3, <2>4, <2>5 DEF SInv, Stages
<1>4. CASE RootTryInto \/ TimestampOrTargetsTryInto
  <2>1. ~Snap /\ kind' = kind /\ status' = "ok"
    BY <1>4 DEF RootTryInto, TimestampOrTargetsTryInto
  <2> QED BY <2>1 DEF SInv, Final
<1>5. CASE SnapshotTryInto
  <2>1. /\ Snap /\ status = "try_into" /\ status' = "collecting"
        /\ kind' = kind /\ doc' = doc /\ decoded' = decoded
        /\ todo' = Live /\ out' = [p \in Paths |-> Absent]
    BY <1>5 DEF SnapshotTryInto, Live
  <2>2. SnapMap' = SnapMap /\ SnapWire' = SnapWire /\ Live' = Live
    BY <2>1 DEF SnapMap, SnapWire, Body!MapOf, Live
  <2>3. (Body("snapshot")!Distinct)' = Body("snapshot")!Distinct
    BY <2>1 DEF Body!Distinct
  <2>4. /\ todo' \subseteq Live'
        /\ DOMAIN out' = Paths
        /\ \A m \in Live' \ todo' : m.json /\ m.path \in Paths /\ out'[m.path] = decoded'[m]
        /\ \A p \in Paths : out'[p] # Absent => [path |-> p, json |-> TRUE] \in Live' \ todo'
    BY <2>1, <2>2
  <2> QED BY <2>1, <2>2, <2>3, <2>4 DEF SInv, Stages
<1>6. CASE CollectEntry
  <2> DEFINE m == NextKey
  <2>1. /\ status = "collecting" /\ status' = "collecting" /\ todo # {}
        /\ m.json /\ m.path \in Paths
        /\ out' = [out EXCEPT ![m.path] = decoded[m]]
        /\ todo' = todo \ {m}
        /\ kind' = kind /\ doc' = doc /\ decoded' = decoded
    BY <1>6 DEF CollectEntry
  <2>2. SnapMap' = SnapMap /\ SnapWire' = SnapWire /\ Live' = Live
    BY <2>1 DEF SnapMap, SnapWire, Body!MapOf, Live
  <2>3. (Body("snapshot")!Distinct)' = Body("snapshot")!Distinct
    BY <2>1 DEF Body!Distinct
  <2>4. CASE Snap
    <3>1. /\ todo \subseteq Live
          /\ DOMAIN out = Paths
          /\ \A k \in Live \ todo : k.json /\ k.path \in Paths /\ out[k.path] = decoded[k]
          /\ \A p \in Paths : out[p] # Absent => [path |-> p, json |-> TRUE] \in Live \ todo
      BY <2>1, <2>4 DEF SInv
    <3>2. m \in todo /\ m \in Live /\ m \in MetaKey
      BY <2>1, <3>1, NextKeyInTodo DEF Live
    <3>3. m = [path |-> m.path, json |-> TRUE]
      BY <2>1, <3>2, JsonKeyOfPath
    <3>4. todo' \subseteq Live' /\ DOMAIN out' = Paths
      BY <2>1, <2>2, <3>1
    <3>5. \A k \in Live' \ todo' : k.json /\ k.path \in Paths /\ out'[k.path] = decoded'[k]
      <4> SUFFICES ASSUME NEW k \in Live \ todo'
                   PROVE  k.json /\ k.path \in Paths /\ out'[k.path] = decoded[k]
        BY <2>1, <2>2
      <4>1. CASE k = m
        BY <2>1, <3>1, <4>1
      <4>2. CASE k # m
        <5>1. k \in Live \ todo
          BY <2>1, <4>2
        <5>2. k.json /\ k.path \in Paths /\ out[k.path] = decoded[k]
          BY <3>1, <5>1
        <5>3. k = [path |-> k.path, json |-> TRUE]
          BY <5>1, <5>2, JsonKeyOfPath DEF Live
        <5>4. k.path # m.path
          BY <3>3, <4>2, <5>3
        <5> QED BY <2>1, <3>1, <5>2, <5>4
      <4> QED BY <4>1, <4>2
    <3>6. \A p \in Paths : out'[p] # Absent => [path |-> p, json |-> TRUE] \in Live' \ todo'
      <4> SUFFICES ASSUME NEW p \in Paths, out'[p] # Absent
                   PROVE  [path |-> p, json |-> TRUE] \in Live \ todo'
        BY <2>2
      <4>1. CASE p = m.path
        BY <2>1, <3>2, <3>3, <4>1
      <4>2. CASE p # m.path
        <5>1. out[p] # Absent
          BY <2>1, <3>1, <4>2
        <5>2. [path |-> p, json |-> TRUE] \in Live \ todo
          BY <3>1, <5>1
        <5> QED BY <2>1, <5>2
      <4> QED BY <4>1, <4>2
    <3> QED BY <2>1, <2>2, <2>3, <3>4, <3>5, <3>6 DEF SInv, Stages
  <2>5. CASE ~Snap
    BY <2>1, <2>5 DEF SInv, Stages
  <2> QED BY <2>4, <2>5
<1>7. CASE CollectEnd
  <2>1. /\ status = "collecting" /\ status' = "ok" /\ todo = {}
        /\ UNCHANGED <<kind, origin, foreign, doc, decoded, todo, out>>
    BY <1>7 DEF CollectEnd
  <2>2. SnapMap' = SnapMap /\ SnapWire' = SnapWire /\ Live' = Live
    BY <2>1 DEF SnapMap, SnapWire, Body!MapOf, Live
  <2>3. (Body("snapshot")!Distinct)' = Body("snapshot")!Distinct
    BY <2>1 DEF Body!Distinct
  <2> QED BY <2>1, <2>2, <2>3 DEF SInv, Stages, Final
<1>8. CASE UNCHANGED vars
  <2>1. SnapMap' = SnapMap /\ SnapWire' = SnapWire /\ Live' = Live
    BY <1>8 DEF vars, SnapMap, SnapWire, Body!MapOf, Live
  <2>2. (Body("snapshot")!Distinct)' = Body("snapshot")!Distinct
    BY <1>8 DEF vars, Body!Distinct
  <2> QED BY <1>8, <2>1, <2>2 DEF vars, SInv
<1> QED BY <1>1, <1>2, <1>3, <1>4, <1>5, <1>6, <1>7, <1>8 DEF Next

LEMMA SInvImpliesSnapshotMetaExact == SInv => SnapshotMetaExact
<1> SUFFICES ASSUME SInv, kind = "snapshot", status = "ok"
             PROVE  /\ \A e \in Entries(doc.body) :
                          e.key.json /\ e.key.path \in Paths /\ out[e.key.path] = e.val
                    /\ \A p \in Paths :
                          out[p] # Absent =>
                            \E e \in Entries(doc.body) : e.key = [path |-> p, json |-> TRUE]
  BY DEF SnapshotMetaExact
<1> DEFINE W == doc.body
<1>1. /\ \A n \in 1..Len(W) : W[n].key \in MetaKey /\ W[n].val # Absent
      /\ \A a, b \in 1..Len(W) : W[a].key = W[b].key => a = b
      /\ decoded = SnapMap
      /\ todo = {}
      /\ \A k \in Live : k.json /\ k.path \in Paths /\ out[k.path] = decoded[k]
      /\ \A p \in Paths : out[p] # Absent => [path |-> p, json |-> TRUE] \in Live
  BY DEF SInv, SnapWire, Body!Distinct, Stages
<1>2. \A k \in MetaKey :
        decoded[k] = IF \E n \in 1..Len(W) : W[n].key = k
                       THEN W[CHOOSE n \in 1..Len(W) : W[n].key = k].val
                       ELSE Absent
  BY <1>1, BodySnapshot DEF SnapMap, Body!MapOf
<1>3. \A n \in 1..Len(W) : decoded[W[n].key] = W[n].val
  <2> SUFFICES ASSUME NEW n \in 1..Len(W) PROVE decoded[W[n].key] = W[n].val
    OBVIOUS
  <2>1. (CHOOSE a \in 1..Len(W) : W[a].key = W[n].key) = n
    BY <1>1
  <2>2. W[n].key \in MetaKey /\ \E a \in 1..Len(W) : W[a].key = W[n].key
    BY <1>1
  <2>3. decoded[W[n].key] = W[CHOOSE a \in 1..Len(W) : W[a].key = W[n].key].val
    BY <1>2, <2>2
  <2> QED BY <2>1, <2>3
<1>4. ASSUME NEW e \in Entries(W)
      PROVE  e.key.json /\ e.key.path \in Paths /\ out[e.key.path] = e.val
  <2>1. PICK n \in 1..Len(W) : e = W[n]
    BY DEF Entries
  <2>2. e.key \in Live /\ decoded[e.key] = e.val
    BY <1>1, <1>3, <2>1 DEF Live
  <2> QED BY <1>1, <2>2
<1>5. ASSUME NEW p \in Paths, out[p] # Absent
      PROVE  \E e \in Entries(W) : e.key = [path |-> p, json |-> TRUE]
  <2> DEFINE k == [path |-> p, json |-> TRUE]
  <2>1. k \in MetaKey /\ decoded[k] # Absent
    BY <1>1, <1>5 DEF Live
  <2>2. \E n \in 1..Len(W) : W[n].key = k
    BY <1>2, <2>1
  <2> QED BY <2>2 DEF Entries
<1> QED BY <1>4, <1>5

(***************************************************************************)
(* For every set of path strings and valid paths, every description set,   *)
(* every BTreeMap order and every map bound: a snapshot that               *)
(* SnapshotMetadata::try_into returns describes a path exactly when the    *)
(* document has the key "<path>.json", with that key's description, and    *)
(* every key of the document has the suffix and a valid path; a key that  *)
(* lacks either fails the whole decode rather than being dropped.          *)
(***************************************************************************)
THEOREM SnapshotMetaSound == Spec => []SnapshotMetaExact
<1>1. Init => SInv
  BY InitSInv
<1>2. SInv /\ [Next]_vars => SInv'
  BY NextSInv
<1>3. SInv => SnapshotMetaExact
  BY SInvImpliesSnapshotMetaExact
<1> QED BY <1>1, <1>2, <1>3, PTL DEF Spec

=============================================================================
