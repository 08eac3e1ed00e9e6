--------------------------- MODULE MCMetadataCodec ---------------------------
(* Model-checking instance of MetadataCodec.  Two key ids and two keys,    *)
(* each with its own recomputed id, so that a legacy entry can list a key   *)
(* under the other key's id; snapshot paths "a" and "b" and the empty text *)
(* that MetadataPath::new rejects, each with and without ".json"; two      *)
(* target paths and two descriptions; maps of up to two entries, enough    *)
(* for a repeated key, a key under a stale id next to its own, and a bare  *)
(* key before or after a suffixed one.                                     *)
EXTENDS MetadataCodec

CONSTANTS i1, i2, p1, p2, t1, t2, d1, d2

MCKeyIds == {i1, i2}
MCPubKeys == {p1, p2}
MCKeyIdOf == [p \in MCPubKeys |-> IF p = p1 THEN i1 ELSE i2]
MCPathStrings == {"", "a", "b"}
MCPaths == {"a", "b"}
MCTargetPaths == {t1, t2}
MCDescs == {d1, d2}

\* Byte order of "", ".json", "a", "a.json", "b", "b.json".
MCKeyRank ==
  [m \in [path : MCPathStrings, json : BOOLEAN] |->
     2 * (CASE m.path = "" -> 0 [] m.path = "a" -> 1 [] m.path = "b" -> 2)
       + (IF m.json THEN 1 ELSE 0)]

=============================================================================
