------------------ MODULE MCDeserializeRejectDuplicates ------------------
(* Model-checking instance of DeserializeRejectDuplicates: two keys, two   *)
(* values and objects of up to three entries, so that an object can hold a *)
(* duplicate after a fresh key, two duplicates, or a duplicate and a       *)
(* malformed value in either order.                                        *)
EXTENDS DeserializeRejectDuplicates

CONSTANTS k1, k2, v1, v2

MCKeys == {k1, k2}
MCValues == {v1, v2}

=============================================================================
