-------------------------- MODULE MCDelegationsCodec --------------------------
(* Two role names (so that memory order and name order can differ), two    *)
(* key ids and two path patterns (so that HashSet order and sorted order   *)
(* can differ), two roles, and foreign lists of up to two entries (a       *)
(* repeated key id or a repeated pattern, in either role).                 *)
EXTENDS DelegationsCodec

MCNames == 1..2
MCKeyIds == 1..2
MCPaths == {3, 4}

=============================================================================
