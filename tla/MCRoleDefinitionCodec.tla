------------------------ MODULE MCRoleDefinitionCodec ------------------------
(* Three key ids and foreign lists of up to four ids: long enough for a    *)
(* list that repeats an id after a fresh one, repeats it twice, or names   *)
(* every id and then one again.                                            *)
EXTENDS RoleDefinitionCodec

MCKeyIds == 1..3

=============================================================================
