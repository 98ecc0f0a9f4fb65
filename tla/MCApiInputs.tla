----------------------------- MODULE MCApiInputs -----------------------------
(* Three accounts of which two are bound, two client ids and two keywords;    *)
(* files of no byte, one, three and four, and range sides from zero to past   *)
(* the largest of them.                                                       *)
EXTENDS ApiInputs

MCSizes == {0, 1, 3, 4}
MCOffsets == 0 .. 5
MCAccounts == {"a1", "a2", "a3"}
MCIds == {"v1", "v2"}
MCWords == {"sale", "title"}
MCBound == {"a1", "a2"}
==============================================================================
