------------------------- MODULE MCMaterialLibrary -------------------------
(* A small instance of MaterialLibrary: one material, one group, two tags. *)
EXTENDS MaterialLibrary, TLC

CONSTANTS m1, g1, t1, t2, q1, q2

OneMaterial == {m1}
OneGroup == {g1}
TwoTags == {t1, t2}
TwoRequests == {q1, q2}
Interchangeable == Permutations(Materials) \cup Permutations(Tags) \cup Permutations(Requests)
=============================================================================
