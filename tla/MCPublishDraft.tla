--------------------------- MODULE MCPublishDraft ---------------------------
(* A small instance of PublishDraft: a quota of one draft and two requests. *)
EXTENDS PublishDraft, TLC

CONSTANTS d1, d2, a1, a2, dy, q1, q2

TwoDrafts == {d1, d2}
TwoAssets == {a1, a2}
OnePlatform == {dy}
TwoRequests == {q1, q2}
Interchangeable == Permutations(Drafts) \cup Permutations(Assets) \cup Permutations(Requests)
=============================================================================
