---------------------------- MODULE MCOAuthBind ----------------------------
(* A small instance of OAuthBind: two sessions that compete for one openId. *)
EXTENDS OAuthBind, TLC

CONSTANTS s1, s2, own, id1, id2, q1, q2

TwoSessions == {s1, s2}
OneOpenId == {own}
TwoIds == {id1, id2}
TwoRequests == {q1, q2}
Interchangeable == Permutations(Sessions) \cup Permutations(Ids) \cup Permutations(Requests)
=============================================================================
