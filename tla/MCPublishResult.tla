-------------------------- MODULE MCPublishResult --------------------------
(* A small instance of PublishResult: one key, one draft, two accounts.     *)
EXTENDS PublishResult, TLC

CONSTANTS b1, b2, key, dr, x, y, q1, q2

TwoBatches == {b1, b2}
OneKey == {key}
OneDraft == {dr}
TwoAccounts == {x, y}
TwoRequests == {q1, q2}

Body(d, s, forX, forY, canonical) ==
    [draft |-> d, status |-> s, items |-> (x :> forX @@ y :> forY), canonical |-> canonical]

SomeBodies ==
    { Body(dr, "success", "success", "success", TRUE),
      Body(dr, "success", "success", "success", FALSE),
      Body(None, "success", "success", "success", TRUE),
      Body(dr, "partial_failed", "success", "failed", TRUE),
      Body(dr, "partial_failed", "failed", "success", TRUE) }

Interchangeable == Permutations(Batches) \cup Permutations(Requests) \cup Permutations(Accounts)
=============================================================================
