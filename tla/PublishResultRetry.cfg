SPECIFICATION Spec
CONSTANTS
    b1 = b1
    b2 = b2
    key = key
    dr = dr
    x = x
    y = y
    q1 = q1
    q2 = q2
    None = None
    Batches <- TwoBatches
    Keys <- OneKey
    Drafts <- OneDraft
    Accounts <- TwoAccounts
    Bodies <- SomeBodies
    Requests <- TwoRequests
SYMMETRY Interchangeable
INVARIANTS
    RetryIsReplayed
CHECK_DEADLOCK FALSE
