SPECIFICATION Spec
CONSTANTS
    s1 = s1
    s2 = s2
    own = own
    id1 = id1
    id2 = id2
    q1 = q1
    q2 = q2
    None = None
    Sessions <- TwoSessions
    OpenIds <- OneOpenId
    Ids <- TwoIds
    Requests <- TwoRequests
SYMMETRY Interchangeable
INVARIANTS
    AccountHasToken
    SuccessIsBacked
    BoundOnce
CHECK_DEADLOCK FALSE
