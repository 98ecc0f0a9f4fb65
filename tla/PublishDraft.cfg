SPECIFICATION Spec
CONSTANTS
    d1 = d1
    d2 = d2
    a1 = a1
    a2 = a2
    dy = dy
    q1 = q1
    q2 = q2
    None = None
    Drafts <- TwoDrafts
    Assets <- TwoAssets
    Platforms <- OnePlatform
    Requests <- TwoRequests
    MaxPerUser = 1
SYMMETRY Interchangeable
INVARIANTS
    VideoResolves
    CoverResolves
    NoOrphanFile
CHECK_DEADLOCK FALSE
