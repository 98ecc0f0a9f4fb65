SPECIFICATION Spec
CONSTANTS
    m1 = m1
    g1 = g1
    t1 = t1
    t2 = t2
    q1 = q1
    q2 = q2
    None = None
    Materials <- OneMaterial
    Groups <- OneGroup
    Tags <- TwoTags
    Requests <- TwoRequests
SYMMETRY Interchangeable
INVARIANTS
    MaterialHasFile
    NoOrphanDirectory
    TagsAsAsked
PROPERTIES
    RemovedStaysRemoved
CHECK_DEADLOCK FALSE
