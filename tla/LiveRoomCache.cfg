SPECIFICATION FairSpec
CONSTANTS
    room = room
    old = old
    new = new
    u1 = u1
    u2 = u2
    a1 = a1
    a2 = a2
    Nothing = Nothing
    Miss = Miss
    NoKey = NoKey
    NoRoom = NoRoom
    Rooms <- OneRoom
    Contents <- Texts
    Readers <- TwoReaders
    Admins <- TwoAdmins
INVARIANTS
    FreshUnlessExposed
PROPERTY EventuallyFresh
CHECK_DEADLOCK FALSE
