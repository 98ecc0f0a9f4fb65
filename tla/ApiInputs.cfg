SPECIFICATION InputSpec
CONSTANTS
    Sizes <- MCSizes
    Offsets <- MCOffsets
    Accounts <- MCAccounts
    Bound <- MCBound
    Ids <- MCIds
    Words <- MCWords
INVARIANTS
    JobIsRunnable
    InputsAreDeleted
    SchemaIsHonest
    SavedSavesAgain
    ClipPlays
    PlaysAsFiled
    PieceServed
    BodyAsPromised
CHECK_DEADLOCK FALSE
