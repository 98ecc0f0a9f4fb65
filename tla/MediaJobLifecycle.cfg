SPECIFICATION Spec
CONSTANTS
    slice = slice
    lipsync = lipsync
    again = again
    w1 = w1
    w2 = w2
    NoJob = NoJob
    NoCall = NoCall
    Jobs <- TwoJobs
    Workers = {w1}
    QueueKeys <- Keys
    QueueOf <- Route
    PollOrder <- Poll
    AuxJobs <- TwoInputs
    SliceJobs <- Slices
    Stages <- StagesUsed
    Repeats <- None
    CopyOf <- Copies
    FaultBudget <- Refused
INVARIANTS
    CompletedIsFull
PROPERTY ImplementsLifecycle
CHECK_DEADLOCK FALSE
