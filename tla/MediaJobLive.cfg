SPECIFICATION FairSpec
CONSTANTS
    slice = slice
    lipsync = lipsync
    again = again
    w1 = w1
    w2 = w2
    NoJob = NoJob
    NoCall = NoCall
    Jobs <- OneJob
    Workers = {w1}
    QueueKeys <- Keys
    QueueOf <- Route
    PollOrder <- Poll
    AuxJobs <- TwoInputs
    SliceJobs <- Slices
    Stages <- StagesUsed
    Repeats <- OneRepeat
    CopyOf <- Copies
    FaultBudget <- NoLate
INVARIANTS
    SweptClean
PROPERTIES
    EnqueuedJobsSettle
    StorageReclaimed
CHECK_DEADLOCK FALSE
