SPECIFICATION Spec
CONSTANTS
    slice = slice
    lipsync = lipsync
    again = again
    w1 = w1
    w2 = w2
    NoJob = NoJob
    NoCall = NoCall
    Jobs <- GpuJob
    Workers = {w1, w2}
    QueueKeys <- Keys
    QueueOf <- Route
    PollOrder <- Poll
    AuxJobs <- TwoInputs
    SliceJobs <- Slices
    Stages <- StagesUsed
    Repeats <- OneRepeat
    CopyOf <- Copies
    FaultBudget <- LateOrLost
SYMMETRY SameWorkers
INVARIANTS
    SingleDelivery
    NoJobForgotten
    InputAvailable
    CompletedHasOutput
PROPERTIES
    CallbacksNeverResurrect
CHECK_DEADLOCK FALSE
