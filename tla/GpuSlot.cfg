SPECIFICATION FairSpec
CONSTANTS
    lipsync = lipsync
    tts = tts
    NoJob = NoJob
    Jobs <- Two
    LatentJobs <- Latents
    Need <- NeedOf
    Capacity = 16
    ResidentSize = 10
    ModelSize <- SizeOf
    Keepers <- OnlyTts
    InProcess <- OnlyTts
    Unslotted <- OnlyAsr
    MaxRepeats = 1
    SlowJobs <- Two
    Stoppable <- Two
INVARIANTS
    ExclusiveUse
    MemoryFits
PROPERTIES
    DeletesOwnLock
    EveryoneServed
CHECK_DEADLOCK FALSE
