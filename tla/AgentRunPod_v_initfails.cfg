SPECIFICATION FairSpec
CONSTANTS
    MaxUid = 1
    RunSpecs <- MCPlainSpecs
    Terminations <- MCOneOfEach
    InitFails = TRUE
    LongName = FALSE
    RunLag = 0
    PodLag = 1
    MaxTime = 0
    MaxFaults = 0
    MaxMeddling = 0
PROPERTY PodEndEndsRun
CHECK_DEADLOCK FALSE
