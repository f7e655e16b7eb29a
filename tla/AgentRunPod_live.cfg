SPECIFICATION FairSpec
CONSTANTS
    MaxUid = 1
    RunSpecs <- MCTimedSpecs
    Terminations <- MCOneOfEach
    InitFails = FALSE
    LongName = FALSE
    RunLag = 0
    PodLag = 1
    MaxTime = 3
    MaxFaults = 1
    MaxMeddling = 1
PROPERTY PodEndEndsRun
PROPERTY BudgetIsEnforced
PROPERTY ExceededPodIsDeleted
CHECK_DEADLOCK FALSE
