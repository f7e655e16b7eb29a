SPECIFICATION Spec
CONSTANTS
    MaxUid = 2
    RunSpecs <- MCWarmSpecs
    Terminations <- MCSuccess
    InitFails = FALSE
    LongName = FALSE
    RunLag = 0
    PodLag = 1
    MaxTime = 2
    MaxFaults = 1
    MaxMeddling = 0
INVARIANT FreshInv
PROPERTY FollowsLifecycle
CHECK_DEADLOCK FALSE
