SPECIFICATION Spec
CONSTANTS
    MaxUid = 1
    RunSpecs <- MCTimedSpecs
    Terminations <- MCOneOfEach
    InitFails = FALSE
    LongName = FALSE
    RunLag = 1
    PodLag = 1
    MaxTime = 2
    MaxFaults = 0
    MaxMeddling = 0
PROPERTY TerminalStays
CHECK_DEADLOCK FALSE
