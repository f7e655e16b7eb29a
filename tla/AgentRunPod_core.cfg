SPECIFICATION Spec
CONSTANTS
    MaxUid = 1
    RunSpecs <- MCAllSpecs
    Terminations <- MCTerminations
    InitFails = TRUE
    LongName = TRUE
    RunLag = 0
    PodLag = 1
    MaxTime = 2
    MaxFaults = 1
    MaxMeddling = 1
INVARIANT TypeOK
INVARIANT ConditionsMatchPhase
INVARIANT ProgressNeedsOwnPod
INVARIANT BudgetExceededIsEarned
PROPERTY TerminalStays
PROPERTY NoPodAfterTheRecordedOne
CHECK_DEADLOCK FALSE
