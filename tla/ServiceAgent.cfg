SPECIFICATION FairSpec
CONSTANTS
    InitialSeconds = 1
    MaxSeconds = 3
    MaxRunSuffix = 3
    MaxTime = 4
    AgentLag = 0
    ListLag = 1
    MaxFaults = 1
    MaxMeddling = 1
INVARIANT OneStandingRun
PROPERTY RecastWaits
PROPERTY ServiceIsRecast
CHECK_DEADLOCK FALSE
