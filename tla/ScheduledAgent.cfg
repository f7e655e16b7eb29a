SPECIFICATION FairSpec
CONSTANTS
    Specs <- MCSpecs
    MaxTime = 2
    MaxGeneration = 2
    MaxRunSuffix = 9
    AgentLag = 0
    ListLag = 0
    MaxFaults = 1
    MaxMeddling = 1
INVARIANT NeverBackfills
PROPERTY PruningIsSafe
PROPERTY ForbidMeansNoOverlap
PROPERTY ProgressIsKept
PROPERTY ScheduleMovesOn
PROPERTY RunsAreRecorded
CHECK_DEADLOCK FALSE
