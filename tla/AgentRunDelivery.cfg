SPECIFICATION FairSpec
CONSTANTS
    MaxUid = 2
    MaxStanding = 2
    Ips <- MCIps
    Limits <- MCLimits
    Window = 2
    BackoffTable <- MCBackoffTable
    MaxTime = 2
    RunLag = 0
    MaxTroubles = 1
INVARIANT OnlyTheTargetCounts
INVARIANT CutOffInTime
PROPERTY TerminalStays
PROPERTY DeliveryEnds
CHECK_DEADLOCK FALSE
