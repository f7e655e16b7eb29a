SPECIFICATION FairSpec
CONSTANTS
    Order <- MCOrder
    Stdio <- MCStdio
    Advertised <- MCAdvertised
    MaxTools = 3
    Allowed <- MCAllowed
    Names <- MCNames
    Kinds <- MCKinds
    MaxCalls = 2
INVARIANT NothingIsLeftBehind
INVARIANT CallsUseVerifiedSessions
PROPERTY CarriesOutAtMostOnce
PROPERTY EndsWithItsContext
CHECK_DEADLOCK FALSE
