SPECIFICATION FairSpec
CONSTANTS
    MaxInt = 7
    ToolCallIds = {"a", "b"}
    Configs <- MCConfigs
    Exchanges <- MCExchanges
    ToolOutputs <- MCToolOutputs
    ContextEnds <- MCContextEnds
    TurnBound = 3
INVARIANT LimitsHold
INVARIANT SpendingStops
INVARIANT CallsAreAnswered
INVARIANT ContextIsBlamed
INVARIANT ExitAgrees
PROPERTY EndedContextEndsRun
CHECK_DEADLOCK FALSE
