SPECIFICATION FairSpec
CONSTANTS
    MaxMessageBytes = 16
    BaseBytes = 4
    MarkerBytes = 2
    ShortErrorBytes = 2
    TruncationBytes = 2
    FlagBytes = 1
    MaxCaptureBytes = 24
    Descendants = {"d1"}
    Lines <- MCLines
    ExitCodes = {0, 1}
    Faults = {"start", "log", "signal", "kill", "write"}
    MaxLines = 2
    MaxSignals = 1
INVARIANT ReportIsFaithful
PROPERTY AgentEndEndsReporter
PROPERTY SignalArrives
CHECK_DEADLOCK FALSE
