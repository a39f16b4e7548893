SPECIFICATION FairSpec
CONSTANTS
    MaxHops = 2
    Probes = 2
    Distances <- MCDistances
    Rtts <- MCRtts
    MaxRequests = 3
    Scale = 6
    Capacity = 1
    Configs <- MCConfigs
INVARIANTS TypeOK HopsAreOwn CompletedIsReached JitterAgrees PercentilesAgree ReportIsUncut
PROPERTIES HostReturns NothingLeftBehind
\* The host returns and the engine ends.
CHECK_DEADLOCK FALSE
