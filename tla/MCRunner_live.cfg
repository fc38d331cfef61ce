\* Liveness: one message, the listener may be lost for good.
CONSTANTS
    m1 = m1
    m2 = m2
    Msg = {m1}
    Null = Null
    MinConcurrency = 1
    MaxConcurrency = 1
    MaxWait = 2
    Delays <- MCSoon
    Backoffs <- MCBackoffs
    Threads = 1
    OverflowChecks = FALSE
    MaxFailures = 1
SPECIFICATION FairSpec
PROPERTY WorkIsClaimed
PROPERTY StopEnds
