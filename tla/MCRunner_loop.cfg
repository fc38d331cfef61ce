\* Safety of the loop: two messages, two jobs wanted, at most two.
CONSTANTS
    m1 = m1
    m2 = m2
    Msg = {m1, m2}
    Null = Null
    MinConcurrency = 2
    MaxConcurrency = 2
    MaxWait = 2
    Delays <- MCSoon
    Threads = 1
    Backoffs <- MCBackoffs
    OverflowChecks = FALSE
    MaxFailures = 1
SPECIFICATION Spec
SYMMETRY Messages
INVARIANT RunnerTypeOK
INVARIANT ConcurrencyBound
INVARIANT NoOversleep
PROPERTY NoBusyPolling
PROPERTY StopIsFinal
