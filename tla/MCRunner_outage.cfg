\* 64 failed polls in a row in a build with overflow checks.
CONSTANTS
    m1 = m1
    m2 = m2
    Msg <- MCNone
    Null = Null
    MinConcurrency = 1
    MaxConcurrency = 1
    MaxWait = 1
    Delays <- MCNone
    Backoffs <- MCLong
    Threads = 1
    OverflowChecks = TRUE
    MaxFailures = 64
SPECIFICATION Spec
INVARIANT RunsWhileHeld
