\* Three attempts, a backoff of ten ticks, queries that take two at most.
CONSTANTS
    Null = Null
    Attempts = 3
    HalfBackoff = 5
    CommitInterval = 2
    Latency = 2
    MaxHalf = 20
SPECIFICATION FairSpec
INVARIANT LeaseTypeOK
INVARIANT LeaseKept
PROPERTY Settles
