\* Two attempts, a backoff of six ticks, queries that take one at most.
CONSTANTS
    Null = Null
    Attempts = 2
    HalfBackoff = 3
    CommitInterval = 2
    Latency = 1
    MaxHalf = 12
SPECIFICATION Spec
INVARIANT ExactlyOnce
