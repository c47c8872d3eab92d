\* Clients, lines of 100 bytes, the limits and the penalty of the source.
SPECIFICATION FairSpec
CONSTANTS
    Users = {u1, u2}
    LineLen = 100
    SoftLimit = 512
    HardLimit = 1024
    FloodChecks = {TRUE, FALSE}
    FloodPenalty = 5
    MaxLate = 1
INVARIANTS Throttled QueueBounded
PROPERTY HeldLinesRun
