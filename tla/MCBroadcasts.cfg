\* One process, a broadcast to three in batches of two and one to a single recipient, a fault, fair tasks.
SPECIFICATION FairSpec
CONSTANTS
    b1 = b1  b2 = b2  p1 = p1  p2 = p2  None = None
    Broadcasts = {b1, b2}
    Procs = {p1}
    Audience <- MCAudience
    BatchSize = 2
    MaxAttempts = 2
    MaxInRow = 2
    MaxFaults = 1
INVARIANTS
    OneAtATime
    SentToAllOnce
PROPERTIES
    OverIsOver
    Ends
CHECK_DEADLOCK FALSE
