\* The exit fallback and the drain persist the same batch.
SPECIFICATION Spec
CONSTANTS
    r1 = r1
    r2 = r2
    r3 = r3
    r4 = r4
    exit1 = exit1
    close1 = close1
    Records = {r1, r2, r3}
    Oversize = {}
    Exits = {exit1}
    BatchSize = 1
    MaxQueue = 2
    MaxAttempts = 1
    AwaitAck = FALSE
    Fallback = TRUE
    MaxFaults = 1
INVARIANTS
    NothingLost
CHECK_DEADLOCK FALSE
