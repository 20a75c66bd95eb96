\* An exit, by flushOnExit or close, with a fallback beside the drain.
SPECIFICATION FairSpec
CONSTANTS
    r1 = r1
    r2 = r2
    r3 = r3
    exit1 = exit1
    Records = {r1, r2, r3}
    Oversize = {r3}
    Exits = {exit1}
    BatchSize = 2
    MaxQueue = 2
    MaxAttempts = 1
    AwaitAck = FALSE
    Fallback = TRUE
    MaxFaults = 1
INVARIANTS
    ReplaysAreExact
PROPERTIES
    EverythingSettles
CHECK_DEADLOCK FALSE
