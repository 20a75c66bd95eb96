\* No exit fallback: flushOnExit and close join the drain.
SPECIFICATION Spec
CONSTANTS
    r1 = r1
    r2 = r2
    r3 = r3
    r4 = r4
    exit1 = exit1
    close1 = close1
    Records = {r1, r2, r3, r4}
    Oversize = {}
    Exits = {close1}
    BatchSize = 2
    MaxQueue = 2
    MaxAttempts = 1
    AwaitAck = FALSE
    Fallback = FALSE
    MaxFaults = 2
INVARIANTS
    TypeOK
    NothingLost
    OneBatchInFlight
    CountersBalance
    FlushKeepsPromise
    NoLostWakeup
PROPERTIES
    InFlightIsKept
    ImplementsAckDelivery
SYMMETRY RecordSymmetry
CHECK_DEADLOCK FALSE
