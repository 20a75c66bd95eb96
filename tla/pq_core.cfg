\* Crashes, storage failures, delegate failures; and unawaited writes, fairly.
SPECIFICATION AllSpec
CONSTANTS
    r1 = r1
    r2 = r2
    r3 = r3
    r4 = r4
    Records = {r1, r2, r3, r4}
    Oversize = {r4}
    MaxRecords = 2
    AwaitAck = TRUE
    AutoReplay = TRUE
    MaxFaults = 2
    MaxCrashes = 1
INVARIANTS
    NothingLost
    QueueIsSound
    StarterIsServed
PROPERTIES
    StorageReleasesCommitted
    ScheduledEndsDelivered
CHECK_DEADLOCK FALSE
