\* close() of a transport that holds records, nothing failing.
SPECIFICATION RbSpec
CONSTANTS
    RbItems = {i1, i2}
    RbTooLarge = {}
    RbHeavy = {}
    RbBatchSize = 1
    RbMaxQueue = 1
    RbFallbackAfter = 1
    RbSockets = {1, 2}
    RbMaxFaults = 0
INVARIANTS
    CloseDrainsTheQueue
CHECK_DEADLOCK FALSE
