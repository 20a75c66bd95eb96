\* Every other transport to Supabase, error tracking and the journal, with faults.
SPECIFICATION AllSpec
CONSTANTS
    RaRecords = {p1, p2}
    RaOversized = {}
    RaFlushes = {f1}
    RaMaxQueue = 1
    RaMaxInFlight = 1
    RaMaxAttempts = 2
    RaMaxTries = 1
    RaSockets = {1, 2}
    RaMaxFaults = 2
    RbItems = {p1, p2}
    RbTooLarge = {}
    RbHeavy = {}
    RbBatchSize = 1
    RbMaxQueue = 1
    RbFallbackAfter = 1
    RbSockets = {1, 2}
    RbMaxFaults = 2
    RlRecords = {r1, r2, r3}
    RlMaxQueue = 1
    RlSockets = {1, 2, 3}
    RlMaxFaults = 2
    HiRecords = {r1, r2, r3}
    HiTooLarge = {}
    HiHeavy = {}
    HiExitHeavy = {r1}
    HiBatchSize = 2
    HiMaxQueue = 2
    HiMaxFaults = 2
    SmCalls = {c1, c2}
    EtWrites = {1, 2, 3, 4}
    EtAlike = {{1, 2}, {3}, {4}}
    EtBelow = {}
    EtMaxHashes = 2
    LjProcesses = {p1, p2}
    LjKinds = {k1}
    LjRecords = {w1, w2, w3}
    LjRetention = 1
    LjMaxSegment = 1
    LjMaxTotal = 2
    LjHorizon = 3
    LjMaxFaults = 1
SYMMETRY Alike
INVARIANTS
    HeldInOnePlace
    HeldIsAwaited
    AnswersAreTrue
CHECK_DEADLOCK FALSE
