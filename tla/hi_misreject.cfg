\* Two batches in a row, one refused: which one is dropped.
SPECIFICATION HiSpec
CONSTANTS
    HiRecords = {r1, r2, r3}
    HiTooLarge = {}
    HiHeavy = {}
    HiExitHeavy = {r1}
    HiBatchSize = 2
    HiMaxQueue = 2
    HiMaxFaults = 2
INVARIANTS
    RefusedWasRefused
CHECK_DEADLOCK FALSE
