\* All three destinations, with and without a beacon, liveness included.
SPECIFICATION FairSpec
CONSTANTS
    MaxQueue = 2
    BatchSize = 2
    MaxWrites = 4
    MaxFaults = 1
INVARIANTS
    StreamIsSound
    LossIsCounted
    WireInOrder
PROPERTIES
    StreamMoves
CHECK_DEADLOCK FALSE
