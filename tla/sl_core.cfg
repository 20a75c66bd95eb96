\* Two servers, one failing call, every hook free to hang; liveness included.
SPECIFICATION FairSpec
CONSTANTS
    Servers = {a, b}
    MaxFaults = 1
INVARIANTS
    TypeOK
    FlushedOnce
    FlushFollowsDrain
    ClosedIsGraceful
    NoConnectionSurvivesForce
    NothingLeftArmed
PROPERTIES
    ImplementsTransitionTable
    ShutdownEnds
CHECK_DEADLOCK FALSE
