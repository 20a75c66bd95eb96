\* The queue moves under a flush that awaits its connection.
SPECIFICATION Spec
CONSTANTS
    MaxQueue = 2
    BatchSize = 2
    MaxWrites = 4
    MaxFaults = 0
PROPERTIES
    FlushRemovesSent
CHECK_DEADLOCK FALSE
