\* Coordinator, logger, lifecycle handlers and exporter, one at a time, fairly.
SPECIFICATION AllSpec
CONSTANTS
    Servers = {a, b}
    MaxFaults = 1
    Events = {e1, e2}
    QuietEvents = {}
    Transports = {t1, t2}
    Otel = {t2}
    Calls = {c1}
    MaxFailures = 1
    Loggers = {l1, l2}
    Runtimes = {"node", "bun", "browser", "deno"}
    MaxSignals = 2
    MaxQuiet = 2
    LkRecords = {1, 2, 3, 4}
    LkStreams = {{1, 2, 4}, {3}}
    LkBatchSize = 2
    LkMaxQueue = 2
    LkMaxRetries = 1
    LkMaxFaults = 3
INVARIANTS
    ShutdownIsOrderly
    LogsAreAccountedFor
    EveryLoggerIsDrained
PROPERTIES
    ImplementsTransitionTable
    EverythingEnds
CHECK_DEADLOCK FALSE
