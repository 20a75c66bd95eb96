\* Contexts, records, serialization, metrics, telemetry, configuration.
SPECIFICATION AllSpec
CONSTANTS
    CxStorages = {"als", "single", "explicit"}
    CxTasks = {q1, q2}
    CxUsers = {u1, u2}
    CxTenants = {t1}
    CxTraces = {a}
    CxMaxFrames = 3
    CxMaxWrites = 1
    ClNodes = {1, 2, 3}
    ClMaxRefs = 2
    ClMaxDepth = 2
    ClMaxNodes = 3
    SzContainers = {1, 2}
    SzAtoms = {3}
    SzMaxRefs = 2
    SzDepths = {1, 2}
    SzMaxLength = 1
    SzMaxProperties = 1
    LrValues = {"v", "w"}
    LrMaxOptions = 2
    LrMaxSteps = 4
    MtLabels = {"x", "y", "__overflow__"}
    MtLevels = {"info", "error", "fatal"}
    MtMaxSeries = 2
    MtBounds = 2
    MtDurations = {1, 2}
    MtWrites = {1, 2, 3}
    MtMaxRecords = 4
    MtMaxFaults = 2
    MtMaxRegistered = 2
    ApPaths = {p1, p2}
    ApMaxRefreshes = 2
    ApBuckets = 2
    ApLatencies = {0, 1, 2, 5}
    ApMaxRecords = 3
    DgReports = {r1, r2, r3, r4}
    DgCloses = {c1, c2}
    DgBackends = 2
    DgMaxCounter = 1
    DgGrants = {1}
    DgUploads = {v1, v2}
    DgTtl = 2
    DgHorizon = 3
    OtTraces = {"p", "q"}
    OtFields = {"f"}
    OtMaxAttributes = 4
    OtCallbacks = {k1, k2}
    OtCallers = {c1, c2}
    OtMaxWaves = 3
    OsMaxFailures = 2
    CfWords <- Words
SYMMETRY Alike
INVARIANTS
    ContextIsItsOwn
    OutputIsSafe
    TelemetryIsBelieved
    ConfigurationIsChecked
    NumbersAreExact
CHECK_DEADLOCK FALSE
