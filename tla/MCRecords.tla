------------------------------ MODULE MCRecords ------------------------------
(* The computations behind a record, in one run: contexts and their         *)
(* snapshots, the record built from them, its serialization, the metrics    *)
(* and telemetry made of it, the configuration and the diagnostics.  Each   *)
(* is a subject of its own, with its state in one variable.                 *)
EXTENDS Integers, Sequences, FiniteSets, TLC

CONSTANTS
    CxStorages, CxTasks, CxUsers, CxTenants, CxTraces, CxMaxFrames, CxMaxWrites, \* of Context
    ClNodes, ClMaxRefs, ClMaxDepth, ClMaxNodes,                   \* of ContextSnapshot
    SzContainers, SzAtoms, SzMaxRefs, SzDepths, SzMaxLength, SzMaxProperties, \* of Serialize
    LrValues, LrMaxOptions, LrMaxSteps,                           \* of LogRecord
    MtLabels, MtLevels, MtMaxSeries, MtBounds, MtDurations, MtWrites,
    MtMaxRecords, MtMaxFaults, MtMaxRegistered,                   \* of Metrics
    ApPaths, ApMaxRefreshes, ApBuckets, ApLatencies, ApMaxRecords, \* of Apm
    DgReports, DgCloses, DgBackends, DgMaxCounter, DgGrants, DgUploads, DgTtl, DgHorizon,
    OtTraces, OtFields, OtMaxAttributes, OtCallbacks, OtCallers, OtMaxWaves,
    OsMaxFailures,
    CfWords                                                       \* of OtelConfig

(* Absent values are no ids, and the tasks are no patches.                  *)
ASSUME ContextAssumption ==
    /\ CxStorages \subseteq {"als", "single", "explicit"}
    /\ {"none", "blank", "undefined"} \cap (CxTasks \cup CxUsers \cup CxTenants \cup CxTraces) = {}
    /\ CxTraces # {} /\ CxMaxFrames \in Nat /\ CxMaxWrites \in Nat
ASSUME SnapshotAssumption ==
    1 \in ClNodes /\ ClNodes \subseteq Nat /\ {ClMaxRefs, ClMaxDepth, ClMaxNodes} \subseteq Nat
ASSUME SerializeAssumption ==
    /\ 1 \in SzContainers /\ SzContainers \cap SzAtoms = {}
    /\ SzDepths \cup {SzMaxRefs, SzMaxLength, SzMaxProperties} \subseteq Nat
ASSUME RecordAssumption ==
    "none" \notin LrValues /\ LrMaxOptions \in Nat /\ LrMaxSteps \in Nat
ASSUME MetricsAssumption ==
    /\ MtMaxSeries \in Nat \ {0} /\ MtDurations \subseteq Nat /\ IsFiniteSet(MtWrites)
    /\ {MtBounds, MtMaxRecords, MtMaxFaults, MtMaxRegistered} \subseteq Nat
ASSUME ProcessAssumption ==
    /\ ApPaths # {} /\ ApLatencies \subseteq Nat
    /\ {ApBuckets, ApMaxRefreshes, ApMaxRecords} \subseteq Nat
ASSUME DiagnosticsAssumption ==
    /\ {DgMaxCounter, DgTtl, DgHorizon} \subseteq Nat /\ DgBackends \in Nat \ {0}
    /\ IsFiniteSet(DgReports) /\ "report" \notin DgCloses
ASSUME TelemetryAssumption ==
    /\ {"none", "ores"} \cap OtTraces = {} /\ IsFiniteSet(OtFields)
    /\ OtFields \cap {"log.record.uid", "trace.id", "span.id", "trace_state"} = {}
    /\ {OtMaxAttributes, OtMaxWaves, OsMaxFailures} \subseteq Nat
ASSUME ConfigurationAssumption ==
    /\ DOMAIN CfWords # {}
    /\ \A key \in DOMAIN CfWords :
          CfWords[key] \subseteq [type : {"bool", "number", "string", "array"},
                                 n : Int, float : BOOLEAN, items : Seq(Int)]

VARIABLES subject, state, clock

Contexts == INSTANCE Context WITH cx <- state
Snapshot == INSTANCE ContextSnapshot WITH cl <- state
Serializer == INSTANCE Serialize WITH sz <- state
Builder == INSTANCE LogRecord WITH lr <- state

(* Sequences that grow: boundaries of buckets, and the sinks of a reporter. *)
Buckets == [i \in 1..MtBounds |-> i - 1]
Boundaries == [i \in 1..ApBuckets |-> 2 * i - 1]
Sinks == [i \in 1..DgBackends |-> IF i = 1 THEN "cloudwatch" ELSE "stderr"]

Prometheus == INSTANCE Metrics WITH mt <- state, MtBuckets <- Buckets
Process == INSTANCE Apm WITH ap <- state, ApBounds <- Boundaries
Reporter == INSTANCE Diagnostics WITH
    dg <- state, dgClock <- clock, DgSinks <- Sinks,
    DgGrants <- {}, DgUploads <- {}, DgHorizon <- 0
Uploader == INSTANCE Diagnostics WITH
    dg <- state, dgClock <- clock, DgSinks <- Sinks, DgReports <- {}, DgCloses <- {}
Telemetry == INSTANCE OtelTransport WITH ot <- state
Spans == INSTANCE OtelSpan WITH os <- state

(* The words of the instance: two for each of four keys, one of each pair    *)
(* malformed, but for the last, whose blank entry a variable may have.      *)
Word(type, n, float, items) == [type |-> type, n |-> n, float |-> float, items |-> items]
Words ==
    [k \in {"logging.console", "process.sample_interval_ms",
            "latency.histogram_boundaries_ms", "tracing.propagators"} |->
       CASE k = "logging.console" ->
              {Word("bool", 1, FALSE, <<>>), Word("string", 4, FALSE, <<>>)}
         [] k = "process.sample_interval_ms" ->
              {Word("number", 100, FALSE, <<>>), Word("number", 100, TRUE, <<>>)}
         [] k = "latency.histogram_boundaries_ms" ->
              {Word("array", 0, FALSE, <<1, 2>>), Word("array", 0, FALSE, <<2, 2>>)}
         [] k = "tracing.propagators" ->
              {Word("array", 0, FALSE, <<1, 0>>), Word("array", 0, FALSE, <<2, 1>>)}]
Configuration == INSTANCE OtelConfig WITH cf <- state

-----------------------------------------------------------------------------
AllInit ==
    \/ subject = "reporter" /\ Reporter!DgInit
    \/ subject = "uploader" /\ Uploader!DgInit
    \/ /\ clock = 0
       /\ \/ subject = "contexts" /\ Contexts!CxInit
          \/ subject = "snapshot" /\ Snapshot!ClInit
          \/ subject = "serializer" /\ Serializer!SzInit
          \/ subject = "builder" /\ Builder!LrInit
          \/ subject = "prometheus" /\ Prometheus!MtInit
          \/ subject = "process" /\ Process!ApInit
          \/ subject = "telemetry" /\ Telemetry!OtInit
          \/ subject = "spans" /\ Spans!OsInit
          \/ subject = "configuration" /\ Configuration!CfInit
AllNext ==
    /\ UNCHANGED subject
    /\ \/ subject = "reporter" /\ Reporter!DgNext
       \/ subject = "uploader" /\ Uploader!DgNext
       \/ /\ UNCHANGED clock
          /\ \/ subject = "contexts" /\ Contexts!CxNext
             \/ subject = "snapshot" /\ Snapshot!ClNext
             \/ subject = "serializer" /\ Serializer!SzNext
             \/ subject = "builder" /\ Builder!LrNext
             \/ subject = "prometheus" /\ Prometheus!MtNext
             \/ subject = "process" /\ Process!ApNext
             \/ subject = "telemetry" /\ Telemetry!OtNext
             \/ subject = "spans" /\ Spans!OsNext
             \/ subject = "configuration" /\ Configuration!CfNext
AllSpec == AllInit /\ [][AllNext]_<<subject, state, clock>>

(* Requests and users that no constant tells apart.                         *)
Alike == Permutations(CxTasks) \cup Permutations(CxUsers)

-----------------------------------------------------------------------------
(* A frame never shows another request's context, names one user and one    *)
(* tenant, and lists every trace id once; a snapshot is the same graph, and *)
(* loggers made by anew keep their settings apart.                         *)
ContextIsItsOwn ==
    /\ subject = "contexts" =>
         Contexts!NoBleed /\ Contexts!OneIdentity /\ Contexts!TracesKeptOnce
    /\ subject = "snapshot" => Snapshot!SnapshotIsTheGraph
    /\ subject = "builder" => Builder!TraceIsListed /\ Builder!ChildrenAreApart

(* What serialize lets out has nothing that only a redacted key leads to,   *)
(* but through the cause of an error; it is bounded, whatever its shape, an *)
(* error by its own properties only; nothing else is missing from it        *)
(* without a mark; and what is uploaded has a grant of its own, which has   *)
(* not expired.                                                            *)
OutputIsSafe ==
    /\ subject = "serializer" =>
         /\ Serializer!SecretsStayOut /\ Serializer!NothingSilentlyMissing
         /\ Serializer!TreeIsBounded
    /\ subject = "uploader" => Uploader!PutsAreSigned

(* Under an active span that is read, a record says of the trace only what  *)
(* that span says; waves of flush callbacks follow one another, but for one *)
(* that a callback started; and tracing leaves the application's result.    *)
TelemetryIsBelieved ==
    /\ subject = "telemetry" => Telemetry!SpanIsBelieved /\ Telemetry!WavesAreApart
    /\ subject = "spans" => Spans!ResultIsTheApplications

(* The source with the highest precedence decides, and a malformed word is  *)
(* an error, unless it is a variable that a flag overrides.                 *)
ConfigurationIsChecked ==
    subject = "configuration" =>
        Configuration!PrecedenceHolds /\ Configuration!MistakesAreFatal

(* Counters, gauges, histograms and reports account for what happened, also *)
(* at their limits, after failures, and while they are being stopped; what  *)
(* a report counted that no sink accepted is lost, and accounted as lost.   *)
NumbersAreExact ==
    /\ subject = "prometheus" =>
         /\ Prometheus!SeriesAreBounded /\ Prometheus!InFlightIsExact
         /\ Prometheus!BucketsAreCumulative /\ Prometheus!OneFamilyPerName
    /\ subject = "process" =>
         /\ Process!HistogramIsExact /\ Process!SamplesAreOneSampling
         /\ Process!StopUndoesAll
    /\ subject = "reporter" => Reporter!ReportsAreConserved /\ Reporter!NeverReopens
=============================================================================
