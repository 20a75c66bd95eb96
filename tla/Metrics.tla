--------------------------------- MODULE Metrics ---------------------------------
(***************************************************************************)
(* The Prometheus registry and the instrumented transport of               *)
(* src/src/prometheus.ts: metrics of two generations, bounded ones that    *)
(* collapse label sets over their budget into one overflow series, and     *)
(* prefixed ones that drop them and count the drops.                       *)
(*                                                                         *)
(* A label set is one value, here the transport's name; values that are    *)
(* the same once cut to their length are the same value.  Amounts are      *)
(* small numbers: one for a counter, a duration for the histogram.         *)
(***************************************************************************)
EXTENDS Integers, Sequences, FiniteSets, Lists

CONSTANTS
    MtLabels,        \* transports; a name may be the overflow value itself
    MtLevels,        \* label sets of the records counted
    MtMaxSeries,     \* maxSeries, maxSeriesPerMetric
    MtBuckets,       \* bounds of the duration histogram, increasing
    MtDurations,     \* durations a clock can show
    MtWrites,        \* writes through the instrumented transports
    MtMaxRecords, MtMaxFaults, MtMaxRegistered   \* bounds

VARIABLES mt
mtVars == <<mt>>

Overflow == "__overflow__"
Prefixed == {"records", "bytes", "correlated", "errors"}
NoSeries == [l \in {} |-> 0]
EmptyHistogram == [buckets |-> [i \in DOMAIN MtBuckets |-> 0], count |-> 0]

MtInit ==
    mt \in {[part |-> p,                            \* the part that runs: they share nothing
          registered |-> {},                       \* [name, kind], by callers
          inFlight   |-> NoSeries,                 \* transportInFlight
          outcomes   |-> [o \in {"success", "failure"} |-> 0],  \* transportWrites
          durations  |-> NoSeries,                 \* transportDurationSeconds
          records    |-> NoSeries, bytes |-> NoSeries,  \* of the counting transport
          correlated |-> NoSeries, errors |-> NoSeries,
          dropped    |-> [m \in Prefixed |-> 0],   \* droppedSeries
          write      |-> [w \in MtWrites |-> [at |-> "new", transport |-> Overflow,
                                              counted |-> FALSE, started |-> FALSE]],
          seen       |-> [m \in Prefixed |-> 0],   \* history, with the next two
          lost       |-> 0, measured |-> 0, faults |-> 0]
           : p \in {"registry", "writes", "records"}}

-----------------------------------------------------------------------------
(* Series *)

(* Mutation of LabelsOf: the budget does not leave room for the overflow.    *)
MutantLabelsOf(series, label) ==
    IF label \in DOMAIN series \/ Cardinality(DOMAIN series) < MtMaxSeries THEN label
    ELSE Overflow

(* labels: the key that an update goes to.  A known one is kept; a new one   *)
(* takes a slot of the budget, all but one of maxSeries.                   *)
LabelsOf(series, label) ==
    IF label \in DOMAIN series \/ Cardinality(DOMAIN series \ {Overflow}) < MtMaxSeries - 1
    THEN label ELSE Overflow

Default(series, key, value) == IF key \in DOMAIN series THEN series[key] ELSE value
Put(series, key, value) ==
    [k \in DOMAIN series \cup {key} |-> IF k = key THEN value ELSE series[k]]

(* Counter.inc, Gauge.inc *)
Inc(series, label, value) ==
    LET key == LabelsOf(series, label)
    IN  Put(series, key, Default(series, key, 0) + value)

(* Histogram.observe: every bucket that the value fits in. *)
Observe(series, label, value) ==
    LET key == LabelsOf(series, label)
        h == Default(series, key, EmptyHistogram)
    IN  Put(series, key,
            [buckets |-> [i \in DOMAIN MtBuckets |->
                             h.buckets[i] + (IF value <= MtBuckets[i] THEN 1 ELSE 0)],
             count |-> h.count + 1])

(* The prefixed metrics: a label set over the limit is dropped, and noted.    *)
NoteDrop(x, metric) == [x EXCEPT !.dropped[metric] = @ + 1]
Add(x, metric, label) ==
    LET series == x[metric]
        seen == [x EXCEPT !.seen[metric] = @ + 1]
    IN  IF label \notin DOMAIN series /\ Cardinality(DOMAIN series) >= MtMaxSeries
        THEN NoteDrop(seen, metric)
        ELSE [seen EXCEPT ![metric] = Put(@, label, Default(series, label, 0) + 1)]

(* Of the histogram of sizes, the count. *)
ObserveSize(x, label) == Add(x, "bytes", label)

-----------------------------------------------------------------------------
(* Registration *)

(* The names a metric appears under: h, and what its kind adds to it.        *)
ExpositionNames(m) ==
    {m.name} \cup {Append(m.name, s) : s \in IF m.kind = "histogram"
                                             THEN {"bucket", "sum", "count"} ELSE {}}
Candidates == [name : {<<"m">>, <<"n">>, <<"m", "sum">>, <<"dropped series">>},
               kind : {"counter", "gauge", "histogram"}]

(* register: under no name that is taken. *)
Register(m) ==
    /\ mt.part = "registry" /\ Cardinality(mt.registered) < MtMaxRegistered
    /\ \A other \in mt.registered : ExpositionNames(other) \cap ExpositionNames(m) = {}
    /\ mt' = [mt EXCEPT !.registered = @ \cup {m}]

-----------------------------------------------------------------------------
(* InstrumentedTransport.write; the gauge and the clock may throw, each on   *)
(* its own, which is reported and changes nothing else.                    *)

Room(failing) == mt.faults + Cardinality(failing) <= MtMaxFaults
Spend(x, failing) == [x EXCEPT !.faults = @ + Cardinality(failing)]

WriteBegins(w, transport, failing) ==
    /\ mt.part = "writes" /\ mt.write[w].at = "new" /\ Room(failing)
    /\ LET x == Spend([mt EXCEPT !.write[w] = [at |-> "writing", transport |-> transport,
                                               counted |-> "gauge" \notin failing,
                                               started |-> "clock" \notin failing]], failing)
       IN  mt' = IF "gauge" \in failing THEN x
                 ELSE [x EXCEPT !.inFlight = Inc(@, transport, 1)]

(* Mutation of WriteSettles: a failed write is not taken off the gauge.      *)
MutantWriteSettles(w, outcome, duration, failing) ==
    /\ mt.write[w].at = "writing" /\ Room(failing)
    /\ LET k == mt.write[w]
           x == Spend([mt EXCEPT !.write[w].at = outcome, !.outcomes[outcome] = @ + 1], failing)
           y == IF ~k.counted \/ outcome = "failure" THEN x
                ELSE [x EXCEPT !.inFlight = Inc(@, k.transport, -1)]
       IN  mt' = IF ~k.started \/ "clock" \in failing THEN y
                 ELSE [y EXCEPT !.durations = Observe(@, k.transport, duration),
                                !.measured = @ + 1]

WriteSettles(w, outcome, duration, failing) ==
    /\ mt.write[w].at = "writing" /\ Room(failing)
    /\ LET k == mt.write[w]
           x == Spend([mt EXCEPT !.write[w].at = outcome, !.outcomes[outcome] = @ + 1], failing)
           y == IF ~k.counted THEN x
                ELSE IF "gauge" \in failing THEN [x EXCEPT !.lost = @ + 1]
                ELSE [x EXCEPT !.inFlight = Inc(@, k.transport, -1)]
       IN  mt' = IF ~k.started \/ "clock" \in failing THEN y
                 ELSE [y EXCEPT !.durations = Observe(@, k.transport, duration),
                                !.measured = @ + 1]

(* The transport that counts records: all of them, and those of a kind.      *)
CountsRecord(level, traced, isError) ==
    /\ mt.part = "records" /\ mt.seen["records"] < MtMaxRecords
    /\ LET all == ObserveSize(Add(mt, "records", level), level)
           correlated == IF traced THEN Add(all, "correlated", level) ELSE all
       IN  mt' = IF isError THEN Add(correlated, "errors", level) ELSE correlated

-----------------------------------------------------------------------------
MtNext ==
    \/ \E m \in Candidates : Register(m)
    \/ \E w \in MtWrites :
          \/ \E t \in MtLabels, f \in SUBSET {"gauge", "clock"} : WriteBegins(w, t, f)
          \/ \E o \in {"success", "failure"}, d \in MtDurations, f \in SUBSET {"gauge", "clock"} :
                WriteSettles(w, o, d, f)
    \/ \E l \in MtLevels, t, e \in BOOLEAN : CountsRecord(l, t, e)

MtSpec == MtInit /\ [][MtNext]_mtVars

-----------------------------------------------------------------------------
(* Properties *)

Under == {w \in MtWrites : mt.write[w].at = "writing" /\ mt.write[w].counted}

(* "One slot is reserved for a __overflow__ series; after the ordinary       *)
(* series budget is exhausted, unseen label combinations collapse into     *)
(* that series" and the older metrics drop them: no metric outgrows its    *)
(* limit, and nothing that was counted is in no series.                    *)
SeriesAreBounded ==
    /\ \A m \in {"inFlight", "durations"} \cup Prefixed :
          Cardinality(DOMAIN mt[m]) <= MtMaxSeries
    /\ \A m \in Prefixed : Total(mt[m]) + mt.dropped[m] = mt.seen[m]
    /\ Total([l \in DOMAIN mt.durations |-> mt.durations[l].count]) = mt.measured

(* The gauge shows the writes under way whose increment was recorded, with   *)
(* one left over for each decrement that failed: also when transports       *)
(* share the overflow series, whichever write ends first.                  *)
InFlightIsExact ==
    /\ Total(mt.inFlight) = Cardinality(Under) + mt.lost
    /\ \A l \in DOMAIN mt.inFlight : mt.inFlight[l] >= 0

(* A histogram is cumulative, up to its count. *)
BucketsAreCumulative ==
    \A l \in DOMAIN mt.durations : LET h == mt.durations[l] IN
        \A i, j \in DOMAIN MtBuckets :
            i <= j => h.buckets[i] <= h.buckets[j] /\ h.buckets[j] <= h.count

(* A scrape has each family once. *)
OneFamilyPerName ==
    \A a, b \in mt.registered : a # b => ExpositionNames(a) \cap ExpositionNames(b) = {}

(* The counter of the drops is a family of the scrape as well. It does not  *)
(* hold: a family may be registered under that name, and the scrape has it  *)
(* twice.                                                                   *)
DropsHaveTheirName ==
    \A m \in mt.registered : <<"dropped series">> \notin ExpositionNames(m)
=============================================================================
