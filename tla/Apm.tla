--------------------------------- MODULE Apm ---------------------------------
(***************************************************************************)
(* startOresOtelApm (src/src/apm.ts): the observable instruments it        *)
(* registers on the application's meter, the timer that samples the        *)
(* filesystems, the pressure gauge read from the samples and the           *)
(* thresholds, and stop(); and the pure latency histogram.                 *)
(***************************************************************************)
EXTENDS Integers, Sequences, FiniteSetsExt, Filter, Lists

CONSTANTS ApPaths,       \* metrics.filesystem.paths
          ApMaxRefreshes,\* bound on the samplings of a behaviour
          ApBounds,      \* histogram_boundaries_ms
          ApLatencies,   \* latencies recorded
          ApMaxRecords   \* bound on the latencies of a behaviour

VARIABLES ap
apVars == <<ap>>

Free == {0, 1, 2}        \* free units of a filesystem
Unknown == -1            \* an absent threshold; a statfs under way
Failed == -2

(* The instruments, in the order they are registered, and the policy each   *)
(* asks for.  Each is a cleanup, and so are the event-loop monitor and the *)
(* timer.                                                                  *)
Registrations(policy) ==
    Without(<<"process", "monitor", "delay", "utilization", "filesystem", "timer", "pressure">>,
            (IF "process" \in policy.on THEN {} ELSE {"process"})
            \cup (IF "latency" \in policy.on THEN {} ELSE {"monitor", "delay"})
            \cup (IF "runtime" \in policy.on THEN {} ELSE {"utilization"})
            \cup (IF "filesystem" \in policy.on THEN {} ELSE {"filesystem", "timer"})
            \cup (IF policy.threshold # Unknown THEN {} ELSE {"pressure"}))

(* oresOtelResourceThresholds: a disk threshold counts only when its        *)
(* sub-table is on; `on` is empty when config or metrics are off.          *)
Threshold(policy) == IF "filesystem" \in policy.on THEN policy.threshold ELSE Unknown

EmptyHistogram == [buckets |-> [i \in 1..Len(ApBounds) + 1 |-> 0], count |-> 0, sum |-> 0,
                   lo |-> Unknown, hi |-> Unknown]

ApInit ==
    \E on \in SUBSET {"process", "latency", "runtime", "filesystem"}, t \in {Unknown, 1, 2} :
        LET policy == [on |-> on, threshold |-> t]
        IN  ap = [policy |-> policy, state |-> "starting",
                  cleanups |-> <<>>, undone |-> {},
                  refreshes |-> <<>>,                 \* per sampling: what each path gave
                  samples |-> [p \in {} |-> 0], from |-> 0,
                  rejected |-> FALSE, gauge |-> [p \in {} |-> FALSE],
                  histogram |-> EmptyHistogram, recorded |-> <<>>]

-----------------------------------------------------------------------------
(* Start *)

(* refreshFilesystem: nothing once stopped; otherwise one statfs per path.  *)
BeginRefresh(x) ==
    IF "filesystem" \notin x.policy.on \/ x.state = "stopped" \/ Len(x.refreshes) = ApMaxRefreshes
    THEN x
    ELSE [x EXCEPT !.refreshes = Append(@, [p \in ApPaths |-> Unknown])]

(* startOresOtelApm, one synchronous call: each registration remembers how  *)
(* to undo it, and the timer's is followed by a first sampling.  The meter *)
(* may throw at any of its own, and the call with it.                      *)
Start(upTo) ==
    /\ ap.state = "starting"
    /\ LET all == Registrations([ap.policy EXCEPT !.threshold = Threshold(ap.policy)])
           done == SubSeq(all, 1, upTo)
           x == [ap EXCEPT !.cleanups = done, !.state = IF done = all THEN "running" ELSE "threw"]
       IN  /\ upTo <= Len(all)
           /\ upTo < Len(all) => all[upTo + 1] \notin {"monitor", "timer"}
           /\ ap' = IF "timer" \in Range(done) THEN BeginRefresh(x) ELSE x

-----------------------------------------------------------------------------
(* Sampling *)

(* The timer's tick, or a call of the handle.  The timer of a start that    *)
(* threw, or of a stop that threw before it, ticks on.                     *)
Refresh ==
    /\ ap.state = "running" \/ "timer" \in Range(ap.cleanups) \ ap.undone
    /\ BeginRefresh(ap) # ap
    /\ ap' = BeginRefresh(ap)

(* Mutation of Collect: of a path that was lost the old sample stays.       *)
MutantCollect(x, n) ==
    LET got == {p \in ApPaths : x.refreshes[n][p] # Failed}
    IN  [x EXCEPT !.samples = [p \in got \cup DOMAIN @ |->
                               IF p \in got THEN x.refreshes[n][p] ELSE @[p]], !.from = n]

(* Promise.allSettled: the failures are told, then what was sampled         *)
(* replaces the samples.  A throw of onError comes before that.            *)
Collect(x, n) ==
    LET got == {p \in ApPaths : x.refreshes[n][p] # Failed}
    IN  [x EXCEPT !.samples = [p \in got |-> x.refreshes[n][p]], !.from = n]

(* sampleFilesystem of one path: the space free now, or a failure.          *)
StatfsSettles(n, p, outcome, throws) ==
    /\ ap.refreshes[n][p] = Unknown
    /\ LET x == [ap EXCEPT !.refreshes[n][p] = outcome]
           last == \A q \in ApPaths : x.refreshes[n][q] # Unknown
           failed == \E q \in ApPaths : x.refreshes[n][q] = Failed
       IN  IF ~last THEN ~throws /\ ap' = x
           ELSE IF throws THEN failed /\ ap' = [x EXCEPT !.rejected = TRUE]
           ELSE ap' = Collect(x, n)

-----------------------------------------------------------------------------
(* The pressure gauge *)

(* Mutation of Breached: full is pressure too. *)
MutantBreached(free, threshold) == free <= threshold

(* "Pressure means a measurement fell strictly below its threshold." *)
Breached(free, threshold) == free < threshold

(* evaluateDiskPressure: one check per threshold that can be evaluated.     *)
EvaluateDiskPressure(samples, threshold) ==
    [p \in DOMAIN samples |-> Breached(samples[p], threshold)]

(* A collection of the meter. *)
Collection ==
    /\ ap.state = "running" /\ "pressure" \in Range(ap.cleanups)
    /\ ap' = [ap EXCEPT !.gauge = EvaluateDiskPressure(ap.samples, ap.policy.threshold)]

-----------------------------------------------------------------------------
(* Stop *)

(* Mutation of Cleanup: the last registration is left. *)
MutantCleanup(cleanups) == {cleanups[i] : i \in 1..Len(cleanups) - 1}

Cleanup(cleanups) == Range(cleanups)

(* stop(): once; every cleanup runs, until one throws.                      *)
Stop(upTo) ==
    /\ ap.state = "running"
    /\ upTo \in 0..Len(ap.cleanups)
    /\ upTo < Len(ap.cleanups) => ap.cleanups[upTo + 1] \notin {"monitor", "timer"}
    /\ ap' = [ap EXCEPT !.state = "stopped",
                        !.undone = Cleanup(SubSeq(ap.cleanups, 1, upTo)),
                        !.rejected = @ \/ upTo < Len(ap.cleanups)]

-----------------------------------------------------------------------------
(* The latency histogram *)

(* Mutation of BucketOf: a boundary belongs to the bucket above it. *)
MutantBucketOf(v) ==
    LET in == {i \in DOMAIN ApBounds : v < ApBounds[i]}
    IN  IF in = {} THEN Len(ApBounds) + 1 ELSE Min(in)

BucketOf(v) ==
    LET in == {i \in DOMAIN ApBounds : v <= ApBounds[i]}
    IN  IF in = {} THEN Len(ApBounds) + 1 ELSE Min(in)

(* What a latency adds to a histogram. *)
Recorded(h, v) ==
    [buckets |-> [h.buckets EXCEPT ![BucketOf(v)] = @ + 1],
     count |-> h.count + 1, sum |-> h.sum + v,
     lo |-> IF h.count = 0 THEN v ELSE Min({h.lo, v}),
     hi |-> IF h.count = 0 THEN v ELSE Max({h.hi, v})]

(* recordLatency *)
RecordLatency(v) ==
    /\ Len(ap.recorded) < ApMaxRecords /\ ap.policy.on = {}
    /\ ap' = [ap EXCEPT !.recorded = Append(@, v), !.histogram = Recorded(@, v)]

ApNext ==
    \/ \E upTo \in 0..7 : Start(upTo) \/ Stop(upTo)
    \/ Refresh \/ Collection
    \/ \E n \in DOMAIN ap.refreshes, p \in ApPaths, o \in Free \cup {Failed}, throws \in BOOLEAN :
            StatfsSettles(n, p, o, throws)
    \/ \E v \in ApLatencies : RecordLatency(v)

ApSpec == ApInit /\ [][ApNext]_apVars

-----------------------------------------------------------------------------
(* The latency snapshot counts each latency in the one bucket whose         *)
(* boundaries hold it, and its count, sum and extremes are theirs.         *)
HistogramIsExact ==
    LET h == ap.histogram
        all == ap.recorded
        upTo(i) == Cardinality({k \in DOMAIN all : all[k] <= ApBounds[i]})
    IN  /\ \A i \in DOMAIN ApBounds :
              h.buckets[i] = upTo(i) - (IF i = 1 THEN 0 ELSE upTo(i - 1))
        /\ h.count = Total(h.buckets) /\ h.count = Len(all)
        /\ h.sum = Total(all)
        /\ all # <<>> => h.lo = Min(Range(all)) /\ h.hi = Max(Range(all))

(* What the gauges read is one sampling, whole: no path's value outlives    *)
(* the sampling that failed to read it, whatever samplings overlap; and    *)
(* the pressure shown of a path that is not low is never pressure.         *)
SamplesAreOneSampling ==
    /\ ap.from # 0 =>
          LET n == ap.refreshes[ap.from]
          IN  ap.samples = [p \in {q \in ApPaths : n[q] # Failed} |-> n[p]]
    /\ \A p \in DOMAIN ap.gauge : ap.gauge[p] =>
          \E n \in DOMAIN ap.refreshes : ap.refreshes[n][p] \in 0..ap.policy.threshold - 1

(* stop() "undoes all of them": nothing of a handle that was stopped and did *)
(* not throw is left registered.                                           *)
StopUndoesAll ==
    ap.state = "stopped" /\ ~ap.rejected => ap.undone = Range(ap.cleanups)

(* "The most recent filesystem samples" (apm.ts): a sampling that took long *)
(* replaces what a later one found. So it does not hold.                    *)
SamplesAreMostRecent ==
    [][ap'.from # ap.from => ap'.from > ap.from]_apVars

(* "Never rejects; failures go to onError" (apm.ts): unless onError throws. *)
(* So it does not hold.                                                     *)
RefreshNeverRejects == ~ap.rejected
=============================================================================
