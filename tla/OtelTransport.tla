---------------------------- MODULE OtelTransport ----------------------------
(***************************************************************************)
(* The OpenTelemetry bridge (src/src/otel.ts): the context provider read   *)
(* from the application's active span, withOpenTelemetry, the write() of   *)
(* one record with the attributes it exports, and flush(), whose callers   *)
(* share one wave of the application's forceFlush callbacks.               *)
(*                                                                         *)
(* A W3C id is named by the trace it belongs to: the value "p" of trace.id *)
(* and the value "p" of span.id are ids of one span.  "ores" is a trace id *)
(* that is no W3C id, "none" the absence of one.                           *)
(***************************************************************************)
EXTENDS Naturals, Sequences, Filter

CONSTANTS OtTraces,         \* W3C traces
          OtFields,         \* names of the fields a record has
          OtMaxAttributes,  \* AttributeBuilder.maximum
          OtCallbacks,      \* forceFlushCallbacks
          OtCallers,        \* calls of flush() that may be under way at once
          OtMaxWaves        \* bound on the waves of a behaviour

VARIABLES ot
otVars == <<ot>>

None == "none"
ValidTraceId(t) == t \in OtTraces

(* An active span: its context (malformed, or of a trace with or without a  *)
(* trace state) and whether it records.                                    *)
NoSpan == [trace |-> None, state |-> FALSE, recording |-> FALSE, ok |-> FALSE]
Spans == {NoSpan} \cup
         [trace : OtTraces, state : BOOLEAN, recording : BOOLEAN, ok : BOOLEAN]

(* What a context gives of the trace: traceId and the otel.* fields. *)
NoContext == [trace |-> None, span |-> None, state |-> None, user |-> None]
Contexts == {NoContext} \cup {[trace |-> t, span |-> t, state |-> t, user |-> "u"] : t \in OtTraces}

(* createOpenTelemetryContextProvider: a valid tuple, or nothing.           *)
ContextProvider(span, requireRecording) ==
    IF ~span.ok \/ (requireRecording /\ ~span.recording) THEN NoContext
    ELSE [trace |-> span.trace, span |-> span.trace, user |-> None,
          state |-> IF span.state THEN span.trace ELSE None]

Over(new, old) == IF new = None THEN old ELSE new

(* withOpenTelemetry: a logger's context is merged with the span's; in the  *)
(* options of a logger to be, an explicit provider stays and otherwise the *)
(* span's takes the place of whatever provider the process has.  Without    *)
(* the activeSpan option there is nothing to merge.                        *)
ContextOf(mode, inherited, reads, span) ==
    LET telemetry == ContextProvider(span, FALSE)
    IN  CASE mode = "plain" \/ ~reads -> inherited
          [] mode = "options" /\ reads -> telemetry
          [] mode = "logger" /\ reads -> [k \in DOMAIN inherited |-> Over(telemetry[k], inherited[k])]

(* The record BaseLogger makes of an event that names the trace `said`.     *)
RecordOf(context, said) == [context EXCEPT !.trace = Over(said, context.trace)]

-----------------------------------------------------------------------------
(* Attributes *)

(* AttributeBuilder.set: a name that is there is replaced; a new one needs  *)
(* room.  A value of None is not set.                                      *)
SetAttribute(values, pair) ==
    IF pair[2] = None \/
       (pair[1] \notin DOMAIN values /\ Cardinality(DOMAIN values) >= OtMaxAttributes)
    THEN values
    ELSE [k \in DOMAIN values \cup {pair[1]} |-> IF k = pair[1] THEN pair[2] ELSE values[k]]

(* addRecordAttributes; log.record.uid stands for the names always set. *)
RecordAttributes(record) ==
    << <<"log.record.uid", "id">>,
       <<"trace.id", IF ValidTraceId(record.trace) THEN record.trace ELSE None>> >>
    \o [i \in 1..Cardinality(OtFields) |-> <<InSomeOrder(OtFields)[i], "v">>]

(* Mutation of Correlation: the record's own trace id wins over the span's. *)
MutantCorrelation(record, span) ==
    IF span.ok
    THEN << <<"trace.id", IF ValidTraceId(record.trace) THEN None ELSE span.trace>>,
            <<"span.id", span.trace>>,
            <<"trace_state", IF span.state THEN span.trace ELSE None>> >>
    ELSE <<>>

(* addCorrelationAttributes: those of the active span, or else those of the *)
(* record when its trace id and its span id are both valid.                *)
Correlation(record, span) ==
    IF span.ok
    THEN << <<"trace.id", span.trace>>, <<"span.id", span.trace>>,
            <<"trace_state", IF span.state THEN span.trace ELSE None>> >>
    ELSE IF ValidTraceId(record.trace) /\ ValidTraceId(record.span)
    THEN << <<"trace.id", record.trace>>, <<"span.id", record.span>>,
            <<"trace_state", record.state>> >>
    ELSE <<>>

(* The pairs set one after the other, in an AttributeBuilder. *)
Built(pairs) ==
    LET built[i \in 0..Len(pairs)] ==
            IF i = 0 THEN << >> ELSE SetAttribute(built[i - 1], pairs[i])
    IN  built[Len(pairs)]

Attributes(record, span) == Built(RecordAttributes(record) \o Correlation(record, span))

-----------------------------------------------------------------------------
(* write *)

Effects == {"active-span", "span-context", "logger.emit", "span-event", "record-exception",
            "span-status", "metric"}

(* What of a write is attempted: each effect in its own try. *)
Attempted(span, isError, failing) ==
    LET read == IF "active-span" \in failing THEN NoSpan ELSE span
        told == read # NoSpan /\ read.recording
    IN  {"active-span", "logger.emit", "metric"}
        \cup (IF read # NoSpan THEN {"span-context"} ELSE {})
        \cup (IF told THEN {"span-event"} ELSE {})
        \cup (IF told /\ isError THEN {"record-exception", "span-status"} ELSE {})

(* The span whose ids write() exports: read and read back without a throw.  *)
SpanRead(span, failing) ==
    IF failing \cap {"active-span", "span-context"} # {} THEN NoSpan ELSE span

(* A behaviour is one of write() or one of flush(): the two share nothing. *)
OtInit ==
    \E part \in {"write", "flush"} :
        ot \in [part : {part}, failOpen : IF part = "write" THEN BOOLEAN ELSE {TRUE},
                mode : IF part = "write" THEN {"plain", "options", "logger"} ELSE {"plain"},
                ambient : IF part = "write" THEN Contexts ELSE {NoContext},
                span : IF part = "write" THEN Spans ELSE {NoSpan},
                wrote : {[done |-> FALSE, record |-> NoContext, attributes |-> << >>,
                          read |-> NoSpan, failing |-> {}, threw |-> FALSE]},
                op : {0},                                  \* forceFlushOperation
                waves : {<<>>},
                nested : {{}},    \* history: the waves that a callback of another started
                callers : {[c \in OtCallers |-> [wave |-> 0, seen |-> {}]]}]

(* write(record), of an event that says a trace of its own or none, while   *)
(* the effects in `failing` throw.  Only emit's failure may be passed on.  *)
Write(said, isError, reads, failing) ==
    /\ ot.part = "write" /\ ~ot.wrote.done
    /\ LET record == RecordOf(ContextOf(ot.mode, ot.ambient, reads, ot.span), said)
           active == IF reads THEN ot.span ELSE NoSpan   \* the activeSpan option is optional
           read == SpanRead(active, failing)
       IN  ot' = [ot EXCEPT !.wrote =
                    [done |-> TRUE, record |-> record, read |-> read,
                     attributes |-> Attributes(record, read),
                     failing |-> failing \cap Attempted(active, isError, failing),
                     threw |-> "logger.emit" \in failing /\ ~ot.failOpen]]

-----------------------------------------------------------------------------
(* flush *)

(* Mutation of Joined: a flush only ever starts a wave. *)
MutantJoined == 0

(* The wave a call of flush() joins: the one under way, or none. *)
Joined == ot.op

(* flush(): joins the wave under way, or calls every callback. *)
Flush(c) ==
    /\ ot.part = "flush" /\ OtCallbacks # {}
    /\ ot.callers[c].wave = 0
    /\ IF Joined # 0 THEN ot' = [ot EXCEPT !.callers[c].wave = Joined]
       ELSE /\ Len(ot.waves) < OtMaxWaves
            /\ ot' = [ot EXCEPT !.waves = Append(@, [k \in OtCallbacks |-> "running"]),
                                !.op = Len(ot.waves) + 1,
                                !.callers[c].wave = Len(ot.waves) + 1]

(* A callback of c's flush() that itself calls flush(), as d, finds no       *)
(* operation yet: its wave is the first to be recorded, and c's takes its   *)
(* place.                                                                  *)
FlushNested(c, d) ==
    /\ ot.part = "flush" /\ OtCallbacks # {} /\ c # d
    /\ ot.callers[c].wave = 0 /\ ot.callers[d].wave = 0
    /\ Joined = 0 /\ Len(ot.waves) + 1 < OtMaxWaves
    /\ LET n == Len(ot.waves)
           new == [k \in OtCallbacks |-> "running"]
       IN  ot' = [ot EXCEPT !.waves = @ \o <<new, new>>, !.op = n + 2, !.nested = @ \cup {n + 1},
                            !.callers = [@ EXCEPT ![d].wave = n + 1, ![c].wave = n + 2]]

Settled(w) == \A k \in OtCallbacks : ot.waves[w][k] # "running"

CallbackSettles(w, k, ok) ==
    /\ ot.waves[w][k] = "running"
    /\ ot' = [ot EXCEPT !.waves[w][k] = IF ok THEN "ok" ELSE "failed"]

(* Mutation of ClearOperation: whichever wave settles forgets the operation. *)
MutantClearOperation(w) ==
    /\ Settled(w)
    /\ ot' = [ot EXCEPT !.op = 0]

(* The reaction registered first: forget the operation. *)
ClearOperation(w) ==
    /\ w = ot.op /\ Settled(w)
    /\ ot' = [ot EXCEPT !.op = 0]

(* The reactions of the callers come after it; the failures, if there are   *)
(* any, are thrown to each.                                                *)
CallerResumes(c) ==
    /\ ot.callers[c].wave # 0
    /\ Settled(ot.callers[c].wave) /\ ot.op # ot.callers[c].wave
    /\ ot' = [ot EXCEPT !.callers[c] = [wave |-> 0, seen |-> @.seen \cup {@.wave}]]

OtNext ==
    \/ \E said \in OtTraces \cup {None, "ores"}, isError, reads \in BOOLEAN,
          failing \in {F \in SUBSET Effects : Cardinality(F) <= 2} :
            Write(said, isError, reads, failing)
    \/ \E c \in OtCallers : Flush(c) \/ CallerResumes(c) \/ \E d \in OtCallers : FlushNested(c, d)
    \/ \E w \in DOMAIN ot.waves : ClearOperation(w) \/
         \E k \in OtCallbacks, ok \in BOOLEAN : CallbackSettles(w, k, ok)

OtSpec == OtInit /\ [][OtNext]_otVars

-----------------------------------------------------------------------------
Exported(name) ==
    IF name \in DOMAIN ot.wrote.attributes THEN {ot.wrote.attributes[name]} ELSE {}
Tuple == UNION {Exported(n) : n \in {"trace.id", "span.id", "trace_state"}}

(* A record written under an active span that the transport reads says of   *)
(* the trace only what that span says, whatever trace its event or its      *)
(* context named and however little room the attribute limit leaves.        *)
SpanIsBelieved == ot.wrote.done /\ ot.wrote.read.ok => Tuple \subseteq {ot.wrote.read.trace}

(* "Force-flush every injected application-owned provider exactly once per  *)
(* concurrent flush wave": no callback is called while its previous call is *)
(* under way, but for the calls made by a wave that a callback started, and *)
(* a caller that has seen a wave's outcome and flushes again gets another.  *)
WavesAreApart ==
    /\ \A v, w \in DOMAIN ot.waves : v < w /\ v \notin ot.nested => Settled(v)
    /\ \A c \in OtCallers : ot.callers[c].wave \notin ot.callers[c].seen

(* Without that exception it does not hold: flush() runs the callbacks      *)
(* before it records the operation, so one that re-enters flush() starts a *)
(* second wave of the same concurrent flush.                               *)
OneWaveAtATime == \A v, w \in DOMAIN ot.waves : v < w => Settled(v)

(* "the complete W3C span tuple" (otel.ts:12): the ids exported are of one  *)
(* span.  Not so when an event names its own trace and the transport is    *)
(* given no activeSpan.                                                    *)
TupleIsOne == Cardinality(Tuple) <= 1

(* "If it [logger.emit()] fails, the transport reports the failure to next- *)
(* loggers in the normal transport path" (docs/otel.md:189). It does not    *)
(* hold unless failOpen is false.                                           *)
EmitFailureIsReported == "logger.emit" \in ot.wrote.failing => ot.wrote.threw

(* withOpenTelemetry "preserves normal transports and context" (otel.ts).   *)
(* It does not hold: the event gets a context of its own, without the user. *)
ContextSurvives == ot.wrote.done /\ ot.ambient.user # None => ot.wrote.record.user # None
=============================================================================
