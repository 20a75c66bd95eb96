------------------------------- MODULE Logger -------------------------------
(***************************************************************************)
(* BaseLogger (src/src/base-logger.ts): events become records, a record is *)
(* written to every transport at once, and flush(), flushOnExit() and      *)
(* close() run beside the writes.  An event and its record are one value:  *)
(* send() turns an event into a record once.                               *)
(*                                                                         *)
(* The console, the identifiers, waitUntil and after are left out.         *)
(***************************************************************************)
EXTENDS Naturals, FiniteSets

CONSTANTS
    Events,      \* the events callers create
    Quiet,       \* events below maxLevel
    Transports,  \* transports, and
    Otel,        \* those that isOpenTelemetryTransport recognises
    Calls,       \* calls of flush, flushOnExit and close
    MaxFailures  \* bound: transport calls, and error handlers, that fail

VARIABLES
    unsent,       \* unsentEvents
    sent,         \* events whose sendPromise is set
    activeRecords,\* activeRecords, which change together with pending
    writing,      \* for each record, the transports whose write is unsettled
    failed,       \* for each record, the transports whose write rejected
    callPc,       \* where each call is suspended
    option,       \* the options of each call
    awaited,      \* for each call, the tasks its Promise.allSettled holds
    transportsDue,\* for each call, the transport hooks it holds
    failures,     \* calls that saw a rejection
    handed,       \* for each call, the records given to flushOnExit hooks
    routed,       \* history: the transports each record was written to
    reported,     \* history: failures given to onTransportError or console
    silenced,     \* history: records whose error handler threw
    owed,         \* history: for each call, what was unsettled when it began
    timedOut,     \* history: calls that gave up
    failuresSeen

recordVars == <<unsent, sent, activeRecords, writing, failed, routed>>
callVars == <<callPc, option, awaited, transportsDue, failures, handed, owed,
              timedOut>>
vars == <<recordVars, callVars, reported, silenced, failuresSeen>>

Kinds == {"flush", "exit", "close"}
Options == [kind : Kinds, sendUnsent : BOOLEAN, timeout : BOOLEAN,
            throwOnError : BOOLEAN]
NoOption == [kind |-> "flush", sendUnsent |-> FALSE, timeout |-> FALSE,
             throwOnError |-> FALSE]

Init ==
    /\ unsent = {} /\ sent = {} /\ activeRecords = {}
    /\ writing = [e \in Events |-> {}] /\ failed = [e \in Events |-> {}]
    /\ callPc = [c \in Calls |-> "idle"]
    /\ option = [c \in Calls |-> NoOption]
    /\ awaited = [c \in Calls |-> {}] /\ transportsDue = [c \in Calls |-> {}]
    /\ failures = {} /\ handed = [c \in Calls |-> {}]
    /\ routed = [e \in Events |-> {}] /\ reported = {} /\ silenced = {}
    /\ owed = [c \in Calls |-> {}] /\ timedOut = {} /\ failuresSeen = 0

-----------------------------------------------------------------------------
(* Emitting *)

(* Where a record is written: everywhere, or past the OTEL sinks when the   *)
(* event or its logger says so, or nowhere when send(false) only prints it. *)
Routes == {Transports, Transports \ Otel}

(* emitEvent for every event of E; `to` is what each is written to.  A     *)
(* quiet event ends here.                                                  *)
Emit(E, to) ==
    LET loud == E \ Quiet
    IN  /\ unsent' = unsent \ E
        /\ sent' = sent \cup E
        /\ activeRecords' = activeRecords \cup loud
        /\ writing' = [e \in Events |-> IF e \in loud THEN to[e] ELSE writing[e]]
        /\ routed' = [e \in Events |-> IF e \in loud THEN to[e] ELSE routed[e]]
        /\ UNCHANGED failed

Create(e) ==
    /\ e \notin unsent \cup sent
    /\ unsent' = unsent \cup {e}
    /\ UNCHANGED <<sent, activeRecords, writing, failed, routed, callVars,
                   reported, silenced, failuresSeen>>

(* event.send(store), by the caller or by the microtask of autoSend: the    *)
(* first call emits, the others return its promise.                        *)
Send(e) ==
    /\ e \in unsent
    /\ \E to \in Routes \cup {{}} : Emit({e}, [r \in Events |-> to])
    /\ UNCHANGED <<callVars, reported, silenced, failuresSeen>>

(* transport.write(record) resolves, or rejects. *)
WriteSettles(e, t, ok) ==
    /\ t \in writing[e]
    /\ writing' = [writing EXCEPT ![e] = @ \ {t}]
    /\ ok \/ failuresSeen < MaxFailures
    /\ IF ok THEN UNCHANGED <<failed, failuresSeen>>
       ELSE /\ failed' = [failed EXCEPT ![e] = @ \cup {t}]
            /\ failuresSeen' = failuresSeen + 1
    /\ UNCHANGED <<unsent, sent, activeRecords, routed, callVars,
                   reported, silenced>>

(* Mutation of TaskEnds: cleanup runs with the first write that settles. *)
MutantTaskEnds(e) ==
    /\ e \in activeRecords /\ (writing[e] = {} \/ writing[e] # routed[e])
    /\ activeRecords' = activeRecords \ {e}
    /\ reported' = reported \cup {<<e, t>> : t \in failed[e]}
    /\ UNCHANGED <<unsent, sent, writing, failed, routed, callVars,
                   silenced, failuresSeen>>

(* All writes of a record are settled: its failures are reported one after  *)
(* the other, unless a handler throws, which rejects the task; then cleanup.*)
TaskEnds(e) ==
    /\ e \in activeRecords /\ writing[e] = {}
    /\ activeRecords' = activeRecords \ {e}
    /\ \/ /\ reported' = reported \cup {<<e, t>> : t \in failed[e]}
          /\ UNCHANGED <<silenced, failures, failuresSeen>>
       \/ /\ failed[e] # {} /\ failuresSeen < MaxFailures
          /\ \E told \in SUBSET failed[e] : reported' = reported \cup {<<e, t>> : t \in told}
          /\ silenced' = silenced \cup {e}
          /\ failuresSeen' = failuresSeen + 1
          /\ failures' = failures \cup {c \in Calls : callPc[c] = "settling" /\ e \in awaited[c]}
    /\ UNCHANGED <<unsent, sent, writing, failed, routed, callPc,
                   option, awaited, transportsDue, handed, owed, timedOut>>

-----------------------------------------------------------------------------
(* flush, flushOnExit and close *)

Unsettled == (unsent \cup activeRecords) \ Quiet

(* flush(): with sendUnsent it first sends what was not sent, and waits.    *)
FlushBegins(c) ==
    /\ callPc[c] = "idle"
    /\ \E o \in {x \in Options : x.kind = "flush"} :
          /\ option' = [option EXCEPT ![c] = o]
          /\ IF o.sendUnsent
             THEN /\ \E to \in [unsent -> Routes] : Emit(unsent, to)
                  /\ callPc' = [callPc EXCEPT ![c] = "sending"]
                  /\ awaited' = [awaited EXCEPT ![c] = unsent]
                  /\ owed' = [owed EXCEPT ![c] = Unsettled]
                  /\ UNCHANGED transportsDue
             ELSE /\ callPc' = [callPc EXCEPT ![c] = "settling"]
                  /\ awaited' = [awaited EXCEPT ![c] = activeRecords]
                  /\ owed' = [owed EXCEPT ![c] = activeRecords]
                  /\ transportsDue' = [transportsDue EXCEPT ![c] = Transports]
                  /\ UNCHANGED recordVars
    /\ UNCHANGED <<failures, handed, timedOut, reported, silenced,
                   failuresSeen>>

(* Mutation of ExitBegins: the snapshot comes before the sends. *)
MutantExitBegins(c) ==
    /\ callPc[c] = "idle"
    /\ \E o \in {x \in Options : x.kind # "flush" /\ x.sendUnsent /\ ~x.throwOnError} :
          option' = [option EXCEPT ![c] = o]
    /\ \E to \in [unsent -> Routes] : Emit(unsent, to)
    /\ handed' = [handed EXCEPT ![c] = activeRecords]
    /\ owed' = [owed EXCEPT ![c] = Unsettled]
    /\ callPc' = [callPc EXCEPT ![c] = "settling"]
    /\ awaited' = [awaited EXCEPT ![c] = activeRecords']
    /\ transportsDue' = [transportsDue EXCEPT ![c] = Transports]
    /\ UNCHANGED <<failures, timedOut, reported, silenced,
                   failuresSeen>>

(* flushOnExit(), and close() up to there: everything unsent is sent, every *)
(* active record is handed over again, and a flush runs beside the hooks.  *)
ExitBegins(c) ==
    /\ callPc[c] = "idle"
    /\ \E o \in {x \in Options : x.kind # "flush" /\ x.sendUnsent /\ ~x.throwOnError} :
          option' = [option EXCEPT ![c] = o]
    /\ \E to \in [unsent -> Routes] : Emit(unsent, to)
    /\ handed' = [handed EXCEPT ![c] = activeRecords']
    /\ owed' = [owed EXCEPT ![c] = Unsettled]
    /\ callPc' = [callPc EXCEPT ![c] = "settling"]
    /\ awaited' = [awaited EXCEPT ![c] = activeRecords']
    /\ transportsDue' = [transportsDue EXCEPT ![c] = Transports]
    /\ UNCHANGED <<failures, timedOut, reported, silenced,
                   failuresSeen>>

(* What flush sent has settled: it takes its snapshot and asks transports.  *)
UnsentSettles(c) ==
    /\ callPc[c] = "sending" /\ awaited[c] \cap activeRecords = {}
    /\ callPc' = [callPc EXCEPT ![c] = "settling"]
    /\ awaited' = [awaited EXCEPT ![c] = activeRecords]
    /\ transportsDue' = [transportsDue EXCEPT ![c] = Transports]
    /\ UNCHANGED <<recordVars, option, failures, handed, owed,
                   timedOut, reported, silenced, failuresSeen>>

(* A transport's flush, flushOnExit or close settles. *)
TransportSettles(c, t, ok) ==
    /\ t \in transportsDue[c]
    /\ ok \/ failuresSeen < MaxFailures
    /\ transportsDue' = [transportsDue EXCEPT ![c] = @ \ {t}]
    /\ IF ok THEN UNCHANGED <<failures, failuresSeen>>
       ELSE /\ failures' = failures \cup {c}
            /\ failuresSeen' = failuresSeen + 1
    /\ UNCHANGED <<recordVars, callPc, option, awaited, handed,
                   owed, timedOut, reported, silenced>>

(* The end of the settling: close() goes on to the transports, and a flush  *)
(* that was asked to rejects with what failed.                             *)
AfterSettling(c) ==
    IF option[c].kind = "close"
    THEN /\ callPc' = [callPc EXCEPT ![c] = "closing"]
         /\ transportsDue' = [transportsDue EXCEPT ![c] = Transports]
    ELSE /\ callPc' = [callPc EXCEPT ![c] = IF option[c].throwOnError /\ c \in failures
                                            THEN "rejected" ELSE "ended"]
         /\ UNCHANGED transportsDue

(* Mutation of Settled: a flush does not wait for the writes. *)
MutantSettled(c) ==
    callPc[c] = "settling" /\ transportsDue[c] = {}

Settled(c) ==
    /\ callPc[c] = "settling"
    /\ transportsDue[c] = {} /\ awaited[c] \cap activeRecords = {}

CallSettles(c) ==
    /\ Settled(c)
    /\ AfterSettling(c)
    /\ UNCHANGED <<recordVars, option, awaited, failures, handed,
                   owed, timedOut, reported, silenced, failuresSeen>>

(* Mutation of TimesOut: the timer covers flush() only. *)
MutantTimesOut(c) ==
    option[c].timeout /\ callPc[c] = "settling" /\ option[c].kind = "flush"

TimesOut(c) == option[c].timeout /\ callPc[c] = "settling"

(* waitWithTimeout gives up: it rejects for throwOnError, else resolves.   *)
CallTimesOut(c) ==
    /\ TimesOut(c)
    /\ timedOut' = timedOut \cup {c}
    /\ IF option[c].kind = "close"
       THEN /\ callPc' = [callPc EXCEPT ![c] = "closing"]
            /\ transportsDue' = [transportsDue EXCEPT ![c] = Transports]
       ELSE /\ callPc' = [callPc EXCEPT ![c] = IF option[c].throwOnError
                                               THEN "rejected" ELSE "ended"]
            /\ transportsDue' = [transportsDue EXCEPT ![c] = {}]
    /\ UNCHANGED <<recordVars, option, awaited, failures, handed,
                   owed, reported, silenced, failuresSeen>>

(* close(): every transport's close() has settled. *)
CloseEnds(c) ==
    /\ callPc[c] = "closing" /\ transportsDue[c] = {}
    /\ callPc' = [callPc EXCEPT ![c] = "ended"]
    /\ UNCHANGED <<recordVars, option, awaited, transportsDue,
                   failures, handed, owed, timedOut, reported, silenced,
                   failuresSeen>>

-----------------------------------------------------------------------------
Next ==
    \/ \E e \in Events : Create(e) \/ Send(e) \/ TaskEnds(e)
    \/ \E e \in Events, t \in Transports, ok \in BOOLEAN : WriteSettles(e, t, ok)
    \/ \E c \in Calls :
          FlushBegins(c) \/ ExitBegins(c) \/ UnsentSettles(c) \/ CallSettles(c)
          \/ CallTimesOut(c) \/ CloseEnds(c)
    \/ \E c \in Calls, t \in Transports, ok \in BOOLEAN : TransportSettles(c, t, ok)

Spec == Init /\ [][Next]_vars

(* Timers fire and settled promises resume.  A transport owes nothing: its  *)
(* writes and hooks may hang.                                              *)
Progress ==
    \A c \in Calls : WF_vars(CallTimesOut(c)) /\ WF_vars(CallSettles(c))
FairSpec == Spec /\ Progress

-----------------------------------------------------------------------------
(* Properties *)

(* Every variable keeps its type.                                          *)
TypeOK ==
    /\ unsent \subseteq Events /\ sent \subseteq Events /\ unsent \cap sent = {}
    /\ activeRecords \subseteq sent
    /\ writing \in [Events -> SUBSET Transports]
    /\ failed \in [Events -> SUBSET Transports]
    /\ routed \in [Events -> SUBSET Transports]
    /\ callPc \in [Calls -> {"idle", "sending", "settling", "closing", "ended", "rejected"}]
    /\ option \in [Calls -> Options]
    /\ awaited \in [Calls -> SUBSET Events] /\ owed \in [Calls -> SUBSET Events]
    /\ handed \in [Calls -> SUBSET Events]
    /\ transportsDue \in [Calls -> SUBSET Transports]
    /\ failures \subseteq Calls /\ timedOut \subseteq Calls
    /\ failuresSeen \in 0..MaxFailures

(* Every write that failed has been reported once its record is no longer   *)
(* active, whatever the other transports did, unless a handler threw.      *)
FailuresAreReported ==
    \A e \in (sent \ activeRecords) \ silenced : \A t \in routed[e] :
        /\ t \notin writing[e]
        /\ t \in failed[e] => <<e, t>> \in reported

(* At process exit no record falls between the lists: whatever was created  *)
(* and not delivered when flushOnExit() or close() began was handed to the  *)
(* transports' exit hooks, and a call that did not time out waited for it.  *)
ExitMissesNothing ==
    \A c \in Calls :
        /\ callPc[c] # "idle" /\ option[c].kind # "flush" => owed[c] \subseteq handed[c]
        /\ callPc[c] \in {"closing", "ended", "rejected"} /\ c \notin timedOut =>
              owed[c] \cap Unsettled = {}

(* "a bounded lifecycle boundary" (README.md): flushOnExit() and close()     *)
(* with a timeout get past the records, whatever the transports do.        *)
ExitIsBounded ==
    \A c \in Calls :
        callPc[c] = "settling" /\ option[c].timeout ~> callPc[c] # "settling"

(* "throwOnError: true when a bounded lifecycle boundary must observe       *)
(* delivery/timeout failure" (README.md): a flush that resolves saw every   *)
(* record it waited for delivered. It does not hold: a write that fails     *)
(* while flush() awaits another is not among the errors flush() looks at.   *)
FlushObservesFailures ==
    \A c \in Calls :
        callPc[c] = "ended" /\ option[c].kind = "flush" /\ option[c].throwOnError =>
            \A e \in owed[c] : failed[e] = {}
=============================================================================
