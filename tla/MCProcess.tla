------------------------------ MODULE MCProcess ------------------------------
(* What runs until a process ends, in one run: the shutdown coordinator,    *)
(* the logger and its exit calls, the lifecycle handlers that make them,    *)
(* and a batching exporter whose promises they await.  The subject is       *)
(* chosen at the start; the others stay in one initial state.               *)
EXTENDS Shutdown, Sequences

CONSTANTS
    Events, QuietEvents, Transports, Otel, Calls, MaxFailures,    \* of Logger
    Loggers, Runtimes, MaxSignals, MaxQuiet,              \* of ProcessLifecycle
    LkRecords, LkStreams, LkBatchSize, LkMaxQueue, LkMaxRetries, LkMaxFaults

ASSUME BoundsAssumption ==
    /\ MaxFailures \in Nat /\ MaxSignals \in Nat /\ MaxQuiet \in Nat
ASSUME ExporterAssumption ==
    /\ LkRecords \subseteq Nat /\ LkStreams \subseteq SUBSET LkRecords
    /\ LkBatchSize \in Nat \ {0} /\ LkMaxQueue \in Nat /\ LkMaxRetries \in Nat
    /\ LkMaxFaults \in Nat

VARIABLES subject,
    unsent, sent, activeRecords, writing, failed, routed, callPc, option,
    awaited, transportsDue, failures, handed, owed, timedOut, reported,
    silenced, failuresSeen,
    runtime, registered, created, installed, beforeExits, stopping,
    quietDrain, due, exited, signals, quiets, registeredAtSignal, served,
    lk, lkFaults

Log == INSTANCE Logger WITH Quiet <- QuietEvents
Life == INSTANCE ProcessLifecycle WITH owed <- registeredAtSignal
Exporter == INSTANCE Loki

logVars == <<unsent, sent, activeRecords, writing, failed, routed, callPc, option,
             awaited, transportsDue, failures, handed, owed, timedOut, reported,
             silenced, failuresSeen>>
lifeVars == <<runtime, registered, created, installed, beforeExits, stopping,
              quietDrain, due, exited, signals, quiets, registeredAtSignal, served>>
lkVars == <<lk, lkFaults>>
AllVars == <<vars, subject, logVars, lifeVars, lkVars>>

AllInit ==
    /\ subject \in {"coordinator", "logger", "lifecycle", "exporter"}
    /\ Init /\ Log!Init /\ Life!PlInit /\ Exporter!LkInit
    /\ subject # "coordinator" =>
         /\ flushOption = "none" /\ ~attached
         /\ listener = [s \in Servers |-> "closed"]
    /\ subject # "lifecycle" => runtime = "node"

AllNext ==
    /\ UNCHANGED subject
    /\ \/ /\ subject = "coordinator" /\ Next
          /\ UNCHANGED <<logVars, lifeVars, lkVars>>
       \/ /\ subject = "logger" /\ Log!Next
          /\ UNCHANGED <<vars, lifeVars, lkVars>>
       \/ /\ subject = "lifecycle" /\ Life!PlNext
          /\ UNCHANGED <<vars, logVars, lkVars>>
       \/ /\ subject = "exporter" /\ Exporter!LkNext
          /\ UNCHANGED <<vars, logVars, lifeVars>>

(* The fairness each module states.                                         *)
AllSpec ==
    /\ AllInit /\ [][AllNext]_AllVars
    /\ ObservedProgress /\ Log!Progress /\ Life!PlFairness /\ Exporter!LkFair

-----------------------------------------------------------------------------
(* Around the process exit no record slips between the logger's lists, no   *)
(* failed write goes unreported, and the exporter holds a promise open      *)
(* exactly while its record is under way, in the order of the stream.       *)
LogsAreAccountedFor ==
    /\ Log!TypeOK /\ Log!FailuresAreReported /\ Log!ExitMissesNothing
    /\ Exporter!LkTypeOK /\ Exporter!OpenIsUnderWay /\ Exporter!StreamsInOrder

(* A signal drains every logger it finds before the process ends, and a     *)
(* drained process listens for its next quiescence.                        *)
EveryLoggerIsDrained ==
    Life!PlTypeOK /\ Life!SignalDrainsAll /\ Life!NextQuiescenceIsHeard

(* Nothing keeps the process for ever: wait() resolves, flushOnExit() and   *)
(* close() with a timeout get past the records, a signal ends the process,  *)
(* and every promise of the exporter settles.                              *)
EverythingEnds ==
    /\ Completes /\ Log!ExitIsBounded
    /\ Life!SignalEndsProcess /\ Exporter!EveryPromiseSettles
=============================================================================
