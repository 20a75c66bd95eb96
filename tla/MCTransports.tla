---------------------------- MODULE MCTransports ----------------------------
(* The transports to Supabase other than the WebSocket one, the error       *)
(* tracking transport and the local journal, in one run: each is a subject *)
(* of its own, with its state in one variable and the faults of its        *)
(* surroundings in another.                                                *)
EXTENDS Naturals, FiniteSets, TLC

CONSTANTS
    RaRecords, RaOversized, RaFlushes, RaMaxQueue, RaMaxInFlight, RaMaxAttempts,
    RaMaxTries, RaSockets, RaMaxFaults,                        \* of RealtimeAck
    RbItems, RbTooLarge, RbHeavy, RbBatchSize, RbMaxQueue, RbFallbackAfter,
    RbSockets, RbMaxFaults,                                    \* of RealtimeBatch
    RlRecords, RlMaxQueue, RlSockets, RlMaxFaults,             \* of RealtimeLegacy
    HiRecords, HiTooLarge, HiHeavy, HiExitHeavy, HiBatchSize, HiMaxQueue,
    HiMaxFaults,                                               \* of HttpIngest
    SmCalls,                                                   \* of SessionMirror
    EtWrites, EtAlike, EtBelow, EtMaxHashes,                   \* of ErrorTracking
    LjProcesses, LjRecords, LjKinds, LjRetention, LjMaxSegment, LjMaxTotal,
    LjHorizon, LjMaxFaults                                     \* of LocalJournal

(* The validated options; sockets are numbered from 1; who waits has a name *)
(* no record has.                                                          *)
ASSUME AckAssumption ==
    /\ RaMaxQueue \in Nat /\ RaMaxTries \in Nat /\ RaMaxFaults \in Nat
    /\ RaMaxInFlight \in Nat \ {0} /\ RaMaxAttempts \in Nat \ {0}
    /\ RaSockets \subseteq Nat \ {0} /\ "close" \notin RaFlushes
ASSUME BatchAssumption ==
    /\ {RbBatchSize, RbMaxQueue} \subseteq Nat \ {0}
    /\ {RbFallbackAfter, RbMaxFaults} \subseteq Nat
    /\ RbSockets \subseteq Nat \ {0}
ASSUME LegacyAssumption ==
    /\ RlMaxQueue \in Nat \ {0} /\ RlMaxFaults \in Nat
    /\ RlSockets \subseteq Nat \ {0}
    /\ IsFiniteSet(RlRecords) /\ RlRecords \cap {"timer", "flush"} = {}
ASSUME HttpAssumption ==
    {HiBatchSize, HiMaxQueue} \subseteq Nat \ {0} /\ HiMaxFaults \in Nat
ASSUME TrackingAssumption == EtMaxHashes \in Nat \ {0, 1}
ASSUME JournalAssumption ==
    /\ {LjRetention, LjMaxSegment, LjMaxTotal, LjHorizon, LjMaxFaults} \subseteq Nat
    /\ LjProcesses \cap LjRecords = {}

VARIABLES subject, state, faults

(* A hash is the set of the writes that have it. *)
EtHash == [w \in EtWrites |-> CHOOSE S \in EtAlike : w \in S]

Ack == INSTANCE RealtimeAck WITH ra <- state, raFaults <- faults
Batch == INSTANCE RealtimeBatch WITH rb <- state, rbFaults <- faults
Legacy == INSTANCE RealtimeLegacy WITH rl <- state, rlFaults <- faults
Http == INSTANCE HttpIngest WITH hi <- state, hiFaults <- faults
Session == INSTANCE SessionMirror WITH sm <- state
Tracking == INSTANCE ErrorTracking WITH et <- state
Journal == INSTANCE LocalJournal WITH lj <- state, ljFaults <- faults

(* Every transport treats its records alike, the journal its processes and  *)
(* kinds too; the records of the Realtime transports share the values of    *)
(* the journal's processes.                                                *)
Alike == Permutations(LjProcesses) \cup Permutations(LjKinds) \cup Permutations(LjRecords)

AllInit ==
    \/ subject = "ack" /\ Ack!RaInit
    \/ subject = "batch" /\ Batch!RbInit
    \/ subject = "legacy" /\ Legacy!RlInit
    \/ subject = "http" /\ Http!HiInit
    \/ subject = "session" /\ Session!SmInit /\ faults = 0
    \/ subject = "tracking" /\ Tracking!EtInit /\ faults = 0
    \/ subject = "journal" /\ Journal!LjInit
AllNext ==
    /\ UNCHANGED subject
    /\ \/ subject = "ack" /\ Ack!RaNext
       \/ subject = "batch" /\ Batch!RbNext
       \/ subject = "legacy" /\ Legacy!RlNext
       \/ subject = "http" /\ Http!HiNext
       \/ subject = "session" /\ Session!SmNext /\ UNCHANGED faults
       \/ subject = "tracking" /\ Tracking!EtNext /\ UNCHANGED faults
       \/ subject = "journal" /\ Journal!LjNext
AllSpec == AllInit /\ [][AllNext]_<<subject, state, faults>>

-----------------------------------------------------------------------------
(* A record a transport has taken and not settled is in one of its places   *)
(* once, through lost sockets, retries, overflow, exits and close(); a      *)
(* settled one is in none; a journal's record is in one file.  For the      *)
(* legacy transport one of the places is a write that awaits a connect():   *)
(* it settles by the close of its socket, or never where close() throws.    *)
HeldInOnePlace ==
    /\ subject = "ack" => Ack!RaTypeOK /\ Ack!HeldExactlyOnce
    /\ subject = "batch" => Batch!RbTypeOK /\ Batch!BatchInOnePlace
    /\ subject = "legacy" => Legacy!RlTypeOK /\ Legacy!OnePlaceEach
    /\ subject = "http" => Http!HiTypeOK /\ Http!HeldOnce
    /\ subject = "journal" => Journal!OneFileEach

(* What is held does not lie there unwatched.  The acknowledging transport: *)
(* while records are queued a timer, a connection or an acknowledgement is  *)
(* due, unless a late join is taken for the current one or close() throws   *)
(* where nothing reconnects; no flush waits for an empty queue.  The        *)
(* batching one and HTTP: a timer or a post, until close() or an exit whose *)
(* fallback failed.  The legacy one: while it reconnects, a timer or a      *)
(* socket whose end sets one, until close().                               *)
HeldIsAwaited ==
    /\ subject = "ack" => Ack!NobodyForgotten /\ Ack!QueuedIsUnderWay
    /\ subject = "batch" => Batch!QueueIsOnATimer
    /\ subject = "legacy" => Legacy!QueueIsAwaited /\ Legacy!JoinedBeats
    /\ subject = "http" => Http!HeldIsOnATimer

(* What a caller is told is so: an acknowledged record is committed, a      *)
(* mirrored call settles as its durable leg did, a duplicate error is       *)
(* skipped only for one that was delivered or is on its way, and a record  *)
(* written to the journal stays there for the retention.                   *)
AnswersAreTrue ==
    /\ subject = "http" => Http!AcknowledgedIsCommitted
    /\ subject = "session" => Session!DurableDecides
    /\ subject = "tracking" => Tracking!EtTypeOK /\ Tracking!SeenMeansTold
    /\ subject = "journal" => Journal!JournalKeeps
=============================================================================
