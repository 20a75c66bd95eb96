--------------------------- MODULE PersistentQueue ---------------------------
(***************************************************************************)
(* PersistentSupabaseWebSocketIngestTransport: the replay queue in browser *)
(* storage around the WebSocket transport                                  *)
(* (src/src/supabase-websocket-persistent.ts).                             *)
(*                                                                         *)
(* The delegate is the contract of AckDelivery, which WsIngest implements: *)
(* it keeps what it was given in order, the database may commit any of it  *)
(* at any time, also after the page is gone, and it lets go of records     *)
(* only once they are committed.  Its flush() resolves when it holds       *)
(* nothing more (WsIngest!FlushKeepsPromise).                              *)
(*                                                                         *)
(* The page may crash between any two steps.  storage and the database     *)
(* survive; Restart is the constructor of the next page load.              *)
(***************************************************************************)
EXTENDS Integers, Sequences, FiniteSets, SequencesExt, Filter

CONSTANTS
    Records,     \* the records callers log; each is written once
    Oversize,    \* those whose encoding exceeds maxRecordBytes
    MaxRecords,  \* maxPersistedRecords
    AwaitAck,    \* awaitAcknowledgement
    AutoReplay,  \* autoReplay
    MaxFaults,   \* bound: storage and delegate failures
    MaxCrashes   \* bound: crashes of the page

ASSUME OversizeAssumption == Oversize \subseteq Records
ASSUME MaxRecordsAssumption == MaxRecords \in Nat \ {0}
ASSUME BoundAssumption == MaxFaults \in Nat /\ MaxCrashes \in Nat
ASSUME OptionAssumption == AwaitAck \in BOOLEAN /\ AutoReplay \in BOOLEAN

VARIABLES
    storage,         \* the entries in durable storage, oldest first
    up,              \* whether the page runs
    entries,         \* this.entries
    resident,        \* residentIds: entries the delegate has taken
    scheduled,       \* drainScheduled
    accepting,       \* FALSE once close() has begun
    closed,          \* TRUE once close() has finished
    drainPc,         \* where drain() is suspended
    drainList,       \* the part of the entries it iterates still ahead
    drainExit,       \* its useExitFallback
    closePc,         \* where close() is suspended
    innerPending,    \* records the delegate holds, oldest first
    innerAccepting,  \* FALSE once the delegate's close() has begun
    handed,          \* history: records ever handed to a delegate
    committed,       \* records the database holds
    issued,          \* history: records handed to this transport
    dropped,         \* history: records reported dropped or refused
    unread,          \* history: stored records a restart could not read
    promised,        \* history: records owed to the callers who started
                     \* the running drain
    late,            \* the same for callers who joined it
    faults, crashes

queueVars == <<storage, entries, resident>>
lifeVars  == <<accepting, closed>>
drainVars == <<drainPc, drainList, drainExit>>
innerVars == <<innerPending, innerAccepting, handed, committed>>
histVars  == <<issued, dropped, unread>>
owedVars  == <<promised, late>>
vars == <<queueVars, up, scheduled, lifeVars, drainVars, closePc, innerVars,
          histVars, owedVars, faults, crashes>>

DrainPcs == {"idle", "write", "flush", "exitFlush", "done", "failed"}
ClosePcs == {"idle", "drain", "inner", "done"}

Init ==
    /\ storage = <<>> /\ entries = <<>> /\ resident = {} /\ up = TRUE
    /\ scheduled = FALSE /\ accepting = TRUE /\ closed = FALSE
    /\ drainPc = "idle" /\ drainList = <<>> /\ drainExit = FALSE
    /\ closePc = "idle"
    /\ innerPending = <<>> /\ innerAccepting = TRUE /\ handed = {}
    /\ committed = {}
    /\ issued = {} /\ dropped = {} /\ unread = {}
    /\ promised = {} /\ late = {}
    /\ faults = 0 /\ crashes = 0

Fault == faults < MaxFaults /\ faults' = faults + 1

-----------------------------------------------------------------------------
(* persistRecord *)

(* Mutation of Overflow: the bound is one too high. *)
MutantOverflow(r) ==
    IF Len(entries) <= MaxRecords THEN {}
    ELSE LET candidates == Without(Append(entries, r), resident)
         IN  {Head(candidates)}

(* The entries after r is appended: one over the bound, the oldest entry    *)
(* the delegate has not taken goes, be it r itself.                         *)
Overflow(r) ==
    IF Len(entries) < MaxRecords THEN {}
    ELSE LET candidates == Without(Append(entries, r), resident)
         IN  {Head(candidates)}
EntriesWith(r) ==
    Without(Append(entries, r), Overflow(r))

(* A closed transport refuses r, and so does any that finds it too large,   *)
(* before anything is written.                                              *)
Admits(r) == accepting /\ r \notin Oversize

(* Mutation of Persist: storage is left for later. *)
MutantPersistMemory(r) ==
    /\ entries' = EntriesWith(r)
    /\ dropped' = dropped \cup Overflow(r)
    /\ UNCHANGED <<storage, resident, unread>>

(* Mutation of Persist: the displaced entry is not reported. *)
MutantPersistSilent(r) ==
    /\ storage' = EntriesWith(r)
    /\ entries' = EntriesWith(r)
    /\ UNCHANGED <<dropped, resident, unread>>

(* writeState comes first: entries change only when storage has.  When the  *)
(* delegate has taken every entry, r itself is displaced: the old entries    *)
(* are written once more, and the caller goes on as if r were among them.   *)
Persist(r) ==
    /\ storage' = EntriesWith(r)
    /\ entries' = EntriesWith(r)
    /\ dropped' = dropped \cup Overflow(r)
    /\ UNCHANGED <<resident, unread>>

(* Mutation of StartDrain: the loop starts at the second entry. *)
MutantStartDrain(es, exit) ==
    \/ /\ es = <<>> \/ drainPc # "idle"
       /\ UNCHANGED drainVars
    \/ /\ es # <<>> /\ drainPc = "idle"
       /\ drainPc' = "write"
       /\ drainList' = Tail(es)
       /\ drainExit' = exit

(* startDrain(useExitFallback) with the entries es: nothing to do, join the *)
(* running drain, or start one over the array as it is now.                 *)
StartDrain(es, exit) ==
    \/ /\ es = <<>> \/ drainPc # "idle"
       /\ UNCHANGED drainVars
    \/ /\ es # <<>> /\ drainPc = "idle"
       /\ drainPc' = "write"
       /\ drainList' = es
       /\ drainExit' = exit

(* History: what the caller of startDrain with the entries es waits for.   *)
Promise(es) ==
    IF drainPc = "idle"
    THEN promised' = ToSet(es) /\ UNCHANGED late
    ELSE late' = late \cup ToSet(es) /\ UNCHANGED promised

-----------------------------------------------------------------------------
(* write(), flush(), flushOnExit() *)

(* Not admitted, or the storage write throws: reported to onDrop or to the  *)
(* caller, nothing else changes.                                            *)
Refuse(r) ==
    /\ up /\ r \notin issued
    /\ \/ ~Admits(r) /\ UNCHANGED faults
       \/ Admits(r) /\ Fault
    /\ issued' = issued \cup {r}
    /\ dropped' = dropped \cup {r}
    /\ UNCHANGED <<queueVars, up, scheduled, lifeVars, drainVars, closePc,
                   innerVars, unread, owedVars, crashes>>

(* scheduleDrain does nothing while a drain runs.                          *)
WriteScheduled(r) ==
    /\ up /\ r \notin issued /\ Admits(r) /\ ~AwaitAck
    /\ issued' = issued \cup {r}
    /\ Persist(r)
    /\ scheduled' = (scheduled \/ drainPc = "idle")
    /\ UNCHANGED <<up, lifeVars, drainVars, closePc, innerVars, owedVars,
                   faults, crashes>>

WriteAwaited(r) ==
    /\ up /\ r \notin issued /\ Admits(r) /\ AwaitAck
    /\ issued' = issued \cup {r}
    /\ Persist(r)
    /\ StartDrain(EntriesWith(r), FALSE)
    /\ Promise(EntriesWith(r))
    /\ UNCHANGED <<up, scheduled, lifeVars, closePc, innerVars, faults, crashes>>

Flush ==
    /\ up
    /\ StartDrain(entries, FALSE)
    /\ Promise(entries)
    /\ UNCHANGED <<queueVars, up, scheduled, lifeVars, closePc, innerVars,
                   histVars, faults, crashes>>

FlushOnExit ==
    /\ up
    /\ StartDrain(entries, TRUE)
    /\ Promise(entries)
    /\ UNCHANGED <<queueVars, up, scheduled, lifeVars, closePc, innerVars,
                   histVars, faults, crashes>>

(* With a record of the logger's still active events; one that is refused   *)
(* without an exception is a Refuse followed by FlushOnExit.                *)
FlushOnExitWith(r) ==
    /\ up /\ r \notin issued /\ Admits(r)
    /\ issued' = issued \cup {r}
    /\ Persist(r)
    /\ StartDrain(EntriesWith(r), TRUE)
    /\ Promise(EntriesWith(r))
    /\ UNCHANGED <<up, scheduled, lifeVars, closePc, innerVars, faults, crashes>>

(* The microtask of scheduleDrain.                                         *)
ScheduledDrain ==
    /\ up /\ scheduled
    /\ scheduled' = FALSE
    /\ \/ closed /\ UNCHANGED drainVars
       \/ ~closed /\ StartDrain(entries, FALSE)
    /\ UNCHANGED <<queueVars, up, lifeVars, closePc, innerVars, histVars,
                   owedVars, faults, crashes>>

-----------------------------------------------------------------------------
(* drain() *)

(* Mutation of Ahead: resident entries are not skipped. *)
MutantAhead == drainList

Ahead == Without(drainList, resident)

(* inner.write(r): an accepting delegate takes the record before anything   *)
(* is awaited.  Its queue holds at least MaxRecords beside the batch in      *)
(* flight, and drops its oldest when it is full.                            *)
InnerTakes(r) ==
    /\ handed' = handed \cup {r}
    /\ resident' = resident \cup {r}
    /\ \/ innerPending' = Append(innerPending, r) /\ UNCHANGED dropped
       \/ LET k == Len(innerPending) - MaxRecords + 1
          IN  /\ k > 0 /\ innerPending[k] \notin committed
              /\ innerPending' = Append(RemoveAt(innerPending, k), r)
              /\ dropped' = dropped \cup {innerPending[k]}

DrainWrites ==
    /\ up /\ drainPc = "write" /\ Ahead # <<>>
    /\ drainList' = Tail(Ahead)
    /\ \/ innerAccepting /\ InnerTakes(Head(Ahead))
       \/ ~innerAccepting /\ UNCHANGED <<innerPending, handed, resident, dropped>>
    /\ UNCHANGED <<storage, entries, up, scheduled, lifeVars, drainPc,
                   drainExit, closePc, innerAccepting, committed, issued,
                   unread, owedVars, faults, crashes>>

(* The end of the loop: inner.flush() is called.                           *)
DrainFlushes ==
    /\ up /\ drainPc = "write" /\ Ahead = <<>>
    /\ drainPc' = "flush"
    /\ drainList' = <<>>
    /\ UNCHANGED <<queueVars, up, scheduled, lifeVars, drainExit, closePc,
                   innerVars, histVars, owedVars, faults, crashes>>

(* Mutation of RemoveCommitted: the whole queue is cleared. *)
MutantRemoveCommitted(ids) ==
    /\ entries' = <<>>
    /\ resident' = resident \ ids
    /\ \/ storage' = entries' /\ UNCHANGED faults
       \/ UNCHANGED storage /\ Fault

(* removeCommitted(ids): a storage write that throws is swallowed and       *)
(* leaves the old state behind.                                             *)
RemoveCommitted(ids) ==
    /\ entries' = Without(entries, ids)
    /\ resident' = resident \ ids
    /\ \/ storage' = entries' /\ UNCHANGED faults
       \/ UNCHANGED storage /\ Fault

(* The delegate's flush() or flushOnExit() resolves.                       *)
DrainResolves ==
    /\ up /\ drainPc \in {"flush", "exitFlush"} /\ innerPending = <<>>
    /\ IF resident = {}
       THEN drainPc' = "failed" /\ UNCHANGED <<queueVars, faults>>
       ELSE drainPc' = "done" /\ RemoveCommitted(resident)
    /\ UNCHANGED <<up, scheduled, lifeVars, drainList, drainExit, closePc,
                   innerVars, histVars, owedVars, crashes>>

(* Mutation of DrainRejects: the failure is swallowed. *)
MutantDrainRejects ==
    /\ up /\ drainPc \in {"flush", "exitFlush"} /\ Fault
    /\ drainPc' = IF drainPc = "flush" /\ drainExit THEN "exitFlush" ELSE "done"
    /\ UNCHANGED <<queueVars, up, scheduled, lifeVars, drainList, drainExit,
                   closePc, innerVars, histVars, owedVars, crashes>>

(* It rejects: with useExitFallback the exit path is tried once.           *)
DrainRejects ==
    /\ up /\ drainPc \in {"flush", "exitFlush"} /\ Fault
    /\ drainPc' = IF drainPc = "flush" /\ drainExit THEN "exitFlush" ELSE "failed"
    /\ UNCHANGED <<queueVars, up, scheduled, lifeVars, drainList, drainExit,
                   closePc, innerVars, histVars, owedVars, crashes>>

(* The finally callback: drainPromise = null, and its callers settle.      *)
DrainFinally ==
    /\ up /\ drainPc \in {"done", "failed"}
    /\ drainPc' = "idle" /\ drainExit' = FALSE
    /\ closePc' = IF closePc = "drain" THEN "inner" ELSE closePc
    /\ innerAccepting' = (innerAccepting /\ closePc # "drain")
    /\ promised' = {} /\ late' = {}
    /\ UNCHANGED <<queueVars, up, scheduled, lifeVars, drainList, innerPending,
                   handed, committed, histVars, faults, crashes>>

-----------------------------------------------------------------------------
(* close(): flushOnExit(), then the delegate's close(), whatever came of it *)

Close ==
    /\ up /\ closePc = "idle"
    /\ accepting' = FALSE
    /\ StartDrain(entries, TRUE)
    /\ Promise(entries)
    /\ closePc' = IF entries = <<>> THEN "inner" ELSE "drain"
    /\ innerAccepting' = (entries # <<>>)
    /\ UNCHANGED <<queueVars, up, scheduled, closed, innerPending, handed,
                   committed, histVars, faults, crashes>>

CloseResolves ==
    /\ up /\ closePc = "inner" /\ innerPending = <<>>
    /\ closePc' = "done" /\ closed' = TRUE
    /\ IF resident = {}
       THEN UNCHANGED <<queueVars, faults>>
       ELSE RemoveCommitted(resident)
    /\ UNCHANGED <<up, scheduled, accepting, drainVars, innerVars, histVars,
                   owedVars, crashes>>

CloseRejects ==
    /\ up /\ closePc = "inner" /\ Fault
    /\ closePc' = "done" /\ closed' = TRUE
    /\ UNCHANGED <<queueVars, up, scheduled, accepting, drainVars, innerVars,
                   histVars, owedVars, crashes>>

-----------------------------------------------------------------------------
(* The delegate and the database, external *)

InnerCommits(r) ==
    /\ r \in handed \ committed
    /\ committed' = committed \cup {r}
    /\ UNCHANGED <<queueVars, up, scheduled, lifeVars, drainVars, closePc,
                   innerPending, innerAccepting, handed, histVars, owedVars,
                   faults, crashes>>

(* An acknowledgement is a socket event: microtasks already queued run first. *)
InnerReleases ==
    /\ up /\ ~scheduled /\ innerPending # <<>> /\ Head(innerPending) \in committed
    /\ innerPending' = Tail(innerPending)
    /\ UNCHANGED <<queueVars, up, scheduled, lifeVars, drainVars, closePc,
                   innerAccepting, handed, committed, histVars, owedVars,
                   faults, crashes>>

-----------------------------------------------------------------------------
(* Crash and restart *)

Crash ==
    /\ up /\ crashes < MaxCrashes
    /\ crashes' = crashes + 1
    /\ up' = FALSE
    /\ entries' = <<>> /\ resident' = {} /\ scheduled' = FALSE
    /\ drainPc' = "idle" /\ drainList' = <<>> /\ drainExit' = FALSE
    /\ closePc' = "idle" /\ innerPending' = <<>>
    /\ promised' = {} /\ late' = {}
    /\ UNCHANGED <<storage, lifeVars, innerAccepting, handed, committed,
                   histVars, faults>>

Boots(es) ==
    /\ ~up /\ up' = TRUE
    /\ accepting' = TRUE /\ closed' = FALSE /\ innerAccepting' = TRUE
    /\ entries' = es
    /\ scheduled' = (AutoReplay /\ es # <<>>)
    /\ UNCHANGED <<resident, drainVars, closePc, innerPending, handed,
                   committed, issued, owedVars, crashes>>

(* restore(): expired, invalid or foreign entries D are reported and the    *)
(* others written back; a write or a removal that throws is swallowed and   *)
(* leaves the old state.                                                    *)
Restart(D) ==
    /\ Boots(Without(storage, D))
    /\ \/ storage' = entries' /\ UNCHANGED faults
       \/ UNCHANGED storage /\ Fault
    /\ dropped' = dropped \cup D
    /\ UNCHANGED unread

(* restore() when getItem throws: the queue starts empty beside the old     *)
(* state, which the next write replaces.                                    *)
RestartUnread ==
    /\ Fault
    /\ Boots(<<>>)
    /\ unread' = unread \cup ToSet(storage)
    /\ UNCHANGED <<storage, dropped>>

-----------------------------------------------------------------------------
Calls ==
    \/ \E r \in Records : \/ Refuse(r) \/ WriteScheduled(r) \/ WriteAwaited(r)
                          \/ FlushOnExitWith(r)
    \/ Flush \/ FlushOnExit \/ Close

Drain ==
    \/ ScheduledDrain \/ DrainWrites \/ DrainFlushes \/ DrainResolves
    \/ DrainRejects \/ DrainFinally \/ CloseResolves \/ CloseRejects

Next ==
    \/ Calls \/ Drain
    \/ InnerReleases \/ \E r \in Records : InnerCommits(r)
    \/ Crash \/ RestartUnread
    \/ \E D \in SUBSET ToSet(storage) : Restart(D)

Spec == Init /\ [][Next]_vars

(* Microtasks run, the delegate's collector commits and acknowledges.      *)
Fairness ==
    /\ WF_vars(ScheduledDrain) /\ WF_vars(DrainWrites) /\ WF_vars(DrainFlushes)
    /\ WF_vars(DrainResolves) /\ WF_vars(DrainFinally)
    /\ WF_vars(InnerReleases) /\ WF_vars(\E r \in Records : InnerCommits(r))
    /\ WF_vars(\E D \in SUBSET ToSet(storage) : Restart(D))
FairSpec == Spec /\ Fairness

-----------------------------------------------------------------------------
(* Properties *)

(* Every variable holds a value the object can hold.                       *)
TypeOK ==
    /\ storage \in Seq(Records) /\ Len(storage) <= MaxRecords
    /\ entries \in Seq(Records) /\ Len(entries) <= MaxRecords
    /\ resident \subseteq Records
    /\ up \in BOOLEAN /\ scheduled \in BOOLEAN
    /\ accepting \in BOOLEAN /\ closed \in BOOLEAN
    /\ drainPc \in DrainPcs /\ drainList \in Seq(Records)
    /\ drainExit \in BOOLEAN /\ closePc \in ClosePcs
    /\ innerPending \in Seq(Records) /\ innerAccepting \in BOOLEAN
    /\ handed \subseteq Records /\ committed \subseteq Records
    /\ issued \subseteq Records /\ dropped \subseteq Records
    /\ unread \subseteq Records
    /\ promised \subseteq Records /\ late \subseteq Records
    /\ faults \in 0..MaxFaults /\ crashes \in 0..MaxCrashes

(* "persisted before socket enqueue and removed only after the commit       *)
(* acknowledgement" (the class comment): across crashes, failed flushes and *)
(* close(), a record is in storage, in the database, reported, or was in a  *)
(* state a restart could not read.                                          *)
NothingLost ==
    issued \subseteq ToSet(storage) \cup committed \cup dropped \cup unread

(* A crash loses nothing the page still answers for: every entry in memory  *)
(* is in storage, and what the delegate holds uncommitted is too, unless it *)
(* was displaced.                                                           *)
MemoryIsBacked ==
    /\ ToSet(entries) \subseteq ToSet(storage)
    /\ ToSet(innerPending) \subseteq ToSet(storage) \cup committed \cup dropped

(* Within one page life the delegate is given a record once, whatever       *)
(* drains failed, were joined or restarted in between.                      *)
HandedOnce == IsInjective(innerPending) /\ (up => ToSet(innerPending) \subseteq resident)

(* The queue in memory never holds what storage does not, within its        *)
(* bounds, and the delegate is given a record once in a page's life.        *)
QueueIsSound == TypeOK /\ MemoryIsBacked /\ HandedOnce

(* flush(), or a write() that awaits, resolves only after the commit of     *)
(* every record that was stored when it started its drain, unless close()   *)
(* has closed the delegate, which then takes no more records.               *)
StarterIsServed ==
    drainPc = "done" /\ innerAccepting => promised \subseteq committed \cup dropped

(* "Resolve write() only after the database commit acknowledgement" (the    *)
(* awaitAcknowledgement option): the same for callers who joined a drain    *)
(* already running. It does not hold: the drain goes over an array captured *)
(* before their record was stored.                                          *)
JoinerIsServed ==
    drainPc = "done" /\ innerAccepting => late \subseteq committed \cup dropped

(* Storage gives up a record only once it is committed or reported.        *)
StorageReleasesCommitted ==
    [][\A r \in ToSet(storage) \ ToSet(storage') :
          r \in committed \cup dropped' \cup unread]_vars

(* A record that a scheduled drain finds stored ends in the database or is  *)
(* reported, unless the page crashes or the delegate fails.                 *)
ScheduledIsDelivered ==
    \A r \in Records :
        r \in ToSet(entries) /\ scheduled /\ drainPc = "idle"
          ~> r \in committed \cup dropped
=============================================================================
