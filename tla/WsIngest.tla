------------------------------ MODULE WsIngest ------------------------------
(***************************************************************************)
(* SupabaseWebSocketIngestTransport: the session-telemetry transport that  *)
(* keeps a record in memory until the collector acknowledges the database  *)
(* commit (src/src/supabase-websocket-ingest.ts).                          *)
(*                                                                         *)
(* One JavaScript object, three kinds of activity on it.  The drain is the *)
(* coroutine drainWithReconnect, at most one at a time, behind             *)
(* flushPromise.  An exit caller is one call of flushOnExit or close.      *)
(* Everything else is an event: a write, a timer, a socket callback.  An   *)
(* action is what one call or callback does up to its next await; drainPc  *)
(* and exitPc name the await at which a coroutine is suspended.            *)
(*                                                                         *)
(* A record is identified by its recordId and a batch by its position in   *)
(* batches, which is the history of everything createBatch ever returned;  *)
(* the object's references to a batch are such positions, 0 being null.    *)
(* Sockets are likewise numbered by socketGeneration.                      *)
(***************************************************************************)
EXTENDS Integers, Sequences, FiniteSets, SequencesExt

CONSTANTS
    Records,      \* the records callers log; each is written once
    Oversize,     \* those whose encoding exceeds maxRecordBytes
    Exits,        \* the calls of flushOnExit and close there may be
    BatchSize,    \* batchSize
    MaxQueue,     \* maxQueueSize
    MaxAttempts,  \* maxReconnectAttempts
    AwaitAck,     \* awaitAcknowledgement
    Fallback,     \* whether exitFallback is configured
    MaxFaults     \* bound: how many times the environment may fail

ASSUME OversizeAssumption == Oversize \subseteq Records
ASSUME BatchSizeAssumption == BatchSize \in Nat \ {0}
ASSUME MaxQueueAssumption == MaxQueue \in Nat \ {0}
ASSUME MaxAttemptsAssumption == MaxAttempts \in Nat
ASSUME MaxFaultsAssumption == MaxFaults \in Nat
ASSUME OptionAssumption == AwaitAck \in BOOLEAN /\ Fallback \in BOOLEAN

VARIABLES
    queue,         \* records buffered, oldest first
    inFlight,      \* the batch awaiting its commit_ack, 0 for none
    batches,       \* every batch ever created: [sequence, records]
    nextSequence,  \* sequence of the next batch
    accepted,      \* records the collector reported as new
    duplicates,    \* records it reported as already stored
    accepting,     \* FALSE once close() has begun
    closed,        \* TRUE once close() has finished
    flushTimer,    \* whether the flush timer is armed
    drainPc,       \* where drainWithReconnect is suspended
    drainBatch,    \* its local batch
    drainAck,      \* the counts of the acknowledgement it was handed
    attempts,      \* its local attempts
    sockets,       \* state of every socket constructed, by generation
    socket,        \* this.socket as a generation, 0 for null
    ackWaiter,     \* generation ackWaiter was registered on, 0 for null
    exitPc,        \* where each exit caller is suspended
    exitBatch,     \* its local batch
    exitAck,       \* the counts the fallback returned to it
    closing,       \* the exit callers that are calls of close()
    toServer,      \* batches sent and not yet read by the collector
    toClient,      \* acknowledgements on the current socket
    committed,     \* records the database holds
    issued,        \* history: records handed to the transport
    dropped,       \* history: records onDrop reported
    promised,      \* history: records callers of flush() wait for, who joined
                   \* a drain still running
    late,          \* the same for callers who joined one already settled
    faults         \* environment failures so far

memVars   == <<queue, inFlight, batches>>
countVars == <<nextSequence, accepted, duplicates>>
lifeVars  == <<accepting, closed>>
drainVars == <<drainPc, drainBatch, drainAck, attempts>>
connVars  == <<sockets, socket, ackWaiter>>
exitVars  == <<exitPc, exitBatch, exitAck, closing>>
netVars   == <<toServer, toClient, committed>>
histVars  == <<issued, dropped, promised, late>>
vars == <<memVars, countVars, lifeVars, flushTimer, drainVars, connVars,
          exitVars, netVars, histVars, faults>>

-----------------------------------------------------------------------------
(* Values *)

Batch == [sequence: Nat \ {0}, records: Seq(Records)]
Counts == [accepted: Nat, duplicates: Nat]
NoCounts == [accepted |-> 0, duplicates |-> 0]

SocketStates == {"connecting", "open", "closing", "closed"}

(* "ticket" and "opening" are the awaits of openConnection, "send" the      *)
(* resolved connect(), "ack" sendAndWait, "commit" and "fail" its two       *)
(* outcomes, "delay" delayFor, "done" and "failed" a settled drain whose    *)
(* finally callback has not run.                                            *)
DrainPcs == {"idle", "ticket", "opening", "send", "ack", "commit", "fail",
             "delay", "done", "failed"}

ExitPcs == {"idle", "joined", "persist", "commit", "resolved", "rejected",
            "closed"}

RecordsOf(b) == IF b = 0 THEN {} ELSE ToSet(batches[b].records)
Pending == RecordsOf(inFlight) \cup ToSet(queue)

Least(m, n) == IF m < n THEN m ELSE n

Init ==
    /\ queue = <<>> /\ inFlight = 0 /\ batches = <<>>
    /\ nextSequence = 1 /\ accepted = 0 /\ duplicates = 0
    /\ accepting = TRUE /\ closed = FALSE /\ flushTimer = FALSE
    /\ drainPc = "idle" /\ drainBatch = 0 /\ drainAck = NoCounts
    /\ attempts = 0
    /\ sockets = <<>> /\ socket = 0 /\ ackWaiter = 0
    /\ exitPc = [p \in Exits |-> "idle"]
    /\ exitBatch = [p \in Exits |-> 0]
    /\ exitAck = [p \in Exits |-> NoCounts]
    /\ closing = {}
    /\ toServer = {} /\ toClient = {} /\ committed = {}
    /\ issued = {} /\ dropped = {} /\ promised = {} /\ late = {}
    /\ faults = 0

-----------------------------------------------------------------------------
(* Queue and batches *)

Admits(r) == accepting /\ r \notin Oversize

(* Mutation of Full: > for >=. *)
MutantFull == Len(queue) > MaxQueue

Full == Len(queue) >= MaxQueue

(* enqueue: a full queue gives up its oldest record for the new one. *)
QueueWith(r) == Append(IF Full THEN Tail(queue) ELSE queue, r)
Displaced == IF Full THEN {Head(queue)} ELSE {}

(* Mutation of TakeBatch: slice for splice, the batch stays queued. *)
MutantTakeBatchSlices(q, b, seq) ==
    IF b # 0
    THEN inFlight' = b /\ queue' = q /\ UNCHANGED batches
    ELSE /\ batches' = Append(batches, [sequence |-> seq,
                records |-> SubSeq(q, 1, Least(BatchSize, Len(q)))])
         /\ inFlight' = Len(batches) + 1
         /\ queue' = q

(* Mutation of TakeBatch: a new batch whenever there are queued records. *)
MutantTakeBatchFresh(q, b, seq) ==
    IF b # 0 /\ q = <<>>
    THEN inFlight' = b /\ queue' = q /\ UNCHANGED batches
    ELSE LET n == Least(BatchSize, Len(q))
         IN  /\ batches' = Append(batches, [sequence |-> seq,
                                            records |-> SubSeq(q, 1, n)])
             /\ inFlight' = Len(batches) + 1
             /\ queue' = SubSeq(q, n + 1, Len(q))

(* this.inFlight ?? this.createBatch(), with the queue q and the in-flight *)
(* batch b the caller has reached, assigned to inFlight.                   *)
TakeBatch(q, b, seq) ==
    LET n == Least(BatchSize, Len(q))
    IN  IF b # 0
        THEN inFlight' = b /\ queue' = q /\ UNCHANGED batches
        ELSE /\ batches' = Append(batches, [sequence |-> seq,
                                            records |-> SubSeq(q, 1, n)])
             /\ inFlight' = Len(batches) + 1
             /\ queue' = SubSeq(q, n + 1, Len(q))

IsOpen == socket # 0 /\ sockets[socket] = "open"

(* The head of the while loop of drainWithReconnect, up to its next await. *)
DrainStep(q, b, seq) ==
    \/ /\ b = 0 /\ q = <<>>
       /\ drainPc' = "done" /\ drainBatch' = 0
       /\ inFlight' = 0 /\ queue' = q /\ UNCHANGED batches
    \/ /\ b # 0 \/ q # <<>>
       /\ TakeBatch(q, b, seq)
       /\ drainBatch' = inFlight'
       /\ drainPc' = IF IsOpen THEN "send" ELSE "ticket"

(* flush() with the queue q: join the running drain or start one. *)
FlushCall(q) ==
    \/ /\ drainPc # "idle"
       /\ queue' = q
       /\ UNCHANGED <<inFlight, batches, drainPc, drainBatch, attempts,
                      flushTimer>>
    \/ /\ drainPc = "idle"
       /\ flushTimer' = FALSE
       /\ attempts' = 0
       /\ DrainStep(q, inFlight, nextSequence)

Settled == drainPc \in {"done", "failed"}

(* History: a caller that awaits flush() is owed the records rs, pending at  *)
(* the call.  Between the end of the drain and its finally callback the     *)
(* caller still joins it, also within one tick: flush() on an empty queue   *)
(* settles at once and its finally callback runs after the current code.    *)
Promise(rs) ==
    IF Settled
    THEN late' = late \cup rs /\ UNCHANGED promised
    ELSE promised' = promised \cup rs /\ UNCHANGED late

-----------------------------------------------------------------------------
(* write() and flush() *)

WriteDropped(r) ==
    /\ r \notin issued /\ ~Admits(r)
    /\ issued' = issued \cup {r}
    /\ dropped' = dropped \cup {r}
    /\ UNCHANGED <<memVars, countVars, lifeVars, flushTimer, drainVars,
                   connVars, exitVars, netVars, promised, late, faults>>

WriteBuffered(r) ==
    /\ r \notin issued /\ Admits(r)
    /\ ~AwaitAck /\ Len(QueueWith(r)) < BatchSize
    /\ issued' = issued \cup {r}
    /\ queue' = QueueWith(r)
    /\ dropped' = dropped \cup Displaced
    /\ flushTimer' = TRUE
    /\ UNCHANGED <<inFlight, batches, countVars, lifeVars, drainVars,
                   connVars, exitVars, netVars, promised, late, faults>>

WriteFlushes(r) ==
    /\ r \notin issued /\ Admits(r)
    /\ AwaitAck \/ Len(QueueWith(r)) >= BatchSize
    /\ issued' = issued \cup {r}
    /\ dropped' = dropped \cup Displaced
    /\ FlushCall(QueueWith(r))
    /\ IF AwaitAck THEN Promise(Pending \cup {r}) ELSE UNCHANGED <<promised, late>>
    /\ UNCHANGED <<countVars, lifeVars, drainAck, connVars, exitVars,
                   netVars, faults>>

Flush ==
    /\ FlushCall(queue)
    /\ Promise(Pending)
    /\ UNCHANGED <<countVars, lifeVars, drainAck, connVars, exitVars,
                   netVars, issued, dropped, faults>>

FlushTimerFires ==
    /\ flushTimer
    /\ flushTimer' = FALSE
    /\ \/ drainPc # "idle" /\ UNCHANGED <<memVars, drainPc, drainBatch, attempts>>
       \/ /\ drainPc = "idle"
          /\ attempts' = 0
          /\ DrainStep(queue, inFlight, nextSequence)
    /\ UNCHANGED <<countVars, lifeVars, drainAck, connVars, exitVars,
                   netVars, histVars, faults>>

-----------------------------------------------------------------------------
(* Connecting *)

Fault == faults < MaxFaults /\ faults' = faults + 1

(* ticketProvider rejects, the ticket is refused or the factory throws. *)
TicketFails ==
    /\ drainPc = "ticket" /\ Fault
    /\ drainPc' = "fail"
    /\ UNCHANGED <<memVars, countVars, lifeVars, flushTimer, drainBatch,
                   drainAck, attempts, connVars, exitVars, netVars, histVars>>

TicketArrives ==
    /\ drainPc = "ticket"
    /\ sockets' = Append(sockets, "connecting")
    /\ socket' = Len(sockets) + 1
    /\ drainPc' = "opening"
    /\ toClient' = {}
    /\ UNCHANGED <<memVars, countVars, lifeVars, flushTimer, drainBatch,
                   drainAck, attempts, ackWaiter, exitVars, toServer,
                   committed, histVars, faults>>

(* onopen of the current socket: hello is sent and connect() resolves. *)
SocketOpens ==
    /\ drainPc = "opening"
    /\ socket # 0 /\ sockets[socket] = "connecting"
    /\ sockets' = [sockets EXCEPT ![socket] = "open"]
    /\ drainPc' = "send"
    /\ UNCHANGED <<memVars, countVars, lifeVars, flushTimer, drainBatch,
                   drainAck, attempts, socket, ackWaiter, exitVars, netVars,
                   histVars, faults>>

(* this.socket = null, detach the handlers and close: nothing the socket   *)
(* does afterwards is seen.                                                *)
Hangup ==
    /\ socket' = 0
    /\ sockets' = IF socket = 0 THEN sockets
                  ELSE [sockets EXCEPT ![socket] = "closed"]
    /\ toClient' = {}

(* Connect timeout, error or close before onopen, or hello cannot be sent. *)
OpenFails ==
    /\ drainPc = "opening"
    /\ socket # 0 /\ sockets[socket] = "connecting"
    /\ Fault
    /\ Hangup
    /\ drainPc' = "fail"
    /\ UNCHANGED <<memVars, countVars, lifeVars, flushTimer, drainBatch,
                   drainAck, attempts, ackWaiter, exitVars, toServer,
                   committed, histVars>>

(* Mutation of RejectAck: the waiter is forgotten and not rejected. *)
MutantRejectAck(g) ==
    IF ackWaiter # 0 /\ ackWaiter = g
    THEN ackWaiter' = 0 /\ UNCHANGED drainPc
    ELSE UNCHANGED <<ackWaiter, drainPc>>

(* rejectAck(error, generation): only a waiter of that generation. *)
RejectAck(g) ==
    IF ackWaiter # 0 /\ ackWaiter = g
    THEN ackWaiter' = 0 /\ drainPc' = "fail"
    ELSE UNCHANGED <<ackWaiter, drainPc>>

(* The peer begins to close: readyState leaves OPEN, onclose comes later. *)
PeerCloses ==
    /\ IsOpen /\ Fault
    /\ sockets' = [sockets EXCEPT ![socket] = "closing"]
    /\ UNCHANGED <<memVars, countVars, lifeVars, flushTimer, drainVars,
                   socket, ackWaiter, exitVars, netVars, histVars>>

(* Mutation of SocketClosed: any socket is taken for the current one. *)
MutantSocketClosed(g) ==
    /\ sockets[g] = "closing"
    /\ sockets' = [sockets EXCEPT ![g] = "closed"]
    /\ socket' = 0 /\ toClient' = {} /\ RejectAck(g)
    /\ UNCHANGED <<memVars, countVars, lifeVars, flushTimer, drainBatch,
                   drainAck, attempts, exitVars, toServer, committed,
                   histVars, faults>>

(* onclose of an opened socket, which may no longer be the current one. *)
SocketClosed(g) ==
    /\ sockets[g] = "closing"
    /\ sockets' = [sockets EXCEPT ![g] = "closed"]
    /\ IF socket = g
       THEN socket' = 0 /\ toClient' = {} /\ RejectAck(g)
       ELSE UNCHANGED <<socket, toClient, ackWaiter, drainPc>>
    /\ UNCHANGED <<memVars, countVars, lifeVars, flushTimer, drainBatch,
                   drainAck, attempts, exitVars, toServer, committed,
                   histVars, faults>>

(* onerror after opening, or a message that is no valid answer to the batch *)
(* in flight (protocolFailure): both reject the waiter and disconnect.      *)
ConnectionFails ==
    /\ IsOpen /\ Fault
    /\ RejectAck(socket)
    /\ Hangup
    /\ UNCHANGED <<memVars, countVars, lifeVars, flushTimer, drainBatch,
                   drainAck, attempts, exitVars, toServer, committed,
                   histVars>>

-----------------------------------------------------------------------------
(* The drain: send, await the acknowledgement, commit or retry *)

(* sendAndWait, called in the continuation of connect(). *)
SendBatch ==
    /\ drainPc = "send" /\ IsOpen /\ ackWaiter = 0
    /\ ackWaiter' = socket
    /\ toServer' = toServer \cup {[gen |-> socket, batch |-> drainBatch]}
    /\ drainPc' = "ack"
    /\ UNCHANGED <<memVars, countVars, lifeVars, flushTimer, drainBatch,
                   drainAck, attempts, sockets, socket, exitVars, toClient,
                   committed, histVars, faults>>

(* sendAndWait throws: the socket is not open, or a batch is in flight. *)
SendRefused ==
    /\ drainPc = "send" /\ ~(IsOpen /\ ackWaiter = 0)
    /\ drainPc' = "fail"
    /\ UNCHANGED <<memVars, countVars, lifeVars, flushTimer, drainBatch,
                   drainAck, attempts, connVars, exitVars, netVars, histVars,
                   faults>>

(* socket.send throws, or the acknowledgement timer fires. *)
SendThrows ==
    /\ drainPc = "send" /\ IsOpen /\ ackWaiter = 0 /\ Fault
    /\ drainPc' = "fail"
    /\ UNCHANGED <<memVars, countVars, lifeVars, flushTimer, drainBatch,
                   drainAck, attempts, connVars, exitVars, netVars, histVars>>

AckTimeout ==
    /\ ackWaiter # 0 /\ Fault
    /\ RejectAck(ackWaiter)
    /\ UNCHANGED <<memVars, countVars, lifeVars, flushTimer, drainBatch,
                   drainAck, attempts, sockets, socket, exitVars, netVars,
                   histVars>>

(* handleMessage for a commit_ack on the current socket. *)
OnAck(m) ==
    /\ IsOpen
    /\ IF ackWaiter = socket /\ m.batch = drainBatch
       THEN /\ ackWaiter' = 0
            /\ drainAck' = m.counts
            /\ drainPc' = "commit"
            /\ toClient' = toClient \ {m}
            /\ UNCHANGED <<sockets, socket>>
       ELSE RejectAck(socket) /\ Hangup /\ UNCHANGED drainAck
    /\ UNCHANGED <<memVars, countVars, lifeVars, flushTimer, drainBatch,
                   attempts, exitVars, toServer, committed, histVars, faults>>

(* Mutation of Accounts: the counts are not compared with the batch. *)
MutantAccounts(b, ack) == TRUE

(* The check of commit() that can fail for a batch its waiter matched. *)
Accounts(b, ack) ==
    ack.accepted + ack.duplicates = Len(batches[b].records)

(* Mutation of CommitCounts: duplicates are not counted. *)
MutantCommitCountsNew(b, ack) ==
    /\ accepted' = accepted + ack.accepted
    /\ duplicates' = duplicates
    /\ nextSequence' = batches[b].sequence + 1

(* Mutation of CommitCounts: duplicates count as accepted. *)
MutantCommitCountsAll(b, ack) ==
    /\ accepted' = accepted + ack.accepted + ack.duplicates
    /\ duplicates' = duplicates
    /\ nextSequence' = batches[b].sequence + 1

(* The assignments of commit(batch, ack) to the counters. *)
CommitCounts(b, ack) ==
    /\ accepted' = accepted + ack.accepted
    /\ duplicates' = duplicates + ack.duplicates
    /\ nextSequence' = batches[b].sequence + 1

(* this.commit(batch, ack) and the next turn of the loop: commit() clears  *)
(* inFlight whatever batch it holds.                                       *)
DrainCommits ==
    /\ drainPc = "commit" /\ Accounts(drainBatch, drainAck)
    /\ CommitCounts(drainBatch, drainAck)
    /\ attempts' = 0
    /\ drainAck' = NoCounts
    /\ DrainStep(queue, 0, batches[drainBatch].sequence + 1)
    /\ UNCHANGED <<lifeVars, flushTimer, connVars, exitVars, netVars,
                   histVars, faults>>

DrainRefusesAck ==
    /\ drainPc = "commit" /\ ~Accounts(drainBatch, drainAck)
    /\ drainPc' = "fail"
    /\ drainAck' = NoCounts
    /\ UNCHANGED <<memVars, countVars, lifeVars, flushTimer, drainBatch,
                   attempts, connVars, exitVars, netVars, histVars, faults>>

(* Mutation of DrainFails: the last failure is swallowed. *)
MutantDrainFails ==
    /\ drainPc = "fail"
    /\ Hangup
    /\ IF attempts >= MaxAttempts
       THEN drainPc' = "done" /\ UNCHANGED attempts
       ELSE drainPc' = "delay" /\ attempts' = attempts + 1
    /\ UNCHANGED <<memVars, countVars, lifeVars, flushTimer, drainBatch,
                   drainAck, ackWaiter, exitVars, toServer, committed,
                   histVars, faults>>

(* The catch block: disconnect, then give up or wait before the next try. *)
DrainFails ==
    /\ drainPc = "fail"
    /\ Hangup
    /\ IF attempts >= MaxAttempts
       THEN drainPc' = "failed" /\ UNCHANGED attempts
       ELSE drainPc' = "delay" /\ attempts' = attempts + 1
    /\ UNCHANGED <<memVars, countVars, lifeVars, flushTimer, drainBatch,
                   drainAck, ackWaiter, exitVars, toServer, committed,
                   histVars, faults>>

(* Mutation of DelayElapses: the retry forgets the unacknowledged batch. *)
MutantDelayElapses ==
    /\ drainPc = "delay"
    /\ DrainStep(queue, 0, nextSequence)
    /\ UNCHANGED <<countVars, lifeVars, flushTimer, drainAck, attempts,
                   connVars, exitVars, netVars, histVars, faults>>

DelayElapses ==
    /\ drainPc = "delay"
    /\ DrainStep(queue, inFlight, nextSequence)
    /\ UNCHANGED <<countVars, lifeVars, flushTimer, drainAck, attempts,
                   connVars, exitVars, netVars, histVars, faults>>

(* Mutation of DrainFinally: the timer is not rearmed. *)
MutantDrainFinally ==
    /\ Settled
    /\ drainPc' = "idle" /\ drainBatch' = 0
    /\ exitPc' = [p \in Exits |->
                    IF exitPc[p] # "joined" THEN exitPc[p]
                    ELSE IF drainPc = "done" THEN "resolved" ELSE "rejected"]
    /\ promised' = {} /\ late' = {}
    /\ UNCHANGED <<memVars, countVars, lifeVars, flushTimer, drainAck, attempts,
                   connVars, exitBatch, exitAck, closing, netVars, issued,
                   dropped, faults>>

(* The finally callback of flush(): release flushPromise, rearm the timer   *)
(* for what was queued meanwhile, settle the callers that awaited the task. *)
DrainFinally ==
    /\ Settled
    /\ drainPc' = "idle" /\ drainBatch' = 0
    /\ flushTimer' = (flushTimer \/ (accepting /\ queue # <<>>))
    /\ exitPc' = [p \in Exits |->
                    IF exitPc[p] # "joined" THEN exitPc[p]
                    ELSE IF drainPc = "done" THEN "resolved" ELSE "rejected"]
    /\ promised' = {} /\ late' = {}
    /\ UNCHANGED <<memVars, countVars, lifeVars, drainAck, attempts, connVars,
                   exitBatch, exitAck, closing, netVars, issued, dropped,
                   faults>>

-----------------------------------------------------------------------------
(* flushOnExit() and close() *)

(* The head of the while loop of flushOnExit, up to its next await. *)
ExitStep(p, q, b, seq) ==
    \/ /\ b = 0 /\ q = <<>>
       /\ exitPc' = [exitPc EXCEPT ![p] = "resolved"]
       /\ exitBatch' = [exitBatch EXCEPT ![p] = 0]
       /\ inFlight' = 0 /\ queue' = q /\ UNCHANGED batches
    \/ /\ b # 0 \/ q # <<>>
       /\ TakeBatch(q, b, seq)
       /\ exitBatch' = [exitBatch EXCEPT ![p] = inFlight']
       /\ exitPc' = [exitPc EXCEPT ![p] = "persist"]

(* The body of flushOnExit once its records are enqueued, leaving q. *)
ExitBegins(p, q, owed) ==
    \/ /\ Fallback
       /\ flushTimer' = FALSE
       /\ ExitStep(p, q, inFlight, nextSequence)
       /\ UNCHANGED <<drainPc, drainBatch, attempts, promised, late>>
    \/ /\ ~Fallback
       /\ exitPc' = [exitPc EXCEPT ![p] = "joined"]
       /\ FlushCall(q)
       /\ Promise(owed)
       /\ UNCHANGED exitBatch

FlushOnExit(p) ==
    /\ exitPc[p] = "idle"
    /\ ExitBegins(p, queue, Pending)
    /\ UNCHANGED <<countVars, lifeVars, drainAck, connVars, exitAck, closing,
                   netVars, issued, dropped, faults>>

(* With a record of the logger's still active events. *)
FlushOnExitWith(p, r) ==
    /\ exitPc[p] = "idle" /\ r \notin issued
    /\ issued' = issued \cup {r}
    /\ \/ /\ Admits(r)
          /\ dropped' = dropped \cup Displaced
          /\ ExitBegins(p, QueueWith(r), Pending \cup {r})
       \/ /\ ~Admits(r)
          /\ dropped' = dropped \cup {r}
          /\ ExitBegins(p, queue, Pending)
    /\ UNCHANGED <<countVars, lifeVars, drainAck, connVars, exitAck, closing,
                   netVars, faults>>

Close(p) ==
    /\ exitPc[p] = "idle" /\ ~closed
    /\ accepting' = FALSE
    /\ closing' = closing \cup {p}
    /\ \/ /\ Fallback
          /\ flushTimer' = FALSE
          /\ ExitStep(p, queue, inFlight, nextSequence)
          /\ UNCHANGED <<drainPc, drainBatch, attempts, promised, late>>
       \/ /\ ~Fallback
          /\ exitPc' = [exitPc EXCEPT ![p] = "joined"]
          /\ flushTimer' = FALSE
          /\ \/ drainPc # "idle" /\ UNCHANGED <<memVars, drainPc, drainBatch, attempts>>
             \/ /\ drainPc = "idle" /\ attempts' = 0
                /\ DrainStep(queue, inFlight, nextSequence)
          /\ Promise(Pending)
          /\ UNCHANGED exitBatch
    /\ UNCHANGED <<countVars, closed, drainAck, connVars, exitAck, netVars,
                   issued, dropped, faults>>

(* fallback.persist(batch) resolves with the collector's acknowledgement. *)
FallbackCommits(p) ==
    /\ exitPc[p] = "persist"
    /\ LET new == RecordsOf(exitBatch[p]) \ committed
       IN  exitAck' = [exitAck EXCEPT ![p] =
             [accepted |-> Cardinality(new),
              duplicates |-> Len(batches[exitBatch[p]].records)
                               - Cardinality(new)]]
    /\ committed' = committed \cup RecordsOf(exitBatch[p])
    /\ exitPc' = [exitPc EXCEPT ![p] = "commit"]
    /\ UNCHANGED <<memVars, countVars, lifeVars, flushTimer, drainVars,
                   connVars, exitBatch, closing, toServer, toClient, histVars,
                   faults>>

(* It rejects: the request or its answer is lost, or the answer does not   *)
(* account for the batch, and flushOnExit rejects with it.                 *)
FallbackFails(p) ==
    /\ exitPc[p] = "persist" /\ Fault
    /\ committed' \in {committed, committed \cup RecordsOf(exitBatch[p])}
    /\ exitPc' = [exitPc EXCEPT ![p] = "rejected"]
    /\ exitBatch' = [exitBatch EXCEPT ![p] = 0]
    /\ UNCHANGED <<memVars, countVars, lifeVars, flushTimer, drainVars,
                   connVars, exitAck, closing, toServer, toClient, histVars>>

(* this.commit(batch, ack) in flushOnExit and the next turn of its loop. *)
ExitCommits(p) ==
    /\ exitPc[p] = "commit"
    /\ CommitCounts(exitBatch[p], exitAck[p])
    /\ exitAck' = [exitAck EXCEPT ![p] = NoCounts]
    /\ ExitStep(p, queue, 0, batches[exitBatch[p]].sequence + 1)
    /\ UNCHANGED <<lifeVars, flushTimer, drainVars, connVars, closing,
                   netVars, histVars, faults>>

(* The finally block of close(). *)
CloseFinishes(p) ==
    /\ p \in closing /\ exitPc[p] \in {"resolved", "rejected"}
    /\ closed' = TRUE
    /\ exitPc' = [exitPc EXCEPT ![p] = "closed"]
    /\ RejectAck(ackWaiter)
    /\ Hangup
    /\ UNCHANGED <<memVars, countVars, accepting, flushTimer, drainBatch,
                   drainAck, attempts, exitBatch, exitAck, closing, toServer,
                   committed, histVars, faults>>

-----------------------------------------------------------------------------
(* The collector, external: it commits a batch at most once per record and *)
(* answers only after the commit.  A message never read models a lost one. *)

Answer(m, counts) ==
    IF m.gen = socket
    THEN toClient' = toClient \cup {[batch |-> m.batch, counts |-> counts]}
    ELSE UNCHANGED toClient

ServerCommits(m) ==
    /\ committed' = committed \cup RecordsOf(m.batch)
    /\ toServer' = toServer \ {m}
    /\ LET new == RecordsOf(m.batch) \ committed
       IN  Answer(m, [accepted |-> Cardinality(new),
                      duplicates |-> Len(batches[m.batch].records)
                                       - Cardinality(new)])
    /\ UNCHANGED <<memVars, countVars, lifeVars, flushTimer, drainVars,
                   connVars, exitVars, histVars, faults>>

(* A faulty collector answers without the commit and without the counts. *)
ServerMiscounts(m) ==
    /\ Fault
    /\ toServer' = toServer \ {m}
    /\ Answer(m, NoCounts)
    /\ UNCHANGED <<memVars, countVars, lifeVars, flushTimer, drainVars,
                   connVars, exitVars, committed, histVars>>

-----------------------------------------------------------------------------
Calls ==
    \/ \E r \in Records : WriteDropped(r) \/ WriteBuffered(r) \/ WriteFlushes(r)
    \/ Flush
    \/ \E p \in Exits : FlushOnExit(p) \/ Close(p)
    \/ \E p \in Exits, r \in Records : FlushOnExitWith(p, r)

Progress ==
    \/ FlushTimerFires \/ TicketArrives \/ SocketOpens
    \/ SendBatch \/ SendRefused \/ DrainCommits \/ DrainRefusesAck
    \/ DrainFails \/ DelayElapses \/ DrainFinally
    \/ \E g \in 1..Len(sockets) : SocketClosed(g)
    \/ \E m \in toClient : OnAck(m)
    \/ \E p \in Exits : FallbackCommits(p) \/ ExitCommits(p) \/ CloseFinishes(p)

Faults ==
    \/ TicketFails \/ OpenFails \/ PeerCloses \/ ConnectionFails
    \/ SendThrows \/ AckTimeout
    \/ \E p \in Exits : FallbackFails(p)
    \/ \E m \in toServer : ServerMiscounts(m)

Next == Calls \/ Progress \/ Faults \/ \E m \in toServer : ServerCommits(m)

Spec == Init /\ [][Next]_vars

(* What the event loop and a live collector owe: a suspended coroutine is   *)
(* resumed once what it awaits has happened, an armed timer fires, and the  *)
(* collector answers what reached it over the connection still in use.      *)
Fairness ==
    /\ WF_vars(FlushTimerFires) /\ WF_vars(TicketArrives)
    /\ WF_vars(SocketOpens)
    /\ WF_vars(SendBatch) /\ WF_vars(SendRefused)
    /\ WF_vars(DrainCommits) /\ WF_vars(DrainRefusesAck)
    /\ WF_vars(DrainFails) /\ WF_vars(DelayElapses) /\ WF_vars(DrainFinally)
    /\ WF_vars(\E g \in 1..Len(sockets) : SocketClosed(g))
    /\ WF_vars(\E m \in toClient : OnAck(m))
    /\ WF_vars(\E m \in toServer : m.gen = socket /\ ServerCommits(m))
    /\ \A p \in Exits : WF_vars(FallbackCommits(p) \/ ExitCommits(p)
                                 \/ CloseFinishes(p))
FairSpec == Spec /\ Fairness

-----------------------------------------------------------------------------
(* Properties *)

(* Every variable holds a value the object can hold, the queue within its  *)
(* bound: the parts of the object, its sockets and callers, the collector.  *)
MemType ==
    /\ queue \in Seq(Records) /\ Len(queue) <= MaxQueue
    /\ batches \in Seq(Batch) /\ inFlight \in 0..Len(batches)
CountType ==
    nextSequence \in Nat \ {0} /\ accepted \in Nat /\ duplicates \in Nat
LifeType == accepting \in BOOLEAN /\ closed \in BOOLEAN /\ flushTimer \in BOOLEAN
DrainType ==
    /\ drainPc \in DrainPcs /\ drainBatch \in 0..Len(batches)
    /\ drainAck \in Counts /\ attempts \in 0..MaxAttempts
ConnType ==
    /\ sockets \in Seq(SocketStates)
    /\ socket \in 0..Len(sockets) /\ ackWaiter \in 0..Len(sockets)
ExitType ==
    /\ exitPc \in [Exits -> ExitPcs] /\ exitBatch \in [Exits -> 0..Len(batches)]
    /\ exitAck \in [Exits -> Counts] /\ closing \subseteq Exits
NetType ==
    /\ toServer \subseteq [gen: 1..Len(sockets), batch: 1..Len(batches)]
    /\ toClient \subseteq [batch: 1..Len(batches), counts: Counts]
    /\ committed \subseteq Records
HistType ==
    /\ issued \subseteq Records /\ dropped \subseteq Records
    /\ promised \subseteq Records /\ late \subseteq Records
    /\ faults \in 0..MaxFaults
TypeOK == /\ MemType /\ CountType /\ LifeType /\ DrainType
          /\ ConnType /\ ExitType /\ NetType /\ HistType

(* The records a running coroutine still holds in its local batch.         *)
HeldByCaller ==
    RecordsOf(drainBatch) \cup UNION {RecordsOf(exitBatch[p]) : p \in Exits}

(* "Records leave memory only after a matching post-transaction commit_ack" *)
(* (the class comment): a record handed to the transport is in its queue,  *)
(* in a batch it or one of its coroutines holds, in the database, or        *)
(* reported to onDrop.                                                      *)
NothingLost == issued \subseteq Pending \cup HeldByCaller \cup committed \cup dropped

(* "Only one batch is in flight per transport instance": whatever sequence *)
(* of timeouts, reconnects and replays, a batch is not created before every *)
(* earlier one is in the database, and the sequence numbers the collector   *)
(* sees are consecutive, one per batch.                                     *)
OneBatchInFlight ==
    \A i \in 1..Len(batches) :
        /\ batches[i].sequence = i
        /\ i < Len(batches) => ToSet(batches[i].records) \subseteq committed

(* A record is never put in two batches, on the socket path, the fallback   *)
(* path or both at once: a replay always carries the same batch id.         *)
NoRecordInTwoBatches ==
    \A i, j \in 1..Len(batches) :
        i # j => RecordsOf(i) \cap RecordsOf(j) = {}

(* snapshot() agrees with the traffic: the counters account for exactly    *)
(* the records of the batches released so far, also when an acknowledgement *)
(* was lost and the replay is answered with duplicates.                     *)
ReleasedRecords ==
    UNION {RecordsOf(i) : i \in {j \in 1..Len(batches) : j # inFlight}}
CountersBalance == accepted + duplicates = Cardinality(ReleasedRecords)

(* accepted never counts a record twice, however often its batch is        *)
(* replayed: it is at most what the database holds.                         *)
AcceptedNotOvercounted == accepted <= Cardinality(committed)

(* Beside the fallback, too, a record is in one batch only and accepted     *)
(* counts it once, though NothingLost does not hold there.                 *)
ReplaysAreExact == NoRecordInTwoBatches /\ AcceptedNotOvercounted

(* A flush() joined while the drain was running resolves only when every    *)
(* record pending at the call is in the database or was reported dropped.   *)
FlushKeepsPromise == drainPc = "done" => promised \subseteq committed \cup dropped

(* "flush() drains enqueued work" (docs/api-consistency.md), for every      *)
(* caller: also one that joined a drain already settled. It does not hold:  *)
(* such a drain does not look at the queue again.                           *)
FlushDrainsEnqueuedWork ==
    drainPc = "done" => promised \cup late \subseteq committed \cup dropped

(* The drain never waits for a callback that can no longer come: awaiting   *)
(* an acknowledgement it has a waiter on the current generation, awaiting   *)
(* onopen its socket is the current one and still connecting.  The second   *)
(* ends with close(), which detaches a connecting socket whose promise is    *)
(* then never settled.                                                      *)
NoLostWakeup ==
    /\ (drainPc = "ack") <=> (ackWaiter # 0)
    /\ drainPc = "ack" => socket = ackWaiter /\ sockets[socket] \in {"open", "closing"}
    /\ drainPc = "opening" /\ ~closed =>
         socket = Len(sockets) /\ sockets[socket] = "connecting"

(* "never discards the in-flight batch": the batch in flight is replaced or *)
(* released only once all its records are committed.                        *)
InFlightIsKept ==
    [][inFlight # 0 /\ inFlight' # inFlight => RecordsOf(inFlight) \subseteq committed]_vars

(* A record handed to the transport ends in the database or is reported     *)
(* dropped, as long as the failures do not exhaust the reconnect attempts.  *)
EventuallySettled ==
    \A r \in Records : r \in issued ~> r \in committed \cup dropped

(* A flush always settles: no caller waits forever for the drain.          *)
DrainSettles == drainPc # "idle" ~> drainPc = "idle"

(* The transport implements AckDelivery: what it answers for is the batch in *)
(* flight followed by the queue.                                            *)
Delivery == INSTANCE AckDelivery WITH
    pending <- (IF inFlight = 0 THEN <<>> ELSE batches[inFlight].records) \o queue
ImplementsAckDelivery == Delivery!Spec
=============================================================================
