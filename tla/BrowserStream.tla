---------------------------- MODULE BrowserStream ----------------------------
(***************************************************************************)
(* BrowserStreamTransport: the bounded queue and the flush loop between a  *)
(* browser logger and a WebSocket, a SharedWorker socket or another        *)
(* transport (src/src/browser-stream.ts).                                  *)
(*                                                                         *)
(* flush() is one coroutine at a time, guarded by flushInFlight; flushPc   *)
(* names the await it is suspended at.  Everything else is a call by the   *)
(* application, which may come between any two of its awaits, or an event: *)
(* a timer, a socket callback, a page being hidden.  An event never comes   *)
(* before a coroutine that is ready to go on.                              *)
(*                                                                         *)
(* Records are numbered in the order they are handed in.  The two delays   *)
(* of schedule() differ only in time and are one timer here.               *)
(***************************************************************************)
EXTENDS Integers, Sequences, FiniteSets, SequencesExt

CONSTANTS
    MaxQueue,   \* maxQueueSize
    BatchSize,  \* batchSize
    MaxWrites,  \* bound: how many records there are
    MaxFaults   \* bound: how many times the environment may fail

ASSUME MaxQueueAssumption == MaxQueue \in Nat
ASSUME BatchSizeAssumption == BatchSize \in Nat \ {0}
ASSUME BoundAssumption == MaxWrites \in Nat /\ MaxFaults \in Nat

VARIABLES
    mode,        \* option: what the batches go to
    beacon,      \* option: whether beaconUrl is configured
    queue,       \* records buffered, oldest first
    dropped,     \* droppedRecords
    closed,      \* TRUE once close() has flushed
    closing,     \* whether close() awaits the flush it started
    flushTimer,  \* whether the flush timer is armed
    flushPc,     \* where flush() is suspended
    batch,       \* the batch it peeked
    batchAt,     \* the record of it the inner transport is given
    sockets,     \* state of every socket constructed
    socket,      \* this.socket, 0 for null
    connecting,  \* the socket connectPromise waits for, 0 for null
    wedged,      \* whether connectPromise holds a promise already rejected
    shared,      \* whether sharedSocket is set
    written,     \* history: how many records were handed in
    wire,        \* history: records sent, in order
    beaconed,    \* history: records a beacon or a keepalive fetch took
    ignored,     \* history: records written after close()
    told,        \* history: records onError reported lost at page teardown
    cleared,     \* history: how many a beacon took from under a flush
    orphaned,    \* history: onclose events that nulled a newer socket
    stranded,    \* history: a page teardown left records and no timer
    faults       \* environment failures so far

optionVars == <<mode, beacon>>
flushVars == <<flushPc, batch, batchAt>>
connVars == <<sockets, socket, connecting, wedged, shared, orphaned>>
exitVars == <<beaconed, told, cleared>>
vars == <<optionVars, queue, dropped, closed, closing, flushTimer, flushVars,
          connVars, written, wire, exitVars, ignored, stranded, faults>>

Modes == {"socket", "shared", "transport"}
SocketStates == {"connecting", "open", "closing", "closed"}

(* "connect" awaits connect() or connectShared(), "ready" is the resolved   *)
(* one, "sending" awaits the shared socket or the inner transport, "yield"  *)
(* the pause between batches, "failed" is an await that has rejected.       *)
FlushPcs == {"idle", "connect", "ready", "sending", "yield", "failed"}

Init ==
    /\ mode \in Modes /\ beacon \in BOOLEAN
    /\ queue = <<>> /\ dropped = 0
    /\ closed = FALSE /\ closing = FALSE /\ flushTimer = FALSE
    /\ flushPc = "idle" /\ batch = <<>> /\ batchAt = 0
    /\ sockets = <<>> /\ socket = 0 /\ connecting = 0 /\ wedged = FALSE
    /\ shared = FALSE /\ written = 0 /\ wire = <<>>
    /\ beaconed = {} /\ told = {} /\ cleared = 0 /\ ignored = {}
    /\ orphaned = 0 /\ stranded = FALSE /\ faults = 0

Fault == faults < MaxFaults /\ faults' = faults + 1
Least(m, n) == IF m < n THEN m ELSE n

(* No coroutine is ready to go on, so the event loop takes the next event. *)
Quiet == flushPc \notin {"ready", "failed"}

(* Mutation of Excess: the bound is one too high. *)
MutantExcess(n) == IF n > MaxQueue + 1 THEN n - MaxQueue ELSE 0

(* trimToLast: how many of n records are one too many. *)
Excess(n) == IF n > MaxQueue THEN n - MaxQueue ELSE 0

(* schedule(false) with the queue q, the flush being in flight or not.     *)
Schedule(q, inFlight) ==
    LET arms == q # <<>> /\ ~inFlight /\ ~closed
    IN  /\ flushTimer' = (flushTimer \/ arms)
        /\ stranded' = (stranded /\ ~arms)

-----------------------------------------------------------------------------
(* The flush loop *)

IsOpen == socket # 0 /\ sockets[socket] = "open"

(* Mutation of NeedsSocket: an open socket is not reused. *)
MutantNeedsSocket == TRUE

NeedsSocket == ~IsOpen

(* The end of flush(): the finally block, and close() if it awaits it.     *)
FlushEnds(q) ==
    /\ flushPc' = "idle" /\ batch' = <<>> /\ batchAt' = 0
    /\ Schedule(q, FALSE)
    /\ closing' = FALSE
    /\ closed' = (closed \/ closing)
    /\ IF closing
       THEN /\ sockets' = IF socket = 0 THEN sockets
                          ELSE [sockets EXCEPT ![socket] = "closing"]
            /\ socket' = 0 /\ shared' = FALSE
       ELSE UNCHANGED <<sockets, socket, shared>>
    /\ UNCHANGED <<connecting, wedged, orphaned>>

(* The factory throws: the executor sets connectPromise = null, and then the *)
(* assignment it runs in sets it to the rejected promise, for good.         *)
FactoryThrows ==
    /\ mode = "socket" /\ NeedsSocket /\ ~wedged /\ Fault
    /\ wedged' = TRUE
    /\ flushPc' = "failed"
    /\ UNCHANGED <<batchAt, sockets, socket, connecting, shared, orphaned>>

(* The head of the loop with records queued: peek a batch and reach for     *)
(* its destination.                                                        *)
NextBatch ==
    /\ queue # <<>>
    /\ batch' = SubSeq(queue, 1, Least(BatchSize, Len(queue)))
    /\ \/ /\ mode = "transport"
          /\ flushPc' = "sending" /\ batchAt' = 1
          /\ UNCHANGED <<connVars, faults>>
       \/ /\ mode = "shared"
          /\ flushPc' = IF shared THEN "ready" ELSE "connect"
          /\ UNCHANGED <<batchAt, connVars, faults>>
       \/ /\ mode = "socket" /\ ~NeedsSocket
          /\ flushPc' = "ready"
          /\ UNCHANGED <<batchAt, connVars, faults>>
       \/ /\ mode = "socket" /\ NeedsSocket /\ ~wedged
          /\ sockets' = Append(sockets, "connecting")
          /\ socket' = Len(sockets) + 1
          /\ connecting' = Len(sockets) + 1
          /\ flushPc' = "connect"
          /\ UNCHANGED <<batchAt, wedged, shared, orphaned, faults>>
       \/ FactoryThrows
       \/ /\ mode = "socket" /\ NeedsSocket /\ wedged
          /\ flushPc' = "failed"
          /\ UNCHANGED <<batchAt, connVars, faults>>

CanFlush == flushPc = "idle" /\ queue # <<>> /\ ~closed

(* flush(); one in flight, an empty queue or a closed transport return.    *)
Flush ==
    /\ CanFlush
    /\ NextBatch
    /\ UNCHANGED <<optionVars, queue, dropped, closed, closing, flushTimer,
                   written, wire, exitVars, ignored, stranded>>

TimerFires ==
    /\ flushTimer /\ Quiet
    /\ flushTimer' = FALSE
    /\ \/ CanFlush /\ NextBatch
       \/ ~CanFlush /\ UNCHANGED <<flushVars, connVars, faults>>
    /\ UNCHANGED <<optionVars, queue, dropped, closed, closing, written, wire,
                   exitVars, ignored, stranded>>

(* Mutation of Drained: one record more. *)
MutantDrainedMore == SubSeq(queue, Len(batch) + 2, Len(queue))

(* Mutation of Drained: the last record of the batch stays. *)
MutantDrainedLess == SubSeq(queue, Len(batch), Len(queue))

(* queue.drain(batch.length): as many records as the batch has, whatever    *)
(* the head of the queue is by now.                                        *)
Drained == SubSeq(queue, Len(batch) + 1, Len(queue))

(* The batch has gone out as w: drain, then yield or end.                  *)
BatchSent(w) ==
    /\ wire' = wire \o w
    /\ queue' = Drained
    /\ \/ /\ Drained # <<>>
          /\ flushPc' = "yield" /\ batch' = <<>> /\ batchAt' = 0
          /\ UNCHANGED <<closed, closing, flushTimer, stranded, connVars>>
       \/ Drained = <<>> /\ FlushEnds(<<>>)
    /\ UNCHANGED <<optionVars, dropped, written, exitVars, ignored, faults>>

(* connect() resolved: socket.send hands the batch to the open socket.     *)
SocketSends ==
    /\ flushPc = "ready" /\ mode = "socket"
    /\ BatchSent(batch)

(* socket.send, or mapBatch, throws. *)
SendThrows ==
    /\ flushPc = "ready" /\ Fault
    /\ flushPc' = "failed"
    /\ UNCHANGED <<optionVars, queue, dropped, closed, closing, flushTimer,
                   batch, batchAt, connVars, written, wire, exitVars,
                   ignored, stranded>>

SharedSends ==
    /\ flushPc = "ready" /\ mode = "shared"
    /\ flushPc' = "sending"
    /\ UNCHANGED <<optionVars, queue, dropped, closed, closing, flushTimer,
                   batch, batchAt, connVars, written, wire, exitVars,
                   ignored, stranded, faults>>

SharedSent ==
    /\ flushPc = "sending" /\ mode = "shared"
    /\ BatchSent(batch)

(* The inner transport has written one record of the batch.                *)
InnerWrote ==
    /\ flushPc = "sending" /\ mode = "transport"
    /\ \/ batchAt = Len(batch) /\ BatchSent(<<batch[batchAt]>>)
       \/ /\ batchAt < Len(batch)
          /\ wire' = Append(wire, batch[batchAt])
          /\ batchAt' = batchAt + 1
          /\ UNCHANGED <<optionVars, queue, dropped, closed, closing,
                         flushTimer, flushPc, batch, connVars, written,
                         exitVars, ignored, stranded, faults>>

(* The shared socket or the inner transport rejects. *)
SendRejects ==
    /\ flushPc = "sending" /\ Fault
    /\ flushPc' = "failed"
    /\ UNCHANGED <<optionVars, queue, dropped, closed, closing, flushTimer,
                   batch, batchAt, connVars, written, wire, exitVars,
                   ignored, stranded>>

YieldElapses ==
    /\ flushPc = "yield"
    /\ \/ /\ NextBatch
          /\ UNCHANGED <<closed, closing, flushTimer, stranded>>
       \/ queue = <<>> /\ FlushEnds(<<>>) /\ UNCHANGED faults
    /\ UNCHANGED <<optionVars, queue, dropped, written, wire, exitVars, ignored>>

(* Mutation of FlushFails: the finally block does not schedule. *)
MutantFlushFails ==
    /\ flushPc = "failed"
    /\ FlushEnds(<<>>)
    /\ UNCHANGED <<optionVars, queue, dropped, written, wire, exitVars,
                   ignored, faults>>

FlushFails ==
    /\ flushPc = "failed"
    /\ FlushEnds(queue)
    /\ UNCHANGED <<optionVars, queue, dropped, written, wire, exitVars,
                   ignored, faults>>

-----------------------------------------------------------------------------
(* Connections *)

connFrame == <<optionVars, queue, dropped, closed, closing, flushTimer, batch,
               batchAt, wedged, shared, written, wire, exitVars, ignored,
               stranded>>

SocketOpens ==
    /\ connecting # 0 /\ sockets[connecting] = "connecting"
    /\ sockets' = [sockets EXCEPT ![connecting] = "open"]
    /\ connecting' = 0
    /\ flushPc' = "ready"
    /\ UNCHANGED <<connFrame, socket, orphaned, faults>>

(* finish(error) by the connect timer or onerror: the socket is closed and  *)
(* its onclose is still to come.                                           *)
ConnectFails ==
    /\ connecting # 0 /\ sockets[connecting] = "connecting" /\ Fault
    /\ sockets' = [sockets EXCEPT ![connecting] = "closing"]
    /\ socket' = 0 /\ connecting' = 0
    /\ flushPc' = "failed"
    /\ UNCHANGED <<connFrame, orphaned>>

PeerCloses(g) ==
    /\ sockets[g] = "open" /\ Quiet /\ Fault
    /\ sockets' = [sockets EXCEPT ![g] = "closing"]
    /\ UNCHANGED <<connFrame, flushPc, socket, connecting, orphaned>>

(* Mutation of SocketCloses: the connect promise is not rejected. *)
MutantSocketCloses(g) ==
    /\ sockets[g] = "closing" /\ Quiet
    /\ sockets' = [sockets EXCEPT ![g] = "closed"]
    /\ socket' = 0
    /\ orphaned' = orphaned + (IF socket \notin {0, g} THEN 1 ELSE 0)
    /\ UNCHANGED <<connFrame, connecting, flushPc, faults>>

(* onclose: this.socket = null, also when g is no longer the current one,   *)
(* and finish(error) if g never opened.                                    *)
SocketCloses(g) ==
    /\ sockets[g] = "closing" /\ Quiet
    /\ sockets' = [sockets EXCEPT ![g] = "closed"]
    /\ socket' = 0
    /\ orphaned' = orphaned + (IF socket \notin {0, g} THEN 1 ELSE 0)
    /\ IF connecting = g
       THEN connecting' = 0 /\ flushPc' = "failed"
       ELSE UNCHANGED <<connecting, flushPc>>
    /\ UNCHANGED <<connFrame, faults>>

sharedFrame == <<optionVars, queue, dropped, closed, closing, flushTimer,
                 batch, batchAt, sockets, socket, connecting, wedged, orphaned,
                 written, wire, exitVars, ignored, stranded>>

SharedConnects ==
    /\ flushPc = "connect" /\ mode = "shared"
    /\ shared' = TRUE
    /\ flushPc' = "ready"
    /\ UNCHANGED <<sharedFrame, faults>>

SharedConnectFails ==
    /\ flushPc = "connect" /\ mode = "shared" /\ Fault
    /\ flushPc' = "failed"
    /\ UNCHANGED <<sharedFrame, shared>>

-----------------------------------------------------------------------------
(* write(), flushOnExit() and close() *)

Hand == written < MaxWrites /\ written' = written + 1

WriteIgnored ==
    /\ Hand /\ closed
    /\ ignored' = ignored \cup {written'}
    /\ UNCHANGED <<optionVars, queue, dropped, closed, closing, flushTimer,
                   flushVars, connVars, wire, exitVars, stranded, faults>>

Write ==
    /\ Hand /\ ~closed
    /\ LET longer == Append(queue, written')
           excess == Excess(Len(longer))
       IN  /\ queue' = SubSeq(longer, excess + 1, Len(longer))
           /\ dropped' = dropped + excess
    /\ Schedule(queue', flushPc # "idle")
    /\ UNCHANGED <<optionVars, closed, closing, flushVars, connVars, wire,
                   exitVars, ignored, faults>>

(* flushOnExit: the queue and the records of the call, rs.                 *)
ExitFrame ==
    /\ flushTimer' = FALSE
    /\ UNCHANGED <<optionVars, dropped, closed, closing, flushVars, connVars,
                   wire, ignored>>

(* sendBeacon accepts, or a keepalive fetch is issued in its place.        *)
ExitBeacons(rs) ==
    /\ ExitFrame
    /\ beacon
    /\ beaconed' = beaconed \cup ToSet(queue) \cup rs
    /\ queue' = <<>>
    /\ cleared' = cleared + (IF batch = <<>> THEN 0 ELSE Len(queue))
    /\ stranded' = FALSE
    /\ UNCHANGED <<told, faults>>

(* No beaconUrl, a beacon that throws or no fetch: onError, and the queue   *)
(* stays as it is.                                                         *)
ExitReports(rs) ==
    /\ ExitFrame
    /\ \/ ~beacon /\ UNCHANGED faults
       \/ beacon /\ Fault
    /\ told' = told \cup rs
    /\ stranded' = (stranded \/ (queue # <<>> /\ flushPc = "idle"))
    /\ UNCHANGED <<queue, beaconed, cleared>>

PageHidden ==
    /\ Quiet /\ queue # <<>>
    /\ ExitBeacons({}) \/ ExitReports({})
    /\ UNCHANGED written

FlushOnExitWith ==
    /\ Hand
    /\ ExitBeacons({written'}) \/ ExitReports({written'})

(* close(): its flush() starts one, or returns at once, as it does for a     *)
(* second close(), and the rest follows.                                   *)
CloseFlushes ==
    /\ ~closed /\ ~closing /\ CanFlush
    /\ closing' = TRUE
    /\ flushTimer' = FALSE
    /\ NextBatch
    /\ UNCHANGED <<optionVars, queue, dropped, closed, written, wire, exitVars,
                   ignored, stranded>>

CloseNow ==
    /\ ~closed /\ ~CanFlush /\ Quiet
    /\ closed' = TRUE
    /\ flushTimer' = FALSE
    /\ sockets' = IF socket = 0 THEN sockets
                  ELSE [sockets EXCEPT ![socket] = "closing"]
    /\ socket' = 0 /\ shared' = FALSE
    /\ UNCHANGED <<optionVars, queue, dropped, closing, flushVars, connecting,
                   wedged, orphaned, written, wire, exitVars, ignored, stranded, faults>>

-----------------------------------------------------------------------------
Calls ==
    \/ Write \/ WriteIgnored \/ Flush \/ PageHidden \/ FlushOnExitWith
    \/ CloseFlushes \/ CloseNow

Events ==
    \/ TimerFires \/ SocketOpens \/ ConnectFails
    \/ SharedConnects \/ SharedConnectFails
    \/ SharedSent \/ InnerWrote \/ SendRejects \/ YieldElapses
    \/ \E g \in 1..Len(sockets) : PeerCloses(g) \/ SocketCloses(g)

Next == Calls \/ Events \/ SocketSends \/ SharedSends \/ SendThrows \/ FlushFails

Spec == Init /\ [][Next]_vars

(* Ready coroutines go on, armed timers fire, a socket opens or its connect *)
(* timer fires, and what is awaited from the shared worker or the inner     *)
(* transport settles.                                                      *)
FairSpec ==
    /\ Spec
    /\ WF_vars(TimerFires) /\ WF_vars(YieldElapses) /\ WF_vars(FlushFails)
    /\ WF_vars(SocketSends) /\ WF_vars(SharedSends)
    /\ WF_vars(SocketOpens \/ ConnectFails)
    /\ WF_vars(SharedConnects \/ SharedConnectFails)
    /\ WF_vars(SharedSent \/ InnerWrote \/ SendRejects)
    /\ WF_vars(\E g \in 1..Len(sockets) : SocketCloses(g))

-----------------------------------------------------------------------------
(* Properties *)

(* Every variable holds a value the object can hold, the queue within its  *)
(* bound.                                                                  *)
TypeOK ==
    /\ mode \in Modes /\ beacon \in BOOLEAN
    /\ queue \in Seq(1..written) /\ Len(queue) <= MaxQueue
    /\ dropped \in Nat /\ closed \in BOOLEAN /\ closing \in BOOLEAN
    /\ flushTimer \in BOOLEAN /\ flushPc \in FlushPcs
    /\ batch \in Seq(1..written) /\ Len(batch) <= BatchSize
    /\ batchAt \in 0..Len(batch)
    /\ sockets \in Seq(SocketStates)
    /\ socket \in 0..Len(sockets) /\ connecting \in 0..Len(sockets)
    /\ wedged \in BOOLEAN /\ shared \in BOOLEAN
    /\ written \in 0..MaxWrites /\ wire \in Seq(1..written)
    /\ beaconed \subseteq 1..written /\ told \subseteq 1..written
    /\ ignored \subseteq 1..written
    /\ cleared \in Nat /\ orphaned \in Nat /\ stranded \in BOOLEAN
    /\ faults \in 0..MaxFaults

(* The records of which nothing is left: not queued, sent, beaconed or      *)
(* reported, and accepted when they were written.                          *)
Gone == 1..written \
          (ToSet(queue) \cup ToSet(wire) \cup beaconed \cup told \cup ignored)

(* "the oldest records are dropped and counted" (README.md): the counter    *)
(* dropped covers every record that is gone, also when the queue moves      *)
(* under a flush that awaits, except for the records written after a beacon *)
(* emptied the queue under it: at most as many as the beacon took.          *)
LossIsCounted == Cardinality(Gone) <= dropped + cleared

(* Records reach the socket in the order they were written and none twice,  *)
(* through failures, reconnects, trims and beacons.  An inner transport is  *)
(* given the records of a failed batch again.                              *)
WireInOrder ==
    mode # "transport" =>
        \A i, j \in 1..Len(wire) : i < j => wire[i] < wire[j]

(* Queued records never wait without a flush or a timer, whatever failed,   *)
(* unless a page teardown that could not send them cleared the timer.      *)
QueueIsScheduled ==
    queue # <<>> /\ ~closed /\ flushPc = "idle" => flushTimer \/ stranded

(* "keeps a persistent socket open" (README.md): one socket, however often  *)
(* connections time out, fail or are closed, except where the late onclose  *)
(* of an old socket made the transport forget the current one.             *)
OneSocket ==
    Cardinality({g \in 1..Len(sockets) : sockets[g] = "open"}) <= 1 + orphaned

(* The object between two steps: its fields, one socket, and a queue that   *)
(* somebody will look at, whichever callbacks of the past come late.       *)
StreamIsSound == TypeOK /\ QueueIsScheduled /\ OneSocket

(* A socket wedged in CONNECTING, a close, an error or a rejection never    *)
(* stalls the flush loop (the comment of connectTimeoutMillis).            *)
FlushSettles == flushPc # "idle" ~> flushPc = "idle"

(* A queued record leaves the queue, unless the transport is closed, the    *)
(* page was torn down, or the socket factory has thrown once.              *)
QueueDrains ==
    \A r \in 1..MaxWrites :
        r \in ToSet(queue)
          ~> r \notin ToSet(queue) \/ closed \/ stranded \/ wedged

(* Under fairness a flush ends and the queue moves.                         *)
StreamMoves == FlushSettles /\ QueueDrains

(* "socket factory failures leave records queued for a later retry"         *)
(* (tests/browser-stream-adversarial.test.mjs): the retry can succeed. It   *)
(* does not hold: the rejected promise of a factory that threw stays in     *)
(* connectPromise.                                                          *)
RetriesRecover ==
    \A r \in 1..MaxWrites :
        r \in ToSet(queue) ~> r \notin ToSet(queue) \/ closed \/ stranded

(* "Records are removed only after the send succeeds" (flush): a step that  *)
(* is neither a write nor a page teardown removes only records sent.       *)
FlushRemovesSent ==
    [][written' = written /\ beaconed' = beaconed
         => ToSet(queue) \ ToSet(queue') \subseteq ToSet(wire')]_vars
=============================================================================
