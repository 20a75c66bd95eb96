----------------------------- MODULE RealtimeBatch -----------------------------
(***************************************************************************)
(* SupabaseRealtimeBatchTransport (src/src/supabase-realtime-batch.ts):    *)
(* one drain takes batch after batch from the queue and sends each over a  *)
(* joined channel, or, after enough failures, through a fallback           *)
(* transport; flushOnExit() and close() drain to the fallback beside it.   *)
(*                                                                         *)
(* As in RealtimeAck the methods are operators on the state x of the       *)
(* transport.  A message that awaits its reply is a record of x.pending:   *)
(* what it is, the socket it was created for and the one it was sent on.   *)
(* Tokens, delays and the counter of drops are left out.  A record passed  *)
(* to flushOnExit(records) is queued again even if it is queued already:   *)
(* an item here is such a queue entry.                                     *)
(***************************************************************************)
EXTENDS Naturals, Sequences, FiniteSetsExt, Filter, WebSocketApi

CONSTANTS
    RbItems,       \* items to queue,
    RbTooLarge,    \* those above maxRecordBytes, and
    RbHeavy,       \* those that fill a batch alone (maxBatchBytes)
    RbBatchSize, RbMaxQueue, RbFallbackAfter,  \* options of the same names
    RbSockets,     \* 1..n: sockets alive at a time
    RbMaxFaults    \* bound: faults of the network, the server and tokens

VARIABLES rb, rbFaults
rbVars == <<rb, rbFaults>>

Spare == {"exit", "close"}   \* who drains to the fallback beside the drain

RbInit ==
    /\ rb \in [queue : {<<>>}, outcome : {[i \in RbItems |-> "new"]},
               hasFallback : BOOLEAN, awaitDelivery : {FALSE, TRUE},
               drain : {"off"}, batch : {<<>>}, awaited : {0},
               spare : {[c \in Spare |-> <<>>]},
               ready : {[s \in RbSockets |-> "closed"]},
               connect : {[s \in RbSockets |-> "settled"]},
               joining : {[s \in RbSockets |-> FALSE]},
               pending : {{}}, socket : {0}, joined : {FALSE}, connectPromise : {0},
               beating : {FALSE}, interval : {FALSE}, retry : {FALSE}, failures : {0},
               accepting : {TRUE}, closed : {FALSE}, strict : BOOLEAN,
               exiting : {FALSE}, exitFailed : {FALSE}, closing : {"no"}]
    /\ rbFaults = 0

Open(x) == x.socket # 0 /\ x.ready[x.socket] = "open"

-----------------------------------------------------------------------------
(* The queue and its timers *)

DropItems(x, I) == [x EXCEPT !.outcome = [i \in RbItems |-> IF i \in I THEN "dropped" ELSE @[i]]]

(* enqueue: the oldest item makes room. *)
Enqueue(x, i) ==
    IF ~x.accepting \/ i \in RbTooLarge THEN DropItems(x, {i})
    ELSE LET full == Len(x.queue) >= RbMaxQueue
         IN  [(IF full THEN DropItems(x, {Head(x.queue)}) ELSE x) EXCEPT
                 !.queue = Append(IF full THEN Tail(@) ELSE @, i), !.outcome[i] = "held"]

(* takeBatch: how many items the next batch has. *)
BatchLength(q) ==
    LET fits(n) == n = 1 \/ \A k \in 1..n : q[k] \notin RbHeavy
    IN  Max({0} \cup {n \in 1..Len(q) : n <= RbBatchSize /\ fits(n)})

(* Mutation of RestoreBatch: what no longer fits is cut off unreported.    *)
MutantRestoreBatch(x, b) == [x EXCEPT !.queue = SubSeq(b \o @, 1, RbMaxQueue)]

(* restoreBatch: back at the head; what no longer fits goes from the tail.  *)
RestoreBatch(x, b) ==
    LET q == b \o x.queue
        kept == SubSeq(q, 1, IF Len(q) < RbMaxQueue THEN Len(q) ELSE RbMaxQueue)
    IN  [DropItems(x, Range(q) \ Range(kept)) EXCEPT !.queue = kept]

ScheduleInterval(x) ==
    [x EXCEPT !.interval = @ \/ (x.accepting /\ ~x.retry /\ x.queue # <<>>)]

(* Mutation of ScheduleRetry: only the first failure is retried.           *)
MutantScheduleRetry(x) ==
    IF ~x.accepting \/ x.retry \/ x.queue = <<>> \/ x.failures > 0 THEN x
    ELSE [x EXCEPT !.retry = TRUE, !.interval = FALSE]

ScheduleRetry(x) ==
    IF ~x.accepting \/ x.retry \/ x.queue = <<>> THEN x
    ELSE [x EXCEPT !.retry = TRUE, !.interval = FALSE]

-----------------------------------------------------------------------------
(* The drain *)

UseFallback(x) == x.hasFallback /\ x.failures >= RbFallbackAfter

(* connect(), called by the drain: it awaits the socket it returns for.     *)
CanConnect(x) == \E s \in RbSockets :
    x.ready[s] = "closed" /\ x.connect[s] = "settled" /\ ~x.joining[s]
Connect(x) ==
    IF Open(x) /\ x.joined THEN [x EXCEPT !.drain = "token", !.awaited = 0]
    ELSE IF x.connectPromise # 0 THEN [x EXCEPT !.drain = "connecting", !.awaited = x.connectPromise]
    ELSE LET s == Min({k \in RbSockets : x.ready[k] = "closed" /\ x.connect[k] = "settled" /\ ~x.joining[k]})
         IN  [x EXCEPT !.drain = "connecting", !.awaited = s, !.socket = s,
                       !.joined = FALSE, !.connectPromise = s,
                       !.ready[s] = "connecting", !.connect[s] = "pending"]

(* The head of the drain's loop: the next batch and its way out.            *)
NextBatch(x) ==
    IF x.queue = <<>> THEN [x EXCEPT !.drain = "ending", !.batch = <<>>]
    ELSE LET n == BatchLength(x.queue)
             y == [x EXCEPT !.batch = SubSeq(x.queue, 1, n), !.queue = SubSeq(@, n + 1, Len(@))]
         IN  IF UseFallback(x) THEN [y EXCEPT !.drain = "fallback"]
             ELSE IF x.closed THEN [y EXCEPT !.drain = "refused"]
             ELSE Connect(y)

(* flush(): one drain at a time. *)
FlushRb(x) == IF x.drain # "off" THEN x ELSE NextBatch([x EXCEPT !.interval = FALSE])

Delivered(x, b) ==
    [x EXCEPT !.outcome = [i \in RbItems |-> IF i \in Range(b) THEN "delivered" ELSE @[i]]]

BatchSent(x) == NextBatch([Delivered(x, x.batch) EXCEPT !.failures = 0])

(* The catch of the loop: a failure of the channel may go on through the    *)
(* fallback, a failure of the fallback ends the drain.                     *)
BatchFails(x) ==
    LET y == RestoreBatch([x EXCEPT !.failures = IF @ < RbFallbackAfter THEN @ + 1 ELSE @,
                                    !.batch = <<>>, !.awaited = 0], x.batch)
    IN  IF x.drain # "fallback" /\ UseFallback(y) THEN NextBatch(y)
        ELSE [y EXCEPT !.drain = "failing"]

-----------------------------------------------------------------------------
(* The channel *)

(* socket?.close(code): where it throws the socket stays open, and nothing   *)
(* the transport does after it is lost.                                    *)
CloseIt(x, code) ==
    IF x.socket = 0 \/ ~MayClose(x.strict, code) THEN x
    ELSE [x EXCEPT !.ready[x.socket] = IF @ = "closed" THEN @ ELSE "closing"]

(* finish(error) of connect: the task of socket s settles once. *)
FinishFails(x, s) ==
    IF x.connect[s] = "settled" THEN x
    ELSE LET y == [x EXCEPT !.connect[s] = "settled", !.connectPromise = 0]
         IN  IF x.drain = "connecting" /\ x.awaited = s THEN BatchFails(y) ELSE y

FinishOk(x, s) ==
    IF x.connect[s] = "settled" THEN x
    ELSE LET y == [x EXCEPT !.connect[s] = "settled", !.connectPromise = 0]
         IN  IF x.drain = "connecting" /\ x.awaited = s THEN [y EXCEPT !.drain = "token", !.awaited = 0] ELSE y

(* sendWithReply for a message `what` of socket s. *)
CanSend(x, what) == Open(x) /\ (what \in {"join", "beat"} \/ x.joined)
SendIt(x, what, s) == [x EXCEPT !.pending = @ \cup {[what |-> what, by |-> s, on |-> x.socket]}]

(* close() past the channel: the fallback is flushed and closed. *)
AfterLeave(x) == [x EXCEPT !.closing = "finishing"]

(* What a rejected reply does to the one who awaits it. *)
Rejected(x, p) ==
    CASE p.what = "join"  -> FinishFails(x, p.by)
      [] p.what \in {"token", "batch"} -> BatchFails(x)
      [] p.what = "leave" -> AfterLeave(x)
      [] OTHER            -> CloseIt(x, 1011)

(* Every one of P is rejected, one after the other. *)
RejectAll(x, P) ==
    LET order == InSomeOrder(P)
        after[n \in 0..Len(order)] ==
            IF n = 0 THEN x ELSE Rejected(after[n - 1], order[n])
    IN  after[Len(order)]

(* disconnect(), up to what its rejections make others do. *)
Disconnect(x) ==
    [CloseIt(x, 1000) EXCEPT !.pending = {}, !.beating = FALSE, !.socket = 0, !.joined = FALSE,
                       !.connectPromise = 0]

-----------------------------------------------------------------------------
(* Callers and timers *)

Fault == rbFaults < RbMaxFaults /\ rbFaults' = rbFaults + 1
NoFault == UNCHANGED rbFaults

(* A step that may open a socket needs one that is not in use. *)
Sure(x) == CanConnect(x) \/ x.connectPromise # 0 \/ (Open(x) /\ x.joined)

RbWrite(i) ==
    /\ rb.outcome[i] = "new" /\ Sure(rb) /\ NoFault
    /\ LET x == Enqueue(rb, i)
       IN  rb' = IF x.outcome[i] # "held" THEN x
                 ELSE IF Len(x.queue) >= RbBatchSize \/ x.awaitDelivery THEN FlushRb(x)
                 ELSE ScheduleInterval(x)

RbFlush ==
    /\ Sure(rb) /\ NoFault
    /\ rb' = FlushRb(rb)

IntervalFires ==
    /\ rb.interval /\ Sure(rb) /\ NoFault
    /\ rb' = FlushRb([rb EXCEPT !.interval = FALSE])

(* The retry timer drops the channel and flushes, then the rejections run. *)
RetryFires ==
    /\ rb.retry /\ CanConnect(rb) /\ NoFault
    /\ rb' = RejectAll(FlushRb(Disconnect([rb EXCEPT !.retry = FALSE])), rb.pending)

(* The end of a drain that emptied the queue: finally. *)
DrainEnds ==
    /\ rb.drain = "ending" /\ NoFault
    /\ LET x == ScheduleInterval([rb EXCEPT !.drain = "off"])
       IN  rb' = IF rb.closing = "draining" THEN [x EXCEPT !.closing = "leave"] ELSE x

(* The end of a drain that failed: catch, then finally. *)
DrainFails ==
    /\ rb.drain = "failing" /\ NoFault
    /\ LET x == ScheduleRetry([rb EXCEPT !.drain = "off"])
       IN  rb' = IF rb.closing = "draining"
                 THEN RejectAll(Disconnect([x EXCEPT !.closing = "failed"]), x.pending) ELSE x

(* connect() of a closed transport rejects. *)
DrainRefused ==
    /\ rb.drain = "refused" /\ NoFault
    /\ rb' = BatchFails(rb)

(* refreshAccessTokenIfNeeded has its token: a new one is sent first and    *)
(* its reply awaited, then the batch goes out.                             *)
Out(x, what, next) ==
    IF CanSend(x, what) THEN SendIt([x EXCEPT !.drain = next], what, 0) ELSE BatchFails(x)
BatchOut(x) == Out(x, "batch", "awaiting")

DrainSends(renewed) ==
    /\ rb.drain = "token" /\ NoFault
    /\ rb' = IF renewed THEN Out(rb, "token", "refreshing") ELSE BatchOut(rb)

DrainTokenFails ==
    /\ rb.drain = "token" /\ Fault
    /\ rb' = BatchFails(rb)

FallbackSettles(ok) ==
    /\ rb.drain = "fallback" /\ Sure(rb)
    /\ IF ok THEN NoFault ELSE Fault
    /\ rb' = IF ok THEN BatchSent(rb) ELSE BatchFails(rb)

(* drainToFallback, one batch at a time, for flushOnExit and close. *)
SpareNext(x, c, done) ==
    IF x.queue = <<>> THEN done
    ELSE LET n == BatchLength(x.queue)
         IN  [x EXCEPT !.spare[c] = SubSeq(x.queue, 1, n), !.queue = SubSeq(@, n + 1, Len(@))]

(* flushOnExit(records): without a fallback it is a flush. *)
Exit(i) ==
    /\ rb.outcome[i] = "new" /\ ~rb.exiting /\ Sure(rb) /\ NoFault
    /\ LET x == Enqueue(rb, i)
       IN  rb' = IF ~x.hasFallback THEN FlushRb(x)
                 ELSE SpareNext([x EXCEPT !.exiting = TRUE], "exit", x)

CloseDrained(x) == [x EXCEPT !.closing = "leave"]

SpareSettles(c, ok) ==
    /\ rb.spare[c] # <<>>
    /\ IF ok THEN NoFault ELSE Fault
    /\ LET x == [rb EXCEPT !.spare[c] = <<>>]
           y == Delivered(x, rb.spare[c])
           z == RestoreBatch(x, rb.spare[c])
       IN  rb' = IF ok THEN SpareNext(y, c, IF c = "exit" THEN [y EXCEPT !.exiting = FALSE]
                                            ELSE CloseDrained(y))
                 ELSE IF c = "exit" THEN [z EXCEPT !.exiting = FALSE, !.exitFailed = TRUE]
                 ELSE RejectAll(Disconnect([z EXCEPT !.closing = "failed"]), z.pending)

(* close(): it drains what is queued, and only that. *)
CloseStarts ==
    /\ rb.closing \in {"no", "failed"} /\ ~rb.closed /\ Sure(rb) /\ NoFault
    /\ LET x == [rb EXCEPT !.accepting = FALSE, !.interval = FALSE, !.retry = FALSE,
                           !.beating = FALSE]
       IN  rb' = IF x.queue = <<>> THEN CloseDrained(x)
                 ELSE IF x.hasFallback THEN SpareNext([x EXCEPT !.closing = "sparing"], "close", x)
                 ELSE FlushRb([x EXCEPT !.closing = "draining"])

CloseLeaves ==
    /\ rb.closing = "leave" /\ NoFault
    /\ rb' = IF CanSend(rb, "leave") THEN SendIt([rb EXCEPT !.closing = "leaving"], "leave", 0)
             ELSE AfterLeave(rb)

(* The fallback has been flushed and closed, or failed to. *)
CloseFinishes(ok) ==
    /\ rb.closing = "finishing"
    /\ IF ok THEN NoFault ELSE rb.hasFallback /\ Fault
    /\ LET x == [rb EXCEPT !.closed = ok, !.closing = IF ok THEN "done" ELSE "failed"]
       IN  rb' = RejectAll(Disconnect(x), rb.pending)

-----------------------------------------------------------------------------
(* The sockets *)

SocketOpensRb(s) ==
    /\ rb.ready[s] = "connecting" /\ NoFault
    /\ rb' = [rb EXCEPT !.ready[s] = "open", !.joining[s] = TRUE]

(* joinChannel has its token, or not: the join goes to the current socket.  *)
JoinSent(s) ==
    /\ rb.joining[s] /\ NoFault
    /\ LET x == [rb EXCEPT !.joining[s] = FALSE]
       IN  rb' = IF CanSend(x, "join") THEN SendIt(x, "join", s) ELSE FinishFails(x, s)

JoinTokenFails(s) ==
    /\ rb.joining[s] /\ Fault
    /\ rb' = FinishFails([rb EXCEPT !.joining[s] = FALSE], s)

ConnectTimesOut(s) ==
    /\ rb.connect[s] = "pending" /\ Fault
    /\ rb' = FinishFails(rb, s)

(* handleMessage: the reply resolves whoever awaits its ref. *)
ReplyOk(p) ==
    /\ rb.ready[p.on] = "open" /\ NoFault
    /\ LET x == [rb EXCEPT !.pending = @ \ {p}]
       IN  rb' = CASE p.what = "join"  -> FinishOk([x EXCEPT !.joined = TRUE, !.beating = TRUE], p.by)
                   [] p.what = "token" -> BatchOut(x)
                   [] p.what = "batch" -> BatchSent(x)
                   [] p.what = "leave" -> AfterLeave(x)
                   [] OTHER            -> x

(* The reply is an error or does not come in time. *)
ReplyFails(p) ==
    /\ Fault
    /\ rb' = Rejected([rb EXCEPT !.pending = @ \ {p}], p)

Beat ==
    /\ rb.beating /\ Open(rb) /\ NoFault
    /\ \A p \in rb.pending : p.what # "beat"
    /\ rb' = SendIt(rb, "beat", 0)

SocketErrs(s) ==
    /\ rb.ready[s] \in {"connecting", "open"} /\ Fault
    /\ rb' = FinishFails([rb EXCEPT !.ready[s] = "closing"], s)

ChannelErrs == Open(rb) /\ Fault /\ rb' = CloseIt(rb, 1011)

(* onclose, of any socket: replies are rejected, the join is void, and a    *)
(* retry is scheduled before the rejections run.                           *)
SocketClosesRb(s) ==
    /\ rb.ready[s] # "closed"
    /\ IF rb.ready[s] = "closing" THEN NoFault ELSE Fault
    /\ LET x == [rb EXCEPT !.ready[s] = "closed", !.pending = {}, !.joined = FALSE,
                           !.beating = FALSE]
       IN  rb' = FinishFails(RejectAll(ScheduleRetry(x), rb.pending), s)

-----------------------------------------------------------------------------
RbNext ==
    \/ \E i \in RbItems : RbWrite(i) \/ Exit(i)
    \/ RbFlush \/ IntervalFires \/ RetryFires
    \/ DrainEnds \/ DrainFails \/ DrainRefused \/ DrainTokenFails
    \/ \E ok \in BOOLEAN : FallbackSettles(ok) \/ CloseFinishes(ok) \/ DrainSends(ok)
    \/ \E c \in Spare, ok \in BOOLEAN : SpareSettles(c, ok)
    \/ CloseStarts \/ CloseLeaves
    \/ \E s \in RbSockets :
          SocketOpensRb(s) \/ JoinSent(s) \/ JoinTokenFails(s) \/ ConnectTimesOut(s)
          \/ SocketErrs(s) \/ SocketClosesRb(s)
    \/ \E p \in rb.pending : ReplyOk(p) \/ ReplyFails(p)
    \/ Beat \/ ChannelErrs

RbSpec == RbInit /\ [][RbNext]_rbVars

-----------------------------------------------------------------------------
(* Properties *)

(* Every field keeps its type, the queue its bound.                        *)
RbTypeOK ==
    /\ Len(rb.queue) <= RbMaxQueue /\ Len(rb.batch) <= RbBatchSize
    /\ rb.outcome \in [RbItems -> {"new", "held", "delivered", "dropped"}]
    /\ rb.drain \in {"off", "connecting", "token", "refreshing", "awaiting", "fallback", "refused",
                     "ending", "failing"}
    /\ rb.ready \in [RbSockets -> {"connecting", "open", "closing", "closed"}]
    /\ rb.socket \in RbSockets \cup {0} /\ rb.connectPromise \in RbSockets \cup {0}
    /\ rb.failures \in 0..RbFallbackAfter /\ rbFaults \in 0..RbMaxFaults
    /\ rb.closing \in {"no", "draining", "sparing", "leave", "leaving", "finishing", "failed", "done"}
    /\ (rb.drain = "awaiting") = (\E p \in rb.pending : p.what = "batch")

(* A batch is in one place: on its way, with the fallback, or back in the   *)
(* queue, however its failure races the drains of flushOnExit and close.    *)
BatchInOnePlace ==
    LET all == rb.queue \o rb.batch \o rb.spare["exit"] \o rb.spare["close"]
    IN  /\ IsInjective(all)
        /\ Range(all) = {i \in RbItems : rb.outcome[i] = "held"}

(* What is queued is on somebody's list: a drain runs or a timer is set,    *)
(* until close() or a flushOnExit whose fallback failed.                   *)
QueueIsOnATimer ==
    rb.queue # <<>> /\ rb.accepting /\ ~rb.exitFailed =>
        rb.drain # "off" \/ rb.interval \/ rb.retry \/ rb.exiting

(* "The queue is already drained; leave acknowledgement is best effort."    *)
(* (supabase-realtime-batch.ts): after a close() that resolved nothing is   *)
(* queued.  A batch in flight is not waited for, and comes back.           *)
CloseDrainsTheQueue == rb.closed => rb.queue = <<>>
=============================================================================
