----------------------------- MODULE RealtimeLegacy -----------------------------
(***************************************************************************)
(* SupabaseRealtimeTransport of src/src/base-logger.ts: a record is sent   *)
(* over a joined Phoenix channel; when there is none the write rejects and *)
(* its message is queued for the next join.                                *)
(*                                                                         *)
(* The methods are operators on the state x of the transport.  A promise   *)
(* settles and its awaiters continue in one step: no other task runs in    *)
(* between.  A closing socket delivers no message (the WebSocket           *)
(* standard), its onclose comes later.  Left out: backoff delays, and the  *)
(* order in which the awaiters of one promise continue.                    *)
(***************************************************************************)
EXTENDS Naturals, Sequences, FiniteSetsExt, Filter, WebSocketApi

CONSTANTS
    RlRecords,     \* records to write
    RlMaxQueue,    \* maxQueueSize
    RlSockets,     \* 1..n: sockets made one after the other
    RlMaxFaults    \* bound: faults of the network and the server

VARIABLES rl, rlFaults
rlVars == <<rl, rlFaults>>

RlCallers == RlRecords \cup {"timer", "flush"}   \* who awaits connect()

RlInit ==
    /\ rl \in [queue : {<<>>}, outcome : {[r \in RlRecords |-> "new"]},
               waits : {[c \in RlCallers |-> 0]},
               ready : {[s \in RlSockets |-> "unborn"]},
               settled : {[s \in RlSockets |-> FALSE]},
               joinSent : {[s \in RlSockets |-> FALSE]},   \* at the server, unanswered
               acks : {{}},         \* broadcasts the server will reply to
               socket : {0}, connectPromise : {0}, joined : {FALSE}, joinRef : {0},
               beating : {FALSE}, timer : {FALSE}, closed : {FALSE}, reconnect : BOOLEAN,
               strict : BOOLEAN]
    /\ rlFaults = 0

RlOpen(x) == x.socket # 0 /\ x.ready[x.socket] = "open"

-----------------------------------------------------------------------------
(* The queue *)

(* enqueue, for each message of s: the oldest makes room. *)
RlEnqueue(x, s) ==
    LET all == x.queue \o s
        over == IF Len(all) > RlMaxQueue THEN Len(all) - RlMaxQueue ELSE 0
        kept == SubSeq(all, over + 1, Len(all))
    IN  [x EXCEPT !.queue = kept,
                  !.outcome = [r \in RlRecords |->
                      IF r \in Range(kept) THEN "queued"
                      ELSE IF r \in Range(all) THEN "dropped" ELSE @[r]]]

(* sendRaw, for each record of R: a message carries the current join.       *)
SendRaw(x, R) ==
    [x EXCEPT !.outcome = [r \in RlRecords |-> IF r \in R THEN "sent" ELSE @[r]],
              !.acks = IF R = {} THEN @ ELSE @ \cup {x.socket}]

(* Mutation of DrainQueue: a message stays queued when it is sent. *)
MutantDrainQueue(x) ==
    IF ~RlOpen(x) \/ ~x.joined THEN x ELSE SendRaw(x, Range(x.queue))

DrainQueue(x) ==
    IF ~RlOpen(x) \/ ~x.joined THEN x
    ELSE [SendRaw(x, Range(x.queue)) EXCEPT !.queue = <<>>]

(* Mutation of ScheduleReconnect: only the first attempt schedules one. *)
MutantScheduleReconnect(x) ==
    IF x.closed \/ ~x.reconnect \/ x.queue = <<>> \/ x.socket > 1 THEN x
    ELSE [x EXCEPT !.timer = TRUE]

ScheduleReconnect(x) ==
    IF x.closed \/ ~x.reconnect \/ x.queue = <<>> THEN x ELSE [x EXCEPT !.timer = TRUE]

-----------------------------------------------------------------------------
(* Those who await connect(): a set C of callers *)

Continue(x, C) == [x EXCEPT !.waits = [c \in RlCallers |-> IF c \in C THEN 0 ELSE @[c]]]
Writers(C) == C \cap RlRecords

(* The catch of each caller. *)
ConnectRejects(x, C) ==
    LET y == Continue(x, C)
    IN  IF C \subseteq {"flush"} THEN y
        ELSE ScheduleReconnect(RlEnqueue(y, InSomeOrder(Writers(C))))

(* The rest of each caller: a write sends, a flush drains. *)
ConnectResolves(x, C) ==
    LET y == Continue(x, C)
        z == IF "flush" \in C THEN DrainQueue(y) ELSE y
    IN  IF RlOpen(y) /\ y.joined THEN SendRaw(z, Writers(C))
        ELSE IF Writers(C) = {} THEN z
        ELSE ScheduleReconnect(RlEnqueue(z, InSomeOrder(Writers(C))))

(* finish() of the connection s, with or without an error.  With one a      *)
(* socket that is still open is closed before the promise is rejected: if   *)
(* close() throws, nobody who awaits the promise goes on any more.          *)
FinishRl(x, s, ok) ==
    IF x.settled[s] THEN x
    ELSE LET y == [x EXCEPT !.settled[s] = TRUE, !.connectPromise = 0]
             awaiting == {c \in RlCallers : x.waits[c] = s}
             alive == x.ready[s] \in {"connecting", "open"}
         IN  IF ok THEN ConnectResolves(y, awaiting)
             ELSE IF ~alive THEN ConnectRejects(y, awaiting)
             ELSE IF ~MayClose(x.strict, 1011) THEN y
             ELSE ConnectRejects([y EXCEPT !.ready[s] = "closing"], awaiting)

Unborn(x) == {s \in RlSockets : x.ready[s] = "unborn"}

(* connect() called by c; born: the factory returned a socket. *)
ConnectRl(x, c, born) ==
    IF x.closed THEN ConnectRejects(x, {c})
    ELSE IF RlOpen(x) /\ x.joined THEN ConnectResolves(x, {c})
    ELSE IF x.connectPromise # 0 THEN [x EXCEPT !.waits[c] = x.connectPromise]
    ELSE IF ~born THEN ConnectRejects(x, {c})
    ELSE LET s == Min(Unborn(x))
         IN  [x EXCEPT !.waits[c] = s, !.connectPromise = s, !.socket = s,
                       !.joined = FALSE, !.joinRef = 0, !.ready[s] = "connecting"]

-----------------------------------------------------------------------------
(* Callers and timers *)

RlFault == rlFaults < RlMaxFaults /\ rlFaults' = rlFaults + 1
RlNoFault == UNCHANGED rlFaults

(* A call that makes a socket needs one left; making it may fail. *)
Calls(x, c) ==
    \E born \in BOOLEAN :
        /\ IF born THEN RlNoFault /\ Unborn(x) # {} ELSE RlFault
        /\ rl' = ConnectRl(x, c, born)

WriteRl(r) ==
    /\ rl.outcome[r] = "new"
    /\ Calls([rl EXCEPT !.outcome[r] = "waiting"], r)

(* No call of c awaits a connection that can still settle. *)
Idle(c) == rl.waits[c] # 0 => rl.settled[rl.waits[c]]

FlushRl ==
    /\ rl.queue # <<>> /\ Idle("flush")
    /\ Calls(rl, "flush")

ReconnectFires ==
    /\ rl.timer /\ Idle("timer")
    /\ Calls([rl EXCEPT !.timer = FALSE], "timer")

(* close(): the queue stays as it is. *)
CloseRl ==
    /\ ~rl.closed /\ RlNoFault
    /\ LET x == [rl EXCEPT !.closed = TRUE, !.timer = FALSE, !.beating = FALSE,
                           !.joined = FALSE, !.joinRef = 0, !.socket = 0]
       IN  rl' = IF rl.socket = 0 \/ rl.ready[rl.socket] = "closed" THEN x
                 ELSE [x EXCEPT !.ready[rl.socket] = "closing"]

-----------------------------------------------------------------------------
(* The sockets *)

(* onopen: the join is sent on the socket itself. *)
OpensRl(s) ==
    /\ rl.ready[s] = "connecting" /\ RlNoFault
    /\ rl' = [rl EXCEPT !.ready[s] = "open", !.joinRef = s, !.joinSent[s] = TRUE]

(* onmessage: any ok reply on the topic is taken for the join's, that of a  *)
(* broadcast too (acks are requested).                                     *)
TakesOk(x, s) ==
    FinishRl(DrainQueue([x EXCEPT !.joined = TRUE, !.timer = FALSE, !.beating = TRUE]), s, TRUE)

JoinOk(s) ==
    /\ rl.joinSent[s] /\ rl.ready[s] = "open" /\ RlNoFault
    /\ rl' = TakesOk([rl EXCEPT !.joinSent[s] = FALSE], s)

BroadcastOk(s) ==
    /\ s \in rl.acks /\ rl.ready[s] = "open" /\ RlNoFault
    /\ rl' = TakesOk([rl EXCEPT !.acks = @ \ {s}], s)

JoinError(s) ==
    /\ rl.joinSent[s] /\ rl.ready[s] = "open" /\ RlFault
    /\ LET x == [rl EXCEPT !.joinSent[s] = FALSE]
       IN  rl' = IF rl.joined THEN x ELSE FinishRl(x, s, FALSE)

(* phx_error or phx_close on the topic; the handler swallows a throw. *)
ChannelError(s) ==
    /\ rl.ready[s] = "open" /\ RlFault
    /\ rl' = IF MayClose(rl.strict, 1011) THEN [rl EXCEPT !.ready[s] = "closing"] ELSE rl

(* onerror: the socket is past open by then, its onclose follows. *)
ErrsRl(s) ==
    /\ rl.ready[s] \in {"connecting", "open"} /\ RlFault
    /\ rl' = FinishRl([rl EXCEPT !.ready[s] = "closing"], s, FALSE)

(* The connect timeout. *)
TimesOutRl(s) ==
    /\ rl.ready[s] # "unborn" /\ ~rl.settled[s] /\ RlFault
    /\ rl' = FinishRl(rl, s, FALSE)

(* Mutation of ClosesRl: a close before the join settles nothing. *)
MutantClosesRl(s) ==
    /\ rl.ready[s] \in {"connecting", "open", "closing"}
    /\ IF rl.ready[s] = "closing" THEN RlNoFault ELSE RlFault
    /\ LET x == [rl EXCEPT !.ready[s] = "closed", !.joined = FALSE, !.joinRef = 0]
       IN  rl' = ScheduleReconnect(x)

(* onclose, of whichever socket: the channel counts as left. *)
ClosesRl(s) ==
    /\ rl.ready[s] \in {"connecting", "open", "closing"}
    /\ IF rl.ready[s] = "closing" THEN RlNoFault ELSE RlFault
    /\ LET x == [rl EXCEPT !.ready[s] = "closed", !.joined = FALSE, !.joinRef = 0,
                           !.beating = FALSE]
       IN  rl' = ScheduleReconnect(FinishRl(x, s, FALSE))

-----------------------------------------------------------------------------
RlNext ==
    \/ \E r \in RlRecords : WriteRl(r)
    \/ FlushRl \/ ReconnectFires \/ CloseRl
    \/ \E s \in RlSockets :
          OpensRl(s) \/ JoinOk(s) \/ BroadcastOk(s) \/ JoinError(s) \/ ChannelError(s)
          \/ ErrsRl(s) \/ TimesOutRl(s) \/ ClosesRl(s)

RlSpec == RlInit /\ [][RlNext]_rlVars

-----------------------------------------------------------------------------
(* Properties *)

(* The fields keep their types, the queue its bound.                       *)
RlTypeOK ==
    /\ Len(rl.queue) <= RlMaxQueue
    /\ rl.outcome \in [RlRecords -> {"new", "waiting", "queued", "sent", "dropped"}]
    /\ rl.ready \in [RlSockets -> {"unborn", "connecting", "open", "closing", "closed"}]
    /\ rl.waits \in [RlCallers -> RlSockets \cup {0}]
    /\ {rl.socket, rl.connectPromise, rl.joinRef} \subseteq RlSockets \cup {0}
    /\ rlFaults \in 0..RlMaxFaults

(* A record a write has taken is in one place: the write awaits a connect() *)
(* that settles at the latest when its socket closes, the message is queued *)
(* once, or it was sent.  Where close() throws for the code 1011 the write  *)
(* may be left with a connect() that has ended without settling.            *)
OnePlaceEach ==
    /\ IsInjective(rl.queue)
    /\ Range(rl.queue) = {r \in RlRecords : rl.outcome[r] = "queued"}
    /\ \A r \in RlRecords :
        /\ (rl.outcome[r] = "waiting") = (rl.waits[r] # 0)
        /\ rl.waits[r] # 0 =>
              IF rl.settled[rl.waits[r]] THEN rl.strict ELSE rl.ready[rl.waits[r]] # "closed"

(* What is queued has somebody to send it: a reconnect is set or under way, *)
(* or a socket is left whose end sets one (an ok reply on an orphaned       *)
(* socket may cancel the reconnect).                                       *)
QueueIsAwaited ==
    rl.queue # <<>> /\ ~rl.closed /\ rl.reconnect =>
        \/ rl.timer \/ rl.connectPromise # 0
        \/ \E s \in RlSockets : rl.ready[s] \in {"connecting", "open", "closing"}

(* The heartbeat runs while the channel counts as joined. *)
JoinedBeats == rl.joined => rl.beating

(* A write settles: nobody awaits a connect() that has ended. It does not   *)
(* hold on a standard WebSocket: finish() calls close(1011), which throws   *)
(* before the promise is rejected (base-logger.ts).                        *)
WritesSettle == \A r \in RlRecords : rl.waits[r] # 0 => ~rl.settled[rl.waits[r]]
=============================================================================
