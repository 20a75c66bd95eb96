------------------------------ MODULE RealtimeAck ------------------------------
(***************************************************************************)
(* SupabaseRealtimeAckTransport (src/src/supabase-realtime.ts): records    *)
(* queue, go out on a joined Phoenix channel and wait there for the reply  *)
(* to their own ref; what is not acknowledged comes back to the queue.     *)
(*                                                                         *)
(* The transport calls itself deeply (a reply pumps, a pump retries, a     *)
(* retry closes the socket and schedules a reconnect), so its methods are  *)
(* operators from a state of the transport `x` to the next one, and an     *)
(* event of the environment applies them to the variable ra.               *)
(*                                                                         *)
(* Refs are unique: a join is named by its socket, and a broadcast by its  *)
(* record, since a late reply to an earlier ref is ignored.  Tokens, their *)
(* refresh on a live channel, delays and the counters of snapshot() are    *)
(* left out.                                                               *)
(***************************************************************************)
EXTENDS Naturals, Sequences, Functions, Filter, WebSocketApi

CONSTANTS
    RaRecords,      \* records to write, and
    RaOversized,    \* those above maxRecordBytes
    RaFlushes,      \* calls of flush(), and the pages' that nobody awaits
    RaMaxQueue,     \* maxQueueSize
    RaMaxInFlight,  \* maxInFlight
    RaMaxAttempts,  \* maxAttempts
    RaMaxTries,     \* maxReconnectAttempts
    RaSockets,      \* 1..n: sockets alive at a time
    RaMaxFaults     \* bound: faults of the network, the server and tokens

VARIABLES ra, raFaults
raVars == <<ra, raFaults>>

Closer == "close"              \* the flush() that performClose awaits
RaCalls == RaFlushes \cup {Closer}

RaInit ==
    /\ ra \in [queue : {<<>>}, inFlight : {<<>>},
               attempts : {[r \in RaRecords |-> 0]},
               sentOn : {[r \in RaRecords |-> 0]},
               outcome : {[r \in RaRecords |-> "new"]},
               ready : {[s \in RaSockets |-> "closed"]},
               join : {[s \in RaSockets |-> "none"]},
               socket : {0}, joined : {FALSE}, joinRef : {0},
               connectTask : {"none"}, opening : {0}, reconnect : BOOLEAN,
               timer : {FALSE}, tries : {0}, heartbeat : {"off"},
               accepting : {TRUE}, closed : {FALSE}, strict : BOOLEAN,
               flush : {[c \in RaCalls |-> "idle"]}]
    /\ raFaults = 0

IsIdle(x) == x.queue = <<>> /\ x.inFlight = <<>>
Joined(x) == x.socket # 0 /\ x.ready[x.socket] = "open" /\ x.joined

-----------------------------------------------------------------------------
(* The methods *)

(* notifyIdle: the flushes that wait resolve when nothing is left. *)
NotifyIdle(x) ==
    IF ~IsIdle(x) THEN x
    ELSE [x EXCEPT !.flush = [c \in RaCalls |-> IF @[c] = "waiting" THEN "resolved" ELSE @[c]]]

(* drop, for each record of R. *)
DropAll(x, R) ==
    [x EXCEPT !.outcome = [r \in RaRecords |-> IF r \in R THEN "dropped" ELSE @[r]]]

(* closeSocket: a close() that throws is swallowed, and the socket stays as  *)
(* it is, open and joined.                                                 *)
CloseSocket(x, code) ==
    IF x.socket = 0 \/ ~MayClose(x.strict, code) THEN x
    ELSE [x EXCEPT !.ready[x.socket] = IF @ = "closed" THEN @ ELSE "closing"]

(* Mutation of RestoreInFlight: the window is cleared, not put back. *)
MutantRestoreInFlight(x) ==
    NotifyIdle([x EXCEPT !.inFlight = <<>>])

(* restoreInFlight: back to the head of the queue, in order, unless spent. *)
RestoreInFlight(x) ==
    LET spent == {r \in Range(x.inFlight) : x.attempts[r] >= RaMaxAttempts}
        back == Without(x.inFlight, spent)
    IN  NotifyIdle([DropAll(x, spent) EXCEPT !.inFlight = <<>>, !.queue = back \o @])

FailPending(x) ==
    LET y == RestoreInFlight(x)
    IN  NotifyIdle([DropAll(y, Range(y.queue)) EXCEPT !.queue = <<>>])

ScheduleReconnect(x) ==
    IF x.closed \/ ~x.reconnect \/ x.timer \/ IsIdle(x) THEN x
    ELSE IF x.tries >= RaMaxTries THEN FailPending(x)
    ELSE [x EXCEPT !.tries = @ + 1, !.timer = TRUE]

(* pump: fill the window from the queue.  A send that throws takes the way  *)
(* of an acknowledgement that times out.                                   *)
Pump(x) ==
    IF ~Joined(x) \/ x.closed THEN x
    ELSE LET room == RaMaxInFlight - Len(x.inFlight)
             n == IF room < Len(x.queue) THEN room ELSE Len(x.queue)
             batch == SubSeq(x.queue, 1, n)
         IN  [x EXCEPT !.queue = SubSeq(@, n + 1, Len(@)),
                       !.inFlight = @ \o batch,
                       !.attempts = [r \in RaRecords |->
                           IF r \in Range(batch) THEN @[r] + 1 ELSE @[r]],
                       !.sentOn = [r \in RaRecords |->
                           IF r \in Range(batch) THEN x.socket ELSE @[r]]]

(* retry, for a record that has just left inFlight. *)
Retry(x, r) ==
    IF x.attempts[r] >= RaMaxAttempts
    THEN Pump(NotifyIdle(DropAll(x, {r})))
    ELSE ScheduleReconnect(CloseSocket([x EXCEPT !.queue = <<r>> \o @], 1011))

(* kick, and connect() when it has to open a channel: a task that is under  *)
(* way is joined.                                                          *)
Kick(x) ==
    IF x.closed \/ x.timer \/ IsIdle(x) THEN x
    ELSE IF Joined(x) THEN Pump(x)
    ELSE [x EXCEPT !.connectTask = IF @ = "none" THEN "token" ELSE @]

(* The rejection of open(), as kick handles it. *)
OpenFails(x) ==
    LET y == [x EXCEPT !.connectTask = "none", !.opening = 0]
    IN  IF x.reconnect THEN ScheduleReconnect(y) ELSE FailPending(y)

FinishError(x, s) == IF x.opening = s THEN OpenFails(x) ELSE x

BeginFlush(x, c) ==
    IF IsIdle(x) THEN [x EXCEPT !.flush[c] = "resolved"]
    ELSE Kick([x EXCEPT !.flush[c] = "waiting", !.timer = FALSE])

-----------------------------------------------------------------------------
(* Callers, the page and timers *)

Write(r) ==
    /\ ra.outcome[r] = "new"
    /\ ra' = IF ~ra.accepting \/ ra.closed \/ r \in RaOversized \/ RaMaxQueue = 0
             THEN DropAll(ra, {r})
             ELSE LET over == IF Len(ra.queue) < RaMaxQueue THEN 0
                              ELSE Len(ra.queue) - RaMaxQueue + 1
                      x == DropAll(ra, Range(SubSeq(ra.queue, 1, over)))
                  IN  Kick([x EXCEPT !.queue = Append(SubSeq(@, over + 1, Len(@)), r),
                                     !.outcome[r] = "pending"])
    /\ UNCHANGED raFaults

(* flush(), by a caller or because the page hides or freezes. *)
Flush(c) ==
    /\ ra.flush[c] = "idle"
    /\ ra' = BeginFlush(ra, c)
    /\ UNCHANGED raFaults

(* The page is online, focused or visible again: the backoff starts over.  *)
Resume(c) ==
    /\ ra.flush[c] = "idle"
    /\ ~ra.closed /\ ~IsIdle(ra)
    /\ ra' = BeginFlush([ra EXCEPT !.tries = 0], c)
    /\ UNCHANGED raFaults

FlushTimesOut(c) ==
    /\ ra.flush[c] = "waiting"
    /\ ra' = [ra EXCEPT !.flush[c] = "rejected"]
    /\ UNCHANGED raFaults

ReconnectTimerFires ==
    /\ ra.timer
    /\ ra' = Kick([ra EXCEPT !.timer = FALSE])
    /\ UNCHANGED raFaults

RefreshAuth ==
    /\ ~ra.closed /\ raFaults < RaMaxFaults
    /\ raFaults' = raFaults + 1
    /\ ra' = IF ra.socket # 0 THEN CloseSocket(ra, 4000) ELSE Kick(ra)

(* close(): performClose up to its flush. *)
CloseBegins ==
    /\ ra.flush[Closer] = "idle"
    /\ ra' = BeginFlush([ra EXCEPT !.accepting = FALSE, !.timer = FALSE], Closer)
    /\ UNCHANGED raFaults

(* Mutation of CloseEnds: what is still pending is forgotten. *)
MutantCloseEnds ==
    /\ ra.flush[Closer] \in {"resolved", "rejected"} /\ ~ra.closed
    /\ ra' = [CloseSocket([ra EXCEPT !.closed = TRUE, !.heartbeat = "off"], 1000)
                 EXCEPT !.socket = 0, !.joined = FALSE]
    /\ UNCHANGED raFaults

(* The flush has settled: whatever is left is dropped, the channel closed.  *)
CloseEnds ==
    /\ ra.flush[Closer] \in {"resolved", "rejected"} /\ ~ra.closed
    /\ ra' = [CloseSocket(FailPending([ra EXCEPT !.closed = TRUE, !.heartbeat = "off"]), 1000)
                 EXCEPT !.socket = 0, !.joined = FALSE,
                        !.flush = [c \in RaCalls |-> IF @[c] = "waiting" THEN "rejected" ELSE @[c]]]
    /\ UNCHANGED raFaults

-----------------------------------------------------------------------------
(* The channel *)

Fault == raFaults < RaMaxFaults /\ raFaults' = raFaults + 1

(* open() has its token and creates a socket, or fails. *)
TokenArrives ==
    /\ ra.connectTask = "token"
    /\ \E s \in RaSockets :
          /\ ra.ready[s] = "closed" /\ ra.socket # s
          /\ ra' = [ra EXCEPT !.connectTask = "joining", !.opening = s, !.socket = s,
                              !.ready[s] = "connecting", !.join[s] = "none",
                              !.joined = FALSE, !.joinRef = 0]
    /\ UNCHANGED raFaults

TokenFails ==
    /\ ra.connectTask = "token" /\ Fault
    /\ ra' = OpenFails(ra)

(* The join takes too long: the task fails, the socket stays as it is.      *)
JoinTimesOut ==
    /\ ra.connectTask = "joining" /\ Fault
    /\ ra' = OpenFails(ra)

SocketOpens(s) ==
    /\ ra.ready[s] = "connecting"
    /\ ra' = [ra EXCEPT !.ready[s] = "open", !.joinRef = s, !.join[s] = "sent"]
    /\ UNCHANGED raFaults

(* The reply to the join of s, if it is the join the transport waits for.  *)
JoinAccepted(s) ==
    /\ ra.ready[s] = "open" /\ ra.join[s] = "sent"
    /\ LET x == [ra EXCEPT !.join[s] = "accepted"]
           y == [x EXCEPT !.joined = TRUE, !.tries = 0, !.timer = FALSE, !.heartbeat = "idle",
                          !.connectTask = IF x.opening = s THEN "none" ELSE @,
                          !.opening = IF @ = s THEN 0 ELSE @]
       IN  ra' = IF ra.joinRef = s THEN Pump(y) ELSE x
    /\ UNCHANGED raFaults

JoinRejected(s) ==
    /\ ra.ready[s] = "open" /\ ra.join[s] = "sent" /\ Fault
    /\ LET x == [ra EXCEPT !.join[s] = "rejected"]
       IN  ra' = IF ra.joinRef = s THEN FinishError(CloseSocket(x, 1008), s) ELSE x

(* The reply to a broadcast, matched by its ref. *)
Taken(x, r) == [x EXCEPT !.inFlight = Without(@, {r})]

BroadcastAcked(r) ==
    /\ r \in Range(ra.inFlight) /\ ra.ready[ra.sentOn[r]] = "open"
    /\ ra.join[ra.sentOn[r]] = "accepted"
    /\ ra' = Pump(NotifyIdle([Taken(ra, r) EXCEPT !.outcome[r] = "acked"]))
    /\ UNCHANGED raFaults

BroadcastRejected(r) ==
    /\ r \in Range(ra.inFlight) /\ ra.ready[ra.sentOn[r]] = "open" /\ Fault
    /\ ra' = Retry(Taken(ra, r), r)

AckTimesOut(r) ==
    /\ r \in Range(ra.inFlight) /\ Fault
    /\ ra' = Retry(Taken(ra, r), r)

HeartbeatSent ==
    /\ ra.heartbeat = "idle" /\ Joined(ra)
    /\ ra' = [ra EXCEPT !.heartbeat = "awaited"]
    /\ UNCHANGED raFaults

HeartbeatAcked ==
    /\ ra.heartbeat = "awaited"
    /\ ra' = [ra EXCEPT !.heartbeat = "idle"]
    /\ UNCHANGED raFaults

(* No acknowledgement in time, or the send threw. *)
HeartbeatFails ==
    /\ ra.heartbeat = "awaited" /\ Fault
    /\ ra' = CloseSocket([ra EXCEPT !.heartbeat = "idle"], 1011)

(* onerror: it closes the current socket, whichever failed.  onclose follows.*)
SocketFails(s) ==
    /\ ra.ready[s] \in {"connecting", "open"} /\ Fault
    /\ LET x == CloseSocket([ra EXCEPT !.ready[s] = "closing"], 1011)
       IN  ra' = IF ra.joined THEN x ELSE FinishError(x, s)

(* The server's phx_error or phx_close. *)
ChannelFails(s) ==
    /\ ra.ready[s] = "open" /\ Fault
    /\ ra' = CloseSocket(ra, 1011)

SocketCloses(s) ==
    /\ ra.ready[s] # "closed"
    /\ IF ra.ready[s] = "closing" THEN UNCHANGED raFaults ELSE Fault
    /\ LET gone == [ra EXCEPT !.ready[s] = "closed"]
           x == RestoreInFlight([gone EXCEPT !.socket = 0, !.joined = FALSE,
                                             !.joinRef = 0, !.heartbeat = "off"])
           y == IF x.reconnect THEN ScheduleReconnect(x) ELSE FailPending(x)
       IN  ra' = FinishError(IF ra.socket = s THEN y ELSE gone, s)

-----------------------------------------------------------------------------
RaNext ==
    \/ \E r \in RaRecords :
          Write(r) \/ BroadcastAcked(r) \/ BroadcastRejected(r) \/ AckTimesOut(r)
    \/ \E c \in RaFlushes : Flush(c) \/ Resume(c)
    \/ \E c \in RaCalls : FlushTimesOut(c)
    \/ ReconnectTimerFires \/ RefreshAuth \/ CloseBegins \/ CloseEnds
    \/ TokenArrives \/ TokenFails \/ JoinTimesOut
    \/ \E s \in RaSockets :
          SocketOpens(s) \/ JoinAccepted(s) \/ JoinRejected(s) \/ SocketFails(s)
          \/ ChannelFails(s) \/ SocketCloses(s)
    \/ HeartbeatSent \/ HeartbeatAcked \/ HeartbeatFails

RaSpec == RaInit /\ [][RaNext]_raVars

-----------------------------------------------------------------------------
(* Properties *)

(* Every field keeps its type, and the window its size.                    *)
RaTypeOK ==
    /\ Len(ra.queue) <= RaMaxQueue + RaMaxInFlight /\ Len(ra.inFlight) <= RaMaxInFlight
    /\ ra.attempts \in [RaRecords -> 0..RaMaxAttempts]
    /\ ra.outcome \in [RaRecords -> {"new", "pending", "acked", "dropped"}]
    /\ ra.ready \in [RaSockets -> {"connecting", "open", "closing", "closed"}]
    /\ ra.socket \in RaSockets \cup {0} /\ ra.joinRef \in RaSockets \cup {0}
    /\ ra.opening \in RaSockets \cup {0} /\ (ra.opening # 0) = (ra.connectTask = "joining")
    /\ ra.tries \in 0..RaMaxTries /\ raFaults \in 0..RaMaxFaults
    /\ ra.heartbeat \in {"off", "idle", "awaited"}
    /\ ra.flush \in [RaCalls -> {"idle", "waiting", "resolved", "rejected"}]

(* "retains a record until the server replies to its exact Phoenix ref"     *)
(* (docs/supabase-ingest.md): through lost sockets, retries, overflow and   *)
(* close() an undecided record is held once, and a decided one nowhere.    *)
HeldExactlyOnce ==
    LET held == ra.queue \o ra.inFlight
    IN  /\ IsInjective(held)
        /\ Range(held) = {r \in RaRecords : ra.outcome[r] = "pending"}

(* A flush waits only while something is left to wait for, and close()      *)
(* leaves nothing behind, however the channel's late events fall.          *)
NobodyForgotten ==
    /\ (\E c \in RaCalls : ra.flush[c] = "waiting") => ~IsIdle(ra)
    /\ ra.closed => IsIdle(ra)

(* Something is set or under way that will look at the queue. *)
UnderWay ==
    \/ ra.timer \/ ra.connectTask # "none" \/ ra.inFlight # <<>>
    \/ ra.socket # 0 /\ ra.ready[ra.socket] = "closing"

(* The transport counts as joined because the socket it uses has joined.  A *)
(* socket it had given up may join late, and is taken for the current one. *)
JoinIsCurrent ==
    ra.socket # 0 /\ ra.joinRef = ra.socket /\ ra.join[ra.socket] = "accepted"

(* "onclose or a later retry repairs state" (supabase-realtime.ts), where   *)
(* it does: what is queued is under way, unless the channel is the late    *)
(* join of a socket given up, or a close() that throws meets a transport    *)
(* that does not reconnect.                                                *)
QueuedIsUnderWay ==
    /\ ra.queue # <<>> /\ ~ra.closed
    /\ ra.joined => JoinIsCurrent
    /\ ra.strict => ra.reconnect
    => UnderWay

(* The same without the exceptions does not hold: after a retry whose       *)
(* close(1011) threw, reconnect off, nothing is armed until the next write. *)
LaterRetryRepairs == ra.queue # <<>> /\ ~ra.closed => UnderWay
=============================================================================
