---------------------------------- MODULE Loki ----------------------------------
(***************************************************************************)
(* LokiTransport (src/src/loki.ts): write() returns a promise per record;  *)
(* one push at a time takes a batch, retries it, settles its promises and  *)
(* starts the next; flushOnExit() and close() wait until nothing is left.  *)
(*                                                                         *)
(* Methods are operators on the state x of the transport.  URL, label and  *)
(* timestamp syntax and delays are left out.                               *)
(***************************************************************************)
EXTENDS Naturals, Sequences, SequencesExt, FiniteSetsExt, Filter

CONSTANTS
    LkRecords,       \* numbers: the records, written in this order
    LkStreams,       \* the records of each streamKey: service, runtime, level,
                     \* static labels
    LkBatchSize, LkMaxQueue, LkMaxRetries,   \* options of the same names
    LkMaxFaults      \* bound: pushes that fail

VARIABLES lk, lkFaults
lkVars == <<lk, lkFaults>>

LkExits == {"exit", "close"}

LkInit ==
    /\ lk = [queue |-> <<>>, batch |-> <<>>, attempt |-> 0, sleeping |-> FALSE,
             outcome |-> [r \in LkRecords |-> "new"], timer |-> FALSE, closed |-> FALSE,
             exiting |-> {},
             stored |-> [S \in LkStreams |-> <<>>]] \* Loki's streams
    /\ lkFaults = 0

MaxQueue == IF LkMaxQueue < LkBatchSize THEN LkBatchSize ELSE LkMaxQueue

Settle(x, R, how) == [x EXCEPT !.outcome = [r \in LkRecords |-> IF r \in R THEN how ELSE @[r]]]

ScheduleFlushLk(x) == [x EXCEPT !.timer = @ \/ ~x.closed]

(* flush(): the next batch, unless one is under way. *)
FlushLk(x) ==
    IF x.batch # <<>> THEN x
    ELSE LET n == Min({LkBatchSize, Len(x.queue)})
         IN  [x EXCEPT !.timer = FALSE, !.attempt = 0,
                       !.batch = SubSeq(x.queue, 1, n), !.queue = SubSeq(@, n + 1, Len(@))]

(* Mutation of Finally: what is queued behind the batch is left alone.      *)
MutantFinally(x) == [x EXCEPT !.batch = <<>>, !.sleeping = FALSE]

(* finally: the promise is cleared and the rest of the queue follows.       *)
Finally(x) == FlushLk([x EXCEPT !.batch = <<>>, !.sleeping = FALSE])

(* The loops of flushOnExit and close go round, or are left.               *)
ExitsResume(x, failed) ==
    [x EXCEPT !.exiting = IF failed \/ x.batch = <<>> THEN {} ELSE @]

(* buildPayload: a record joins the stream of its labels, in order. *)
Stored(st, b) == [S \in LkStreams |-> st[S] \o Without(b, LkRecords \ S)]

Accepts(x) == [x EXCEPT !.stored = Stored(@, x.batch)]

-----------------------------------------------------------------------------
LkFault == lkFaults < LkMaxFaults /\ lkFaults' = lkFaults + 1
LkNoFault == UNCHANGED lkFaults

(* write(): the oldest waiting record makes room, its promise rejects.      *)
WriteLk(r) ==
    /\ lk.outcome[r] = "new" /\ \A q \in LkRecords : q < r => lk.outcome[q] # "new"
    /\ LkNoFault
    /\ LET full == Len(lk.queue) >= MaxQueue
           x == [(IF full THEN Settle(lk, {Head(lk.queue)}, "rejected") ELSE lk) EXCEPT
                    !.queue = Append(IF full THEN Tail(@) ELSE @, r), !.outcome[r] = "open"]
       IN  lk' = IF lk.closed THEN Settle(lk, {r}, "rejected")
                 ELSE IF Len(x.queue) >= LkBatchSize THEN FlushLk(x) ELSE ScheduleFlushLk(x)

TimerFiresLk == lk.timer /\ LkNoFault /\ lk' = FlushLk([lk EXCEPT !.timer = FALSE])

FlushCalled == lk.queue # <<>> /\ LkNoFault /\ lk' = FlushLk(lk)

(* The push is accepted: the promises resolve. *)
PushOk ==
    /\ lk.batch # <<>> /\ ~lk.sleeping /\ LkNoFault
    /\ lk' = ExitsResume(Finally(Settle(Accepts(lk), ToSet(lk.batch), "resolved")), FALSE)

(* Mutation of PushFails: one attempt too many. *)
MutantPushFails(final) ==
    /\ lk.batch # <<>> /\ ~lk.sleeping /\ LkFault
    /\ \E x \in {lk, Accepts(lk)} :
          lk' = IF (final /\ x = lk) \/ x.attempt > LkMaxRetries
                THEN ExitsResume(Finally(Settle(x, ToSet(x.batch), "rejected")), TRUE)
                ELSE [x EXCEPT !.sleeping = TRUE, !.attempt = @ + 1]

(* It fails, perhaps only for the client: after maxRetries, or a status that *)
(* is final, the promises reject.                                           *)
PushFails(final) ==
    /\ lk.batch # <<>> /\ ~lk.sleeping /\ LkFault
    /\ \E x \in {lk, Accepts(lk)} :
          lk' = IF (final /\ x = lk) \/ x.attempt >= LkMaxRetries
                THEN ExitsResume(Finally(Settle(x, ToSet(x.batch), "rejected")), TRUE)
                ELSE [x EXCEPT !.sleeping = TRUE, !.attempt = @ + 1]

SleepEnds == lk.sleeping /\ LkNoFault /\ lk' = [lk EXCEPT !.sleeping = FALSE]

(* flushOnExit(), and close(), which stops the writes first. *)
ExitLk(e) ==
    /\ e = "close" => ~lk.closed
    /\ LkNoFault
    /\ LET x == [lk EXCEPT !.closed = @ \/ e = "close"]
       IN  lk' = IF x.batch = <<>> /\ x.queue = <<>> THEN [x EXCEPT !.timer = @ /\ e # "close"]
                 ELSE FlushLk([x EXCEPT !.exiting = @ \cup {e}])

LkNext ==
    \/ \E r \in LkRecords : WriteLk(r)
    \/ TimerFiresLk \/ FlushCalled \/ PushOk \/ SleepEnds
    \/ \E final \in BOOLEAN : PushFails(final)
    \/ \E e \in LkExits : ExitLk(e)

(* A request is bounded by its timeout, a timer fires.                     *)
LkFair == WF_lkVars(PushOk \/ \E final \in BOOLEAN : PushFails(final))
          /\ WF_lkVars(SleepEnds) /\ WF_lkVars(TimerFiresLk)

LkSpec == LkInit /\ [][LkNext]_lkVars
LkFairSpec == LkSpec /\ LkFair

-----------------------------------------------------------------------------
(* Properties *)

(* The fields keep their types, queue, batch and attempts their bounds.    *)
LkTypeOK ==
    /\ Len(lk.queue) <= MaxQueue /\ Len(lk.batch) <= LkBatchSize
    /\ lk.attempt \in 0..LkMaxRetries /\ lk.exiting \subseteq LkExits
    /\ lk.outcome \in [LkRecords -> {"new", "open", "resolved", "rejected"}]
    /\ lkFaults \in 0..LkMaxFaults

(* A promise is open exactly while its record is queued or pushed, and a    *)
(* queue nobody pushes has its timer.                                      *)
OpenIsUnderWay ==
    /\ \A r \in LkRecords : (lk.outcome[r] = "open") = Contains(lk.queue \o lk.batch, r)
    /\ lk.queue # <<>> => lk.timer \/ lk.batch # <<>>

(* Loki refuses entries older than a stream's last: what is stored first    *)
(* for each record, repeats aside, is in the order of the writes.          *)
StreamsInOrder ==
    \A S \in LkStreams :
        LET q == lk.stored[S]
            first(i) == \A j \in 1..(i - 1) : q[j] # q[i]
        IN  \A i, j \in DOMAIN q : i < j /\ first(i) /\ first(j) => q[i] < q[j]

(* Every promise settles, and so do flushOnExit() and close().             *)
EveryPromiseSettles ==
    /\ \A r \in LkRecords : lk.outcome[r] = "open" ~> lk.outcome[r] # "open"
    /\ \A e \in LkExits : e \in lk.exiting ~> e \notin lk.exiting
=============================================================================
