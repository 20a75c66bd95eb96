------------------------------- MODULE HttpIngest -------------------------------
(***************************************************************************)
(* SupabaseIngestTransport (src/src/supabase-ingest/transport.ts): records *)
(* are queued, cut into one pending batch at a time, and posted until the  *)
(* server acknowledges that batch or refuses it.  flush() runs one drain;  *)
(* flushOnExit() and close() wait for it and then run a drain of their own *)
(* beside whatever flush() starts next.                                    *)
(*                                                                         *)
(* The methods are operators on the state x of the transport.  A batch is  *)
(* its sequence of records: each one has its own batchId.  Tokens, delays, *)
(* counters and callbacks are left out; so is a batchIdFactory that fails. *)
(***************************************************************************)
EXTENDS Naturals, Sequences, FiniteSetsExt

CONSTANTS
    HiRecords,     \* records to write,
    HiTooLarge,    \* those above maxRecordBytes,
    HiHeavy,       \* those that fill a batch alone, and
    HiExitHeavy,   \* those that fill a batch of the exit budget alone
    HiBatchSize, HiMaxQueue,   \* options of the same names
    HiMaxFaults    \* bound: answers that are lost, late, or refusals

VARIABLES hi, hiFaults
hiVars == <<hi, hiFaults>>

Exits == {"exit", "close"}        \* flushOnExit() and close()
Drains == Exits \cup {"flush"}

HiInit ==
    /\ hi \in [queue : {<<>>}, batch : {<<>>},      \* pendingBatch
               outcome : {[r \in HiRecords |-> "new"]}, committed : {{}},
               refused : {{}},       \* history: records of posts the server refused
               posting : {[d \in Drains |-> <<>>]}, \* the batch each drain awaits
               exitPc : {[e \in Exits |-> "off"]},
               retrying : {FALSE},   \* a caller of the flush retries its failure
               interval : {FALSE}, retry : {FALSE}, awaitDelivery : BOOLEAN,
               accepting : {TRUE}, closed : {FALSE},
               given : {FALSE}]      \* history: a drain failed and nobody retries it
    /\ hiFaults = 0

HasData(x) == x.batch # <<>> \/ x.queue # <<>>

-----------------------------------------------------------------------------
(* The queue *)

Ends(x, R, how) == [x EXCEPT !.outcome = [r \in HiRecords |-> IF r \in R THEN how ELSE @[r]]]

(* enqueue: the oldest record makes room. *)
HiEnqueue(x, r) ==
    IF ~x.accepting \/ r \in HiTooLarge THEN Ends(x, {r}, "dropped")
    ELSE LET full == Len(x.queue) >= HiMaxQueue
         IN  [(IF full THEN Ends(x, {Head(x.queue)}, "dropped") ELSE x) EXCEPT
                 !.queue = Append(IF full THEN Tail(@) ELSE @, r), !.outcome[r] = "held"]

(* createBatch: the pending batch again, or as much of the queue as fits.   *)
CreateBatch(x, d) ==
    IF x.batch # <<>> THEN x
    ELSE LET heavy == IF d = "flush" THEN HiHeavy ELSE HiExitHeavy
             fits(n) == n <= HiBatchSize /\ (n = 1 \/ \A k \in 1..n : x.queue[k] \notin heavy)
             n == Max({k \in 1..Len(x.queue) : fits(k)})
         IN  [x EXCEPT !.batch = SubSeq(x.queue, 1, n),
                       !.queue = SubSeq(@, n + 1, Len(@))]

ScheduleHiInterval(x) ==
    IF ~x.accepting \/ ~HasData(x) \/ x.batch # <<>> THEN x ELSE [x EXCEPT !.interval = TRUE]

(* Mutation of ScheduleHiRetry: the pending batch is not looked at. *)
MutantScheduleHiRetry(x) ==
    IF ~x.accepting \/ x.queue = <<>> THEN x ELSE [x EXCEPT !.retry = TRUE]

ScheduleHiRetry(x) ==
    IF ~x.accepting \/ ~HasData(x) THEN x ELSE [x EXCEPT !.retry = TRUE]

-----------------------------------------------------------------------------
(* The drain *)

(* One turn of the loop of drain d: the next post, or its end. *)
Posts(x, d) ==
    LET y == CreateBatch(x, d) IN [y EXCEPT !.posting[d] = y.batch]

DrainStarts(x, d) ==
    LET y == [x EXCEPT !.interval = FALSE, !.retry = FALSE]
    IN  IF HasData(y) THEN Posts(y, d) ELSE y

(* flush() by a caller who retries its failure, or not. *)
Flushes(x, retries) ==
    LET y == [x EXCEPT !.retrying = @ \/ retries]
    IN  IF x.posting["flush"] # <<>> THEN y
        ELSE LET z == DrainStarts([x EXCEPT !.retrying = retries], "flush")
             IN  IF z.posting["flush"] # <<>> THEN z ELSE [z EXCEPT !.retrying = FALSE]

(* flushOnExit() goes on, or ends: close() is done when it succeeded.       *)
ExitDrains(x, e) ==
    LET y == DrainStarts(x, e)
    IN  IF y.posting[e] # <<>> THEN [y EXCEPT !.exitPc[e] = "draining"]
        ELSE [y EXCEPT !.exitPc[e] = "off", !.closed = @ \/ e = "close"]

(* An exit that waited for the flush goes on; with two, either order drains *)
(* the same batch.                                                         *)
Wakes(x, e) == IF x.exitPc[e] = "waiting" THEN ExitDrains(x, e) ELSE x

(* The flush has settled: finally, its callers, and the exits that waited.  *)
FlushEnds(x, failed, retryable) ==
    LET y == ScheduleHiInterval([x EXCEPT !.posting["flush"] = <<>>, !.retrying = FALSE])
        z == IF failed /\ retryable /\ x.retrying THEN ScheduleHiRetry(y)
             ELSE [y EXCEPT !.given = @ \/ failed]
    IN  Wakes(Wakes(z, "exit"), "close")

DrainEndsHi(x, d, failed, retryable) ==
    IF d = "flush" THEN FlushEnds(x, failed, retryable)
    ELSE [x EXCEPT !.posting[d] = <<>>, !.exitPc[d] = "off", !.given = @ \/ failed,
                   !.closed = @ \/ (d = "close" /\ ~failed)]

(* Mutation of Acknowledge: the answer is taken for the pending batch.      *)
MutantAcknowledge(x, d) ==
    LET y == [Ends(x, Range(x.batch), "acknowledged") EXCEPT !.batch = <<>>]
    IN  IF HasData(y) THEN Posts(y, d) ELSE DrainEndsHi(y, d, FALSE, TRUE)

(* acknowledge: an answer for another batch than the pending one fails.     *)
Acknowledge(x, d) ==
    IF x.batch = <<>> \/ x.batch # x.posting[d] THEN DrainEndsHi(x, d, TRUE, TRUE)
    ELSE LET y == [Ends(x, Range(x.batch), "acknowledged") EXCEPT !.batch = <<>>]
         IN  IF HasData(y) THEN Posts(y, d) ELSE DrainEndsHi(y, d, FALSE, TRUE)

(* rejectPending: the pending batch, whichever it is by now. *)
RejectPending(x) == [Ends(x, Range(x.batch), "refused") EXCEPT !.batch = <<>>]

-----------------------------------------------------------------------------
(* The environment's answers *)

HiFault == hiFaults < HiMaxFaults /\ hiFaults' = hiFaults + 1
HiNoFault == UNCHANGED hiFaults

Commits(d) == [hi EXCEPT !.committed = @ \cup Range(hi.posting[d])]

(* A commit acknowledgement that names the batch and counts its records.    *)
AckArrives(d) ==
    /\ hi.posting[d] # <<>> /\ HiNoFault
    /\ hi' = Acknowledge(Commits(d), d)

(* A timeout, a network failure, a retryable status, or an acknowledgement  *)
(* that is not the batch's: the server may have committed.                 *)
PostFailsHi(d) ==
    /\ hi.posting[d] # <<>> /\ HiFault
    /\ \E x \in {hi, Commits(d)} : hi' = DrainEndsHi(x, d, TRUE, TRUE)

(* A terminal status: the server has refused this post. *)
PostRefused(d) ==
    /\ hi.posting[d] # <<>> /\ HiFault
    /\ hi' = DrainEndsHi(RejectPending([hi EXCEPT !.refused = @ \cup Range(hi.posting[d])]),
                         d, TRUE, FALSE)

-----------------------------------------------------------------------------
(* Callers and timers *)

WriteHi(r) ==
    /\ hi.outcome[r] = "new" /\ HiNoFault
    /\ LET x == HiEnqueue(hi, r)
       IN  hi' = IF x.outcome[r] # "held" THEN x
                 ELSE IF Len(x.queue) >= HiBatchSize \/ x.awaitDelivery
                      THEN Flushes(x, ~x.awaitDelivery)
                 ELSE ScheduleHiInterval(x)

FlushHi == HasData(hi) /\ HiNoFault /\ hi' = Flushes(hi, FALSE)

IntervalFiresHi ==
    /\ hi.interval /\ HiNoFault
    /\ hi' = Flushes([hi EXCEPT !.interval = FALSE], TRUE)

RetryFiresHi ==
    /\ hi.retry /\ HiNoFault
    /\ hi' = Flushes([hi EXCEPT !.retry = FALSE], TRUE)

ExitStarts(x, e) ==
    IF ~HasData(x) THEN [x EXCEPT !.closed = @ \/ e = "close"]
    ELSE IF x.posting["flush"] # <<>> THEN [x EXCEPT !.exitPc[e] = "waiting"]
    ELSE ExitDrains(x, e)

FlushOnExitHi ==
    /\ hi.exitPc["exit"] = "off" /\ HasData(hi) /\ HiNoFault
    /\ hi' = ExitStarts(hi, "exit")

(* close(): one at a time; it may be called again after a failure. *)
CloseHi ==
    /\ ~hi.closed /\ hi.exitPc["close"] = "off" /\ HiNoFault
    /\ hi' = ExitStarts([hi EXCEPT !.accepting = FALSE, !.interval = FALSE, !.retry = FALSE],
                        "close")

-----------------------------------------------------------------------------
HiNext ==
    \/ \E r \in HiRecords : WriteHi(r)
    \/ FlushHi \/ IntervalFiresHi \/ RetryFiresHi \/ FlushOnExitHi \/ CloseHi
    \/ \E d \in Drains : AckArrives(d) \/ PostFailsHi(d) \/ PostRefused(d)

HiSpec == HiInit /\ [][HiNext]_hiVars

-----------------------------------------------------------------------------
(* Properties *)

(* The fields keep their types, queue and batch their bounds.              *)
HiTypeOK ==
    /\ Len(hi.queue) <= HiMaxQueue /\ Len(hi.batch) <= HiBatchSize
    /\ hi.outcome \in [HiRecords -> {"new", "held", "acknowledged", "refused", "dropped"}]
    /\ hi.exitPc \in [Exits -> {"off", "waiting", "draining"}]
    /\ \A e \in Exits : (hi.exitPc[e] = "draining") = (hi.posting[e] # <<>>)
    /\ hi.exitPc["exit"] = "waiting" => hi.posting["flush"] # <<>>
    /\ hiFaults \in 0..HiMaxFaults

(* A record is queued or in the pending batch once, or it is over, while    *)
(* several drains post the same batch.                                     *)
HeldOnce ==
    LET kept == hi.queue \o hi.batch
    IN  /\ IsInjective(kept)
        /\ Range(kept) = {r \in HiRecords : hi.outcome[r] = "held"}

(* Only what the server has committed counts as acknowledged: a late answer *)
(* to one batch is not taken for another.                                  *)
AcknowledgedIsCommitted ==
    \A r \in HiRecords : hi.outcome[r] = "acknowledged" => r \in hi.committed

(* While nobody was told of a failure, what is held has a post or a timer.  *)
HeldIsOnATimer ==
    HasData(hi) /\ hi.accepting /\ ~hi.given =>
        hi.interval \/ hi.retry \/ \E d \in Drains : hi.posting[d] # <<>>

(* "drops a terminally rejected poison batch" (commit-ack tests): what is    *)
(* dropped as rejected was in a post the server has refused.               *)
RefusedWasRefused ==
    \A r \in HiRecords : hi.outcome[r] = "refused" => r \in hi.refused
=============================================================================
