------------------------------ MODULE ErrorTracking ------------------------------
(***************************************************************************)
(* createErrorTrackingTransport over HttpTransport (base-logger.ts): a     *)
(* record is posted to each endpoint in turn until one takes it; errors    *)
(* with the hash of one already seen are skipped, the oldest half of the   *)
(* hashes makes room, and a failed write forgets its hash.                 *)
(*                                                                         *)
(* The model keeps which write posts to which endpoint.  Requests, bodies  *)
(* and timeouts (an abort is a failed post) are left out.                  *)
(***************************************************************************)
EXTENDS Naturals, Sequences, Functions, Filter

CONSTANTS
    EtWrites,      \* writes of records,
    EtHash,        \* the hash of each one's record, and
    EtBelow,       \* those below minLevel
    EtMaxHashes    \* MAX_HASHES

VARIABLES et
etVars == <<et>>

Hashes == {EtHash[w] : w \in EtWrites}

EtInit ==
    et \in [phase : {[w \in EtWrites |-> "new"]},
            endpoint : {[w \in EtWrites |-> 0]},    \* posting to: 1, the fallback 2
            seen : {<<>>}, endpoints : {1, 2}, dedupe : BOOLEAN, beacon : BOOLEAN,
            delivered : {{}}]                     \* hashes some endpoint took

-----------------------------------------------------------------------------
Forget(x, h) == [x EXCEPT !.seen = Without(@, {h})]

(* seenHashes.add after the eviction of the oldest half. *)
Remember(x, h) ==
    [x EXCEPT !.seen = Append(IF Len(@) >= EtMaxHashes
                              THEN SubSeq(@, (EtMaxHashes \div 2) + 1, Len(@)) ELSE @, h)]

Posts(x, w) == [x EXCEPT !.phase[w] = "posting", !.endpoint[w] = 1]

(* write() of the tracking transport. *)
EtWrite(w) ==
    /\ et.phase[w] = "new"
    /\ LET h == EtHash[w]
           skip == [et EXCEPT !.phase[w] = "skipped"]
       IN  et' = IF w \in EtBelow THEN skip
                 ELSE IF ~et.dedupe THEN Posts(et, w)
                 ELSE IF h \in Range(et.seen) THEN skip
                 ELSE Posts(Remember(et, h), w)

(* post() resolves. *)
PostTaken(w) ==
    /\ et.phase[w] = "posting"
    /\ et' = [et EXCEPT !.phase[w] = "done", !.delivered = @ \cup {EtHash[w]}]

(* Mutation of PostFails: the hash of a failed write stays. *)
MutantPostFails(w) ==
    /\ et.phase[w] = "posting"
    /\ et' = IF et.endpoint[w] < et.endpoints THEN [et EXCEPT !.endpoint[w] = @ + 1]
             ELSE [et EXCEPT !.phase[w] = "failed"]

(* post() fails: the next endpoint, or the write rejects and forgets its    *)
(* hash.  A request that failed for its sender may have been taken.        *)
PostFails(w) ==
    /\ et.phase[w] = "posting"
    /\ LET y == IF et.endpoint[w] < et.endpoints THEN [et EXCEPT !.endpoint[w] = @ + 1]
                ELSE LET z == [et EXCEPT !.phase[w] = "failed"]
                     IN  IF et.dedupe THEN Forget(z, EtHash[w]) ELSE z
       IN  \E taken \in BOOLEAN :
              et' = IF taken THEN [y EXCEPT !.delivered = @ \cup {EtHash[w]}] ELSE y

(* flushOnExit: what is still active goes out by beacon, whatever was seen; *)
(* queued: the records some endpoint's beacon accepts.                     *)
ExitBeacons ==
    /\ et.beacon
    /\ \E queued \in SUBSET {w \in EtWrites \ EtBelow : et.phase[w] = "posting"} :
          et' = [et EXCEPT !.beacon = FALSE, !.delivered = @ \cup {EtHash[w] : w \in queued}]

EtNext == (\E w \in EtWrites : EtWrite(w) \/ PostTaken(w) \/ PostFails(w)) \/ ExitBeacons

EtSpec == EtInit /\ [][EtNext]_etVars

-----------------------------------------------------------------------------
(* Properties *)

(* The fields keep their types, the hashes their bound.                    *)
EtTypeOK ==
    /\ et.phase \in [EtWrites -> {"new", "posting", "done", "skipped", "failed"}]
    /\ et.endpoint \in [EtWrites -> 0..et.endpoints]
    /\ Range(et.seen) \subseteq Hashes /\ Len(et.seen) <= EtMaxHashes
    /\ IsInjective(et.seen) /\ et.delivered \subseteq Hashes

(* A remembered hash never silences an error for nothing: it was delivered  *)
(* or a write of it is still under way, through evictions and failures.    *)
SeenMeansTold ==
    \A h \in Range(et.seen) :
        h \in et.delivered \/ \E w \in EtWrites : EtHash[w] = h /\ et.phase[w] = "posting"
=============================================================================
