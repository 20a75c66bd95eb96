------------------------------- MODULE Diagnostics -------------------------------
(***************************************************************************)
(* The internal diagnostics of src/src/internal-diagnostics.ts: a reporter *)
(* that admits one report at a time, counts those it suppresses and hands  *)
(* a record to its sinks in turn (internal-diagnostics-backend.ts), and    *)
(* the upload of a batch under a signed, short-lived, single-use grant.    *)
(*                                                                         *)
(* Record and batch contents are left out: an input is well formed or not. *)
(* A settled delivery resumes those who await it one after the other, in   *)
(* the order of their awaits; other calls may run in between.              *)
(***************************************************************************)
EXTENDS Integers, Sequences, FiniteSets

CONSTANTS
    DgReports, DgCloses,   \* calls of report() and close()
    DgSinks,               \* sequence of the kinds of the reporter's sinks
    DgMaxCounter,          \* MAX_INTERNAL_DIAGNOSTIC_COUNTER
    DgGrants, DgUploads,   \* grant inputs and calls of upload
    DgTtl,                 \* MAX_INTERNAL_DIAGNOSTIC_GRANT_TTL_MILLIS
    DgHorizon              \* bound: the clock stops here

VARIABLES dg, dgClock
dgVars == <<dg, dgClock>>

Idle == [sink |-> 0, carries |-> 0, who |-> "none"]

(* A grant input: when its URL was signed and for how long (Azure signs the *)
(* expiry itself), the expiry the issuer states, and whether the rest of it *)
(* - schema, method, URL, host, signature fields, headers - is as required. *)
GrantInputs == [provider : {"aws_s3", "azure_blob"}, signedAt : 0..DgHorizon,
                duration : 0..(DgTtl + 1), expiresAt : 1..DgHorizon, wellFormed : BOOLEAN]

DgInit ==
    /\ dg \in [state : {"idle"}, suppressed : {0}, saturated : {FALSE},
               flight : {Idle}, waiters : {<<>>},
               result : {[r \in DgReports |-> "none"]},
               closing : {[c \in DgCloses |-> "none"]},
               told : {0}, untold : {0},          \* history: suppressions in records
               input : [DgGrants -> GrantInputs], parsed : {{}}, consumed : {{}},
               upload : {[u \in DgUploads |-> "none"]},
               puts : {{}}]                      \* history: <<upload, grant, time>>
    /\ dgClock = 0

-----------------------------------------------------------------------------
(* The reporter *)

(* saturatingIncrement, accountSuppressed. *)
AccountSuppressed(x) ==
    IF x.suppressed >= DgMaxCounter THEN [x EXCEPT !.saturated = TRUE]
    ELSE [x EXCEPT !.suppressed = @ + 1]

(* report(): closed, suppressed, refused for a bad input, or admitted.      *)
Report(r, wellFormed) ==
    /\ dg.result[r] = "none" /\ UNCHANGED dgClock
    /\ dg' = CASE dg.state = "closed" -> [dg EXCEPT !.result[r] = "closed"]
               [] dg.state \in {"reporting", "closing"} ->
                     [AccountSuppressed(dg) EXCEPT !.result[r] = "suppressed"]
               [] dg.state = "idle" /\ ~wellFormed -> [dg EXCEPT !.result[r] = "threw"]
               [] OTHER -> [dg EXCEPT !.result[r] = "open", !.state = "reporting",
                                      !.flight = [sink |-> 1, carries |-> dg.suppressed, who |-> r],
                                      !.suppressed = 0, !.saturated = FALSE,
                                      !.waiters = <<"report">>]

(* What a sink's provider may answer; CloudWatch also accepts a request and *)
(* rejects its event.                                                      *)
Answers(kind) == {"accepted", "threw"} \cup (IF kind = "cloudwatch" THEN {"eventRejected"} ELSE {})

(* deliver(): the first sink that accepts ends it, a failure goes on to the  *)
(* next one.                                                               *)
SinkSettles(answer) ==
    /\ dg.flight.sink \in DOMAIN DgSinks /\ UNCHANGED dgClock
    /\ answer \in Answers(DgSinks[dg.flight.sink])
    /\ LET r == dg.flight.who
           settled == [dg EXCEPT !.flight.sink = Len(DgSinks) + 1]
       IN  dg' = IF answer = "accepted"
                 THEN [settled EXCEPT !.result[r] = "delivered", !.told = @ + dg.flight.carries]
                 ELSE IF dg.flight.sink < Len(DgSinks) THEN [dg EXCEPT !.flight.sink = @ + 1]
                 ELSE [settled EXCEPT !.result[r] = "failed", !.untold = @ + dg.flight.carries]

Settled == dg.flight.sink > Len(DgSinks)

(* finally in report(). *)
ReportResumes ==
    /\ Settled /\ dg.waiters # <<>> /\ Head(dg.waiters) = "report" /\ UNCHANGED dgClock
    /\ dg' = [dg EXCEPT !.flight = IF Len(dg.waiters) = 1 THEN Idle ELSE @, !.waiters = Tail(@),
                        !.state = IF @ = "closing" THEN "closed" ELSE "idle"]

CloseResumes ==
    /\ Settled /\ dg.waiters # <<>> /\ Head(dg.waiters) \in DgCloses /\ UNCHANGED dgClock
    /\ dg' = [dg EXCEPT !.flight = IF Len(dg.waiters) = 1 THEN Idle ELSE @, !.waiters = Tail(@),
                        !.state = "closed", !.closing[Head(dg.waiters)] = "done"]

(* Mutation of CloseReporter: close() does not wait for the report in flight. *)
MutantCloseReporter(c) ==
    /\ dg.closing[c] = "none" /\ UNCHANGED dgClock
    /\ dg' = [dg EXCEPT !.state = "closed", !.closing[c] = "done"]

(* close(): at once when idle, else behind the report in flight. *)
CloseReporter(c) ==
    /\ dg.closing[c] = "none" /\ UNCHANGED dgClock
    /\ dg' = IF dg.state \in {"idle", "closed"}
             THEN [dg EXCEPT !.state = "closed", !.closing[c] = "done"]
             ELSE [dg EXCEPT !.state = "closing", !.closing[c] = "waiting",
                             !.waiters = Append(@, c)]

-----------------------------------------------------------------------------
(* Upload grants *)

(* signedExpirationMillis: AWS and Google durations are bounded, Azure's    *)
(* expiry is not.                                                          *)
DurationOK(g) == g.provider = "azure_blob" \/ g.duration \in 1..DgTtl
SignedExpiry(g) == g.signedAt + g.duration

(* Mutation of Acceptable: the signature may end before the grant. *)
MutantAcceptable(g, now) ==
    /\ g.wellFormed /\ DurationOK(g)
    /\ g.expiresAt > now /\ g.expiresAt - now <= DgTtl
    /\ SignedExpiry(g) <= now + DgTtl

(* InternalDiagnosticUploadGrant.parse *)
Acceptable(g, now) ==
    /\ g.wellFormed /\ DurationOK(g)
    /\ g.expiresAt > now /\ g.expiresAt - now <= DgTtl
    /\ g.expiresAt <= SignedExpiry(g) /\ SignedExpiry(g) <= now + DgTtl

Parse(g) ==
    /\ g \notin dg.parsed /\ Acceptable(dg.input[g], dgClock) /\ UNCHANGED dgClock
    /\ dg' = [dg EXCEPT !.parsed = @ \cup {g}]

(* uploadInternalDiagnosticBatch up to its PUT; a batch may be malformed or  *)
(* too large for the grant.                                                *)
Upload(u, g, batch) ==
    /\ dg.upload[u] = "none" /\ g \in dg.parsed /\ UNCHANGED dgClock
    /\ LET rejected(why) == [dg EXCEPT !.upload[u] = why]
       IN  dg' = IF dg.input[g].expiresAt <= dgClock THEN rejected("expired")
                 ELSE IF batch # "ok" THEN rejected(batch)
                 ELSE IF g \in dg.consumed THEN rejected("invalid_batch")
                 ELSE [dg EXCEPT !.upload[u] = "put", !.consumed = @ \cup {g},
                                 !.puts = @ \cup {<<u, g, dgClock>>}]

(* The provider answers, the request fails or its timeout aborts it. *)
PutSettles(u, how) ==
    /\ dg.upload[u] = "put" /\ UNCHANGED dgClock
    /\ dg' = [dg EXCEPT !.upload[u] = how]

Tick == dgClock < DgHorizon /\ dgClock' = dgClock + 1 /\ UNCHANGED dg

-----------------------------------------------------------------------------
DgNext ==
    \/ \E r \in DgReports, ok \in BOOLEAN : Report(r, ok)
    \/ \E a \in {"accepted", "threw", "eventRejected"} : SinkSettles(a)
    \/ ReportResumes \/ CloseResumes
    \/ \E c \in DgCloses : CloseReporter(c)
    \/ \E g \in DgGrants : Parse(g)
    \/ \E u \in DgUploads, g \in DgGrants, b \in {"ok", "invalid_batch", "oversized"} :
          Upload(u, g, b)
    \/ \E u \in DgUploads, how \in {"uploaded", "network", "provider_rejected"} : PutSettles(u, how)
    \/ Tick

DgSpec == DgInit /\ [][DgNext]_dgVars

-----------------------------------------------------------------------------
(* Properties *)

Counted(how) == Cardinality({r \in DgReports : dg.result[r] = how})

(* "conserves delivered, failed, suppressed, closed-rejected, and in-flight *)
(* reports" (README.md): every suppressed report is counted in the record   *)
(* in flight, in one that was handed to the sinks (accepted or, untold, by  *)
(* none), or for the next one, unless the counter is saturated; one report  *)
(* is admitted at a time.                                                  *)
ReportsAreConserved ==
    /\ LET carried == IF dg.flight.sink \in DOMAIN DgSinks THEN dg.flight.carries ELSE 0
           counted == dg.suppressed + dg.told + dg.untold + carried
       IN  /\ Counted("suppressed") >= counted
           /\ Counted("suppressed") > counted => Counted("suppressed") > DgMaxCounter
    /\ Counted("open") <= 1
    /\ Counted("open") = 1 => dg.state \in {"reporting", "closing"}

(* "and never reopens after close" (README.md), whatever awaits what; what  *)
(* a close() that returned saw admitted is settled.                        *)
NeverReopens ==
    (\E c \in DgCloses : dg.closing[c] = "done") => dg.state = "closed" /\ Counted("open") = 0

(* A grant is good for one PUT, which starts before the grant and its        *)
(* signature expire, however uploads, clocks and failures interleave.  The  *)
(* code compares no clock with the time of the signature: one that is dated *)
(* ahead passes as well.                                                   *)
PutsAreSigned ==
    /\ \A p, q \in dg.puts : p[2] = q[2] => p = q
    /\ \A p \in dg.puts : p[3] < dg.input[p[2]].expiresAt /\ p[3] < SignedExpiry(dg.input[p[2]])
=============================================================================
