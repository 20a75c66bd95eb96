------------------------------- MODULE OtelSpan -------------------------------
(***************************************************************************)
(* withOpenTelemetrySpan (src/src/otel.ts): an application callback run in *)
(* a span of the application's tracer, with a lifecycle record before it,  *)
(* a status and a record after it, and the end of the span last.  Each     *)
(* record is awaited, so the steps interleave with whatever else runs.     *)
(***************************************************************************)
EXTENDS Naturals, Sequences

CONSTANTS OsMaxFailures   \* bound on the span methods that throw

VARIABLES os
osVars == <<os>>

(* What the tracer does with the callback it is given: calls it and returns *)
(* its promise; throws instead of calling it; or calls it and then throws. *)
Tracers == {"faithful", "refuses", "calls-and-throws"}

OsInit ==
    os \in [tracer : Tracers, lifecycle : BOOLEAN, failOnStartError : BOOLEAN, recording : BOOLEAN,
            pc : {"start"},          \* the await the span callback is at
            app : {"no"}, runs : {0},
            calls : {<<>>},          \* methods of the span, in the order called
            failures : {0}, outer : {"pending"}]

Calls(x, method) == [x EXCEPT !.calls = Append(@, method)]
Goto(x, pc) == [x EXCEPT !.pc = pc]

(* startActiveSpan. *)
StartActiveSpan ==
    /\ os.pc = "start"
    /\ LET first == IF os.lifecycle THEN "log-start" ELSE "run"
       IN  os' = CASE os.tracer = "refuses" -> Goto(os, "log-refused")
                   [] os.tracer = "faithful" -> Goto(os, first)
                   [] OTHER -> [Goto(os, first) EXCEPT !.outer = "tracer-error"]

(* callbackStarted is false: run without a span, or rethrow. *)
Refused ==
    /\ os.pc = "log-refused"
    /\ os' = IF os.failOnStartError THEN [Goto(os, "done") EXCEPT !.outer = "tracer-error"]
             ELSE Goto(os, "run-noop")

(* logSafely: the record was written, or was not; the callback goes on. *)
LogSettles(at, next) == os.pc = at /\ os' = Goto(os, next)

Run ==
    /\ os.pc \in {"run", "run-noop"} /\ os.app = "no"
    /\ os' = [os EXCEPT !.app = "running", !.runs = @ + 1]

Settle(x, next) == [Goto(x, next) EXCEPT !.outer = IF @ = "pending" THEN x.app ELSE @]

AfterCallback(outcome) ==
    CASE os.recording -> IF outcome = "threw" THEN "exception" ELSE "status"
      [] ~os.recording -> IF outcome = "threw" THEN "log-failed"
                          ELSE IF os.lifecycle THEN "log-completed" ELSE "end"

(* The application's callback settles; on NOOP_SPAN its outcome is all. *)
AppSettles(outcome) ==
    /\ os.app = "running"
    /\ LET x == [os EXCEPT !.app = outcome]
       IN  os' = IF os.pc = "run-noop" THEN Settle(x, "done") ELSE Goto(x, AfterCallback(outcome))

(* Mutation of AfterMethod: a method that throws leaves the try. *)
MutantAfterMethod(pc, fails) ==
    CASE pc = "end" -> "done"
      [] fails -> "end"
      [] pc = "exception" -> "status"
      [] pc = "status" /\ os.app = "threw" -> "log-failed"
      [] OTHER -> IF os.lifecycle THEN "log-completed" ELSE "end"

(* Where the callback goes after a method of the span, also if it threw. *)
AfterMethod(pc, fails) ==
    CASE pc = "end" -> "done"
      [] pc = "exception" -> "status"
      [] pc = "status" /\ os.app = "threw" -> "log-failed"
      [] OTHER -> IF os.lifecycle THEN "log-completed" ELSE "end"

(* invokeSpanSafely: recordException, setStatus, end.  What throws is       *)
(* reported by a record of its own, awaited before the callback goes on.   *)
Method(fails) ==
    /\ os.pc \in {"exception", "status", "end"}
    /\ fails => os.failures < OsMaxFailures
    /\ LET x == [Calls(os, os.pc) EXCEPT !.failures = IF fails THEN @ + 1 ELSE @]
           next == AfterMethod(os.pc, fails)
       IN  os' = IF next = "done" THEN Settle(x, next) ELSE Goto(x, next)

OsNext ==
    \/ StartActiveSpan \/ Refused \/ Run
    \/ LogSettles("log-start", "run")
    \/ LogSettles("log-completed", "end") \/ LogSettles("log-failed", "end")
    \/ \E outcome \in {"ok", "threw"} : AppSettles(outcome)
    \/ \E fails \in BOOLEAN : Method(fails)

OsSpec == OsInit /\ [][OsNext]_osVars

-----------------------------------------------------------------------------
(* Telemetry never replaces the application's result: a caller whose tracer *)
(* did its part gets what the callback gave, which ran once; and the span  *)
(* it ran in was by then given its status, if it records, and ended.       *)
ResultIsTheApplications ==
    /\ os.runs <= 1
    /\ os.outer \in {"ok", "threw"} =>
        /\ os.outer = os.app
        /\ os.tracer # "refuses" =>
             os.calls = IF ~os.recording THEN <<"end">>
                        ELSE IF os.app = "threw" THEN <<"exception", "status", "end">>
                        ELSE <<"status", "end">>
    /\ os.outer = "tracer-error" => os.tracer # "faithful"
=============================================================================
