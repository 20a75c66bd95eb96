-------------------------------- MODULE LogRecord --------------------------------
(***************************************************************************)
(* The record of an event (LogEvent and the settings of BaseLogger in      *)
(* src/src/base-logger.ts): what the logger, the ambient context and the   *)
(* event itself say of it, merged once, when the event is first sent or    *)
(* looked at.                                                              *)
(*                                                                         *)
(* One field, the logged-in user and trace ids stand for the keys; a value *)
(* is a member of LrValues.  A logger made by new holds the options object *)
(* its caller gave it, one made by anew a copy; options hold the context   *)
(* provider and the OTEL default.                                          *)
(***************************************************************************)
EXTENDS Naturals, Sequences, Filter, Lists

CONSTANTS LrValues,       \* values of a field, a user, a trace id
          LrMaxOptions, LrMaxSteps   \* bounds: options objects, steps taken

VARIABLES lr
lrVars == <<lr>>

None == "none"
Fresh(old, new) == IF new = None THEN old ELSE new

Nothing == [field |-> None, user |-> None, trace |-> None, traces |-> <<>>]

(* A root logger on the caller's options object 1, and an event to be.  told *)
(* is what each logger was told, from its making on; given the trace ids    *)
(* that its event and its context gave the record.                         *)
LrInit ==
    lr = [options |-> <<[provider |-> None, otel |-> "on"]>>,
          loggers |-> <<[options |-> 1, field |-> None, user |-> None]>>,
          told    |-> <<[provider |-> None, otel |-> "on", born |-> "new"]>>,
          ambient |-> Nothing,
          event   |-> [logger |-> 0, said |-> Nothing, otel |-> None],
          record  |-> Nothing, made |-> FALSE, given |-> {}, steps |-> 0]

Loggers(x) == DOMAIN x.loggers
Step(x) == [x EXCEPT !.steps = @ + 1]
Room == lr.steps < LrMaxSteps

(* addTrace: the first one, or one put first, is the primary. *)
AddTrace(said, id, makeFirst) ==
    [said EXCEPT !.trace = IF @ = None \/ makeFirst THEN id ELSE @,
                 !.traces = IF id \in Range(@) THEN @ ELSE Append(@, id)]

(* getContext: the provider of the logger, else the global one; one that    *)
(* throws or has nothing gives nothing.                                    *)
GetContext(x, l) ==
    IF x.options[x.loggers[l].options].provider = "throws" THEN Nothing ELSE x.ambient

(* Mutation of ToJSON: the ids of the context come without its primary one. *)
MutantToJSON(x, runtime) ==
    LET l == x.event.logger
        c == GetContext(x, l)
        e == x.event.said
        both == Unique(e.traces \o c.traces)
    IN  [field |-> Fresh(Fresh(Fresh(x.loggers[l].field, c.field), e.field), runtime),
         user  |-> Fresh(Fresh(x.loggers[l].user, c.user), e.user),
         trace |-> IF e.trace # None THEN e.trace ELSE c.trace,
         traces |-> both]

(* toJSON: logger, then context, then event; what the runtime says of the   *)
(* field last.                                                             *)
ToJSON(x, runtime) ==
    LET l == x.event.logger
        c == GetContext(x, l)
        e == x.event.said
        primary == IF c.trace = None THEN <<>> ELSE <<c.trace>>
        both == Unique(e.traces \o primary \o c.traces)
    IN  [field |-> Fresh(Fresh(Fresh(x.loggers[l].field, c.field), e.field), runtime),
         user  |-> Fresh(Fresh(x.loggers[l].user, c.user), e.user),
         trace |-> IF e.trace # None THEN e.trace ELSE c.trace,
         traces |-> both]

-----------------------------------------------------------------------------
(* Loggers *)

(* What a logger is told at its making: what its options say. *)
Told(x, o, born) ==
    [provider |-> x.options[o].provider, otel |-> x.options[o].otel, born |-> born]

(* new BaseLogger(options), with an options object of the caller's, of before *)
(* or new; those of anew are nobody else's.                                *)
NewRoot(o) ==
    /\ Room /\ o <= Len(lr.options) + 1 /\ o <= LrMaxOptions
    /\ lr.event.logger = 0
    /\ \A l \in Loggers(lr) : lr.told[l].born = "anew" => lr.loggers[l].options # o
    /\ LET fresh == [provider |-> None, otel |-> "on"]
           x == IF o <= Len(lr.options) THEN lr ELSE [lr EXCEPT !.options = Append(@, fresh)]
       IN  lr' = Step([x EXCEPT
                   !.loggers = Append(@, [options |-> o, field |-> None, user |-> None]),
                   !.told = Append(@, Told(x, o, "new"))])

(* Mutation of Anew: the child works on the options of its parent. *)
MutantAnew(l) ==
    /\ Room /\ Len(lr.options) < LrMaxOptions /\ lr.event.logger = 0
    /\ lr' = Step([lr EXCEPT
                !.loggers = Append(@, lr.loggers[l]),
                !.told = Append(@, Told(lr, lr.loggers[l].options, "anew"))])

(* anew: options, fields and user are copied. *)
Anew(l) ==
    /\ Room /\ Len(lr.options) < LrMaxOptions /\ lr.event.logger = 0
    /\ lr' = Step([lr EXCEPT
                !.options = Append(@, lr.options[lr.loggers[l].options]),
                !.loggers = Append(@, [lr.loggers[l] EXCEPT !.options = Len(lr.options) + 1]),
                !.told = Append(@, Told(lr, lr.loggers[l].options, "anew"))])

(* setContextProvider, setALS: "write-through into options" *)
SetContextProvider(l, p) ==
    /\ Room
    /\ lr' = Step([lr EXCEPT !.options[lr.loggers[l].options].provider = p,
                             !.told[l].provider = p])
SetOtelEnabled(l, b) ==
    /\ Room
    /\ lr' = Step([lr EXCEPT !.options[lr.loggers[l].options].otel = b, !.told[l].otel = b])

AddFieldsToLogger(l, v) == Room /\ lr' = Step([lr EXCEPT !.loggers[l].field = v])
SetCurrentUser(l, v) == Room /\ lr' = Step([lr EXCEPT !.loggers[l].user = v])

(* Another request, or none, becomes the ambient one. *)
AmbientChanges(c) == Room /\ c # lr.ambient /\ lr' = Step([lr EXCEPT !.ambient = c])

-----------------------------------------------------------------------------
(* The event *)

CreateEvent(l) ==
    /\ Room /\ lr.event.logger = 0
    /\ lr' = Step([lr EXCEPT !.event.logger = l])

Says(said) == Room /\ lr.event.logger # 0 /\ lr' = Step([lr EXCEPT !.event.said = said])

AddFields(v) == Says([lr.event.said EXCEPT !.field = v])
AddLoggedInUserInfo(v) == Says([lr.event.said EXCEPT !.user = v])
AddTraceId(v, first) == Says(AddTrace(lr.event.said, v, first))
WithOtel(b) ==
    /\ Room /\ lr.event.logger # 0
    /\ lr' = Step([lr EXCEPT !.event.otel = b])

(* getJSON, send: the record is made once. *)
MakesRecord(runtime) ==
    /\ lr.event.logger # 0 /\ ~lr.made
    /\ LET c == GetContext(lr, lr.event.logger)
       IN  lr' = [lr EXCEPT !.record = ToJSON(lr, runtime), !.made = TRUE,
                            !.given = Range(lr.event.said.traces) \cup Range(c.traces)
                                      \cup ({c.trace} \ {None})]

-----------------------------------------------------------------------------
Contexts == {Nothing}
            \cup {[Nothing EXCEPT !.field = v, !.user = v] : v \in LrValues}
            \cup {[Nothing EXCEPT !.trace = v] : v \in LrValues}
            \cup {[Nothing EXCEPT !.trace = p[1], !.traces = <<p[2]>>] :
                    p \in (LrValues \cup {None}) \X LrValues}

LrNext ==
    \/ \E o \in 1 .. LrMaxOptions : NewRoot(o)
    \/ \E l \in Loggers(lr) :
          \/ Anew(l) \/ CreateEvent(l)
          \/ \E p \in {None, "set", "throws"} : SetContextProvider(l, p)
          \/ \E b \in {"on", "off"} : SetOtelEnabled(l, b)
          \/ \E v \in LrValues : AddFieldsToLogger(l, v) \/ SetCurrentUser(l, v)
    \/ \E c \in Contexts : AmbientChanges(c)
    \/ \E v \in LrValues :
          \/ AddFields(v) \/ AddLoggedInUserInfo(v)
          \/ \E first \in BOOLEAN : AddTraceId(v, first)
    \/ \E b \in {"on", "off", None} : WithOtel(b)
    \/ \E r \in {None} \cup LrValues : MakesRecord(r)

LrSpec == LrInit /\ [][LrNext]_lrVars

-----------------------------------------------------------------------------
(* Properties *)

(* The ids of a record are those that its event and its context gave, each   *)
(* once, and the primary one is among them, whoever put it there.          *)
TraceIsListed ==
    lr.made =>
        /\ IsInjective(lr.record.traces)
        /\ Range(lr.record.traces) = lr.given
        /\ lr.record.trace # None => lr.record.trace \in lr.given

(* What is told to one logger never reaches the settings of one made by      *)
(* anew, before or after, nor the other way.                               *)
ChildrenAreApart ==
    \A l \in Loggers(lr) :
        lr.told[l].born = "anew" =>
            /\ lr.options[lr.loggers[l].options].provider = lr.told[l].provider
            /\ lr.options[lr.loggers[l].options].otel = lr.told[l].otel

(* The same of two loggers made by new. It does not hold: new keeps the     *)
(* options object of its caller, and two loggers made from one see each     *)
(* other's setters.                                                         *)
RootsAreApart ==
    \A l \in Loggers(lr) : lr.options[lr.loggers[l].options].otel = lr.told[l].otel
=============================================================================
