---------------------------- MODULE ServerProofs ----------------------------
(***************************************************************************)
(* What TLAPS proves of a server and of the requests it serves, for every  *)
(* value of the constants.  Part 1, of MCRecords: a frame shows no other   *)
(* request's context, a snapshot is the same graph as the context, and the *)
(* loggers and records made of it keep their settings apart and list their *)
(* trace.  Part 2, of ServerLifecycle: the shutdown of the servers.        *)
(***************************************************************************)
EXTENDS MCRecords, ServerLifecycle, ListTheorems, TLAPS

(***************************************************************************)
(* Part 1: contexts, their snapshots, and the records made of them         *)
(***************************************************************************)

(* The same of each instance of the module.                                 *)
LEMMA UniqueInstances ==
    /\ \A s : Builder!Unique(s) = Unique(s) /\ Contexts!Unique(s) = Unique(s)
    /\ \A s : Builder!Range(s) = Range(s) /\ Contexts!Range(s) = Range(s)
    /\ \A s : (Builder!IsInjective(s) <=> Injective(s)) /\ (Contexts!IsInjective(s) <=> Injective(s))
    /\ \A s, S : Contexts!Without(s, S) = Without(s, S)
  <1>1. \A s : Builder!Range(s) = Range(s) /\ Contexts!Range(s) = Range(s)
    BY DEF Builder!Range, Contexts!Range, Range
  <1>2. \A s : Builder!Unique(s) = Unique(s) /\ Contexts!Unique(s) = Unique(s)
    BY DEF Builder!Unique, Contexts!Unique, Unique, Builder!Range, Contexts!Range, Range
  <1>3. \A s : (Builder!IsInjective(s) <=> Injective(s)) /\ (Contexts!IsInjective(s) <=> Injective(s))
    BY DEF Builder!IsInjective, Contexts!IsInjective, Injective
  <1>4. \A s, S : Contexts!Without(s, S) = Without(s, S)
    BY DEF Contexts!Without, Without
  <1> QED
    BY <1>1, <1>2, <1>3, <1>4

(***************************************************************************)
(* The settings of loggers                                                 *)
(***************************************************************************)
Ids == LrValues \cup {"none"}
Settings == [provider : {"none", "set", "throws"}, otel : {"on", "off"}]
Made == [options : Nat, field : Ids, user : Ids]
Tellings == [provider : {"none", "set", "throws"}, otel : {"on", "off"}, born : {"new", "anew"}]

(* A logger made by anew has options of its own, and they say what it was   *)
(* told.                                                                    *)
ApartGood(o, l, t) ==
    /\ o \in Seq(Settings) /\ l \in Seq(Made) /\ t \in Seq(Tellings) /\ Len(t) = Len(l)
    /\ \A k \in 1..Len(l) : l[k].options \in 1..Len(o)
    /\ \A k \in 1..Len(l) : t[k].born = "anew" =>
          o[l[k].options].provider = t[k].provider /\ o[l[k].options].otel = t[k].otel
    /\ \A k, m \in 1..Len(l) : k # m /\ t[k].born = "anew" => l[m].options # l[k].options

(* A logger that is made keeps the settings of the others apart. *)
LEMMA LoggerMade ==
    ASSUME NEW o, NEW l, NEW t, ApartGood(o, l, t), NEW q \in Seq(Settings),
           Len(o) <= Len(q), \A i \in 1..Len(o) : q[i] = o[i],
           NEW g \in Made, g.options \in 1..Len(q), NEW s \in Tellings,
           \A k \in 1..Len(l) : s.born = "anew" \/ t[k].born = "anew" => l[k].options # g.options,
           s.born = "anew" => q[g.options].provider = s.provider /\ q[g.options].otel = s.otel
    PROVE  ApartGood(q, Append(l, g), Append(t, s))
  <1> DEFINE l2 == Append(l, g)
             t2 == Append(t, s)
             n == Len(l)
  <1>1. /\ o \in Seq(Settings) /\ l \in Seq(Made) /\ t \in Seq(Tellings) /\ Len(t) = n
        /\ \A k \in 1..n : l[k].options \in 1..Len(o)
        /\ \A k \in 1..n : t[k].born = "anew" =>
              o[l[k].options].provider = t[k].provider /\ o[l[k].options].otel = t[k].otel
        /\ \A k, m \in 1..n : k # m /\ t[k].born = "anew" => l[m].options # l[k].options
    BY DEF ApartGood
  <1>2. /\ l2 \in Seq(Made) /\ Len(l2) = n + 1 /\ l2[n + 1] = g
        /\ \A k \in 1..n : l2[k] = l[k]
    BY <1>1, AppendProperties
  <1>3. /\ t2 \in Seq(Tellings) /\ Len(t2) = n + 1 /\ t2[n + 1] = s
        /\ \A k \in 1..n : t2[k] = t[k]
    BY <1>1, AppendProperties
  <1>4. n \in Nat /\ Len(o) \in Nat /\ Len(q) \in Nat
    BY <1>1, LenProperties
  <1> HIDE DEF l2, t2, n
  <1>5. \A k \in 1..n + 1 : k \in 1..n \/ k = n + 1
    BY <1>4
  <1>6. \A k \in 1..n + 1 : l2[k].options \in 1..Len(q)
    <2>1. 1..Len(o) \subseteq 1..Len(q)
      BY <1>4
    <2> QED
      BY <1>1, <1>2, <1>5, <2>1
  <1>7. ASSUME NEW k \in 1..n + 1, t2[k].born = "anew"
        PROVE  q[l2[k].options].provider = t2[k].provider /\ q[l2[k].options].otel = t2[k].otel
    <2>1. CASE k = n + 1
      <3>1. l2[k] = g /\ t2[k] = s
        BY <1>2, <1>3, <2>1
      <3> QED
        BY <1>7, <3>1
    <2>2. CASE k \in 1..n
      <3>1. l2[k] = l[k] /\ t2[k] = t[k] /\ l[k].options \in 1..Len(o)
        BY <1>1, <1>2, <1>3, <2>2
      <3>2. o[l[k].options].provider = t[k].provider /\ o[l[k].options].otel = t[k].otel
        BY <1>1, <1>7, <2>2, <3>1
      <3> QED
        BY <3>1, <3>2
    <2> QED
      BY <1>5, <2>1, <2>2
  <1>8. ASSUME NEW k \in 1..n + 1, NEW m \in 1..n + 1, k # m, t2[k].born = "anew"
        PROVE  l2[m].options # l2[k].options
    <2>1. CASE k = n + 1
      <3>1. m \in 1..n /\ l2[k] = g /\ l2[m] = l[m] /\ t2[k] = s
        BY <1>2, <1>3, <1>5, <1>8, <2>1
      <3> QED
        BY <1>8, <3>1 DEF n
    <2>2. CASE m = n + 1
      <3>1. k \in 1..n /\ l2[k] = l[k] /\ l2[m] = g /\ t2[k] = t[k]
        BY <1>2, <1>3, <1>5, <1>8, <2>2
      <3> QED
        BY <1>8, <3>1 DEF n
    <2>3. CASE k \in 1..n /\ m \in 1..n
      <3>1. l2[k] = l[k] /\ l2[m] = l[m] /\ t2[k] = t[k]
        BY <1>2, <1>3, <2>3
      <3> QED
        BY <1>1, <1>8, <2>3, <3>1
    <2> QED
      BY <1>5, <2>1, <2>2, <2>3
  <1>9. ApartGood(q, l2, t2)
    BY <1>2, <1>3, <1>6, <1>7, <1>8 DEF ApartGood
  <1> QED
    BY <1>9 DEF l2, t2

(* A setter writes through into the options of its logger.                  *)
LEMMA SettingWritten ==
    ASSUME NEW o, NEW l, NEW t, ApartGood(o, l, t), NEW i \in 1..Len(l),
           NEW a \in Settings, NEW b \in Tellings, b.born = t[i].born,
           a.provider = b.provider \/
             (a.provider = o[l[i].options].provider /\ b.provider = t[i].provider),
           a.otel = b.otel \/ (a.otel = o[l[i].options].otel /\ b.otel = t[i].otel)
    PROVE  ApartGood([o EXCEPT ![l[i].options] = a], l, [t EXCEPT ![i] = b])
  <1> DEFINE j == l[i].options
             q == [o EXCEPT ![j] = a]
             t2 == [t EXCEPT ![i] = b]
  <1>1. /\ o \in Seq(Settings) /\ l \in Seq(Made) /\ t \in Seq(Tellings) /\ Len(t) = Len(l)
        /\ \A k \in 1..Len(l) : l[k].options \in 1..Len(o)
        /\ \A k \in 1..Len(l) : t[k].born = "anew" =>
              o[l[k].options].provider = t[k].provider /\ o[l[k].options].otel = t[k].otel
        /\ \A k, m \in 1..Len(l) : k # m /\ t[k].born = "anew" => l[m].options # l[k].options
    BY DEF ApartGood
  <1>2. j \in 1..Len(o) /\ i \in 1..Len(t)
    BY <1>1
  <1>3. q \in Seq(Settings) /\ Len(q) = Len(o) /\ \A m \in 1..Len(o) : q[m] = IF m = j THEN a ELSE o[m]
    <2> HIDE DEF j
    <2> QED
      BY <1>1, <1>2, ExceptSeq
  <1>4. t2 \in Seq(Tellings) /\ Len(t2) = Len(t) /\ \A m \in 1..Len(t) : t2[m] = IF m = i THEN b ELSE t[m]
    BY <1>1, <1>2, ExceptSeq
  <1> HIDE DEF q, t2
  <1>5. \A k \in 1..Len(l) : t2[k].born = t[k].born
    BY <1>1, <1>4
  <1>6. ASSUME NEW k \in 1..Len(l), t2[k].born = "anew"
        PROVE  q[l[k].options].provider = t2[k].provider /\ q[l[k].options].otel = t2[k].otel
    <2>1. t[k].born = "anew" /\ l[k].options \in 1..Len(o) /\ k \in 1..Len(t)
      BY <1>1, <1>5, <1>6
    <2>2. o[l[k].options].provider = t[k].provider /\ o[l[k].options].otel = t[k].otel
      BY <1>1, <2>1
    <2>3. CASE k = i
      <3>1. q[l[k].options] = a /\ t2[k] = b
        BY <1>3, <1>4, <2>1, <2>3
      <3> QED
        BY <2>2, <2>3, <3>1
    <2>4. CASE k # i
      <3>1. l[k].options # j
        BY <1>1, <2>1, <2>4
      <3>2. q[l[k].options] = o[l[k].options] /\ t2[k] = t[k]
        BY <1>3, <1>4, <2>1, <2>4, <3>1
      <3> QED
        BY <2>2, <3>2
    <2> QED
      BY <2>3, <2>4
  <1>7. ApartGood(q, l, t2)
    BY <1>1, <1>3, <1>4, <1>5, <1>6 DEF ApartGood
  <1> QED
    BY <1>7 DEF q, t2

(* What a logger is called, or who uses it, is none of its settings.        *)
LEMMA LoggerNamed ==
    ASSUME NEW o, NEW l, NEW t, ApartGood(o, l, t), NEW i \in 1..Len(l),
           NEW a \in Made, a.options = l[i].options
    PROVE  ApartGood(o, [l EXCEPT ![i] = a], t)
  <1> DEFINE q == [l EXCEPT ![i] = a]
  <1>1. l \in Seq(Made)
    BY DEF ApartGood
  <1>2. q \in Seq(Made) /\ Len(q) = Len(l) /\ \A m \in 1..Len(l) : q[m] = IF m = i THEN a ELSE l[m]
    BY <1>1, ExceptSeq
  <1> HIDE DEF q
  <1>3. \A m \in 1..Len(l) : q[m].options = l[m].options
    BY <1>2
  <1>4. ApartGood(o, q, t)
    BY <1>2, <1>3 DEF ApartGood
  <1> QED
    BY <1>4 DEF q

(***************************************************************************)
(* The trace ids of a record                                               *)
(***************************************************************************)
SaysOf(c) == c \in [field : Ids, user : Ids, trace : Ids, traces : Seq(Ids)]
SaidGood(e) == SaysOf(e) /\ (e.trace # "none" => e.trace \in Range(e.traces))
ListedGood(made, record, given) ==
    made => /\ Injective(record.traces) /\ Range(record.traces) = given
            /\ record.trace # "none" => record.trace \in given

(* A builder that says nothing lists its trace. *)
LEMMA NothingSaid == SaidGood(Builder!Nothing)
  <1>1. <<>> \in Seq(Ids) /\ "none" \in Ids
    BY DEF Ids
  <1> QED
    BY <1>1 DEF SaidGood, SaysOf, Builder!Nothing, Builder!None

(* A trace id that is added is listed once, and the first is the trace. *)
LEMMA TraceAdded ==
    ASSUME NEW e, SaidGood(e), NEW id \in LrValues, NEW first \in BOOLEAN
    PROVE  SaidGood(Builder!AddTrace(e, id, first))
  <1> DEFINE trace == IF e.trace = "none" \/ first THEN id ELSE e.trace
             traces == IF id \in Range(e.traces) THEN e.traces ELSE Append(e.traces, id)
  <1>1. /\ e \in [field : Ids, user : Ids, trace : Ids, traces : Seq(Ids)]
        /\ e.trace \in Ids /\ e.traces \in Seq(Ids)
        /\ e.trace # "none" => e.trace \in Range(e.traces)
    BY DEF SaidGood, SaysOf
  <1>2. id \in Ids
    BY DEF Ids
  <1>3. Builder!AddTrace(e, id, first) = [e EXCEPT !.trace = trace, !.traces = traces]
    BY UniqueInstances DEF Builder!AddTrace, Builder!None
  <1>4. traces \in Seq(Ids) /\ Range(traces) = Range(e.traces) \cup {id}
    <2>1. CASE id \in Range(e.traces)
      BY <1>1, <2>1
    <2>2. CASE id \notin Range(e.traces)
      <3> DEFINE s == e.traces
                 q == Append(s, id)
      <3>1. /\ q \in Seq(Ids) /\ Len(q) = Len(s) + 1 /\ q[Len(s) + 1] = id
            /\ \A i \in 1..Len(s) : q[i] = s[i]
        BY <1>1, <1>2, AppendProperties
      <3> HIDE DEF q
      <3>2. DOMAIN s = 1..Len(s) /\ Len(s) \in Nat /\ DOMAIN q = 1..Len(s) + 1
        BY <1>1, <3>1, LenProperties
      <3>3. Range(q) = Range(s) \cup {id}
        BY <3>1, <3>2 DEF Range
      <3>4. traces = q
        BY <2>2 DEF q
      <3> QED
        BY <3>1, <3>3, <3>4
    <2> QED
      BY <2>1, <2>2
  <1>5. trace \in Ids /\ trace \in Range(e.traces) \cup {id}
    BY <1>1, <1>2
  <1> HIDE DEF trace, traces
  <1> DEFINE g == [e EXCEPT !.trace = trace, !.traces = traces]
  <1>6. g \in [field : Ids, user : Ids, trace : Ids, traces : Seq(Ids)]
    BY <1>1, <1>4, <1>5
  <1>8. g.trace = trace /\ g.traces = traces
    BY <1>1
  <1> HIDE DEF g
  <1>7. SaidGood(g)
    BY <1>4, <1>5, <1>6, <1>8 DEF SaidGood, SaysOf
  <1> QED
    BY <1>3, <1>7 DEF g

(* The record lists the ids of its event and of its context, each once.     *)
LEMMA RecordListed ==
    ASSUME NEW x, SaidGood(x.event.said), NEW c, c = Builder!GetContext(x, x.event.logger), SaysOf(c),
           NEW runtime, NEW r, r = Builder!ToJSON(x, runtime), NEW given,
           given = Range(x.event.said.traces) \cup Range(c.traces) \cup ({c.trace} \ {"none"})
    PROVE  ListedGood(TRUE, r, given)
  <1> DEFINE e == x.event.said
             primary == IF c.trace = "none" THEN <<>> ELSE <<c.trace>>
             all == e.traces \o primary \o c.traces
  <1>1. /\ r.traces = Builder!Unique(all)
        /\ r.trace = IF e.trace # "none" THEN e.trace ELSE c.trace
    BY DEF Builder!ToJSON, Builder!None
  <1>2. /\ e.traces \in Seq(Ids) /\ c.traces \in Seq(Ids) /\ c.trace \in Ids
        /\ e.trace # "none" => e.trace \in Range(e.traces)
    BY DEF SaidGood, SaysOf
  <1>3. primary \in Seq(Ids) /\ Range(primary) = {c.trace} \ {"none"}
    <2>1. CASE c.trace = "none"
      BY <2>1 DEF Range
    <2>2. CASE c.trace # "none"
      <3>1. primary = <<c.trace>>
        BY <2>2
      <3>2. <<c.trace>> \in Seq(Ids) /\ DOMAIN <<c.trace>> = {1} /\ <<c.trace>>[1] = c.trace
        BY <1>2
      <3>3. Range(<<c.trace>>) = {c.trace}
        BY <3>2 DEF Range
      <3> QED
        BY <2>2, <3>1, <3>2, <3>3
    <2> QED
      BY <2>1, <2>2
  <1> HIDE DEF primary, e
  <1>4. all \in Seq(Ids) /\ Range(all) = given
    <2>1. e.traces \o primary \in Seq(Ids) /\ Range(e.traces \o primary) = Range(e.traces) \cup Range(primary)
      BY <1>2, <1>3, RangeTogether
    <2>2. all \in Seq(Ids) /\ Range(all) = Range(e.traces \o primary) \cup Range(c.traces)
      <3> DEFINE left == e.traces \o primary
                 right == c.traces
      <3>1. left \in Seq(Ids) /\ right \in Seq(Ids)
        BY <1>2, <2>1
      <3> HIDE DEF left, right
      <3>2. left \o right \in Seq(Ids) /\ Range(left \o right) = Range(left) \cup Range(right)
        BY <3>1, RangeTogether
      <3> QED
        BY <3>2 DEF left, right
    <2>3. given = Range(e.traces) \cup Range(c.traces) \cup ({c.trace} \ {"none"})
      BY DEF e
    <2> QED
      BY <1>3, <2>1, <2>2, <2>3
  <1> HIDE DEF all
  <1>5. Injective(r.traces) /\ Range(r.traces) = given
    BY <1>1, <1>4, UniqueKeeps, UniqueInstances
  <1>6. r.trace # "none" => r.trace \in given
    <2>1. given = Range(e.traces) \cup Range(c.traces) \cup ({c.trace} \ {"none"})
      BY DEF e
    <2> QED
      BY <1>1, <1>2, <2>1
  <1> QED
    BY <1>5, <1>6 DEF ListedGood

(***************************************************************************)
(* The steps of a builder                                                  *)
(***************************************************************************)
BuEvents == [logger : Nat, said : [field : Ids, user : Ids, trace : Ids, traces : Seq(Ids)],
             otel : {"on", "off", "none"}]

BuStates(x) ==
    [options : {x.options}, loggers : {x.loggers}, told : {x.told}, ambient : {x.ambient},
     event : {x.event}, record : {x.record}, made : {x.made}, given : {x.given}, steps : {x.steps}]

(* The invariant of a builder: loggers made by anew are apart, what the     *)
(* context and the event say has its form, and the record lists its ids.   *)
BuGood(x) ==
    /\ x \in BuStates(x) /\ x.event \in BuEvents
    /\ ApartGood(x.options, x.loggers, x.told)
    /\ SaysOf(x.ambient) /\ SaidGood(x.event.said)
    /\ ListedGood(x.made, x.record, x.given)

(* Where a step of a builder leads.                                         *)
BuTo(x, o, l, t, a, e) ==
    [x EXCEPT !.options = o, !.loggers = l, !.told = t, !.ambient = a, !.event = e]
BuIs(y, x, o, l, t, a, e) ==
    /\ y \in BuStates(y) /\ y.options = o /\ y.loggers = l /\ y.told = t /\ y.ambient = a
    /\ y.event = e /\ y.record = x.record /\ y.made = x.made /\ y.given = x.given

(* A step counts, and changes nothing more.                                 *)
LEMMA BuCounts ==
    ASSUME NEW x, NEW y, NEW o, NEW l, NEW t, NEW a, NEW e, BuIs(y, x, o, l, t, a, e)
    PROVE  BuIs(Builder!Step(y), x, o, l, t, a, e)
  <1> DEFINE z == Builder!Step(y)
  <1>1. z = [y EXCEPT !.steps = y.steps + 1] /\ y \in BuStates(y)
    BY DEF Builder!Step, BuIs
  <1> HIDE DEF z
  <1>2. /\ z \in BuStates(z) /\ z.options = y.options /\ z.loggers = y.loggers /\ z.told = y.told
        /\ z.ambient = y.ambient /\ z.event = y.event /\ z.record = y.record /\ z.made = y.made
        /\ z.given = y.given
    BY <1>1 DEF BuStates
  <1>3. BuIs(z, x, o, l, t, a, e)
    BY <1>2 DEF BuIs
  <1> QED
    BY <1>3 DEF z

(* A step keeps the invariant when what it writes does.                     *)
LEMMA BuMoved ==
    ASSUME BuGood(state), NEW y, NEW o, NEW l, NEW t, NEW a, NEW e,
           state' = Builder!Step(y), BuIs(y, state, o, l, t, a, e),
           ApartGood(o, l, t), SaysOf(a), e \in BuEvents, SaidGood(e.said)
    PROVE  BuGood(state')
  <1>1. BuIs(state', state, o, l, t, a, e)
    BY BuCounts
  <1> QED
    BY <1>1 DEF BuIs, BuGood

(* What is known of a builder.                                              *)
BuKnown(x) ==
    /\ x \in BuStates(x) /\ x.event \in BuEvents
    /\ x.options \in Seq(Settings) /\ x.loggers \in Seq(Made) /\ x.told \in Seq(Tellings)
    /\ Len(x.told) = Len(x.loggers) /\ DOMAIN x.loggers = 1..Len(x.loggers)
    /\ Len(x.options) \in Nat /\ Len(x.loggers) \in Nat
    /\ \A k \in 1..Len(x.loggers) :
          /\ x.loggers[k] \in Made /\ x.told[k] \in Tellings
          /\ x.loggers[k].options \in 1..Len(x.options)
          /\ x.options[x.loggers[k].options] \in Settings

(* What the invariant says of the types. *)
LEMMA BuTyped == ASSUME NEW x, BuGood(x) PROVE BuKnown(x)
  <1> DEFINE o == x.options
             l == x.loggers
             t == x.told
  <1>1. /\ o \in Seq(Settings) /\ l \in Seq(Made) /\ t \in Seq(Tellings) /\ Len(t) = Len(l)
        /\ \A k \in 1..Len(l) : l[k].options \in 1..Len(o)
    BY DEF BuGood, ApartGood
  <1>2. x \in BuStates(x) /\ x.event \in BuEvents
    BY DEF BuGood
  <1> HIDE DEF o, l, t
  <1>3. DOMAIN l = 1..Len(l) /\ Len(o) \in Nat /\ Len(l) \in Nat
    BY <1>1, LenProperties
  <1>4. \A k \in 1..Len(l) : l[k] \in Made /\ t[k] \in Tellings
    BY <1>1, <1>3
  <1>5. \A k \in 1..Len(o) : o[k] \in Settings
    BY <1>1
  <1>6. \A k \in 1..Len(l) : o[l[k].options] \in Settings
    BY <1>1, <1>5
  <1> QED
    BY <1>1, <1>2, <1>3, <1>4, <1>6 DEF BuKnown, o, l, t

-----------------------------------------------------------------------------
(* Loggers *)

(* A root logger that is made keeps the invariant. *)
LEMMA BuNew ==
    ASSUME BuGood(state), NEW o \in 1..LrMaxOptions, Builder!NewRoot(o)
    PROVE  BuGood(state')
  <1> DEFINE fresh == [provider |-> "none", otel |-> "on"]
             old == o <= Len(state.options)
             q == IF old THEN state.options ELSE Append(state.options, fresh)
             x == IF old THEN state ELSE [state EXCEPT !.options = Append(state.options, fresh)]
             g == [options |-> o, field |-> "none", user |-> "none"]
             s == Builder!Told(x, o, "new")
             l2 == Append(state.loggers, g)
             t2 == Append(state.told, s)
             y == [x EXCEPT !.loggers = Append(x.loggers, g), !.told = Append(x.told, s)]
  <1>0. BuKnown(state) /\ ApartGood(state.options, state.loggers, state.told)
    BY BuTyped DEF BuGood
  <1>1. /\ o \in Nat /\ 1 <= o /\ o <= Len(state.options) + 1
        /\ \A k \in 1..Len(state.loggers) :
              state.told[k].born = "anew" => state.loggers[k].options # o
        /\ state' = Builder!Step(y)
    <2>1. o \in Nat /\ 1 <= o
      BY RecordAssumption
    <2>2. /\ o <= Len(state.options) + 1
          /\ \A k \in 1..Len(state.loggers) :
                state.told[k].born = "anew" => state.loggers[k].options # o
      BY <1>0 DEF Builder!NewRoot, Builder!Loggers, BuKnown
    <2>3. state' = Builder!Step(y)
      BY DEF Builder!NewRoot, Builder!None
    <2> QED
      BY <2>1, <2>2, <2>3
  <1>2. /\ state.options \in Seq(Settings) /\ Len(state.options) \in Nat
        /\ fresh \in Settings /\ g \in Made /\ state \in BuStates(state) /\ state.event \in BuEvents
    BY <1>0, <1>1 DEF BuKnown, Settings, Made, Ids
  <1>3. /\ q \in Seq(Settings) /\ Len(state.options) <= Len(q) /\ o \in 1..Len(q)
        /\ \A i \in 1..Len(state.options) : q[i] = state.options[i]
    <2>1. CASE old
      BY <1>1, <1>2, <2>1
    <2>2. CASE ~old
      <3> DEFINE r == Append(state.options, fresh)
      <3>1. /\ r \in Seq(Settings) /\ Len(r) = Len(state.options) + 1
            /\ \A i \in 1..Len(state.options) : r[i] = state.options[i]
        BY <1>2, AppendProperties
      <3>2. q = r
        BY <2>2
      <3> HIDE DEF r, q, fresh
      <3> QED
        BY <1>1, <1>2, <3>1, <3>2
    <2> HIDE DEF old, q
    <2> QED
      BY <2>1, <2>2
  <1>4. /\ x \in BuStates(x) /\ x.options = q /\ x.loggers = state.loggers /\ x.told = state.told
        /\ x.ambient = state.ambient /\ x.event = state.event /\ x.record = state.record
        /\ x.made = state.made /\ x.given = state.given
    <2>1. CASE old
      BY <1>2, <2>1
    <2>2. CASE ~old
      BY <1>2, <2>2 DEF BuStates
    <2> QED
      BY <2>1, <2>2
  <1> HIDE DEF q, x, fresh, old
  <1>5. /\ s \in Tellings /\ s.born = "new"
        /\ s.provider = q[o].provider /\ s.otel = q[o].otel
    <2>1. s = [provider |-> q[o].provider, otel |-> q[o].otel, born |-> "new"]
      BY <1>4 DEF Builder!Told
    <2>2. q[o] \in Settings
      BY <1>3
    <2>3. q[o].provider \in {"none", "set", "throws"} /\ q[o].otel \in {"on", "off"}
      BY <2>2 DEF Settings
    <2> QED
      BY <2>1, <2>3 DEF Tellings
  <1> HIDE DEF s
  <1>6. ApartGood(q, l2, t2)
    <2>1. g.options = o
      OBVIOUS
    <2> HIDE DEF g
    <2> QED
      BY <1>0, <1>1, <1>2, <1>3, <1>5, <2>1, LoggerMade
  <1>7. BuIs(y, state, q, l2, t2, state.ambient, state.event)
    <2> HIDE DEF g
    <2>1. y \in BuStates(y) /\ y.options = x.options /\ y.loggers = Append(x.loggers, g)
          /\ y.told = Append(x.told, s)
          /\ y.ambient = x.ambient /\ y.event = x.event /\ y.record = x.record
          /\ y.made = x.made /\ y.given = x.given
      BY <1>4 DEF BuStates
    <2> HIDE DEF y
    <2> QED
      BY <1>4, <2>1 DEF BuIs
  <1> HIDE DEF y, l2, t2
  <1> QED
    BY <1>1, <1>2, <1>6, <1>7, BuMoved DEF BuGood

(* A logger made anew keeps it. *)
LEMMA BuAnew ==
    ASSUME BuGood(state), NEW l \in DOMAIN state.loggers, Builder!Anew(l)
    PROVE  BuGood(state')
  <1> DEFINE a == state.options[state.loggers[l].options]
             q == Append(state.options, a)
             n == Len(state.options)
             g == [state.loggers[l] EXCEPT !.options = n + 1]
             s == Builder!Told(state, state.loggers[l].options, "anew")
             l2 == Append(state.loggers, g)
             t2 == Append(state.told, s)
             y == [state EXCEPT !.options = q, !.loggers = l2, !.told = t2]
  <1>0. BuKnown(state) /\ ApartGood(state.options, state.loggers, state.told)
    BY BuTyped DEF BuGood
  <1>1. state' = Builder!Step(y)
    BY DEF Builder!Anew
  <1>2. /\ l \in 1..Len(state.loggers) /\ state.options \in Seq(Settings) /\ n \in Nat /\ a \in Settings
        /\ state \in BuStates(state) /\ state.event \in BuEvents /\ state.loggers[l] \in Made
        /\ \A k \in 1..Len(state.loggers) : state.loggers[k].options \in 1..n
    BY <1>0 DEF BuKnown
  <1>3. g \in Made /\ g.options = n + 1
    BY <1>2 DEF Made
  <1>4. /\ q \in Seq(Settings) /\ Len(q) = n + 1 /\ q[n + 1] = a
        /\ \A i \in 1..n : q[i] = state.options[i]
    <2> HIDE DEF a
    <2> QED
      BY <1>2, AppendProperties
  <1>5. s \in Tellings /\ s.born = "anew" /\ s.provider = a.provider /\ s.otel = a.otel
    <2>1. s = [provider |-> a.provider, otel |-> a.otel, born |-> "anew"]
      BY DEF Builder!Told
    <2>3. a.provider \in {"none", "set", "throws"} /\ a.otel \in {"on", "off"}
      BY <1>2 DEF Settings
    <2> QED
      BY <2>1, <2>3 DEF Tellings
  <1> HIDE DEF a, q, g, s
  <1>6. ApartGood(q, l2, t2)
    <2>1. \A k \in 1..Len(state.loggers) : state.loggers[k].options # g.options
      BY <1>2, <1>3
    <2>2. n <= Len(q) /\ g.options \in 1..Len(q)
      BY <1>2, <1>3, <1>4
    <2>3. q[g.options].provider = s.provider /\ q[g.options].otel = s.otel
      BY <1>3, <1>4, <1>5
    <2> QED
      BY <1>0, <1>3, <1>4, <1>5, <2>1, <2>2, <2>3, LoggerMade
  <1>7. BuIs(y, state, q, l2, t2, state.ambient, state.event)
    <2> HIDE DEF l2, t2
    <2>1. y \in BuStates(y) /\ y.options = q /\ y.loggers = l2 /\ y.told = t2
          /\ y.ambient = state.ambient /\ y.event = state.event /\ y.record = state.record
          /\ y.made = state.made /\ y.given = state.given
      BY <1>2 DEF BuStates
    <2> HIDE DEF y
    <2> QED
      BY <2>1 DEF BuIs
  <1> HIDE DEF y, l2, t2
  <1> QED
    BY <1>1, <1>2, <1>6, <1>7, BuMoved DEF BuGood

(* A setter writes to the options, and is what its logger was told.         *)
LEMMA BuProvider ==
    ASSUME BuGood(state), NEW l \in DOMAIN state.loggers, NEW v \in {"none", "set", "throws"}, Builder!SetContextProvider(l, v)
    PROVE  BuGood(state')
  <1> DEFINE j == state.loggers[l].options
             a == [state.options[j] EXCEPT !.provider = v]
             b == [state.told[l] EXCEPT !.provider = v]
             q == [state.options EXCEPT ![j] = a]
             t2 == [state.told EXCEPT ![l] = b]
             y == [state EXCEPT !.options[j].provider = v, !.told[l].provider = v]
  <1>0. BuKnown(state) /\ ApartGood(state.options, state.loggers, state.told)
    BY BuTyped DEF BuGood
  <1>1. state' = Builder!Step(y)
    BY DEF Builder!SetContextProvider
  <1>2. /\ l \in 1..Len(state.loggers) /\ state.options[j] \in Settings /\ state.told[l] \in Tellings
        /\ state \in BuStates(state) /\ state.event \in BuEvents
    BY <1>0 DEF BuKnown
  <1>3. /\ a \in Settings /\ a.provider = v /\ a.otel = state.options[j].otel
        /\ b \in Tellings /\ b.provider = v /\ b.otel = state.told[l].otel /\ b.born = state.told[l].born
    <2>1. a \in Settings /\ a.provider = v /\ a.otel = state.options[j].otel
      <3> DEFINE w == state.options[j]
      <3>1. w \in Settings
        BY <1>2
      <3> HIDE DEF w
      <3>2. /\ [w EXCEPT !.provider = v] \in Settings /\ [w EXCEPT !.provider = v].provider = v
            /\ [w EXCEPT !.provider = v].otel = w.otel
        BY <3>1 DEF Settings
      <3> QED
        BY <3>2 DEF w
    <2>2. b \in Tellings /\ b.provider = v /\ b.otel = state.told[l].otel /\ b.born = state.told[l].born
      <3> DEFINE w == state.told[l]
      <3>1. w \in Tellings
        BY <1>2
      <3> HIDE DEF w
      <3>2. /\ [w EXCEPT !.provider = v] \in Tellings /\ [w EXCEPT !.provider = v].provider = v
            /\ [w EXCEPT !.provider = v].otel = w.otel /\ [w EXCEPT !.provider = v].born = w.born
        BY <3>1 DEF Tellings
      <3> QED
        BY <3>2 DEF w
    <2> QED
      BY <2>1, <2>2
  <1>4. y = [state EXCEPT !.options = q, !.told = t2]
    BY <1>2 DEF BuStates
  <1> HIDE DEF a, b, y
  <1>5. ApartGood(q, state.loggers, t2)
    BY <1>0, <1>2, <1>3, SettingWritten
  <1>6. BuIs(y, state, q, state.loggers, t2, state.ambient, state.event)
    <2> HIDE DEF q, t2
    <2>1. /\ y \in BuStates(y) /\ y.options = q /\ y.loggers = state.loggers /\ y.told = t2
          /\ y.ambient = state.ambient /\ y.event = state.event /\ y.record = state.record
          /\ y.made = state.made /\ y.given = state.given
      BY <1>2, <1>4 DEF BuStates
    <2> QED
      BY <2>1 DEF BuIs
  <1> HIDE DEF q, t2
  <1> QED
    BY <1>1, <1>2, <1>5, <1>6, BuMoved DEF BuGood

(* Switching OTEL of one logger keeps it. *)
LEMMA BuOtel ==
    ASSUME BuGood(state), NEW l \in DOMAIN state.loggers, NEW v \in {"on", "off"}, Builder!SetOtelEnabled(l, v)
    PROVE  BuGood(state')
  <1> DEFINE j == state.loggers[l].options
             a == [state.options[j] EXCEPT !.otel = v]
             b == [state.told[l] EXCEPT !.otel = v]
             q == [state.options EXCEPT ![j] = a]
             t2 == [state.told EXCEPT ![l] = b]
             y == [state EXCEPT !.options[j].otel = v, !.told[l].otel = v]
  <1>0. BuKnown(state) /\ ApartGood(state.options, state.loggers, state.told)
    BY BuTyped DEF BuGood
  <1>1. state' = Builder!Step(y)
    BY DEF Builder!SetOtelEnabled
  <1>2. /\ l \in 1..Len(state.loggers) /\ state.options[j] \in Settings /\ state.told[l] \in Tellings
        /\ state \in BuStates(state) /\ state.event \in BuEvents
    BY <1>0 DEF BuKnown
  <1>3. /\ a \in Settings /\ a.otel = v /\ a.provider = state.options[j].provider
        /\ b \in Tellings /\ b.otel = v /\ b.provider = state.told[l].provider /\ b.born = state.told[l].born
    <2>1. a \in Settings /\ a.otel = v /\ a.provider = state.options[j].provider
      <3> DEFINE w == state.options[j]
      <3>1. w \in Settings
        BY <1>2
      <3> HIDE DEF w
      <3>2. /\ [w EXCEPT !.otel = v] \in Settings /\ [w EXCEPT !.otel = v].otel = v
            /\ [w EXCEPT !.otel = v].provider = w.provider
        BY <3>1 DEF Settings
      <3> QED
        BY <3>2 DEF w
    <2>2. b \in Tellings /\ b.otel = v /\ b.provider = state.told[l].provider /\ b.born = state.told[l].born
      <3> DEFINE w == state.told[l]
      <3>1. w \in Tellings
        BY <1>2
      <3> HIDE DEF w
      <3>2. /\ [w EXCEPT !.otel = v] \in Tellings /\ [w EXCEPT !.otel = v].otel = v
            /\ [w EXCEPT !.otel = v].provider = w.provider /\ [w EXCEPT !.otel = v].born = w.born
        BY <3>1 DEF Tellings
      <3> QED
        BY <3>2 DEF w
    <2> QED
      BY <2>1, <2>2
  <1>4. y = [state EXCEPT !.options = q, !.told = t2]
    BY <1>2 DEF BuStates
  <1> HIDE DEF a, b, y
  <1>5. ApartGood(q, state.loggers, t2)
    BY <1>0, <1>2, <1>3, SettingWritten
  <1>6. BuIs(y, state, q, state.loggers, t2, state.ambient, state.event)
    <2> HIDE DEF q, t2
    <2>1. /\ y \in BuStates(y) /\ y.options = q /\ y.loggers = state.loggers /\ y.told = t2
          /\ y.ambient = state.ambient /\ y.event = state.event /\ y.record = state.record
          /\ y.made = state.made /\ y.given = state.given
      BY <1>2, <1>4 DEF BuStates
    <2> QED
      BY <2>1 DEF BuIs
  <1> HIDE DEF q, t2
  <1> QED
    BY <1>1, <1>2, <1>5, <1>6, BuMoved DEF BuGood

(* The fields and the user of a logger are its own.                         *)
LEMMA BuFields ==
    ASSUME BuGood(state), NEW l \in DOMAIN state.loggers, NEW v \in LrValues, Builder!AddFieldsToLogger(l, v)
    PROVE  BuGood(state')
  <1> DEFINE g == [state.loggers[l] EXCEPT !.field = v]
             q == [state.loggers EXCEPT ![l] = g]
             y == [state EXCEPT !.loggers[l].field = v]
  <1>0. BuKnown(state) /\ ApartGood(state.options, state.loggers, state.told)
    BY BuTyped DEF BuGood
  <1>1. state' = Builder!Step(y)
    BY DEF Builder!AddFieldsToLogger
  <1>2. /\ l \in 1..Len(state.loggers) /\ state.loggers[l] \in Made
        /\ state \in BuStates(state) /\ state.event \in BuEvents
    BY <1>0 DEF BuKnown
  <1>3. g \in Made /\ g.options = state.loggers[l].options
    BY <1>2 DEF Made, Ids
  <1>4. y = [state EXCEPT !.loggers = q]
    BY <1>2 DEF BuStates
  <1> HIDE DEF g, y
  <1>5. ApartGood(state.options, q, state.told)
    BY <1>0, <1>2, <1>3, LoggerNamed
  <1>6. BuIs(y, state, state.options, q, state.told, state.ambient, state.event)
    <2> HIDE DEF q
    <2>1. /\ y \in BuStates(y) /\ y.options = state.options /\ y.loggers = q /\ y.told = state.told
          /\ y.ambient = state.ambient /\ y.event = state.event /\ y.record = state.record
          /\ y.made = state.made /\ y.given = state.given
      BY <1>2, <1>4 DEF BuStates
    <2> QED
      BY <2>1 DEF BuIs
  <1> HIDE DEF q
  <1> QED
    BY <1>1, <1>2, <1>5, <1>6, BuMoved DEF BuGood

(* Setting the user of one logger keeps it. *)
LEMMA BuUser ==
    ASSUME BuGood(state), NEW l \in DOMAIN state.loggers, NEW v \in LrValues, Builder!SetCurrentUser(l, v)
    PROVE  BuGood(state')
  <1> DEFINE g == [state.loggers[l] EXCEPT !.user = v]
             q == [state.loggers EXCEPT ![l] = g]
             y == [state EXCEPT !.loggers[l].user = v]
  <1>0. BuKnown(state) /\ ApartGood(state.options, state.loggers, state.told)
    BY BuTyped DEF BuGood
  <1>1. state' = Builder!Step(y)
    BY DEF Builder!SetCurrentUser
  <1>2. /\ l \in 1..Len(state.loggers) /\ state.loggers[l] \in Made
        /\ state \in BuStates(state) /\ state.event \in BuEvents
    BY <1>0 DEF BuKnown
  <1>3. g \in Made /\ g.options = state.loggers[l].options
    BY <1>2 DEF Made, Ids
  <1>4. y = [state EXCEPT !.loggers = q]
    BY <1>2 DEF BuStates
  <1> HIDE DEF g, y
  <1>5. ApartGood(state.options, q, state.told)
    BY <1>0, <1>2, <1>3, LoggerNamed
  <1>6. BuIs(y, state, state.options, q, state.told, state.ambient, state.event)
    <2> HIDE DEF q
    <2>1. /\ y \in BuStates(y) /\ y.options = state.options /\ y.loggers = q /\ y.told = state.told
          /\ y.ambient = state.ambient /\ y.event = state.event /\ y.record = state.record
          /\ y.made = state.made /\ y.given = state.given
      BY <1>2, <1>4 DEF BuStates
    <2> QED
      BY <2>1 DEF BuIs
  <1> HIDE DEF q
  <1> QED
    BY <1>1, <1>2, <1>5, <1>6, BuMoved DEF BuGood

-----------------------------------------------------------------------------
(* The context, the event and the record *)

(* An ambient context that changes keeps it. *)
LEMMA BuAmbient ==
    ASSUME BuGood(state), NEW c \in Builder!Contexts, Builder!AmbientChanges(c)
    PROVE  BuGood(state')
  <1> DEFINE y == [state EXCEPT !.ambient = c]
  <1>0. BuKnown(state)
    BY BuTyped
  <1>1. state' = Builder!Step(y) /\ state \in BuStates(state) /\ state.event \in BuEvents
    BY <1>0 DEF Builder!AmbientChanges, BuKnown
  <1>2. SaysOf(c)
    <2> DEFINE empty == Builder!Nothing
    <2>1. /\ empty \in [field : Ids, user : Ids, trace : Ids, traces : Seq(Ids)]
          /\ \A w \in LrValues : w \in Ids /\ <<w>> \in Seq(Ids)
      <3>1. "none" \in Ids /\ <<>> \in Seq(Ids) /\ \A w \in LrValues : w \in Ids
        BY DEF Ids
      <3>2. \A w \in LrValues : <<w>> \in Seq(Ids)
        BY <3>1
      <3> QED
        BY <3>1, <3>2 DEF Builder!Nothing, Builder!None
    <2>2. \/ c = empty
          \/ \E v \in LrValues : c = [empty EXCEPT !.field = v, !.user = v]
          \/ \E v \in LrValues : c = [empty EXCEPT !.trace = v]
          \/ \E v \in LrValues \cup {"none"}, w \in LrValues :
                c = [empty EXCEPT !.trace = v, !.traces = <<w>>]
      <3> DEFINE A == {[empty EXCEPT !.field = v, !.user = v] : v \in LrValues}
                 B == {[empty EXCEPT !.trace = v] : v \in LrValues}
                 C == {[empty EXCEPT !.trace = p[1], !.traces = <<p[2]>>] :
                         p \in (LrValues \cup {"none"}) \X LrValues}
      <3>1. Builder!Contexts = {empty} \cup A \cup B \cup C
        BY DEF Builder!Contexts, Builder!None
      <3> HIDE DEF empty
      <3>2. \A d \in A : \E v \in LrValues : d = [empty EXCEPT !.field = v, !.user = v]
        BY Zenon
      <3>3. \A d \in B : \E v \in LrValues : d = [empty EXCEPT !.trace = v]
        BY Zenon
      <3>4. \A d \in C : \E v \in LrValues \cup {"none"}, w \in LrValues :
               d = [empty EXCEPT !.trace = v, !.traces = <<w>>]
        <4> SUFFICES ASSUME NEW d \in C
                     PROVE  \E v \in LrValues \cup {"none"}, w \in LrValues :
                               d = [empty EXCEPT !.trace = v, !.traces = <<w>>]
          OBVIOUS
        <4>1. PICK p \in (LrValues \cup {"none"}) \X LrValues :
                d = [empty EXCEPT !.trace = p[1], !.traces = <<p[2]>>]
          BY Zenon
        <4>2. p[1] \in LrValues \cup {"none"} /\ p[2] \in LrValues
          <5> HIDE DEF C
          <5>1. p \in (LrValues \cup {"none"}) \X LrValues
            OBVIOUS
          <5> QED
            BY <5>1, SMT
        <4> HIDE DEF C
        <4> QED
          BY <4>1, <4>2, Zenon
      <3> HIDE DEF A, B, C
      <3> QED
        BY <3>1, <3>2, <3>3, <3>4
    <2> HIDE DEF empty
    <2>3. CASE c = empty
      BY <2>1, <2>3 DEF SaysOf
    <2>4. ASSUME NEW v \in LrValues, c = [empty EXCEPT !.field = v, !.user = v] PROVE SaysOf(c)
      BY <2>1, <2>4 DEF SaysOf
    <2>5. ASSUME NEW v \in LrValues, c = [empty EXCEPT !.trace = v] PROVE SaysOf(c)
      BY <2>1, <2>5 DEF SaysOf
    <2>6. ASSUME NEW v \in LrValues \cup {"none"}, NEW w \in LrValues,
                 c = [empty EXCEPT !.trace = v, !.traces = <<w>>]
          PROVE  SaysOf(c)
      <3> DEFINE s == <<w>>
      <3>1. s \in Seq(Ids) /\ v \in Ids
        BY <2>1 DEF Ids
      <3>2. c = [empty EXCEPT !.trace = v, !.traces = s]
        BY <2>6
      <3> HIDE DEF s
      <3> QED
        BY <2>1, <3>1, <3>2 DEF SaysOf
    <2> QED
      BY <2>2, <2>3, <2>4, <2>5, <2>6
  <1>3. BuIs(y, state, state.options, state.loggers, state.told, c, state.event)
    <2>1. /\ y \in BuStates(y) /\ y.options = state.options /\ y.loggers = state.loggers
          /\ y.told = state.told /\ y.ambient = c /\ y.event = state.event
          /\ y.record = state.record /\ y.made = state.made /\ y.given = state.given
      BY <1>1 DEF BuStates
    <2> HIDE DEF y
    <2> QED
      BY <2>1 DEF BuIs
  <1> HIDE DEF y
  <1> QED
    BY <1>1, <1>2, <1>3, BuMoved DEF BuGood

(* What happens to the event only.                                          *)
LEMMA BuEvent ==
    ASSUME BuGood(state), NEW e \in BuEvents, SaidGood(e.said), NEW y, y = [state EXCEPT !.event = e],
           state' = Builder!Step(y)
    PROVE  BuGood(state')
  <1>0. BuKnown(state)
    BY BuTyped
  <1>1. state \in BuStates(state)
    BY <1>0 DEF BuKnown
  <1>2. BuIs(y, state, state.options, state.loggers, state.told, state.ambient, e)
    <2>1. /\ y \in BuStates(y) /\ y.options = state.options /\ y.loggers = state.loggers
          /\ y.told = state.told /\ y.ambient = state.ambient /\ y.event = e
          /\ y.record = state.record /\ y.made = state.made /\ y.given = state.given
      BY <1>1 DEF BuStates
    <2> QED
      BY <2>1 DEF BuIs
  <1> QED
    BY <1>2, BuMoved DEF BuGood

(* An event that is created keeps it. *)
LEMMA BuCreates ==
    ASSUME BuGood(state), NEW l \in DOMAIN state.loggers, Builder!CreateEvent(l)
    PROVE  BuGood(state')
  <1> DEFINE e == [state.event EXCEPT !.logger = l]
             y == [state EXCEPT !.event.logger = l]
  <1>0. BuKnown(state) /\ SaidGood(state.event.said)
    BY BuTyped DEF BuGood
  <1>1. state' = Builder!Step(y)
    BY DEF Builder!CreateEvent
  <1>2. state \in BuStates(state) /\ state.event \in BuEvents /\ l \in Nat
    BY <1>0 DEF BuKnown
  <1>3. e \in BuEvents /\ e.said = state.event.said
    BY <1>2 DEF BuEvents
  <1>4. y = [state EXCEPT !.event = e]
    BY <1>2 DEF BuStates
  <1> HIDE DEF e, y
  <1> QED
    BY <1>0, <1>1, <1>3, <1>4, BuEvent

(* An event that overrides OTEL keeps it. *)
LEMMA BuWithOtel ==
    ASSUME BuGood(state), NEW b \in {"on", "off", "none"}, Builder!WithOtel(b)
    PROVE  BuGood(state')
  <1> DEFINE e == [state.event EXCEPT !.otel = b]
             y == [state EXCEPT !.event.otel = b]
  <1>0. BuKnown(state) /\ SaidGood(state.event.said)
    BY BuTyped DEF BuGood
  <1>1. state' = Builder!Step(y)
    BY DEF Builder!WithOtel
  <1>2. state \in BuStates(state) /\ state.event \in BuEvents
    BY <1>0 DEF BuKnown
  <1>3. e \in BuEvents /\ e.said = state.event.said
    BY <1>2 DEF BuEvents
  <1>4. y = [state EXCEPT !.event = e]
    BY <1>2 DEF BuStates
  <1> HIDE DEF e, y
  <1> QED
    BY <1>0, <1>1, <1>3, <1>4, BuEvent

(* An event that says more keeps it. *)
LEMMA BuSays ==
    ASSUME BuGood(state), NEW said, SaidGood(said), Builder!Says(said)
    PROVE  BuGood(state')
  <1> DEFINE e == [state.event EXCEPT !.said = said]
             y == [state EXCEPT !.event.said = said]
  <1>0. BuKnown(state) /\ SaidGood(state.event.said)
    BY BuTyped DEF BuGood
  <1>1. state' = Builder!Step(y)
    BY DEF Builder!Says
  <1>2. state \in BuStates(state) /\ state.event \in BuEvents
    BY <1>0 DEF BuKnown
  <1>3. e \in BuEvents /\ e.said = said
    BY <1>2 DEF BuEvents, SaidGood, SaysOf
  <1>4. y = [state EXCEPT !.event = e]
    BY <1>2 DEF BuStates
  <1> HIDE DEF e, y
  <1> QED
    BY <1>1, <1>3, <1>4, BuEvent

(* Fields and users are no trace ids.                                       *)
LEMMA BuDescribed ==
    ASSUME NEW e, SaidGood(e), NEW v \in LrValues
    PROVE  SaidGood([e EXCEPT !.field = v]) /\ SaidGood([e EXCEPT !.user = v])
  <1>1. /\ e \in [field : Ids, user : Ids, trace : Ids, traces : Seq(Ids)]
        /\ e.trace # "none" => e.trace \in Range(e.traces)
        /\ v \in Ids
    BY DEF SaidGood, SaysOf, Ids
  <1>2. PICK f : f = [e EXCEPT !.field = v]
    OBVIOUS
  <1>3. /\ f \in [field : Ids, user : Ids, trace : Ids, traces : Seq(Ids)]
        /\ f.trace = e.trace /\ f.traces = e.traces
    BY <1>1, <1>2
  <1>4. SaidGood(f)
    BY <1>1, <1>3 DEF SaidGood, SaysOf
  <1>5. PICK g : g = [e EXCEPT !.user = v]
    OBVIOUS
  <1>6. /\ g \in [field : Ids, user : Ids, trace : Ids, traces : Seq(Ids)]
        /\ g.trace = e.trace /\ g.traces = e.traces
    BY <1>1, <1>5
  <1>7. SaidGood(g)
    BY <1>1, <1>6 DEF SaidGood, SaysOf
  <1> QED
    BY <1>2, <1>4, <1>5, <1>7

(* A record that is made keeps it. *)
LEMMA BuMakes ==
    ASSUME BuGood(state), NEW runtime, Builder!MakesRecord(runtime)
    PROVE  BuGood(state')
  <1> DEFINE c == Builder!GetContext(state, state.event.logger)
             r == Builder!ToJSON(state, runtime)
             given == Range(state.event.said.traces) \cup Range(c.traces) \cup ({c.trace} \ {"none"})
  <1>0. BuKnown(state) /\ SaidGood(state.event.said) /\ SaysOf(state.ambient)
    BY BuTyped DEF BuGood
  <1>1. state' = [state EXCEPT !.record = r, !.made = TRUE, !.given = given]
    BY UniqueInstances DEF Builder!MakesRecord, Builder!None
  <1>2. SaysOf(c)
    BY <1>0, NothingSaid DEF Builder!GetContext, SaidGood
  <1>3. ListedGood(TRUE, r, given)
    BY <1>0, <1>2, RecordListed
  <1> HIDE DEF c, r, given
  <1>4. /\ state' \in BuStates(state') /\ state'.options = state.options
        /\ state'.loggers = state.loggers /\ state'.told = state.told
        /\ state'.ambient = state.ambient /\ state'.event = state.event
        /\ state'.record = r /\ state'.made = TRUE /\ state'.given = given
    BY <1>0, <1>1 DEF BuStates, BuKnown
  <1> QED
    BY <1>3, <1>4 DEF BuGood

-----------------------------------------------------------------------------
(* The invariant of the record builder holds at first. *)
LEMMA BuInit == Builder!LrInit => BuGood(state)
  <1> SUFFICES ASSUME Builder!LrInit PROVE BuGood(state)
    OBVIOUS
  <1> DEFINE a == [provider |-> "none", otel |-> "on"]
             g == [options |-> 1, field |-> "none", user |-> "none"]
             s == [provider |-> "none", otel |-> "on", born |-> "new"]
             e == [logger |-> 0, said |-> Builder!Nothing, otel |-> "none"]
             o == <<a>>
             l == <<g>>
             t == <<s>>
  <1>1. /\ state \in BuStates(state) /\ state.options = o /\ state.loggers = l /\ state.told = t
        /\ state.ambient = Builder!Nothing /\ state.event = e /\ state.made = FALSE
    BY DEF Builder!LrInit, BuStates, Builder!None
  <1>2. a \in Settings /\ g \in Made /\ s \in Tellings /\ s.born = "new" /\ g.options = 1
    BY DEF Settings, Made, Tellings, Ids
  <1>3. e \in BuEvents /\ e.said = Builder!Nothing
    <2>1. Builder!Nothing \in [field : Ids, user : Ids, trace : Ids, traces : Seq(Ids)]
      BY NothingSaid DEF SaidGood, SaysOf
    <2> QED
      BY <2>1 DEF BuEvents
  <1> HIDE DEF a, g, s, e
  <1>4. /\ o \in Seq(Settings) /\ l \in Seq(Made) /\ t \in Seq(Tellings)
        /\ Len(o) = 1 /\ Len(l) = 1 /\ Len(t) = 1 /\ l[1] = g /\ t[1] = s
    BY <1>2
  <1> HIDE DEF o, l, t
  <1>5. \A k \in 1..Len(l) : k = 1
    BY <1>4
  <1>6. ApartGood(o, l, t)
    BY <1>2, <1>4, <1>5 DEF ApartGood
  <1>7. ListedGood(state.made, state.record, state.given)
    BY <1>1 DEF ListedGood
  <1> QED
    BY <1>1, <1>3, <1>6, <1>7, NothingSaid DEF BuGood, SaidGood

(* Every step of the builder keeps it. *)
LEMMA BuStep == BuGood(state) /\ Builder!LrNext => BuGood(state')
  <1> SUFFICES ASSUME BuGood(state), Builder!LrNext PROVE BuGood(state')
    OBVIOUS
  <1>0. SaidGood(state.event.said)
    BY DEF BuGood
  <1>1. ASSUME NEW v \in LrValues, Builder!AddFields(v) PROVE BuGood(state')
    BY <1>0, <1>1, BuSays, BuDescribed DEF Builder!AddFields
  <1>2. ASSUME NEW v \in LrValues, Builder!AddLoggedInUserInfo(v) PROVE BuGood(state')
    BY <1>0, <1>2, BuSays, BuDescribed DEF Builder!AddLoggedInUserInfo
  <1>3. ASSUME NEW v \in LrValues, NEW first \in BOOLEAN, Builder!AddTraceId(v, first)
        PROVE  BuGood(state')
    BY <1>0, <1>3, BuSays, TraceAdded DEF Builder!AddTraceId
  <1>4. \/ \E o \in 1..LrMaxOptions : Builder!NewRoot(o)
        \/ \E l \in DOMAIN state.loggers :
              \/ Builder!Anew(l) \/ Builder!CreateEvent(l)
              \/ \E p \in {"none", "set", "throws"} : Builder!SetContextProvider(l, p)
              \/ \E b \in {"on", "off"} : Builder!SetOtelEnabled(l, b)
              \/ \E v \in LrValues : Builder!AddFieldsToLogger(l, v) \/ Builder!SetCurrentUser(l, v)
        \/ \E c \in Builder!Contexts : Builder!AmbientChanges(c)
        \/ \E v \in LrValues :
              \/ Builder!AddFields(v) \/ Builder!AddLoggedInUserInfo(v)
              \/ \E first \in BOOLEAN : Builder!AddTraceId(v, first)
        \/ \E b \in {"on", "off", "none"} : Builder!WithOtel(b)
        \/ \E r : Builder!MakesRecord(r)
    BY Zenon DEF Builder!LrNext, Builder!Loggers, Builder!None
  <1> QED
    BY <1>1, <1>2, <1>3, <1>4, BuNew, BuAnew, BuCreates, BuProvider, BuOtel, BuFields, BuUser,
       BuAmbient, BuWithOtel, BuMakes

(* The invariant says that a record lists its trace, and that loggers made  *)
(* anew are apart.                                                          *)
LEMMA BuHolds == BuGood(state) => Builder!TraceIsListed /\ Builder!ChildrenAreApart
  <1> SUFFICES ASSUME BuGood(state) PROVE Builder!TraceIsListed /\ Builder!ChildrenAreApart
    OBVIOUS
  <1>1. Builder!TraceIsListed
    BY UniqueInstances DEF BuGood, ListedGood, Builder!TraceIsListed, Builder!None
  <1>2. BuKnown(state) /\ ApartGood(state.options, state.loggers, state.told)
    BY BuTyped DEF BuGood
  <1>3. Builder!ChildrenAreApart
    BY <1>2 DEF BuKnown, ApartGood, Builder!ChildrenAreApart, Builder!Loggers
  <1> QED
    BY <1>1, <1>3

(***************************************************************************)
(* Frames of context                                                       *)
(***************************************************************************)
CxUsers0 == CxUsers \cup {"none"}
CxFrames == [request : CxTasks \cup {"none"}, user : CxUsers0, userId : CxUsers0, fieldUser : CxUsers0,
             tenant : CxTenants \cup {"none", "blank"}, fieldTenant : CxTenants \cup {"none", "blank"},
             trace : CxTraces \cup {"none"}, traces : Seq(CxTraces), ids : SUBSET CxTraces,
             plain : BOOLEAN, blanked : BOOLEAN]
CxPatches == [user : CxUsers0, userId : CxUsers0,
              tenant : CxTenants \cup {"none", "blank", "undefined"}, trace : CxTraces \cup {"none"}]

(* The ids of a frame are kept, each once, wherever they are.               *)
TracesGood(trace, traces, ids) ==
    /\ Injective(traces)
    /\ traces # <<>> => Range(traces) = ids
    /\ traces = <<>> => ids = {trace} \ {"none"}
    /\ trace # "none" => trace \in ids

(* The invariant of a frame: its identity is one, and its ids are kept.     *)
FrameGood(c) ==
    /\ c \in CxFrames
    /\ ~c.plain /\ c.userId # "none" => c.userId = c.user /\ c.user = c.fieldUser
    /\ ~c.blanked => c.tenant = c.fieldTenant
    /\ TracesGood(c.trace, c.traces, c.ids)

(* The ids of a sequence that are there, each once.                         *)
LEMMA CxIds ==
    ASSUME NEW s \in Seq(CxTraces \cup {"none"})
    PROVE  /\ Contexts!Ids(s) \in Seq(CxTraces) /\ Injective(Contexts!Ids(s))
           /\ Range(Contexts!Ids(s)) = Range(s) \ {"none"}
  <1> DEFINE X == CxTraces \cup {"none"}
             w == Without(s, {"none"})
             u == Unique(w)
  <1>1. Contexts!Ids(s) = u
    BY UniqueInstances DEF Contexts!Ids, Contexts!None
  <1>2. w \in Seq(X) /\ ToSet(w) = ToSet(s) \ {"none"}
    BY WithoutProperties
  <1>3. ToSet(w) = Range(w) /\ ToSet(s) = Range(s)
    BY DEF ToSet, Range
  <1>4. u \in Seq(X) /\ Injective(u) /\ Range(u) = Range(w)
    <2> HIDE DEF w
    <2> QED
      BY <1>2, UniqueKeeps
  <1>5. "none" \notin CxTraces
    BY ContextAssumption
  <1> HIDE DEF w, u
  <1>6. Range(u) \subseteq CxTraces
    <2>1. Range(s) \subseteq X
      <3>1. DOMAIN s = 1..Len(s) /\ \A i \in 1..Len(s) : s[i] \in X
        BY LenProperties
      <3> QED
        BY <3>1 DEF Range
    <2> QED
      BY <1>2, <1>3, <1>4, <2>1
  <1>7. u \in Seq(CxTraces)
    <2>1. DOMAIN u = 1..Len(u) /\ Len(u) \in Nat /\ u = [i \in 1..Len(u) |-> u[i]]
      BY <1>4, LenProperties
    <2>2. \A i \in 1..Len(u) : u[i] \in CxTraces
      BY <1>6, <2>1 DEF Range
    <2>3. u \in [1..Len(u) -> CxTraces]
      BY <2>1, <2>2
    <2> QED
      BY <2>1, <2>3
  <1> QED
    BY <1>1, <1>2, <1>3, <1>4, <1>7

(* The empty context is good, and of no request. *)
LEMMA CxEmptyGood == FrameGood(Contexts!Empty) /\ Contexts!Empty.request = "none"
  <1> DEFINE e == Contexts!Empty
  <1>1. e = [request |-> "none", user |-> "none", userId |-> "none", fieldUser |-> "none",
             tenant |-> "none", fieldTenant |-> "none", trace |-> "none", traces |-> <<>>,
             ids |-> {}, plain |-> FALSE, blanked |-> FALSE]
    BY DEF Contexts!Empty, Contexts!None
  <1>2. <<>> \in Seq(CxTraces) /\ DOMAIN <<>> = {}
    OBVIOUS
  <1> HIDE DEF e
  <1>3. e \in CxFrames
    BY <1>1, <1>2 DEF CxFrames, CxUsers0
  <1>4. e.traces = <<>> /\ e.ids = {} /\ e.trace = "none" /\ e.userId = "none" /\ e.tenant = e.fieldTenant
        /\ e.request = "none"
    BY <1>1
  <1>5. TracesGood(e.trace, e.traces, e.ids)
    <2>1. Injective(<<>>)
      BY <1>2 DEF Injective
    <2> QED
      BY <1>4, <2>1 DEF TracesGood
  <1> QED
    BY <1>3, <1>4, <1>5 DEF FrameGood, e

(* The frame of a boundary.                                                 *)
LEMMA CxBoundaryFrame ==
    ASSUME NEW t \in CxTasks, NEW trace \in CxTraces \cup {"none"}
    PROVE  LET c == [Contexts!Empty EXCEPT !.request = t, !.trace = trace, !.ids = {trace} \ {"none"}]
           IN  FrameGood(c) /\ c.request = t
  <1> DEFINE e == Contexts!Empty
             ids == {trace} \ {"none"}
             c == [e EXCEPT !.request = t, !.trace = trace, !.ids = ids]
  <1>1. e \in CxFrames /\ e.traces = <<>> /\ e.userId = "none" /\ e.tenant = e.fieldTenant
    <2>1. e.traces = <<>> /\ e.userId = "none" /\ e.tenant = e.fieldTenant
      BY DEF Contexts!Empty, Contexts!None
    <2> QED
      BY <2>1, CxEmptyGood DEF FrameGood
  <1>2. ids \in SUBSET CxTraces /\ (trace # "none" => trace \in ids)
    OBVIOUS
  <1>3. PICK d : d = c
    OBVIOUS
  <1> HIDE DEF e, ids
  <1>4. d \in CxFrames /\ d.traces = <<>> /\ d.userId = "none" /\ d.tenant = d.fieldTenant
        /\ d.request = t /\ d.trace = trace /\ d.ids = ids
    BY <1>1, <1>2, <1>3 DEF CxFrames
  <1>5. TracesGood(d.trace, d.traces, d.ids)
    <2>1. DOMAIN <<>> = {}
      OBVIOUS
    <2>2. Injective(<<>>)
      BY <2>1 DEF Injective
    <2> QED
      BY <1>2, <1>4, <2>2 DEF TracesGood, ids
  <1>6. FrameGood(d)
    BY <1>4, <1>5 DEF FrameGood
  <1> QED
    BY <1>3, <1>4, <1>6 DEF e, ids

(* Merged with a patch, a frame is good, and of its own request.            *)
LEMMA CxMerged ==
    ASSUME NEW c, FrameGood(c), NEW p \in CxPatches
    PROVE  /\ FrameGood(Contexts!MergedLogContext(c, p))
           /\ Contexts!MergedLogContext(c, p).request = c.request
  <1> DEFINE existing == IF c.traces # <<>> THEN c.traces ELSE <<c.trace>>
             u == IF p.user = "none" THEN c.user ELSE p.user
             trace == IF p.trace = "none" THEN c.trace ELSE p.trace
             traces == IF p.trace = "none" THEN c.traces ELSE Contexts!Ids(Append(existing, p.trace))
             ids == c.ids \cup ({p.trace} \ {"none"})
             plain == c.plain \/ p.user # "none"
             d == [c EXCEPT !.user = u, !.trace = trace, !.traces = traces, !.ids = ids, !.plain = plain]
  <1>1. /\ c \in CxFrames
        /\ ~c.plain /\ c.userId # "none" => c.userId = c.user /\ c.user = c.fieldUser
        /\ ~c.blanked => c.tenant = c.fieldTenant
        /\ TracesGood(c.trace, c.traces, c.ids)
    BY DEF FrameGood
  <1>2. /\ c.user \in CxUsers0 /\ c.trace \in CxTraces \cup {"none"} /\ c.traces \in Seq(CxTraces)
        /\ c.ids \in SUBSET CxTraces /\ c.plain \in BOOLEAN
        /\ p.user \in CxUsers0 /\ p.trace \in CxTraces \cup {"none"}
    BY <1>1 DEF CxFrames, CxPatches
  <1>3. Contexts!MergedLogContext(c, p) = d
    BY DEF Contexts!MergedLogContext, Contexts!Fresh, Contexts!None
  <1>4. /\ traces \in Seq(CxTraces) /\ TracesGood(trace, traces, ids)
    <2>1. CASE p.trace = "none"
      <3>1. traces = c.traces /\ trace = c.trace /\ ids = c.ids
        BY <1>2, <2>1
      <3> HIDE DEF traces, trace, ids
      <3> QED
        BY <1>1, <1>2, <3>1
    <2>2. CASE p.trace # "none"
      <3> DEFINE X == CxTraces \cup {"none"}
                 s == Append(existing, p.trace)
      <3>1. existing \in Seq(X) /\ p.trace \in X
            /\ Range(existing) = IF c.traces # <<>> THEN Range(c.traces) ELSE {c.trace}
        <4>1. CASE c.traces # <<>>
          <5>1. c.traces \in Seq(X)
            BY <1>2
          <5> QED
            BY <1>2, <4>1, <5>1
        <4>2. CASE c.traces = <<>>
          <5> DEFINE one == <<c.trace>>
          <5>1. one \in Seq(X) /\ DOMAIN one = {1} /\ one[1] = c.trace
            BY <1>2
          <5>2. existing = one
            BY <4>2
          <5> HIDE DEF one, existing
          <5>3. Range(one) = {c.trace}
            BY <5>1 DEF Range
          <5> QED
            BY <1>2, <4>2, <5>1, <5>2, <5>3
        <4> QED
          BY <4>1, <4>2
      <3> HIDE DEF existing, X
      <3>2. /\ s \in Seq(X) /\ Len(s) = Len(existing) + 1 /\ s[Len(existing) + 1] = p.trace
            /\ \A i \in 1..Len(existing) : s[i] = existing[i]
        BY <3>1, AppendProperties
      <3> HIDE DEF s
      <3>3. /\ DOMAIN existing = 1..Len(existing) /\ Len(existing) \in Nat /\ DOMAIN s = 1..Len(existing) + 1
        BY <3>1, <3>2, LenProperties
      <3>4. Range(s) = Range(existing) \cup {p.trace}
        BY <3>2, <3>3 DEF Range
      <3>5. /\ Contexts!Ids(s) \in Seq(CxTraces) /\ Injective(Contexts!Ids(s))
            /\ Range(Contexts!Ids(s)) = Range(s) \ {"none"}
        BY <3>2, CxIds DEF X
      <3>6. traces = Contexts!Ids(s) /\ trace = p.trace /\ ids = c.ids \cup {p.trace}
        BY <2>2 DEF s
      <3> HIDE DEF traces, trace, ids
      <3>7. (Range(existing) \ {"none"}) = c.ids
        <4>1. "none" \notin CxTraces
          BY ContextAssumption
        <4> QED
          BY <1>1, <1>2, <3>1, <4>1 DEF TracesGood
      <3>8. Range(traces) = ids
        BY <2>2, <3>4, <3>5, <3>6, <3>7
      <3>9. traces # <<>>
        <4>1. Range(<<>>) = {}
          BY DEF Range
        <4> QED
          BY <3>6, <3>8, <4>1
      <3> QED
        BY <3>5, <3>6, <3>8, <3>9 DEF TracesGood
    <2> QED
      BY <2>1, <2>2
  <1>5. u \in CxUsers0 /\ trace \in CxTraces \cup {"none"} /\ ids \in SUBSET CxTraces /\ plain \in BOOLEAN
    BY <1>2
  <1>6. ~plain => u = c.user /\ ~c.plain
    BY <1>2
  <1> HIDE DEF u, trace, traces, ids, plain
  <1>7. PICK e : e = d
    OBVIOUS
  <1>8. /\ e \in CxFrames /\ e.user = u /\ e.trace = trace /\ e.traces = traces /\ e.ids = ids
        /\ e.plain = plain /\ e.userId = c.userId /\ e.fieldUser = c.fieldUser
        /\ e.tenant = c.tenant /\ e.fieldTenant = c.fieldTenant /\ e.blanked = c.blanked
        /\ e.request = c.request
    BY <1>1, <1>4, <1>5, <1>7 DEF CxFrames
  <1>9. FrameGood(e)
    BY <1>1, <1>4, <1>6, <1>8 DEF FrameGood
  <1> QED
    BY <1>3, <1>7, <1>8, <1>9

(* The execution context's merge keeps a frame's trace ids.                 *)
LEMMA CxExecutionTraces ==
    ASSUME NEW c, FrameGood(c), NEW p \in CxPatches,
           NEW s, s = <<c.trace>> \o c.traces \o <<p.trace>>,
           NEW trace, trace = IF p.trace # "none" THEN p.trace ELSE c.trace,
           NEW ids, ids = c.ids \cup ({p.trace} \ {"none"})
    PROVE  Contexts!Ids(s) \in Seq(CxTraces) /\ TracesGood(trace, Contexts!Ids(s), ids)
  <1> DEFINE X == CxTraces \cup {"none"}
             a == <<c.trace>>
             b == c.traces
             d == <<p.trace>>
             traces == Contexts!Ids(s)
  <1>1. c \in CxFrames /\ TracesGood(c.trace, c.traces, c.ids)
    BY DEF FrameGood
  <1>2. /\ c.trace \in X /\ c.traces \in Seq(CxTraces) /\ c.ids \in SUBSET CxTraces /\ p.trace \in X
        /\ "none" \notin CxTraces
    BY <1>1, ContextAssumption DEF CxFrames, CxPatches
  <1>3. a \in Seq(X) /\ Range(a) = {c.trace}
    <2>1. a \in Seq(X) /\ DOMAIN a = {1} /\ a[1] = c.trace
      BY <1>2
    <2> HIDE DEF a
    <2> QED
      BY <2>1 DEF Range
  <1>4. d \in Seq(X) /\ Range(d) = {p.trace}
    <2>1. d \in Seq(X) /\ DOMAIN d = {1} /\ d[1] = p.trace
      BY <1>2
    <2> HIDE DEF d
    <2> QED
      BY <2>1 DEF Range
  <1>5. b \in Seq(X)
    BY <1>2
  <1>6. s = (a \o b) \o d
    OBVIOUS
  <1> HIDE DEF a, b, d, X
  <1>7. a \o b \in Seq(X) /\ Range(a \o b) = Range(a) \cup Range(b)
    BY <1>3, <1>5, RangeTogether
  <1>8. s \in Seq(X) /\ Range(s) = Range(a) \cup Range(b) \cup Range(d)
    <2> DEFINE l == a \o b
    <2>1. l \in Seq(X)
      BY <1>7
    <2> HIDE DEF l
    <2>2. l \o d \in Seq(X) /\ Range(l \o d) = Range(l) \cup Range(d)
      BY <1>4, <2>1, RangeTogether
    <2> QED
      BY <1>6, <1>7, <2>2 DEF l
  <1>9. traces \in Seq(CxTraces) /\ Injective(traces) /\ Range(traces) = Range(s) \ {"none"}
    BY <1>8, CxIds DEF X
  <1> HIDE DEF traces
  <1>10. Range(b) = IF b = <<>> THEN {} ELSE c.ids
    <2>1. Range(<<>>) = {}
      BY DEF Range
    <2> QED
      BY <1>1, <2>1 DEF TracesGood, b
  <1>11. Range(traces) = ids
    <2>1. CASE b = <<>>
      <3>1. c.ids = {c.trace} \ {"none"}
        BY <1>1, <2>1 DEF TracesGood, b
      <3> QED
        BY <1>3, <1>4, <1>8, <1>9, <1>10, <2>1, <3>1
    <2>2. CASE b # <<>>
      <3>1. {c.trace} \ {"none"} \subseteq c.ids /\ c.ids \subseteq CxTraces
        BY <1>1, <1>2 DEF TracesGood
      <3> QED
        BY <1>2, <1>3, <1>4, <1>8, <1>9, <1>10, <2>2, <3>1
    <2> QED
      BY <2>1, <2>2
  <1>12. trace # "none" => trace \in ids
    BY <1>1 DEF TracesGood
  <1>13. ASSUME traces = <<>> PROVE ids = {trace} \ {"none"}
    <2>1. Range(<<>>) = {}
      BY DEF Range
    <2>2. ids = {}
      BY <1>11, <1>13, <2>1
    <2> QED
      BY <1>12, <2>2
  <1>14. TracesGood(trace, traces, ids)
    BY <1>9, <1>11, <1>12, <1>13 DEF TracesGood
  <1> QED
    BY <1>9, <1>14 DEF traces

(* A frame of the execution context is good, and of its own request.        *)
LEMMA CxExecution ==
    ASSUME NEW c, FrameGood(c), NEW p \in CxPatches
    PROVE  /\ FrameGood(Contexts!ToStored(Contexts!MergeExecution(c, p)))
           /\ Contexts!ToStored(Contexts!MergeExecution(c, p)).request = c.request
  <1> DEFINE who == IF p.userId # "none" THEN p.userId
                    ELSE IF p.user # "none" THEN p.user
                    ELSE IF c.userId # "none" THEN c.userId ELSE c.user
             user == IF who = "none" THEN p.user ELSE who
             tenant == IF p.tenant = "none" THEN c.tenant
                       ELSE IF p.tenant = "undefined" THEN "none" ELSE p.tenant
             trace == IF p.trace # "none" THEN p.trace ELSE c.trace
             s == <<c.trace>> \o c.traces \o <<p.trace>>
             traces == Contexts!Ids(s)
             ids == c.ids \cup ({p.trace} \ {"none"})
             blanked == c.blanked \/ p.tenant \in {"blank", "undefined"}
             d == [c EXCEPT !.user = user, !.userId = who, !.tenant = tenant, !.trace = trace,
                            !.traces = traces, !.ids = ids, !.blanked = blanked]
  <1>1. /\ c \in CxFrames
        /\ ~c.plain /\ c.userId # "none" => c.userId = c.user /\ c.user = c.fieldUser
        /\ ~c.blanked => c.tenant = c.fieldTenant
        /\ TracesGood(c.trace, c.traces, c.ids)
    BY DEF FrameGood
  <1>2. /\ c.user \in CxUsers0 /\ c.userId \in CxUsers0 /\ c.fieldUser \in CxUsers0
        /\ c.tenant \in CxTenants \cup {"none", "blank"} /\ c.fieldTenant \in CxTenants \cup {"none", "blank"}
        /\ c.trace \in CxTraces \cup {"none"} /\ c.ids \in SUBSET CxTraces /\ c.blanked \in BOOLEAN
        /\ p.user \in CxUsers0 /\ p.userId \in CxUsers0
        /\ p.tenant \in CxTenants \cup {"none", "blank", "undefined"}
        /\ p.trace \in CxTraces \cup {"none"}
    BY <1>1 DEF CxFrames, CxPatches
  <1>3. Contexts!MergeExecution(c, p) = d
    BY DEF Contexts!MergeExecution, Contexts!Fresh, Contexts!UserOf, Contexts!Given,
           Contexts!None, Contexts!Blank, Contexts!Undefined
  <1>4. traces \in Seq(CxTraces) /\ TracesGood(trace, traces, ids)
    BY CxExecutionTraces
  <1>5. /\ who \in CxUsers0 /\ user \in CxUsers0 /\ tenant \in CxTenants \cup {"none", "blank"}
        /\ trace \in CxTraces \cup {"none"} /\ ids \in SUBSET CxTraces /\ blanked \in BOOLEAN
    BY <1>2
  <1>6. /\ who # "none" => user = who
        /\ p.tenant = "none" => tenant = c.tenant /\ blanked = c.blanked
        /\ p.tenant \notin {"none", "undefined"} => tenant = p.tenant
        /\ p.tenant \in {"blank", "undefined"} => blanked
    BY <1>2
  <1> HIDE DEF who, user, tenant, trace, traces, ids, blanked
  <1>7. PICK e : e = d
    OBVIOUS
  <1>8. /\ e \in CxFrames /\ e.user = user /\ e.userId = who /\ e.tenant = tenant /\ e.trace = trace
        /\ e.traces = traces /\ e.ids = ids /\ e.blanked = blanked
        /\ e.fieldUser = c.fieldUser /\ e.fieldTenant = c.fieldTenant /\ e.plain = c.plain
        /\ e.request = c.request
    BY <1>1, <1>4, <1>5, <1>7 DEF CxFrames
  <1> DEFINE one == IF e.userId # "none" THEN e.userId ELSE e.user
             fieldUser == IF one = "none" THEN e.fieldUser ELSE one
             user2 == IF one = "none" THEN e.user ELSE one
             fieldTenant == IF e.tenant \in {"none", "blank"} THEN e.fieldTenant ELSE e.tenant
             f == [e EXCEPT !.fieldUser = fieldUser, !.user = user2, !.fieldTenant = fieldTenant]
  <1>9. Contexts!ToStored(e) = f
    BY DEF Contexts!ToStored, Contexts!Fresh, Contexts!UserOf, Contexts!None, Contexts!Blank
  <1>10. fieldUser \in CxUsers0 /\ user2 \in CxUsers0
         /\ fieldTenant \in CxTenants \cup {"none", "blank"}
    BY <1>2, <1>5, <1>8
  <1>11. e.userId # "none" => user2 = e.userId /\ fieldUser = e.userId
    OBVIOUS
  <1>12. ~blanked => tenant = fieldTenant
    BY <1>1, <1>6, <1>8
  <1> HIDE DEF fieldUser, user2, fieldTenant, one
  <1>13. PICK h : h = f
    OBVIOUS
  <1>14. /\ h \in CxFrames /\ h.user = user2 /\ h.userId = e.userId /\ h.fieldUser = fieldUser
         /\ h.tenant = e.tenant /\ h.fieldTenant = fieldTenant /\ h.trace = e.trace
         /\ h.traces = e.traces /\ h.ids = e.ids /\ h.blanked = e.blanked /\ h.request = e.request
    BY <1>8, <1>10, <1>13 DEF CxFrames
  <1>15. FrameGood(h)
    BY <1>4, <1>8, <1>11, <1>12, <1>14 DEF FrameGood
  <1> QED
    BY <1>3, <1>7, <1>8, <1>9, <1>13, <1>14, <1>15

-----------------------------------------------------------------------------
(* The patches, and the frames they make *)

(* The patches there are. *)
LEMMA CxPatched ==
    /\ Contexts!PlainPatches \subseteq CxPatches /\ Contexts!Patches \subseteq CxPatches
  <1> DEFINE e == Contexts!NoPatch
  <1>1. e \in CxPatches
    BY DEF Contexts!NoPatch, Contexts!None, CxPatches, CxUsers0
  <1> HIDE DEF e
  <1>2. /\ \A u \in CxUsers : [e EXCEPT !.user = u] \in CxPatches /\ [e EXCEPT !.userId = u] \in CxPatches
        /\ \A i \in CxTraces : [e EXCEPT !.trace = i] \in CxPatches
        /\ \A i \in CxTenants \cup {"blank", "undefined"} : [e EXCEPT !.tenant = i] \in CxPatches
    <2>1. ASSUME NEW u \in CxUsers
          PROVE  [e EXCEPT !.user = u] \in CxPatches /\ [e EXCEPT !.userId = u] \in CxPatches
      BY <1>1 DEF CxPatches, CxUsers0
    <2>2. ASSUME NEW i \in CxTraces PROVE [e EXCEPT !.trace = i] \in CxPatches
      BY <1>1 DEF CxPatches
    <2>3. ASSUME NEW i \in CxTenants \cup {"blank", "undefined"} PROVE [e EXCEPT !.tenant = i] \in CxPatches
      BY <1>1 DEF CxPatches
    <2> QED
      BY <2>1, <2>2, <2>3
  <1>3. ASSUME NEW p \in Contexts!PlainPatches PROVE p \in CxPatches
    BY <1>2 DEF Contexts!PlainPatches, e
  <1>4. ASSUME NEW p \in Contexts!Patches PROVE p \in CxPatches
    <2>1. \/ p \in Contexts!PlainPatches
          \/ \E u \in CxUsers : p = [e EXCEPT !.userId = u]
          \/ \E i \in CxTenants \cup {"blank", "undefined"} : p = [e EXCEPT !.tenant = i]
      BY DEF Contexts!Patches, Contexts!Blank, Contexts!Undefined, e
    <2> QED
      BY <1>2, <1>3, <2>1
  <1> QED
    BY <1>3, <1>4

(***************************************************************************)
(* The storages, and what a task sees of them                              *)
(***************************************************************************)
CxPhases == {"new", "serving", "failed", "ok"}
CxStates(x) ==
    [storage : {"als", "single", "explicit"}, running : CxTasks \cup {"none"}, heap : {x.heap},
     stack : [CxTasks -> Seq(Nat)], current : Seq(Nat), phase : [CxTasks -> CxPhases],
     inside : [CxTasks -> BOOLEAN], writes : Nat, snapshot : {x.snapshot},
     failure : [CxTasks -> CxTasks \cup {"none"}], given : [CxTasks -> SUBSET (CxTasks \cup {"none"})]]

(* Whose frames count: those of each task, or those of the one that runs.   *)
Live(x, t) == x.storage = "als" \/ x.running = t

(* A task's frames are of requests it may see, and the first is its own.    *)
Visible(x, t, fs) ==
    \A i \in DOMAIN fs :
        fs[i] <= Len(x.heap) /\ (fs[i] # 0 => x.heap[fs[i]].request \in x.given[t] \cup {"none"})
Own(x, t, fs) == fs # <<>> /\ fs[1] \in 1..Len(x.heap) /\ x.heap[fs[1]].request = t

TaskGood(x, t) ==
    /\ Live(x, t) => Visible(x, t, Contexts!Frames(x, t))
    /\ Live(x, t) /\ x.inside[t] /\ x.phase[t] = "serving" => Own(x, t, Contexts!Frames(x, t))
    /\ x.phase[t] = "new" => x.stack[t] = <<>> /\ ~x.inside[t]
    /\ x.storage # "als" /\ x.running # t => ~x.inside[t]
    /\ x.storage = "explicit" => ~x.inside[t]
    /\ x.phase[t] = "failed" => x.failure[t] = t

HeapGood(h) == h \in Seq(CxFrames) /\ \A n \in 1..Len(h) : FrameGood(h[n])
CurrentGood(x) ==
    x.storage # "als" /\ (x.running = "none" \/ x.storage = "explicit") => x.current = <<>>

(* The invariant of the contexts.                                           *)
CxGood(x) ==
    /\ x \in CxStates(x) /\ HeapGood(x.heap) /\ CurrentGood(x)
    /\ x.snapshot.request # "none" => FrameGood(x.snapshot)
    /\ \A t \in CxTasks : TaskGood(x, t)

(* A step of one task: the heap grows, and the others keep what they have.  *)
HeapGrows(x, y) ==
    /\ HeapGood(y.heap) /\ Len(x.heap) <= Len(y.heap)
    /\ \A n \in 1..Len(x.heap) : y.heap[n].request = x.heap[n].request
Others(x, y, t) ==
    \A s \in CxTasks \ {t} :
        /\ y.stack[s] = x.stack[s] /\ y.phase[s] = x.phase[s] /\ y.inside[s] = x.inside[s]
        /\ y.failure[s] = x.failure[s] /\ x.given[s] \subseteq y.given[s]

(* The invariant, from what a step of one task may change. *)
LEMMA CxMoved ==
    ASSUME NEW x, CxGood(x), NEW t \in CxTasks, NEW y, y \in CxStates(y), y.storage = x.storage,
           x.running \in {"none", t}, y.running \in {"none", t}, HeapGrows(x, y), Others(x, y, t),
           CurrentGood(y), y.snapshot.request # "none" => FrameGood(y.snapshot), TaskGood(y, t)
    PROVE  CxGood(y)
  <1>1. /\ x \in CxStates(x) /\ HeapGood(x.heap)
        /\ \A s \in CxTasks : TaskGood(x, s)
    BY DEF CxGood
  <1>2. ASSUME NEW s \in CxTasks, s # t PROVE TaskGood(y, s)
    <2>1. s # "none" /\ y.running # s /\ x.running # s
      BY <1>2, ContextAssumption
    <2>2. /\ y.stack[s] = x.stack[s] /\ y.phase[s] = x.phase[s] /\ y.inside[s] = x.inside[s]
          /\ y.failure[s] = x.failure[s] /\ x.given[s] \subseteq y.given[s]
      BY <1>2 DEF Others
    <2>3. TaskGood(x, s)
      BY <1>1
    <2>4. CASE x.storage = "als"
      <3> DEFINE fs == x.stack[s]
      <3>1. Contexts!Frames(x, s) = fs /\ Contexts!Frames(y, s) = fs /\ Live(x, s)
        BY <2>2, <2>4 DEF Contexts!Frames, Live
      <3>2. fs \in Seq(Nat) /\ DOMAIN fs = 1..Len(fs)
        <4>1. fs \in Seq(Nat)
          BY <1>1 DEF CxStates
        <4> HIDE DEF fs
        <4> QED
          BY <4>1, LenProperties
      <3>3. Len(x.heap) \in Nat /\ Len(y.heap) \in Nat /\ Len(x.heap) <= Len(y.heap)
            /\ \A n \in 1..Len(x.heap) : y.heap[n].request = x.heap[n].request
        BY <1>1, LenProperties DEF HeapGood, HeapGrows
      <3> HIDE DEF fs
      <3>4. Visible(x, s, fs)
        BY <2>3, <3>1 DEF TaskGood
      <3>5. Visible(y, s, fs)
        <4> SUFFICES ASSUME NEW i \in DOMAIN fs
                     PROVE  /\ fs[i] <= Len(y.heap)
                            /\ fs[i] # 0 => y.heap[fs[i]].request \in y.given[s] \cup {"none"}
          BY DEF Visible
        <4>1. fs[i] \in Nat /\ fs[i] <= Len(x.heap)
              /\ (fs[i] # 0 => x.heap[fs[i]].request \in x.given[s] \cup {"none"})
          BY <3>2, <3>4 DEF Visible
        <4>2. fs[i] # 0 => fs[i] \in 1..Len(x.heap)
          BY <3>3, <4>1
        <4> QED
          BY <2>2, <3>3, <4>1, <4>2
      <3>6. Own(x, s, fs) => Own(y, s, fs)
        BY <3>3 DEF Own
      <3> QED
        BY <2>2, <2>3, <2>4, <3>1, <3>5, <3>6 DEF TaskGood
    <2>5. CASE x.storage # "als"
      BY <2>1, <2>2, <2>3, <2>5 DEF TaskGood, Live
    <2> QED
      BY <2>4, <2>5
  <1> QED
    BY <1>2 DEF CxGood, HeapGrows

(* What is known of the contexts.                                           *)
CxKnown(x) ==
    /\ x \in CxStates(x) /\ HeapGood(x.heap) /\ Len(x.heap) \in Nat
    /\ \A t \in CxTasks : TaskGood(x, t) /\ Contexts!Frames(x, t) \in Seq(Nat)

(* What the invariant says of the types. *)
LEMMA CxTyped == ASSUME NEW x, CxGood(x) PROVE CxKnown(x)
  <1>1. /\ x \in CxStates(x) /\ HeapGood(x.heap) /\ \A t \in CxTasks : TaskGood(x, t)
    BY DEF CxGood
  <1>2. Len(x.heap) \in Nat
    BY <1>1, LenProperties DEF HeapGood
  <1>3. \A t \in CxTasks : Contexts!Frames(x, t) \in Seq(Nat)
    BY <1>1 DEF CxStates, Contexts!Frames
  <1> QED
    BY <1>1, <1>2, <1>3 DEF CxKnown

-----------------------------------------------------------------------------
(* What the operations on storages do *)

Same(z, y) ==
    /\ y.storage = z.storage /\ y.heap = z.heap /\ y.phase = z.phase
    /\ y.writes = z.writes /\ y.snapshot = z.snapshot /\ y.failure = z.failure /\ y.given = z.given
SetIs(z, y, t, f) ==
    /\ y \in CxStates(y) /\ Same(z, y) /\ y.running = z.running /\ y.inside = z.inside
    /\ \A s \in CxTasks \ {t} : y.stack[s] = z.stack[s]
    /\ z.storage = "als" => y.stack[t] = f /\ y.current = z.current
    /\ z.storage = "single" => y.current = f /\ y.stack = z.stack
    /\ z.storage = "explicit" => y.current = z.current /\ y.stack = z.stack

(* What setting the frames of a task leaves alone. *)
LEMMA CxSets ==
    ASSUME NEW z, z \in CxStates(z), NEW t \in CxTasks, NEW f \in Seq(Nat)
    PROVE  SetIs(z, Contexts!SetFrames(z, t, f), t, f)
  <1> DEFINE y == Contexts!SetFrames(z, t, f)
             stack == [z.stack EXCEPT ![t] = f]
  <1>1. z.storage \in {"als", "single", "explicit"} /\ z.stack \in [CxTasks -> Seq(Nat)]
    BY DEF CxStates
  <1>2. CASE z.storage = "als"
    <2>1. y = [z EXCEPT !.stack = stack]
      BY <1>2 DEF Contexts!SetFrames, CxStates
    <2>2. stack \in [CxTasks -> Seq(Nat)] /\ stack[t] = f /\ \A s \in CxTasks \ {t} : stack[s] = z.stack[s]
      BY <1>1
    <2> HIDE DEF stack, y
    <2>3. /\ y \in CxStates(y) /\ Same(z, y) /\ y.running = z.running /\ y.inside = z.inside
          /\ y.stack = stack /\ y.current = z.current
      BY <2>1, <2>2 DEF CxStates, Same
    <2>4. SetIs(z, y, t, f)
      BY <1>2, <2>2, <2>3 DEF SetIs
    <2> QED
      BY <2>4 DEF y
  <1>3. CASE z.storage = "single"
    <2>1. y = [z EXCEPT !.current = f]
      BY <1>3 DEF Contexts!SetFrames
    <2> HIDE DEF y
    <2>3. /\ y \in CxStates(y) /\ Same(z, y) /\ y.running = z.running /\ y.inside = z.inside
          /\ y.stack = z.stack /\ y.current = f
      BY <2>1 DEF CxStates, Same
    <2>4. SetIs(z, y, t, f)
      BY <1>3, <2>3 DEF SetIs
    <2> QED
      BY <2>4 DEF y
  <1>4. CASE z.storage = "explicit"
    <2>1. y = z
      BY <1>4 DEF Contexts!SetFrames
    <2>2. SetIs(z, z, t, f)
      BY <1>4 DEF SetIs, Same
    <2> QED
      BY <2>1, <2>2
  <1> QED
    BY <1>1, <1>2, <1>3, <1>4

SuspendIs(z, y, t) ==
    /\ y \in CxStates(y) /\ Same(z, y) /\ y.running = "none" /\ y.stack = z.stack
    /\ \A s \in CxTasks \ {t} : y.inside[s] = z.inside[s]
    /\ z.storage = "single" => y.current = <<>> /\ ~y.inside[t]
    /\ z.storage # "single" => y.current = z.current /\ y.inside[t] = z.inside[t]

(* What suspending a task leaves alone. *)
LEMMA CxSuspends ==
    ASSUME NEW z, z \in CxStates(z), NEW t \in CxTasks
    PROVE  SuspendIs(z, Contexts!Suspend(z, t), t)
  <1> DEFINE w == [z EXCEPT !.running = "none"]
             y == Contexts!Suspend(z, t)
  <1>1. y = IF z.storage = "single" THEN [w EXCEPT !.current = <<>>, !.inside[t] = FALSE] ELSE w
    BY DEF Contexts!Suspend, Contexts!None
  <1>2. /\ w \in CxStates(w) /\ Same(z, w) /\ w.running = "none" /\ w.stack = z.stack
        /\ w.current = z.current /\ w.inside = z.inside
    BY DEF CxStates, Same
  <1> HIDE DEF w, y
  <1>3. CASE z.storage # "single"
    <2>1. y = w
      BY <1>1, <1>3
    <2> QED
      BY <1>2, <1>3, <2>1 DEF SuspendIs, y
  <1>4. CASE z.storage = "single"
    <2> DEFINE inside == [w.inside EXCEPT ![t] = FALSE]
               none == <<>>
    <2>1. w.inside \in [CxTasks -> BOOLEAN] /\ none \in Seq(Nat)
      BY <1>2 DEF CxStates
    <2>2. inside \in [CxTasks -> BOOLEAN] /\ ~inside[t] /\ \A s \in CxTasks \ {t} : inside[s] = w.inside[s]
      BY <2>1
    <2>3. y = [w EXCEPT !.current = none, !.inside = inside]
      BY <1>1, <1>2, <1>4 DEF CxStates
    <2> HIDE DEF inside, none
    <2>4. /\ y \in CxStates(y) /\ Same(w, y) /\ y.running = w.running /\ y.stack = w.stack
          /\ y.current = none /\ y.inside = inside
      BY <1>2, <2>1, <2>2, <2>3 DEF CxStates, Same
    <2>5. SuspendIs(z, y, t)
      BY <1>2, <1>4, <2>2, <2>4 DEF SuspendIs, Same, none
    <2> QED
      BY <2>5 DEF y
  <1> QED
    BY <1>3, <1>4

(* To append to a heap lets it grow.                                        *)
LEMMA CxGrown ==
    ASSUME NEW x, HeapGood(x.heap), NEW y, NEW c, FrameGood(c), y.heap = Append(x.heap, c)
    PROVE  /\ HeapGrows(x, y) /\ Len(y.heap) = Len(x.heap) + 1 /\ y.heap[Len(x.heap) + 1] = c
           /\ Len(x.heap) \in Nat
  <1> DEFINE h == x.heap
             g == y.heap
  <1>1. h \in Seq(CxFrames) /\ c \in CxFrames /\ g = Append(h, c) /\ \A n \in 1..Len(h) : FrameGood(h[n])
    BY DEF HeapGood, FrameGood
  <1> HIDE DEF h, g
  <1>2. /\ g \in Seq(CxFrames) /\ Len(g) = Len(h) + 1 /\ g[Len(h) + 1] = c
        /\ \A n \in 1..Len(h) : g[n] = h[n]
    BY <1>1, AppendProperties
  <1>3. Len(h) \in Nat
    BY <1>1, LenProperties
  <1>4. \A n \in 1..Len(g) : n \in 1..Len(h) \/ n = Len(h) + 1
    BY <1>2, <1>3
  <1>5. HeapGood(g)
    BY <1>1, <1>2, <1>4 DEF HeapGood
  <1>6. \A n \in 1..Len(h) : g[n].request = h[n].request
    BY <1>2
  <1>7. Len(h) <= Len(g)
    BY <1>2, <1>3
  <1> QED
    BY <1>2, <1>3, <1>5, <1>6, <1>7 DEF HeapGrows, h, g

RunIs(z, y, t, c) ==
    \E w : /\ w \in CxStates(w) /\ w.heap = Append(z.heap, c) /\ w.storage = z.storage /\ w.running = z.running
           /\ w.stack = z.stack /\ w.current = z.current /\ w.phase = z.phase /\ w.inside = z.inside
           /\ w.snapshot = z.snapshot /\ w.failure = z.failure /\ w.given = z.given
           /\ SetIs(w, y, t, Append(Contexts!Frames(z, t), Len(z.heap) + 1))

(* What running a frame leaves alone. *)
LEMMA CxRuns ==
    ASSUME NEW z, z \in CxStates(z), HeapGood(z.heap), NEW t \in CxTasks, NEW c, FrameGood(c)
    PROVE  RunIs(z, Contexts!RunFrame(z, t, c), t, c)
  <1> DEFINE h == Append(z.heap, c)
             w == [z EXCEPT !.heap = h]
             f == Append(Contexts!Frames(z, t), Len(z.heap) + 1)
  <1>1. Contexts!RunFrame(z, t, c) = Contexts!SetFrames(w, t, f)
    BY DEF Contexts!RunFrame
  <1> HIDE DEF h
  <1>2. /\ w \in CxStates(w) /\ w.heap = h /\ w.storage = z.storage /\ w.running = z.running
        /\ w.stack = z.stack /\ w.current = z.current /\ w.phase = z.phase /\ w.inside = z.inside
        /\ w.snapshot = z.snapshot /\ w.failure = z.failure /\ w.given = z.given
    BY DEF CxStates
  <1>3. f \in Seq(Nat)
    <2>1. Contexts!Frames(z, t) \in Seq(Nat)
      BY DEF CxStates, Contexts!Frames
    <2>2. Len(z.heap) + 1 \in Nat
      BY LenProperties DEF HeapGood
    <2> QED
      BY <2>1, <2>2, AppendProperties
  <1> HIDE DEF w, f
  <1>4. SetIs(w, Contexts!SetFrames(w, t, f), t, f)
    BY <1>2, <1>3, CxSets
  <1>5. RunIs(z, Contexts!SetFrames(w, t, f), t, c)
    BY <1>2, <1>4 DEF RunIs, h, f
  <1> QED
    BY <1>1, <1>5

(* A good task enters a frame of a request it may see.                      *)
LEMMA CxEnters ==
    ASSUME NEW z, CxGood(z), NEW t \in CxTasks, z.running = t, z.phase[t] = "serving",
           NEW c, FrameGood(c), c.request \in z.given[t] \cup {"none"}
    PROVE  CxGood(Contexts!RunFrame(z, t, c))
  <1> DEFINE y == Contexts!RunFrame(z, t, c)
             fs == Contexts!Frames(z, t)
             n == Len(z.heap)
             f == Append(fs, n + 1)
  <1>1. /\ z \in CxStates(z) /\ HeapGood(z.heap) /\ CurrentGood(z) /\ TaskGood(z, t) /\ n \in Nat
        /\ fs \in Seq(Nat) /\ (z.snapshot.request # "none" => FrameGood(z.snapshot))
    BY CxTyped DEF CxGood, CxKnown
  <1>2. RunIs(z, y, t, c)
    BY <1>1, CxRuns
  <1> HIDE DEF y
  <1>3. PICK w : /\ w \in CxStates(w) /\ w.heap = Append(z.heap, c) /\ w.storage = z.storage
                 /\ w.running = z.running /\ w.stack = z.stack /\ w.current = z.current
                 /\ w.phase = z.phase /\ w.inside = z.inside /\ w.snapshot = z.snapshot
                 /\ w.failure = z.failure /\ w.given = z.given /\ SetIs(w, y, t, f)
    BY <1>2 DEF RunIs
  <1>4. /\ y \in CxStates(y) /\ y.heap = Append(z.heap, c) /\ y.storage = z.storage /\ y.running = t
        /\ y.phase = z.phase /\ y.inside = z.inside /\ y.snapshot = z.snapshot
        /\ y.failure = z.failure /\ y.given = z.given
        /\ \A s \in CxTasks \ {t} : y.stack[s] = z.stack[s]
        /\ z.storage = "als" => y.stack[t] = f /\ y.current = z.current
        /\ z.storage = "single" => y.current = f /\ y.stack = z.stack
        /\ z.storage = "explicit" => y.current = z.current /\ y.stack = z.stack
    BY <1>3 DEF SetIs, Same
  <1>5. HeapGrows(z, y) /\ Len(y.heap) = n + 1 /\ y.heap[n + 1] = c
    BY <1>1, <1>4, CxGrown
  <1> HIDE DEF n, fs
  <1>6. /\ f \in Seq(Nat) /\ Len(f) = Len(fs) + 1 /\ f[Len(fs) + 1] = n + 1
        /\ \A i \in 1..Len(fs) : f[i] = fs[i]
        /\ Len(fs) \in Nat /\ DOMAIN fs = 1..Len(fs)
    <2>1. n + 1 \in Nat
      BY <1>1
    <2> QED
      BY <1>1, <2>1, AppendProperties, LenProperties
  <1>7. DOMAIN f = 1..Len(fs) + 1
    BY <1>6, LenProperties
  <1> HIDE DEF f
  <1>8. z.storage \in {"als", "single", "explicit"} /\ t # "none" /\ Live(z, t)
    BY <1>1, ContextAssumption DEF CxStates, Live
  <1>9. /\ Visible(z, t, fs)
        /\ z.inside[t] => Own(z, t, fs)
        /\ z.storage = "explicit" => ~z.inside[t] /\ fs = <<>>
    BY <1>1, <1>8 DEF TaskGood, CurrentGood, Contexts!Frames, fs
  <1>10. Visible(y, t, f)
    <2> SUFFICES ASSUME NEW i \in DOMAIN f
                 PROVE  /\ f[i] <= Len(y.heap)
                        /\ f[i] # 0 => y.heap[f[i]].request \in y.given[t] \cup {"none"}
      BY DEF Visible
    <2>1. CASE i = Len(fs) + 1
      <3>1. f[i] = n + 1
        BY <1>6, <2>1
      <3> QED
        BY <1>1, <1>4, <1>5, <3>1
    <2>2. CASE i \in 1..Len(fs)
      <3>1. f[i] = fs[i] /\ fs[i] \in Nat /\ fs[i] <= n
            /\ (fs[i] # 0 => z.heap[fs[i]].request \in z.given[t] \cup {"none"})
        BY <1>1, <1>6, <1>9, <2>2 DEF Visible, n
      <3>2. fs[i] # 0 => fs[i] \in 1..n
        BY <1>1, <3>1
      <3>3. fs[i] # 0 => y.heap[fs[i]].request = z.heap[fs[i]].request
        BY <1>5, <3>2 DEF HeapGrows, n
      <3> QED
        BY <1>1, <1>4, <1>5, <3>1, <3>3
    <2> QED
      BY <1>6, <1>7, <2>1, <2>2
  <1>11. Own(z, t, fs) => Own(y, t, f)
    <2> SUFFICES ASSUME Own(z, t, fs) PROVE Own(y, t, f)
      OBVIOUS
    <2>1. Len(fs) # 0 /\ 1 \in 1..Len(fs)
      BY <1>1, <1>6 DEF Own
    <2>2. f[1] = fs[1] /\ fs[1] \in 1..n /\ z.heap[fs[1]].request = t
      BY <1>6, <2>1 DEF Own, n
    <2>3. y.heap[fs[1]].request = z.heap[fs[1]].request
      BY <1>5, <2>2 DEF HeapGrows, n
    <2>4. f # <<>>
      BY <1>6
    <2> QED
      BY <1>1, <1>5, <2>2, <2>3, <2>4 DEF Own
  <1>12. /\ z.storage # "explicit" => Contexts!Frames(y, t) = f
         /\ z.storage = "explicit" => Contexts!Frames(y, t) = <<>>
    BY <1>4, <1>8, <1>9 DEF Contexts!Frames, fs
  <1>13. Visible(y, t, <<>>)
    BY DEF Visible
  <1>14. TaskGood(y, t)
    BY <1>1, <1>4, <1>8, <1>9, <1>10, <1>11, <1>12, <1>13 DEF TaskGood
  <1>15. CurrentGood(y)
    BY <1>1, <1>4, <1>8 DEF CurrentGood
  <1>16. Others(z, y, t)
    BY <1>4 DEF Others
  <1>17. CxGood(y)
    BY <1>1, <1>4, <1>5, <1>14, <1>15, <1>16, CxMoved
  <1> QED
    BY <1>17 DEF y

(* A task that may see more sees no less.                                   *)
Gives(z, t, r) == [z EXCEPT !.given[t] = z.given[t] \cup {r}]

(* A task that is given a request more keeps the invariant. *)
LEMMA CxGiven ==
    ASSUME NEW z, CxGood(z), NEW t \in CxTasks, z.running = t, NEW r \in CxTasks \cup {"none"},
           NEW y, y = Gives(z, t, r)
    PROVE  CxGood(y) /\ y.given[t] = z.given[t] \cup {r} /\ y.running = t /\ y.phase = z.phase
           /\ y.snapshot = z.snapshot
  <1> DEFINE given == [z.given EXCEPT ![t] = z.given[t] \cup {r}]
  <1>1. /\ z \in CxStates(z) /\ HeapGood(z.heap) /\ CurrentGood(z) /\ TaskGood(z, t) /\ Len(z.heap) \in Nat
        /\ (z.snapshot.request # "none" => FrameGood(z.snapshot))
    BY CxTyped DEF CxGood, CxKnown
  <1>2. /\ given \in [CxTasks -> SUBSET (CxTasks \cup {"none"})] /\ given[t] = z.given[t] \cup {r}
        /\ \A s \in CxTasks \ {t} : given[s] = z.given[s]
    BY <1>1 DEF CxStates
  <1>3. y = [z EXCEPT !.given = given]
    BY <1>1 DEF CxStates, Gives
  <1> HIDE DEF given
  <1>4. /\ y \in CxStates(y) /\ y.storage = z.storage /\ y.running = z.running /\ y.heap = z.heap
        /\ y.stack = z.stack /\ y.current = z.current /\ y.phase = z.phase /\ y.inside = z.inside
        /\ y.snapshot = z.snapshot /\ y.failure = z.failure /\ y.given = given
    BY <1>1, <1>2, <1>3 DEF CxStates
  <1>5. HeapGrows(z, y)
    BY <1>1, <1>4 DEF HeapGrows
  <1>6. Others(z, y, t)
    BY <1>2, <1>4 DEF Others
  <1>7. Contexts!Frames(y, t) = Contexts!Frames(z, t)
    BY <1>4 DEF Contexts!Frames
  <1>8. TaskGood(y, t)
    BY <1>1, <1>2, <1>4, <1>7 DEF TaskGood, Live, Visible, Own
  <1>9. CurrentGood(y)
    BY <1>1, <1>4 DEF CurrentGood
  <1> QED
    BY <1>1, <1>2, <1>4, <1>5, <1>6, <1>8, <1>9, CxMoved

(* Other frames for a task, of the requests it may see.                     *)
LEMMA CxFramed ==
    ASSUME NEW z, CxGood(z), NEW t \in CxTasks, z.running = t, z.phase[t] = "serving",
           NEW f \in Seq(Nat), Visible(z, t, f), z.inside[t] => Own(z, t, f)
    PROVE  CxGood(Contexts!SetFrames(z, t, f))
  <1> DEFINE y == Contexts!SetFrames(z, t, f)
  <1>1. /\ z \in CxStates(z) /\ HeapGood(z.heap) /\ CurrentGood(z) /\ TaskGood(z, t) /\ Len(z.heap) \in Nat
        /\ (z.snapshot.request # "none" => FrameGood(z.snapshot))
    BY CxTyped DEF CxGood, CxKnown
  <1>2. SetIs(z, y, t, f)
    BY <1>1, CxSets
  <1> HIDE DEF y
  <1>4. /\ y \in CxStates(y) /\ y.heap = z.heap /\ y.storage = z.storage /\ y.running = t
        /\ y.phase = z.phase /\ y.inside = z.inside /\ y.snapshot = z.snapshot
        /\ y.failure = z.failure /\ y.given = z.given
        /\ \A s \in CxTasks \ {t} : y.stack[s] = z.stack[s]
        /\ z.storage = "als" => y.stack[t] = f /\ y.current = z.current
        /\ z.storage = "single" => y.current = f /\ y.stack = z.stack
        /\ z.storage = "explicit" => y.current = z.current /\ y.stack = z.stack
    BY <1>2 DEF SetIs, Same
  <1>5. HeapGrows(z, y)
    BY <1>1, <1>4 DEF HeapGrows
  <1>8. z.storage \in {"als", "single", "explicit"} /\ t # "none" /\ Live(z, t)
    BY <1>1, ContextAssumption DEF CxStates, Live
  <1>9. z.storage = "explicit" => ~z.inside[t] /\ z.current = <<>>
    BY <1>1, <1>8 DEF TaskGood, CurrentGood
  <1>10. Visible(y, t, f) /\ (z.inside[t] => Own(y, t, f))
    BY <1>4 DEF Visible, Own
  <1>12. /\ z.storage # "explicit" => Contexts!Frames(y, t) = f
         /\ z.storage = "explicit" => Contexts!Frames(y, t) = <<>>
    BY <1>4, <1>8, <1>9 DEF Contexts!Frames
  <1>13. Visible(y, t, <<>>)
    BY DEF Visible
  <1>14. TaskGood(y, t)
    BY <1>1, <1>4, <1>8, <1>9, <1>10, <1>12, <1>13 DEF TaskGood
  <1>15. CurrentGood(y)
    BY <1>1, <1>4, <1>8 DEF CurrentGood
  <1>16. Others(z, y, t)
    BY <1>4 DEF Others
  <1>17. CxGood(y)
    BY <1>1, <1>4, <1>5, <1>14, <1>15, <1>16, CxMoved
  <1> QED
    BY <1>17 DEF y

-----------------------------------------------------------------------------
(* What a task sees *)

(* What a task that runs sees is good, and of a request it was given. *)
LEMMA CxSeen ==
    ASSUME NEW z, CxGood(z), NEW t \in CxTasks, z.running = t
    PROVE  /\ FrameGood(Contexts!Contents(z, t))
           /\ Contexts!Contents(z, t).request \in z.given[t] \cup {"none"}
           /\ Contexts!Store(z, t) # 0 => /\ Contexts!Store(z, t) \in 1..Len(z.heap)
                                          /\ Contexts!Contents(z, t) = z.heap[Contexts!Store(z, t)]
  <1> DEFINE fs == Contexts!Frames(z, t)
             store == Contexts!Store(z, t)
  <1>1. /\ z \in CxStates(z) /\ HeapGood(z.heap) /\ TaskGood(z, t) /\ Len(z.heap) \in Nat /\ fs \in Seq(Nat)
    BY CxTyped DEF CxKnown
  <1>2. Visible(z, t, fs)
    BY <1>1 DEF TaskGood, Live
  <1>3. store = IF fs = <<>> THEN 0 ELSE fs[Len(fs)]
    BY DEF Contexts!Store
  <1>4. Contexts!Contents(z, t) = IF store = 0 THEN Contexts!Empty ELSE z.heap[store]
    BY DEF Contexts!Contents
  <1> HIDE DEF fs, store
  <1>5. DOMAIN fs = 1..Len(fs) /\ Len(fs) \in Nat /\ (fs # <<>> => Len(fs) # 0)
    BY <1>1, LenProperties
  <1>6. CASE store = 0
    BY <1>4, <1>6, CxEmptyGood DEF store
  <1>7. CASE store # 0
    <2>1. Len(fs) \in DOMAIN fs /\ store = fs[Len(fs)] /\ store \in Nat
      BY <1>1, <1>3, <1>5, <1>7
    <2>2. store <= Len(z.heap) /\ z.heap[store].request \in z.given[t] \cup {"none"}
      BY <1>2, <1>7, <2>1 DEF Visible
    <2>3. store \in 1..Len(z.heap)
      BY <1>1, <1>7, <2>1, <2>2
    <2> QED
      BY <1>1, <1>4, <1>7, <2>2, <2>3 DEF HeapGood, store
  <1> QED
    BY <1>6, <1>7

(* The single frame ends with the synchronous part.                         *)
LEMMA CxSuspended ==
    ASSUME NEW z, CxGood(z), NEW t \in CxTasks, z.running = t
    PROVE  CxGood(Contexts!Suspend(z, t))
  <1> DEFINE y == Contexts!Suspend(z, t)
  <1>1. /\ z \in CxStates(z) /\ HeapGood(z.heap) /\ CurrentGood(z) /\ TaskGood(z, t) /\ Len(z.heap) \in Nat
        /\ (z.snapshot.request # "none" => FrameGood(z.snapshot))
    BY CxTyped DEF CxGood, CxKnown
  <1>2. SuspendIs(z, y, t)
    BY <1>1, CxSuspends
  <1> HIDE DEF y
  <1>3. /\ y \in CxStates(y) /\ y.heap = z.heap /\ y.storage = z.storage /\ y.running = "none"
        /\ y.phase = z.phase /\ y.snapshot = z.snapshot /\ y.stack = z.stack
        /\ y.failure = z.failure /\ y.given = z.given
        /\ \A s \in CxTasks \ {t} : y.inside[s] = z.inside[s]
        /\ z.storage = "single" => y.current = <<>> /\ ~y.inside[t]
        /\ z.storage # "single" => y.current = z.current /\ y.inside[t] = z.inside[t]
    BY <1>2 DEF SuspendIs, Same
  <1>4. HeapGrows(z, y)
    BY <1>1, <1>3 DEF HeapGrows
  <1>5. z.storage \in {"als", "single", "explicit"} /\ t # "none" /\ Live(z, t)
    BY <1>1, ContextAssumption DEF CxStates, Live
  <1>6. CurrentGood(y)
    BY <1>1, <1>3, <1>5 DEF CurrentGood
  <1>7. TaskGood(y, t)
    <2>1. CASE z.storage = "als"
      <3>1. Contexts!Frames(y, t) = Contexts!Frames(z, t)
        BY <1>3, <2>1 DEF Contexts!Frames
      <3> QED
        BY <1>1, <1>3, <1>5, <2>1, <3>1 DEF TaskGood, Visible, Own
    <2>2. CASE z.storage # "als"
      <3>1. ~Live(y, t)
        BY <1>3, <1>5, <2>2 DEF Live
      <3>2. ~y.inside[t]
        BY <1>1, <1>3, <1>5, <2>2 DEF TaskGood
      <3> QED
        BY <1>1, <1>3, <3>1, <3>2 DEF TaskGood
    <2> QED
      BY <2>1, <2>2
  <1>8. Others(z, y, t)
    BY <1>3 DEF Others
  <1>9. CxGood(y)
    BY <1>1, <1>3, <1>4, <1>6, <1>7, <1>8, CxMoved
  <1> QED
    BY <1>9 DEF y

-----------------------------------------------------------------------------
(* The actions of the contexts *)

(* A request boundary keeps the invariant. *)
LEMMA CxBoundary ==
    ASSUME CxGood(state), NEW t \in CxTasks, NEW trace \in CxTraces \cup {"none"},
           Contexts!Boundary(t, trace)
    PROVE  CxGood(state')
  <1> DEFINE x == state
             y == state'
             n == Len(x.heap)
             c == [Contexts!Empty EXCEPT !.request = t, !.trace = trace, !.ids = {trace} \ {"none"}]
             phases == [x.phase EXCEPT ![t] = "serving"]
             inside == [x.inside EXCEPT ![t] = (x.storage # "explicit")]
             given == [x.given EXCEPT ![t] = x.given[t] \cup {t}]
             z == [x EXCEPT !.running = t, !.phase[t] = "serving",
                            !.inside[t] = (x.storage # "explicit"), !.given[t] = x.given[t] \cup {t}]
  <1>1. /\ x \in CxStates(x) /\ HeapGood(x.heap) /\ CurrentGood(x) /\ TaskGood(x, t) /\ n \in Nat
        /\ (x.snapshot.request # "none" => FrameGood(x.snapshot))
    BY CxTyped DEF CxGood, CxKnown
  <1>2. x.running = "none" /\ x.phase[t] = "new" /\ y = Contexts!RunFrame(z, t, c)
    BY DEF Contexts!Boundary, Contexts!None
  <1>3. FrameGood(c) /\ c.request = t
    BY CxBoundaryFrame
  <1> HIDE DEF c
  <1>4. /\ phases \in [CxTasks -> CxPhases] /\ phases[t] = "serving"
        /\ inside \in [CxTasks -> BOOLEAN] /\ inside[t] = (x.storage # "explicit")
        /\ given \in [CxTasks -> SUBSET (CxTasks \cup {"none"})] /\ given[t] = x.given[t] \cup {t}
        /\ \A s \in CxTasks \ {t} : phases[s] = x.phase[s] /\ inside[s] = x.inside[s] /\ given[s] = x.given[s]
    BY <1>1 DEF CxStates, CxPhases
  <1>5. z = [x EXCEPT !.running = t, !.phase = phases, !.inside = inside, !.given = given]
    BY <1>1 DEF CxStates
  <1> HIDE DEF phases, inside, given, z
  <1>6. /\ z \in CxStates(z) /\ z.heap = x.heap /\ z.storage = x.storage /\ z.running = t /\ z.stack = x.stack
        /\ z.current = x.current /\ z.phase = phases /\ z.inside = inside /\ z.snapshot = x.snapshot
        /\ z.failure = x.failure /\ z.given = given
    BY <1>1, <1>4, <1>5 DEF CxStates
  <1>7. RunIs(z, y, t, c)
    BY <1>1, <1>2, <1>3, <1>6, CxRuns
  <1>8. x.storage \in {"als", "single", "explicit"} /\ t # "none"
    BY <1>1, ContextAssumption DEF CxStates
  <1>9. Contexts!Frames(z, t) = <<>>
    BY <1>1, <1>2, <1>6, <1>8 DEF Contexts!Frames, TaskGood, CurrentGood
  <1> DEFINE f == Append(<<>>, n + 1)
  <1> HIDE DEF y
  <1>10. PICK w : /\ w \in CxStates(w) /\ w.heap = Append(z.heap, c) /\ w.storage = z.storage
                  /\ w.running = z.running /\ w.stack = z.stack /\ w.current = z.current
                  /\ w.phase = z.phase /\ w.inside = z.inside /\ w.snapshot = z.snapshot
                  /\ w.failure = z.failure /\ w.given = z.given /\ SetIs(w, y, t, f)
    BY <1>6, <1>7, <1>9 DEF RunIs
  <1>11. /\ y \in CxStates(y) /\ y.heap = Append(x.heap, c) /\ y.storage = x.storage /\ y.running = t
         /\ y.phase = phases /\ y.inside = inside /\ y.snapshot = x.snapshot
         /\ y.failure = x.failure /\ y.given = given
         /\ \A s \in CxTasks \ {t} : y.stack[s] = x.stack[s]
         /\ x.storage = "als" => y.stack[t] = f /\ y.current = x.current
         /\ x.storage = "single" => y.current = f /\ y.stack = x.stack
         /\ x.storage = "explicit" => y.current = x.current /\ y.stack = x.stack
    BY <1>6, <1>10 DEF SetIs, Same
  <1>12. HeapGrows(x, y) /\ Len(y.heap) = n + 1 /\ y.heap[n + 1] = c
    BY <1>1, <1>3, <1>11, CxGrown
  <1> HIDE DEF n
  <1>13. f = <<n + 1>> /\ DOMAIN f = {1} /\ f[1] = n + 1 /\ f # <<>>
    BY <1>1
  <1> HIDE DEF f
  <1>14. Visible(y, t, f) /\ Own(y, t, f)
    <2>1. n + 1 \in 1..Len(y.heap) /\ n + 1 <= Len(y.heap)
      BY <1>1, <1>12
    <2> QED
      BY <1>3, <1>4, <1>11, <1>12, <1>13, <2>1 DEF Visible, Own
  <1>15. /\ x.storage # "explicit" => Contexts!Frames(y, t) = f
         /\ x.storage = "explicit" => Contexts!Frames(y, t) = <<>>
    BY <1>1, <1>2, <1>8, <1>11 DEF Contexts!Frames, CurrentGood
  <1>16. Visible(y, t, <<>>)
    BY DEF Visible
  <1>17. TaskGood(y, t)
    BY <1>4, <1>8, <1>11, <1>14, <1>15, <1>16 DEF TaskGood
  <1>18. CurrentGood(y)
    BY <1>1, <1>2, <1>8, <1>11 DEF CurrentGood
  <1>19. Others(x, y, t)
    BY <1>4, <1>11 DEF Others
  <1>20. CxGood(y)
    BY <1>1, <1>2, <1>11, <1>12, <1>17, <1>18, <1>19, CxMoved
  <1> QED
    BY <1>20 DEF y

(* A task that awaits keeps it. *)
LEMMA CxAwaits ==
    ASSUME CxGood(state), NEW t \in CxTasks, Contexts!Awaits(t)
    PROVE  CxGood(state')
  BY CxSuspended DEF Contexts!Awaits, Contexts!Active

(* A task that resumes keeps it. *)
LEMMA CxResumes ==
    ASSUME CxGood(state), NEW t \in CxTasks, Contexts!Resumes(t)
    PROVE  CxGood(state')
  <1> DEFINE x == state
             y == state'
  <1>0. CxGood(x)
    OBVIOUS
  <1>1. /\ x \in CxStates(x) /\ HeapGood(x.heap) /\ CurrentGood(x) /\ TaskGood(x, t)
        /\ (x.snapshot.request # "none" => FrameGood(x.snapshot)) /\ Len(x.heap) \in Nat
    BY CxTyped DEF CxGood, CxKnown
  <1>2. x.running = "none" /\ x.phase[t] = "serving" /\ y = [x EXCEPT !.running = t]
    BY DEF Contexts!Resumes, Contexts!None
  <1> HIDE DEF x, y
  <1>3. /\ y \in CxStates(y) /\ y.heap = x.heap /\ y.storage = x.storage /\ y.running = t /\ y.stack = x.stack
        /\ y.current = x.current /\ y.phase = x.phase /\ y.inside = x.inside /\ y.snapshot = x.snapshot
        /\ y.failure = x.failure /\ y.given = x.given
    BY <1>1, <1>2 DEF CxStates
  <1>4. x.storage \in {"als", "single", "explicit"} /\ t # "none"
    BY <1>1, ContextAssumption DEF CxStates
  <1>5. HeapGrows(x, y) /\ Others(x, y, t)
    BY <1>1, <1>3 DEF HeapGrows, Others
  <1>6. CurrentGood(y)
    BY <1>1, <1>2, <1>3, <1>4 DEF CurrentGood
  <1>7. TaskGood(y, t)
    <2>1. CASE x.storage = "als"
      <3>1. Contexts!Frames(y, t) = Contexts!Frames(x, t) /\ Live(x, t)
        BY <1>3, <2>1 DEF Contexts!Frames, Live
      <3> QED
        BY <1>1, <1>2, <1>3, <2>1, <3>1 DEF TaskGood, Visible, Own
    <2>2. CASE x.storage # "als"
      <3>1. Contexts!Frames(y, t) = <<>>
        BY <1>1, <1>2, <1>3, <2>2 DEF Contexts!Frames, CurrentGood
      <3>2. Visible(y, t, <<>>) /\ ~y.inside[t]
        BY <1>1, <1>2, <1>3, <1>4, <2>2 DEF Visible, TaskGood
      <3> QED
        BY <1>1, <1>2, <1>3, <2>2, <3>1, <3>2 DEF TaskGood
    <2> QED
      BY <2>1, <2>2
  <1>8. CxGood(y)
    BY <1>0, <1>1, <1>2, <1>3, <1>5, <1>6, <1>7, CxMoved
  <1> QED
    BY <1>8 DEF y

(* A patch that becomes the frame is good, and of no request.               *)
LEMMA CxCloned ==
    ASSUME NEW p \in CxPatches
    PROVE  /\ FrameGood(Contexts!ClonedPatch(p))
           /\ Contexts!ClonedPatch(p).request = "none"
  <1>1. PICK e : e = Contexts!Empty
    OBVIOUS
  <1>2. PICK m : m = Contexts!MergedLogContext(e, p)
    OBVIOUS
  <1>3. FrameGood(e) /\ e.request = "none" /\ e.trace = "none" /\ e.ids = {}
    <2>1. e.trace = "none" /\ e.ids = {}
      BY <1>1 DEF Contexts!Empty, Contexts!None
    <2> QED
      BY <1>1, <2>1, CxEmptyGood
  <1>4. /\ FrameGood(m) /\ m.request = "none"
        /\ m.ids = {m.trace} \ {"none"}
    <2>1. FrameGood(m) /\ m.request = e.request
      BY <1>2, <1>3, CxMerged
    <2>2. e \in CxFrames
      BY <1>3 DEF FrameGood
    <2>3. /\ m.trace = IF p.trace = "none" THEN e.trace ELSE p.trace
          /\ m.ids = e.ids \cup ({p.trace} \ {"none"})
      BY <1>2, <2>2 DEF CxFrames, Contexts!MergedLogContext, Contexts!Fresh, Contexts!None
    <2> QED
      BY <1>3, <2>1, <2>3
  <1>5. PICK c : c = [m EXCEPT !.traces = <<>>]
    OBVIOUS
  <1>6. /\ c \in CxFrames /\ c.traces = <<>> /\ c.request = m.request /\ c.user = m.user
        /\ c.userId = m.userId /\ c.fieldUser = m.fieldUser /\ c.tenant = m.tenant
        /\ c.fieldTenant = m.fieldTenant /\ c.trace = m.trace /\ c.ids = m.ids
        /\ c.plain = m.plain /\ c.blanked = m.blanked
    <2>1. m \in CxFrames /\ <<>> \in Seq(CxTraces)
      BY <1>4 DEF FrameGood
    <2> QED
      BY <1>5, <2>1 DEF CxFrames
  <1>7. TracesGood(c.trace, c.traces, c.ids)
    <2>1. Injective(c.traces)
      BY <1>6 DEF Injective
    <2> QED
      BY <1>4, <1>6, <2>1 DEF TracesGood
  <1>8. FrameGood(c)
    BY <1>4, <1>6, <1>7 DEF FrameGood
  <1>9. c = Contexts!ClonedPatch(p)
    BY <1>1, <1>2, <1>5 DEF Contexts!ClonedPatch
  <1> QED
    BY <1>4, <1>6, <1>8, <1>9

(* A frame that is merged and run keeps it. *)
LEMMA CxRunMerged ==
    ASSUME CxGood(state), NEW t \in CxTasks, NEW p \in CxPatches, Contexts!RunMerged(t, p)
    PROVE  CxGood(state')
  <1>1. state.running = t /\ state.phase[t] = "serving"
    BY DEF Contexts!RunMerged, Contexts!Active
  <1>2. PICK c : c = IF Contexts!Store(state, t) = 0 THEN Contexts!ClonedPatch(p)
                     ELSE Contexts!MergedLogContext(Contexts!Contents(state, t), p)
    OBVIOUS
  <1>3. FrameGood(c) /\ c.request \in state.given[t] \cup {"none"}
    <2>1. PICK b : b = Contexts!Contents(state, t)
      OBVIOUS
    <2>2. FrameGood(b) /\ b.request \in state.given[t] \cup {"none"}
      BY <1>1, <2>1, CxSeen
    <2>3. FrameGood(Contexts!MergedLogContext(b, p)) /\ Contexts!MergedLogContext(b, p).request = b.request
      BY <2>2, CxMerged
    <2>4. FrameGood(Contexts!ClonedPatch(p)) /\ Contexts!ClonedPatch(p).request = "none"
      BY CxCloned
    <2> QED
      BY <1>2, <2>1, <2>2, <2>3, <2>4
  <1>4. state' = Contexts!RunFrame(state, t, c)
    BY <1>2 DEF Contexts!RunMerged
  <1>5. CxGood(Contexts!RunFrame(state, t, c))
    BY <1>1, <1>3, CxEnters
  <1> QED
    BY <1>4, <1>5

(* An execution context that is run keeps it. *)
LEMMA CxRunExecution ==
    ASSUME CxGood(state), NEW t \in CxTasks, NEW p \in CxPatches, Contexts!RunExecution(t, p)
    PROVE  CxGood(state')
  <1>1. state.running = t /\ state.phase[t] = "serving"
    BY DEF Contexts!RunExecution, Contexts!Active
  <1>2. PICK c : c = Contexts!ToStored(Contexts!MergeExecution(Contexts!Contents(state, t), p))
    OBVIOUS
  <1>3. FrameGood(c) /\ c.request \in state.given[t] \cup {"none"}
    <2>1. PICK b : b = Contexts!Contents(state, t)
      OBVIOUS
    <2>2. FrameGood(b) /\ b.request \in state.given[t] \cup {"none"}
      BY <1>1, <2>1, CxSeen
    <2>3. /\ FrameGood(Contexts!ToStored(Contexts!MergeExecution(b, p)))
          /\ Contexts!ToStored(Contexts!MergeExecution(b, p)).request = b.request
      BY <2>2, CxExecution
    <2> QED
      BY <1>2, <2>1, <2>2, <2>3
  <1>4. state' = Contexts!RunFrame(state, t, c)
    BY <1>2 DEF Contexts!RunExecution
  <1>5. CxGood(Contexts!RunFrame(state, t, c))
    BY <1>1, <1>3, CxEnters
  <1> QED
    BY <1>4, <1>5

(* The frames that are left when the innermost one is gone.                 *)
LEMMA FramesLess ==
    ASSUME NEW fs \in Seq(Nat), Len(fs) > 0
    PROVE  /\ SubSeq(fs, 1, Len(fs) - 1) \in Seq(Nat)
           /\ Len(SubSeq(fs, 1, Len(fs) - 1)) = Len(fs) - 1
           /\ DOMAIN SubSeq(fs, 1, Len(fs) - 1) = 1..(Len(fs) - 1)
           /\ \A i \in 1..(Len(fs) - 1) : SubSeq(fs, 1, Len(fs) - 1)[i] = fs[i]
           /\ Len(fs) \in Nat /\ DOMAIN fs = 1..Len(fs)
  <1> DEFINE n == Len(fs) - 1
  <1>1. DOMAIN fs = 1..Len(fs) /\ Len(fs) \in Nat /\ \A i \in 1..Len(fs) : fs[i] \in Nat
    BY LenProperties
  <1>2. n \in Nat /\ n \in Int /\ 1 \in Int /\ \A i \in 1..n : fs[i] \in Nat
    BY <1>1
  <1> HIDE DEF n
  <1>3. /\ SubSeq(fs, 1, n) \in Seq(Nat) /\ Len(SubSeq(fs, 1, n)) = IF 1 <= n THEN n - 1 + 1 ELSE 0
        /\ \A i \in 1..n - 1 + 1 : SubSeq(fs, 1, n)[i] = fs[1 + i - 1]
    BY <1>2, SubSeqProperties
  <1>4. Len(SubSeq(fs, 1, n)) = n /\ \A i \in 1..n : SubSeq(fs, 1, n)[i] = fs[i]
    BY <1>2, <1>3
  <1>5. DOMAIN SubSeq(fs, 1, n) = 1..n
    BY <1>3, <1>4, LenProperties
  <1> QED
    BY <1>1, <1>3, <1>4, <1>5 DEF n

(* A frame that returns keeps it. *)
LEMMA CxReturns ==
    ASSUME CxGood(state), NEW t \in CxTasks, Contexts!Returns(t)
    PROVE  CxGood(state')
  <1> DEFINE x == state
             fs == Contexts!Frames(x, t)
             f == SubSeq(fs, 1, Len(fs) - 1)
  <1>1. /\ x.running = t /\ x.phase[t] = "serving" /\ state' = Contexts!SetFrames(x, t, f)
        /\ Len(fs) > Len(Contexts!BoundaryFrames(x, t))
    BY DEF Contexts!Returns, Contexts!Active
  <1>2. TaskGood(x, t) /\ fs \in Seq(Nat) /\ Live(x, t)
    BY <1>1, CxTyped DEF CxKnown, Live
  <1>3. Visible(x, t, fs) /\ (x.inside[t] => Own(x, t, fs))
    BY <1>1, <1>2 DEF TaskGood
  <1>4. Len(fs) \in Nat /\ Len(fs) > 0 /\ (x.inside[t] => Len(fs) > 1)
    <2>1. Len(Contexts!BoundaryFrames(x, t)) = IF x.inside[t] THEN 1 ELSE 0
      BY DEF Contexts!BoundaryFrames
    <2>2. Len(fs) \in Nat
      BY <1>2, LenProperties
    <2> QED
      BY <1>1, <2>1, <2>2
  <1> HIDE DEF x, fs, f
  <1>5. /\ f \in Seq(Nat) /\ Len(f) = Len(fs) - 1 /\ DOMAIN f = 1..(Len(fs) - 1)
        /\ \A i \in 1..(Len(fs) - 1) : f[i] = fs[i]
        /\ DOMAIN fs = 1..Len(fs)
    BY <1>2, <1>4, FramesLess DEF f
  <1>6. Visible(x, t, f)
    BY <1>3, <1>4, <1>5 DEF Visible
  <1>7. x.inside[t] => Own(x, t, f)
    <2> SUFFICES ASSUME x.inside[t] PROVE Own(x, t, f)
      OBVIOUS
    <2>1. 1 \in 1..(Len(fs) - 1) /\ Len(f) # 0
      BY <1>4, <1>5
    <2>2. f[1] = fs[1] /\ f # <<>>
      BY <1>5, <2>1
    <2> QED
      BY <1>3, <2>2 DEF Own
  <1>8. CxGood(x)
    BY DEF x
  <1>9. CxGood(Contexts!SetFrames(x, t, f))
    BY <1>1, <1>5, <1>6, <1>7, <1>8, CxFramed
  <1> QED
    BY <1>1, <1>9

(* An update of the context in force keeps it. *)
LEMMA CxUpdates ==
    ASSUME CxGood(state), NEW t \in CxTasks, NEW p \in CxPatches, Contexts!Updates(t, p)
    PROVE  CxGood(state')
  <1> DEFINE x == state
             y == state'
             n == Contexts!Store(x, t)
             b == Contexts!Contents(x, t)
             c == Contexts!MergedLogContext(b, p)
             h == [x.heap EXCEPT ![n] = c]
  <1>0. CxGood(x)
    OBVIOUS
  <1>1. /\ x \in CxStates(x) /\ HeapGood(x.heap) /\ CurrentGood(x) /\ TaskGood(x, t)
        /\ (x.snapshot.request # "none" => FrameGood(x.snapshot)) /\ Len(x.heap) \in Nat
    BY CxTyped DEF CxGood, CxKnown
  <1>2. /\ x.running = t /\ x.phase[t] = "serving" /\ n # 0
        /\ y = [x EXCEPT !.writes = @ + 1, !.heap[n] = c]
    BY DEF Contexts!Updates, Contexts!Active
  <1>3. FrameGood(b) /\ n \in 1..Len(x.heap) /\ b = x.heap[n]
    BY <1>2, CxSeen
  <1> HIDE DEF n, b
  <1>4. FrameGood(c) /\ c.request = b.request
    BY <1>3, CxMerged
  <1> HIDE DEF c
  <1>5. /\ h \in Seq(CxFrames) /\ Len(h) = Len(x.heap) /\ h[n] = c
        /\ \A i \in 1..Len(x.heap) : i # n => h[i] = x.heap[i]
    <2>1. x.heap \in Seq(CxFrames) /\ c \in CxFrames
      BY <1>1, <1>4 DEF HeapGood, FrameGood
    <2>2. DOMAIN x.heap = 1..Len(x.heap)
      BY <2>1, LenProperties
    <2> QED
      BY <1>3, <2>1, <2>2, ExceptSeq
  <1>6. y = [x EXCEPT !.writes = x.writes + 1, !.heap = h]
    BY <1>1, <1>2 DEF CxStates
  <1> DEFINE w == x.writes + 1
  <1>17. w \in Nat /\ y = [x EXCEPT !.writes = w, !.heap = h]
    BY <1>1, <1>6 DEF CxStates
  <1> HIDE DEF h, y, w, x
  <1>7. /\ y \in CxStates(y) /\ y.heap = h /\ y.storage = x.storage /\ y.running = t /\ y.stack = x.stack
        /\ y.current = x.current /\ y.phase = x.phase /\ y.inside = x.inside /\ y.snapshot = x.snapshot
        /\ y.failure = x.failure /\ y.given = x.given
    BY <1>1, <1>2, <1>17 DEF CxStates
  <1>8. HeapGood(h)
    BY <1>1, <1>3, <1>4, <1>5 DEF HeapGood
  <1>9. /\ HeapGrows(x, y) /\ Len(y.heap) = Len(x.heap)
        /\ \A i \in 1..Len(x.heap) : y.heap[i].request = x.heap[i].request
    BY <1>1, <1>3, <1>4, <1>5, <1>7, <1>8 DEF HeapGrows
  <1>10. Contexts!Frames(y, t) = Contexts!Frames(x, t)
    BY <1>7 DEF Contexts!Frames
  <1>11. Live(x, t) /\ Contexts!Frames(x, t) \in Seq(Nat)
    BY <1>0, <1>2, CxTyped DEF CxKnown, Live
  <1> DEFINE fs == Contexts!Frames(x, t)
  <1> HIDE DEF fs
  <1>12. Visible(y, t, fs)
    <2>1. Visible(x, t, fs)
      BY <1>1, <1>11 DEF TaskGood, fs
    <2>2. \A i \in DOMAIN fs : fs[i] \in Nat
      BY <1>11, LenProperties DEF fs
    <2>3. ASSUME NEW i \in DOMAIN fs
          PROVE  /\ fs[i] <= Len(y.heap)
                 /\ fs[i] # 0 => y.heap[fs[i]].request \in y.given[t] \cup {"none"}
      <3>1. fs[i] \in Nat /\ fs[i] <= Len(x.heap)
            /\ (fs[i] # 0 => x.heap[fs[i]].request \in x.given[t] \cup {"none"})
        BY <2>1, <2>2 DEF Visible
      <3>2. fs[i] # 0 => fs[i] \in 1..Len(x.heap)
        BY <1>1, <3>1
      <3> QED
        BY <1>7, <1>9, <3>1, <3>2
    <2> QED
      BY <2>3 DEF Visible
  <1>13. Own(x, t, fs) => Own(y, t, fs)
    BY <1>9 DEF Own
  <1>14. TaskGood(y, t)
    BY <1>1, <1>2, <1>7, <1>10, <1>11, <1>12, <1>13 DEF TaskGood, fs
  <1>15. CurrentGood(y) /\ Others(x, y, t)
    BY <1>1, <1>2, <1>7 DEF CurrentGood, Others
  <1>16. CxGood(y)
    BY <1>0, <1>1, <1>2, <1>7, <1>9, <1>14, <1>15, CxMoved
  <1> QED
    BY <1>16 DEF y

(* A context that is captured keeps it. *)
LEMMA CxCaptures ==
    ASSUME CxGood(state), NEW t \in CxTasks, Contexts!Captures(t)
    PROVE  CxGood(state')
  <1> DEFINE x == state
             y == state'
             b == Contexts!Contents(x, t)
  <1>0. CxGood(x)
    OBVIOUS
  <1>1. /\ x \in CxStates(x) /\ HeapGood(x.heap) /\ CurrentGood(x) /\ TaskGood(x, t)
        /\ Len(x.heap) \in Nat
    BY CxTyped DEF CxGood, CxKnown
  <1>2. x.running = t /\ y = [x EXCEPT !.snapshot = b]
    BY DEF Contexts!Captures, Contexts!Active
  <1>3. FrameGood(b)
    BY <1>2, CxSeen
  <1> HIDE DEF b, y, x
  <1>4. /\ y \in CxStates(y) /\ y.heap = x.heap /\ y.storage = x.storage /\ y.running = t /\ y.stack = x.stack
        /\ y.current = x.current /\ y.phase = x.phase /\ y.inside = x.inside /\ y.snapshot = b
        /\ y.failure = x.failure /\ y.given = x.given
    BY <1>1, <1>2 DEF CxStates
  <1>5. HeapGrows(x, y) /\ Others(x, y, t)
    BY <1>1, <1>4 DEF HeapGrows, Others
  <1>6. CurrentGood(y)
    BY <1>1, <1>2, <1>4 DEF CurrentGood
  <1>7. TaskGood(y, t)
    BY <1>1, <1>2, <1>4 DEF TaskGood, Live, Visible, Own, Contexts!Frames
  <1>8. CxGood(y)
    BY <1>0, <1>2, <1>3, <1>4, <1>5, <1>6, <1>7, CxMoved
  <1> QED
    BY <1>8 DEF y

(* One more frame, or none, on top of what a task sees.                     *)
LEMMA FramesMore ==
    ASSUME NEW fs \in Seq(Nat), NEW m \in Nat
    PROVE  /\ Append(fs, m) \in Seq(Nat) /\ DOMAIN Append(fs, m) = 1..Len(fs) + 1
           /\ \A i \in 1..Len(fs) : Append(fs, m)[i] = fs[i]
           /\ Append(fs, m)[Len(fs) + 1] = m /\ Append(fs, m) # <<>>
           /\ Len(fs) \in Nat /\ DOMAIN fs = 1..Len(fs)
  <1> DEFINE f == Append(fs, m)
  <1>1. /\ f \in Seq(Nat) /\ Len(f) = Len(fs) + 1 /\ f[Len(fs) + 1] = m
        /\ \A i \in 1..Len(fs) : f[i] = fs[i]
    BY AppendProperties
  <1>2. Len(fs) \in Nat /\ DOMAIN fs = 1..Len(fs)
    BY LenProperties
  <1> HIDE DEF f
  <1>3. DOMAIN f = 1..Len(fs) + 1
    BY <1>1, LenProperties
  <1>4. f # <<>>
    BY <1>1, <1>2
  <1> QED
    BY <1>1, <1>2, <1>3, <1>4 DEF f

(* A captured context that is run keeps it. *)
LEMMA CxRunCaptured ==
    ASSUME CxGood(state), NEW t \in CxTasks, Contexts!RunCaptured(t)
    PROVE  CxGood(state')
  <1> DEFINE r == state.snapshot.request
  <1>1. state.running = t /\ state.phase[t] = "serving"
    BY DEF Contexts!RunCaptured, Contexts!Active
  <1>2. r \in CxTasks \cup {"none"} /\ (r # "none" => FrameGood(state.snapshot))
    BY DEF CxGood, FrameGood, CxFrames
  <1>9. PICK z : z = Gives(state, t, r)
    OBVIOUS
  <1>3. state' = IF r = "none" THEN Contexts!ExitFrame(z, t) ELSE Contexts!RunFrame(z, t, state.snapshot)
    BY <1>9 DEF Contexts!RunCaptured, Contexts!None, Gives
  <1> HIDE DEF r
  <1>4. CxGood(z) /\ z.given[t] = state.given[t] \cup {r} /\ z.running = t /\ z.phase = state.phase
        /\ z.snapshot = state.snapshot
    <2>1. /\ CxGood(state) /\ t \in CxTasks /\ state.running = t /\ r \in CxTasks \cup {"none"}
          /\ z = Gives(state, t, r)
      BY <1>1, <1>2, <1>9
    <2>2. CxGood(z)
      BY <2>1, CxGiven
    <2>3. z.given[t] = state.given[t] \cup {r}
      BY <2>1 DEF CxGood, CxStates, Gives
    <2>4. z.running = t
      BY <2>1, CxGiven
    <2>5. z.phase = state.phase /\ z.snapshot = state.snapshot
      BY <2>1, CxGiven
    <2> QED
      BY <2>2, <2>3, <2>4, <2>5
  <1>5. CASE r # "none"
    <2>1. FrameGood(z.snapshot) /\ z.snapshot.request \in z.given[t] \cup {"none"} /\ z.phase[t] = "serving"
      BY <1>1, <1>2, <1>4, <1>5 DEF r
    <2>2. CxGood(Contexts!RunFrame(z, t, z.snapshot))
      BY <1>4, <2>1, CxEnters
    <2> QED
      BY <1>3, <1>4, <1>5, <2>2
  <1>6. CASE r = "none"
    <2> DEFINE fs == Contexts!Frames(z, t)
               f == Append(fs, 0)
    <2>1. TaskGood(z, t) /\ fs \in Seq(Nat) /\ Live(z, t) /\ Len(z.heap) \in Nat
      BY <1>4, CxTyped DEF CxKnown, Live
    <2>2. Visible(z, t, fs) /\ (z.inside[t] => Own(z, t, fs))
      BY <1>1, <1>4, <2>1 DEF TaskGood
    <2>3. state' = Contexts!SetFrames(z, t, f)
      BY <1>3, <1>6 DEF Contexts!ExitFrame
    <2> HIDE DEF fs
    <2>4. /\ f \in Seq(Nat) /\ DOMAIN f = 1..Len(fs) + 1 /\ f[Len(fs) + 1] = 0 /\ f # <<>>
          /\ \A i \in 1..Len(fs) : f[i] = fs[i]
          /\ Len(fs) \in Nat /\ DOMAIN fs = 1..Len(fs)
      BY <2>1, FramesMore
    <2> HIDE DEF f
    <2>5. Visible(z, t, f)
      <3>1. \A i \in DOMAIN f : i = Len(fs) + 1 \/ i \in 1..Len(fs)
        BY <2>4
      <3> QED
        BY <2>1, <2>2, <2>4, <3>1 DEF Visible
    <2>6. Own(z, t, fs) => Own(z, t, f)
      <3>1. fs # <<>> => 1 \in 1..Len(fs)
        BY <2>1, <2>4
      <3> QED
        BY <2>4, <3>1 DEF Own
    <2>7. CxGood(Contexts!SetFrames(z, t, f))
      BY <1>1, <1>4, <2>2, <2>4, <2>5, <2>6, CxFramed
    <2> QED
      BY <2>3, <2>7
  <1> QED
    BY <1>5, <1>6

(* A task stops, with a failure that is its own or with none: w is x        *)
(* without its frames, v is w with the task stopped.                        *)
StopIs(w, v, t) ==
    /\ v \in CxStates(v) /\ v.heap = w.heap /\ v.storage = w.storage /\ v.running = w.running
    /\ v.stack = w.stack /\ v.current = w.current /\ v.inside = w.inside /\ v.snapshot = w.snapshot
    /\ v.given = w.given /\ v.phase[t] \in {"failed", "ok"}
    /\ \A s \in CxTasks \ {t} : v.phase[s] = w.phase[s] /\ v.failure[s] = w.failure[s]

(* A task that stops, its frames gone, keeps it. *)
LEMMA CxStopped ==
    ASSUME NEW x, CxGood(x), NEW t \in CxTasks, x.running = t,
           NEW w, SetIs(x, w, t, <<>>), NEW v, StopIs(w, v, t),
           v.phase[t] = "failed" => v.failure[t] = t
    PROVE  CxGood(Contexts!Suspend(v, t))
  <1>1. /\ x \in CxStates(x) /\ HeapGood(x.heap) /\ CurrentGood(x) /\ TaskGood(x, t) /\ Len(x.heap) \in Nat
        /\ (x.snapshot.request # "none" => FrameGood(x.snapshot))
    BY CxTyped DEF CxGood, CxKnown
  <1>2. /\ v \in CxStates(v) /\ v.heap = x.heap /\ v.storage = x.storage /\ v.running = t
        /\ v.inside = x.inside /\ v.snapshot = x.snapshot /\ v.given = x.given
        /\ v.phase[t] \in {"failed", "ok"}
        /\ \A s \in CxTasks \ {t} : v.phase[s] = x.phase[s] /\ v.failure[s] = x.failure[s]
                                    /\ v.stack[s] = x.stack[s]
        /\ x.storage = "als" => v.stack[t] = <<>> /\ v.current = x.current
        /\ x.storage = "single" => v.current = <<>> /\ v.stack = x.stack
        /\ x.storage = "explicit" => v.current = x.current /\ v.stack = x.stack
    BY DEF SetIs, Same, StopIs
  <1>3. x.storage \in {"als", "single", "explicit"} /\ t # "none" /\ Live(x, t)
    BY <1>1, ContextAssumption DEF CxStates, Live
  <1>4. HeapGrows(x, v) /\ Others(x, v, t)
    BY <1>1, <1>2 DEF HeapGrows, Others
  <1>5. CurrentGood(v)
    BY <1>1, <1>2, <1>3 DEF CurrentGood
  <1>6. Contexts!Frames(v, t) = <<>>
    BY <1>1, <1>2, <1>3 DEF Contexts!Frames, CurrentGood
  <1>7. TaskGood(v, t)
    <2>1. Visible(v, t, <<>>)
      BY DEF Visible
    <2> QED
      BY <1>1, <1>2, <1>3, <1>6, <2>1 DEF TaskGood
  <1>8. CxGood(v)
    BY <1>1, <1>2, <1>4, <1>5, <1>7, CxMoved
  <1> QED
    BY <1>2, <1>8, CxSuspended

(* An operation that ends keeps it. *)
LEMMA CxEnds ==
    ASSUME CxGood(state), NEW t \in CxTasks, Contexts!OperationEnds(t)
    PROVE  CxGood(state')
  <1>1. state \in CxStates(state) /\ state.running = t
    BY DEF CxGood, Contexts!OperationEnds, Contexts!Active
  <1>2. PICK w : w = Contexts!SetFrames(state, t, <<>>)
    OBVIOUS
  <1>3. SetIs(state, w, t, <<>>)
    <2>1. <<>> \in Seq(Nat)
      OBVIOUS
    <2> QED
      BY <1>1, <1>2, <2>1, CxSets
  <1>4. PICK v : v = [w EXCEPT !.phase[t] = "ok"]
    OBVIOUS
  <1>5. StopIs(w, v, t) /\ v.phase[t] = "ok"
    <2> DEFINE phases == [w.phase EXCEPT ![t] = "ok"]
    <2>1. w \in CxStates(w)
      BY <1>3 DEF SetIs
    <2>2. phases \in [CxTasks -> CxPhases] /\ phases[t] = "ok" /\ \A s \in CxTasks \ {t} : phases[s] = w.phase[s]
      BY <2>1 DEF CxStates, CxPhases
    <2>3. v = [w EXCEPT !.phase = phases]
      BY <1>4, <2>1 DEF CxStates
    <2> HIDE DEF phases
    <2>4. /\ v \in CxStates(v) /\ v.heap = w.heap /\ v.storage = w.storage /\ v.running = w.running
          /\ v.stack = w.stack /\ v.current = w.current /\ v.inside = w.inside /\ v.snapshot = w.snapshot
          /\ v.given = w.given /\ v.phase = phases /\ v.failure = w.failure
      BY <2>1, <2>2, <2>3 DEF CxStates
    <2> QED
      BY <2>2, <2>4 DEF StopIs
  <1>6. state' = Contexts!Suspend(v, t)
    BY <1>2, <1>4 DEF Contexts!OperationEnds
  <1>7. CxGood(Contexts!Suspend(v, t))
    BY <1>1, <1>3, <1>5, CxStopped
  <1> QED
    BY <1>6, <1>7

(* An operation that fails keeps it. *)
LEMMA CxFails ==
    ASSUME CxGood(state), NEW t \in CxTasks, Contexts!OperationFails(t)
    PROVE  CxGood(state')
  <1> DEFINE fs == Contexts!Frames(state, t)
             f == Contexts!BoundaryFrames(state, t)
  <1>1. /\ state \in CxStates(state) /\ state.running = t /\ state.phase[t] = "serving"
        /\ TaskGood(state, t) /\ CurrentGood(state) /\ fs \in Seq(Nat) /\ Live(state, t)
    BY CxTyped DEF CxGood, CxKnown, Live, Contexts!OperationFails, Contexts!Active
  <1>2. /\ state.storage \in {"als", "single", "explicit"} /\ t # "none"
        /\ state.storage = "explicit" => ~state.inside[t] /\ state.current = <<>>
    BY <1>1, ContextAssumption DEF CxStates, TaskGood, CurrentGood
  <1>3. state.inside[t] => Own(state, t, fs)
    BY <1>1 DEF TaskGood
  <1>4. /\ f \in Seq(Nat) /\ Visible(state, t, f)
        /\ ~state.inside[t] => f = <<>>
        /\ state.inside[t] => Own(state, t, f) /\ f = <<f[1]>>
    <2>1. CASE ~state.inside[t]
      <3>1. f = <<>>
        BY <2>1 DEF Contexts!BoundaryFrames
      <3> QED
        BY <2>1, <3>1 DEF Visible
    <2>2. CASE state.inside[t]
      <3> DEFINE n == fs[1]
      <3>1. f = <<n>>
        BY <2>2 DEF Contexts!BoundaryFrames
      <3>2. n \in 1..Len(state.heap) /\ state.heap[n].request = t
        BY <1>3, <2>2 DEF Own
      <3>4. Len(state.heap) \in Nat
        BY CxTyped DEF CxKnown
      <3> HIDE DEF n, f, fs
      <3>5. n \in Nat /\ n # 0 /\ n <= Len(state.heap)
        BY <3>2, <3>4
      <3>6. f \in Seq(Nat) /\ DOMAIN f = {1} /\ f[1] = n /\ f # <<>>
        BY <3>1, <3>5
      <3>7. state.heap[n].request \in state.given[t] \cup {"none"}
        <4>1. Visible(state, t, fs) /\ 1 \in DOMAIN fs
          <5>1. Visible(state, t, fs)
            BY <1>1 DEF TaskGood, fs
          <5>2. fs # <<>>
            BY <1>3, <2>2 DEF Own
          <5> QED
            BY <1>1, <5>1, <5>2
        <4> QED
          BY <3>5, <4>1 DEF Visible, n
      <3> QED
        BY <2>2, <3>1, <3>2, <3>5, <3>6, <3>7 DEF Visible, Own
    <2> QED
      BY <2>1, <2>2
  <1> HIDE DEF f
  <1>5. PICK x : x = Contexts!SetFrames(state, t, f)
    OBVIOUS
  <1>6. SetIs(state, x, t, f)
    BY <1>1, <1>4, <1>5, CxSets
  <1>7. CxGood(x)
    BY <1>1, <1>4, <1>5, CxFramed
  <1>8. /\ x \in CxStates(x) /\ x.heap = state.heap /\ x.storage = state.storage /\ x.running = t
        /\ x.storage = "als" => x.stack[t] = f
        /\ x.storage = "single" => x.current = f
        /\ x.storage = "explicit" => x.current = <<>>
    BY <1>1, <1>2, <1>6 DEF SetIs, Same
  <1>9. PICK r : r = Contexts!Contents(x, t).request
    OBVIOUS
  <1>10. r \in {t, "none"}
    <2>1. Contexts!Frames(x, t) = IF x.storage = "explicit" THEN <<>> ELSE f
      BY <1>2, <1>8 DEF Contexts!Frames
    <2>2. CASE state.inside[t]
      <3>1. f = <<f[1]>> /\ f[1] \in 1..Len(state.heap) /\ state.heap[f[1]].request = t /\ f # <<>>
        BY <1>4, <2>2 DEF Own
      <3>2. Len(f) = 1 /\ f[1] # 0
        <4>1. Len(<<f[1]>>) = 1
          OBVIOUS
        <4>2. Len(state.heap) \in Nat
          BY CxTyped DEF CxKnown
        <4> QED
          BY <3>1, <4>1, <4>2
      <3>3. Contexts!Frames(x, t) = f
        BY <1>2, <1>8, <2>1, <2>2
      <3>4. Contexts!Store(x, t) = f[1]
        BY <3>1, <3>2, <3>3 DEF Contexts!Store
      <3>5. Contexts!Contents(x, t) = state.heap[f[1]]
        BY <1>8, <3>2, <3>4 DEF Contexts!Contents
      <3> QED
        BY <1>9, <3>1, <3>5
    <2>3. CASE ~state.inside[t]
      <3>1. Contexts!Frames(x, t) = <<>>
        BY <1>4, <2>1, <2>3
      <3>2. Contexts!Contents(x, t) = Contexts!Empty
        BY <3>1 DEF Contexts!Store, Contexts!Contents
      <3> QED
        BY <1>9, <3>2, CxEmptyGood
    <2> QED
      BY <2>2, <2>3
  <1>11. PICK w : w = Contexts!SetFrames(x, t, <<>>)
    OBVIOUS
  <1>12. SetIs(x, w, t, <<>>)
    <2>1. <<>> \in Seq(Nat)
      OBVIOUS
    <2> QED
      BY <1>8, <1>11, <2>1, CxSets
  <1>13. PICK v : v = [w EXCEPT !.phase[t] = "failed", !.failure[t] = IF r = "none" THEN t ELSE r]
    OBVIOUS
  <1>14. v = [w EXCEPT !.phase[t] = "failed", !.failure[t] = t]
    BY <1>10, <1>13
  <1>15. StopIs(w, v, t) /\ v.failure[t] = t
    <2> DEFINE phases == [w.phase EXCEPT ![t] = "failed"]
               failure == [w.failure EXCEPT ![t] = t]
    <2>1. w \in CxStates(w)
      BY <1>12 DEF SetIs
    <2>2. /\ phases \in [CxTasks -> CxPhases] /\ phases[t] = "failed"
          /\ \A s \in CxTasks \ {t} : phases[s] = w.phase[s]
          /\ failure \in [CxTasks -> CxTasks \cup {"none"}] /\ failure[t] = t
          /\ \A s \in CxTasks \ {t} : failure[s] = w.failure[s]
      BY <2>1 DEF CxStates, CxPhases
    <2>3. v = [w EXCEPT !.phase = phases, !.failure = failure]
      BY <1>14, <2>1 DEF CxStates
    <2> HIDE DEF phases, failure
    <2>4. /\ v \in CxStates(v) /\ v.heap = w.heap /\ v.storage = w.storage /\ v.running = w.running
          /\ v.stack = w.stack /\ v.current = w.current /\ v.inside = w.inside /\ v.snapshot = w.snapshot
          /\ v.given = w.given /\ v.phase = phases /\ v.failure = failure
      BY <2>1, <2>2, <2>3 DEF CxStates
    <2> QED
      BY <2>2, <2>4 DEF StopIs
  <1>16. state' = Contexts!Suspend(v, t)
    BY <1>5, <1>9, <1>11, <1>13 DEF Contexts!OperationFails, Contexts!None, f
  <1>17. CxGood(Contexts!Suspend(v, t))
    BY <1>7, <1>8, <1>12, <1>15, CxStopped
  <1> QED
    BY <1>16, <1>17

(* The invariant of the contexts holds at first. *)
LEMMA CxInit == Contexts!CxInit => CxGood(state)
  <1> SUFFICES ASSUME Contexts!CxInit PROVE CxGood(state)
    OBVIOUS
  <1> DEFINE x == state
             stack == [t \in CxTasks |-> <<>>]
             phases == [t \in CxTasks |-> "new"]
             inside == [t \in CxTasks |-> FALSE]
             failure == [t \in CxTasks |-> "none"]
             given == [t \in CxTasks |-> {}]
             s == [request |-> "none"]
             e == <<>>
  <1>1. x \in [storage : CxStorages, running : {"none"}, heap : {e}, stack : {stack}, current : {e},
               phase : {phases}, inside : {inside}, writes : {0}, snapshot : {s}, failure : {failure},
               given : {given}]
    BY DEF Contexts!CxInit, Contexts!None
  <1>2. /\ stack \in [CxTasks -> Seq(Nat)] /\ phases \in [CxTasks -> CxPhases]
        /\ inside \in [CxTasks -> BOOLEAN] /\ failure \in [CxTasks -> CxTasks \cup {"none"}]
        /\ given \in [CxTasks -> SUBSET (CxTasks \cup {"none"})]
        /\ \A t \in CxTasks : stack[t] = <<>> /\ phases[t] = "new" /\ ~inside[t]
    BY DEF CxPhases
  <1>3. e \in Seq(Nat) /\ e \in Seq(CxFrames) /\ Len(e) = 0 /\ s.request = "none" /\ e = <<>>
    OBVIOUS
  <1> HIDE DEF stack, phases, inside, failure, given, s, x, e
  <1>4. /\ x \in CxStates(x) /\ x.heap = e /\ x.stack = stack /\ x.current = e /\ x.phase = phases
        /\ x.inside = inside /\ x.snapshot = s /\ x.running = "none"
    <2>1. /\ x.storage \in {"als", "single", "explicit"} /\ x.heap = e /\ x.stack = stack /\ x.current = e
          /\ x.phase = phases /\ x.inside = inside /\ x.snapshot = s /\ x.running = "none"
          /\ x.failure = failure /\ x.given = given /\ x.writes = 0
      BY <1>1, ContextAssumption
    <2>2. x \in [storage : {"als", "single", "explicit"}, running : {"none"}, heap : {x.heap},
                 stack : {stack}, current : {e}, phase : {phases}, inside : {inside}, writes : {0},
                 snapshot : {x.snapshot}, failure : {failure}, given : {given}]
      BY <1>1, <2>1
    <2>3. x \in CxStates(x)
      <3>1. {e} \subseteq Seq(Nat) /\ {stack} \subseteq [CxTasks -> Seq(Nat)]
            /\ {phases} \subseteq [CxTasks -> CxPhases] /\ {inside} \subseteq [CxTasks -> BOOLEAN]
            /\ {failure} \subseteq [CxTasks -> CxTasks \cup {"none"}]
            /\ {given} \subseteq [CxTasks -> SUBSET (CxTasks \cup {"none"})]
            /\ {0} \subseteq Nat /\ {"none"} \subseteq CxTasks \cup {"none"}
        BY <1>2, <1>3
      <3> HIDE DEF x
      <3>2. /\ x.stack \in [CxTasks -> Seq(Nat)] /\ x.current \in Seq(Nat)
            /\ x.phase \in [CxTasks -> CxPhases] /\ x.inside \in [CxTasks -> BOOLEAN]
            /\ x.failure \in [CxTasks -> CxTasks \cup {"none"}]
            /\ x.given \in [CxTasks -> SUBSET (CxTasks \cup {"none"})]
            /\ x.writes \in Nat /\ x.running \in CxTasks \cup {"none"}
        BY <2>1, <3>1
      <3> QED
        BY <2>1, <2>2, <3>2 DEF CxStates
    <2> QED
      BY <2>1, <2>3
  <1>5. HeapGood(x.heap)
    BY <1>3, <1>4 DEF HeapGood
  <1>6. CurrentGood(x)
    BY <1>3, <1>4 DEF CurrentGood
  <1>7. ASSUME NEW t \in CxTasks PROVE TaskGood(x, t)
    <2>1. Contexts!Frames(x, t) = <<>>
      BY <1>2, <1>3, <1>4 DEF Contexts!Frames
    <2>2. Visible(x, t, <<>>)
      BY DEF Visible
    <2> QED
      BY <1>2, <1>4, <2>1, <2>2 DEF TaskGood
  <1>8. CxGood(x)
    BY <1>3, <1>4, <1>5, <1>6, <1>7 DEF CxGood
  <1> QED
    BY <1>8 DEF x

(* Every step of a task keeps it. *)
LEMMA CxStep == CxGood(state) /\ Contexts!CxNext => CxGood(state')
  <1> SUFFICES ASSUME CxGood(state), Contexts!CxNext PROVE CxGood(state')
    OBVIOUS
  <1>1. PICK t \in CxTasks :
           \/ \E trace \in {CHOOSE i \in CxTraces : TRUE, "none"} : Contexts!Boundary(t, trace)
           \/ Contexts!Awaits(t) \/ Contexts!Resumes(t) \/ Contexts!Returns(t) \/ Contexts!Captures(t)
           \/ Contexts!RunCaptured(t) \/ Contexts!OperationFails(t) \/ Contexts!OperationEnds(t)
           \/ \E p \in Contexts!PlainPatches : Contexts!RunMerged(t, p) \/ Contexts!Updates(t, p)
           \/ \E p \in Contexts!Patches : Contexts!RunExecution(t, p)
    BY Zenon DEF Contexts!CxNext, Contexts!None
  <1>2. (CHOOSE i \in CxTraces : TRUE) \in CxTraces
    BY ContextAssumption
  <1>3. ASSUME NEW trace \in {CHOOSE i \in CxTraces : TRUE, "none"}, Contexts!Boundary(t, trace)
        PROVE  CxGood(state')
    <2>1. trace \in CxTraces \cup {"none"}
      BY <1>2
    <2> QED
      BY <1>3, <2>1, CxBoundary
  <1>4. ASSUME NEW p \in Contexts!PlainPatches, Contexts!RunMerged(t, p) \/ Contexts!Updates(t, p)
        PROVE  CxGood(state')
    <2>1. p \in CxPatches
      BY CxPatched
    <2> QED
      BY <1>4, <2>1, CxRunMerged, CxUpdates
  <1>5. ASSUME NEW p \in Contexts!Patches, Contexts!RunExecution(t, p)
        PROVE  CxGood(state')
    <2>1. p \in CxPatches
      BY CxPatched
    <2> QED
      BY <1>5, <2>1, CxRunExecution
  <1> QED
    BY <1>1, <1>3, <1>4, <1>5, CxAwaits, CxResumes, CxReturns, CxCaptures, CxRunCaptured, CxFails, CxEnds

(* The invariant says that contexts are their owners'. *)
LEMMA CxHolds ==
    CxGood(state) => Contexts!NoBleed /\ Contexts!OneIdentity /\ Contexts!TracesKeptOnce
  <1> SUFFICES ASSUME CxGood(state)
               PROVE  Contexts!NoBleed /\ Contexts!OneIdentity /\ Contexts!TracesKeptOnce
    OBVIOUS
  <1>1. HeapGood(state.heap) /\ \A t \in CxTasks : TaskGood(state, t)
    BY DEF CxGood
  <1>2. Contexts!NoBleed
    <2>1. ASSUME NEW t \in CxTasks, state.running = t
          PROVE  Contexts!Contents(state, t).request \in state.given[t] \cup {"none"}
      BY <2>1, CxSeen
    <2>2. ASSUME NEW t \in CxTasks, state.phase[t] = "failed" PROVE state.failure[t] = t
      BY <1>1, <2>2 DEF TaskGood
    <2> QED
      BY <2>1, <2>2 DEF Contexts!NoBleed, Contexts!None
  <1>3. DOMAIN state.heap = 1..Len(state.heap)
    BY <1>1, LenProperties DEF HeapGood
  <1>4. Contexts!OneIdentity
    BY <1>1, <1>3 DEF HeapGood, FrameGood, Contexts!OneIdentity, Contexts!None
  <1>5. Contexts!TracesKeptOnce
    <2> SUFFICES ASSUME NEW n \in DOMAIN state.heap
                 PROVE  /\ Contexts!IsInjective(state.heap[n].traces)
                        /\ state.heap[n].traces # <<>> =>
                             Contexts!Range(state.heap[n].traces) = state.heap[n].ids
      BY DEF Contexts!TracesKeptOnce
    <2>1. TracesGood(state.heap[n].trace, state.heap[n].traces, state.heap[n].ids)
      BY <1>1, <1>3 DEF HeapGood, FrameGood
    <2> QED
      BY <2>1, UniqueInstances DEF TracesGood, Injective
  <1> QED
    BY <1>2, <1>4, <1>5

(***************************************************************************)
(* The snapshot of a context: the contents of a copy                       *)
(***************************************************************************)
SnRefs == [copied : BOOLEAN, id : Nat]
SnStates == [copies : Seq(Seq(SnRefs)), seen : [ClNodes -> Nat], nodes : Nat,
             thrown : BOOLEAN, ref : SnRefs]
SnCalls == SnStates \X ClNodes
SnSoFar == [clone : SnStates, refs : Seq(SnRefs)]

(* What a clone one level down is: it adds copies, or does not go on.       *)
SnAdds(c, e) == e \in SnStates /\ Len(c.copies) <= Len(e.copies) /\ (c.thrown => e = c)
SnInner(inner) ==
    inner \in [SnCalls -> SnStates] /\ \A c \in SnStates, n \in ClNodes : SnAdds(c, inner[<<c, n>>])

Further(inner, refs, x, i) ==
    [clone |-> inner[<<x.clone, refs[i]>>], refs |-> Append(x.refs, inner[<<x.clone, refs[i]>>].ref)]

(* The contents that are cloned after i references.                         *)
SnAfter(inner, c, refs, after) ==
    /\ after \in [0..Len(refs) -> SnSoFar]
    /\ after[0].clone = c /\ after[0].refs = <<>>
    /\ \A i \in 1..Len(refs) :
          /\ after[i].clone = inner[<<after[i - 1].clone, refs[i]>>]
          /\ after[i].refs = Append(after[i - 1].refs, after[i].clone.ref)

(* Clones adds up its references one by one.                                *)
LEMMA SnContents ==
    ASSUME NEW inner, SnInner(inner), NEW c \in SnStates, NEW refs \in Seq(ClNodes)
    PROVE  \E after : SnAfter(inner, c, refs, after)
                      /\ Snapshot!CloneContents(inner, c, refs) = after[Len(refs)]
  <1> DEFINE n == Len(refs)
             base == [clone |-> c, refs |-> <<>>]
             Step(f) == [i \in 0..Len(refs) |->
                         IF i = 0 THEN [clone |-> c, refs |-> <<>>]
                         ELSE [clone |-> inner[<<f[i - 1].clone, refs[i]>>],
                               refs |-> Append(f[i - 1].refs, inner[<<f[i - 1].clone, refs[i]>>].ref)]]
             after == CHOOSE f : f = Step(f)
             step == [p \in SnSoFar \X (1..n) |-> Further(inner, refs, p[1], p[2])]
  <1>1. n \in Nat /\ \A i \in 1..n : refs[i] \in ClNodes
    BY LenProperties
  <1>2. base \in SnSoFar /\ base.clone = c /\ base.refs = <<>>
    <2>1. <<>> \in Seq(SnRefs)
      OBVIOUS
    <2> QED
      BY <2>1 DEF SnSoFar
  <1>3. ASSUME NEW x \in SnSoFar, NEW i \in 1..n
        PROVE  /\ Further(inner, refs, x, i) \in SnSoFar
               /\ Further(inner, refs, x, i).clone = inner[<<x.clone, refs[i]>>]
               /\ Further(inner, refs, x, i).refs = Append(x.refs, inner[<<x.clone, refs[i]>>].ref)
    <2> DEFINE e == inner[<<x.clone, refs[i]>>]
    <2>1. x.clone \in SnStates /\ x.refs \in Seq(SnRefs) /\ refs[i] \in ClNodes
      BY <1>1 DEF SnSoFar
    <2>2. e \in SnStates
      BY <2>1 DEF SnInner, SnAdds
    <2>3. e.ref \in SnRefs
      BY <2>2 DEF SnStates
    <2> HIDE DEF e
    <2>4. Append(x.refs, e.ref) \in Seq(SnRefs)
      BY <2>1, <2>3, AppendProperties
    <2> QED
      BY <2>2, <2>4 DEF SnSoFar, Further, e
  <1>4. \A x \in SnSoFar, i \in 1..n : step[<<x, i>>] = Further(inner, refs, x, i)
    <2> TAKE x \in SnSoFar, i \in 1..n
    <2>1. <<x, i>> \in SnSoFar \X (1..n) /\ <<x, i>>[1] = x /\ <<x, i>>[2] = i
      OBVIOUS
    <2> QED
      BY <2>1
  <1>5. PICK g \in [0..n -> SnSoFar] : Recurs(g, n, base, step)
    <2> HIDE DEF step, base, n
    <2>1. \A x \in SnSoFar, i \in 1..n : step[<<x, i>>] \in SnSoFar
      BY <1>3, <1>4
    <2> QED
      BY <1>1, <1>2, <2>1, RecursionExists
  <1>6. g[0] = base /\ \A i \in 1..n : g[i - 1] \in SnSoFar /\ g[i] = Further(inner, refs, g[i - 1], i)
    <2>1. \A i \in 1..n : i - 1 \in 0..n
      BY <1>1
    <2> HIDE DEF step, base, n
    <2> QED
      BY <1>4, <1>5, <2>1 DEF Recurs
  <1>7. g = Step(g)
    <2>1. \A i \in 0..n : i # 0 => i \in 1..n
      BY <1>1
    <2> HIDE DEF step
    <2> QED
      BY <1>5, <1>6, <2>1 DEF Further
  <1>8. after = Step(after)
    BY <1>7
  <1>9. Snapshot!CloneContents(inner, c, refs) = after[Len(refs)]
    BY DEF Snapshot!CloneContents
  <1>10. /\ DOMAIN after = 0..n /\ after[0] = base
         /\ \A i \in 1..n : after[i] = Further(inner, refs, after[i - 1], i)
         /\ after = [i \in 0..n |-> after[i]]
    <2> DEFINE w == Step(after)
    <2>1. /\ DOMAIN w = 0..n /\ w[0] = base /\ w = [i \in 0..n |-> w[i]]
          /\ \A i \in 1..n : w[i] = Further(inner, refs, after[i - 1], i)
      <3>1. 0 \in 0..n /\ \A i \in 1..n : i \in 0..n /\ i # 0
        BY <1>1
      <3>2. DOMAIN w = 0..n /\ w = [i \in 0..n |-> w[i]]
        OBVIOUS
      <3>3. w[0] = base
        BY <3>1
      <3>4. ASSUME NEW i \in 1..n PROVE w[i] = Further(inner, refs, after[i - 1], i)
        <4> HIDE DEF after
        <4> QED
          BY <3>1 DEF Further
      <3> QED
        BY <3>2, <3>3, <3>4
    <2> HIDE DEF w, after
    <2>2. w = after
      BY <1>8 DEF w
    <2> QED
      BY <2>1, <2>2
  <1> HIDE DEF after, base, step
  <1>14. \A x \in SnSoFar, i \in 1..n : Further(inner, refs, x, i) \in SnSoFar
    BY <1>3
  <1>11. \A k \in Nat : k <= n => after[k] \in SnSoFar
    <2> DEFINE T == {k \in Nat : k <= n => after[k] \in SnSoFar}
    <2>1. 0 \in T
      BY <1>2, <1>10
    <2>2. ASSUME NEW k \in Nat, k \in T PROVE k + 1 \in T
      <3>1. CASE k + 1 <= n
        <4>1. k + 1 \in 1..n /\ (k + 1) - 1 = k /\ after[k] \in SnSoFar
          BY <1>1, <2>2, <3>1
        <4>2. after[k + 1] = Further(inner, refs, after[k], k + 1)
          BY <1>10, <4>1
        <4> HIDE DEF n
        <4> QED
          BY <1>14, <4>1, <4>2
      <3> QED
        BY <3>1
    <2> HIDE DEF T
    <2>3. Nat \subseteq T
      BY <2>1, <2>2, SetInduction
    <2> QED
      BY <2>3 DEF T
  <1>12. after \in [0..n -> SnSoFar]
    BY <1>1, <1>10, <1>11
  <1>13. SnAfter(inner, c, refs, after)
    <2>1. \A i \in 1..n : i - 1 \in 0..n /\ after[i - 1] \in SnSoFar
      BY <1>1, <1>12
    <2>2. ASSUME NEW i \in 1..n
          PROVE  /\ after[i].clone = inner[<<after[i - 1].clone, refs[i]>>]
                 /\ after[i].refs = Append(after[i - 1].refs, after[i].clone.ref)
      <3>1. after[i] = Further(inner, refs, after[i - 1], i)
        BY <1>10
      <3> QED
        BY <3>1 DEF Further
    <2> QED
      BY <1>2, <1>10, <1>12, <2>2 DEF SnAfter
  <1> QED
    BY <1>9, <1>13

(* The contents add to the clone, one reference for each.                   *)
SnContentsAre(inner, c, refs, x) ==
    x \in SnSoFar /\ SnAdds(c, x.clone) /\ Len(x.refs) = Len(refs)

(* Cloning contents adds copies only. *)
LEMMA SnContentsGrow ==
    ASSUME NEW inner, SnInner(inner), NEW c \in SnStates, NEW refs \in Seq(ClNodes)
    PROVE  SnContentsAre(inner, c, refs, Snapshot!CloneContents(inner, c, refs))
  <1>1. PICK after : SnAfter(inner, c, refs, after)
                     /\ Snapshot!CloneContents(inner, c, refs) = after[Len(refs)]
    BY SnContents
  <1>2. Len(refs) \in Nat /\ \A i \in 1..Len(refs) : refs[i] \in ClNodes
    BY LenProperties
  <1> DEFINE Holds(k) == SnAdds(c, after[k].clone) /\ Len(after[k].refs) = k
             T == {k \in Nat : k <= Len(refs) => Holds(k)}
  <1>3. \A k \in 0..Len(refs) : after[k] \in SnSoFar
    BY <1>1 DEF SnAfter
  <1>4. 0 \in T
    <2>1. after[0].clone = c /\ after[0].refs = <<>>
      BY <1>1 DEF SnAfter
    <2>2. Len(c.copies) \in Nat
      BY LenProperties DEF SnStates
    <2> QED
      BY <2>1, <2>2 DEF SnAdds
  <1>5. ASSUME NEW k \in Nat, k \in T PROVE k + 1 \in T
    <2> SUFFICES ASSUME k + 1 <= Len(refs) PROVE Holds(k + 1)
      OBVIOUS
    <2>1. k + 1 \in 1..Len(refs) /\ (k + 1) - 1 = k /\ k \in 0..Len(refs) /\ k + 1 \in 0..Len(refs) /\ Holds(k)
      BY <1>2, <1>5
    <2> DEFINE b == after[k].clone
               e == after[k + 1].clone
    <2>2. e = inner[<<b, refs[k + 1]>>] /\ after[k + 1].refs = Append(after[k].refs, e.ref)
      BY <1>1, <2>1 DEF SnAfter
    <2>3. b \in SnStates /\ e \in SnStates /\ refs[k + 1] \in ClNodes /\ after[k].refs \in Seq(SnRefs)
      BY <1>2, <1>3, <2>1 DEF SnSoFar
    <2> HIDE DEF b, e
    <2>4. SnAdds(b, e) /\ SnAdds(c, b)
      BY <2>1, <2>2, <2>3 DEF SnInner, b
    <2>5. SnAdds(c, e)
      <3>1. Len(c.copies) \in Nat /\ Len(b.copies) \in Nat /\ Len(e.copies) \in Nat
        BY <2>3, LenProperties DEF SnStates
      <3> QED
        BY <2>4, <3>1 DEF SnAdds
    <2>6. Len(Append(after[k].refs, e.ref)) = k + 1
      <3>1. e.ref \in SnRefs
        BY <2>3 DEF SnStates
      <3> QED
        BY <2>1, <2>3, <3>1, AppendProperties
    <2> QED
      BY <2>2, <2>5, <2>6 DEF e
  <1>6. Nat \subseteq T
    <2> HIDE DEF T
    <2> QED
      BY <1>4, <1>5, SetInduction
  <1>7. Holds(Len(refs)) /\ after[Len(refs)] \in SnSoFar
    BY <1>2, <1>3, <1>6
  <1> QED
    BY <1>1, <1>7 DEF SnContentsAre

-----------------------------------------------------------------------------
(* What a call does *)

SnKinds == {"container", "leaf", "view", "handle", "function"}
SnGraph(g) ==
    /\ g.kind \in [ClNodes -> SnKinds] /\ g.refs \in [ClNodes -> Seq(ClNodes)]
    /\ \A n \in ClNodes : g.kind[n] \notin {"container", "view"} => g.refs[n] = <<>>
    /\ \A n \in ClNodes : g.kind[n] = "view" => Len(g.refs[n]) = 1 /\ g.kind[g.refs[n][1]] = "leaf"
Copied(g, n) == g.kind[n] \notin {"handle", "function"}

Like(c, e) == e \in SnStates /\ e.copies = c.copies /\ e.seen = c.seen
WithCopy(c, e, n, refs) ==
    /\ e \in SnStates /\ e.copies = Append(c.copies, refs)
    /\ e.seen = [c.seen EXCEPT ![n] = Len(c.copies) + 1]
    /\ e.nodes = c.nodes /\ e.thrown = c.thrown /\ e.ref = Snapshot!Copy(Len(c.copies) + 1)

(* Register adds one copy, of its value. *)
LEMMA SnRegister ==
    ASSUME NEW c \in SnStates, NEW n \in ClNodes, NEW refs \in Seq(SnRefs)
    PROVE  WithCopy(c, Snapshot!Register(c, n, refs), n, refs)
  <1> DEFINE k == Len(c.copies) + 1
             copies == Append(c.copies, refs)
             seen == [c.seen EXCEPT ![n] = k]
             ref == Snapshot!Copy(k)
  <1>1. c.copies \in Seq(Seq(SnRefs)) /\ c.seen \in [ClNodes -> Nat]
    BY DEF SnStates
  <1>2. k \in Nat
    BY <1>1, LenProperties
  <1>3. Snapshot!Register(c, n, refs) = [c EXCEPT !.copies = copies, !.seen = seen, !.ref = ref]
    BY DEF Snapshot!Register, SnStates
  <1> HIDE DEF k
  <1>4. copies \in Seq(Seq(SnRefs)) /\ seen \in [ClNodes -> Nat] /\ ref \in SnRefs
    BY <1>1, <1>2, AppendProperties DEF Snapshot!Copy, SnRefs
  <1> HIDE DEF copies, seen, ref
  <1>5. PICK e : e = [c EXCEPT !.copies = copies, !.seen = seen, !.ref = ref]
    OBVIOUS
  <1>6. /\ e \in SnStates /\ e.copies = copies /\ e.seen = seen /\ e.ref = ref /\ e.nodes = c.nodes
        /\ e.thrown = c.thrown
    BY <1>4, <1>5 DEF SnStates
  <1>7. WithCopy(c, e, n, refs)
    BY <1>6 DEF WithCopy, copies, seen, ref, k
  <1> QED
    BY <1>3, <1>5, <1>7

(* A call that keeps the value, that knows it, that is refused, that copies *)
(* a view or a container.                                                   *)
Keeps(g, c, n, v) ==
    ~c.thrown /\ ~Copied(g, n) /\ Like(c, v) /\ ~v.thrown /\ v.ref = Snapshot!Same(n)
Knows(g, c, n, v) ==
    ~c.thrown /\ c.seen[n] # 0 /\ Like(c, v) /\ ~v.thrown /\ v.ref = Snapshot!Copy(c.seen[n])
Refuses(g, c, n, depth, v) ==
    /\ ~c.thrown /\ Like(c, v) /\ v.thrown
    /\ (depth > ClMaxDepth /\ g.kind[n] # "function") \/ v.nodes > ClMaxNodes
Views(g, inner, c, n, v) ==
    /\ ~c.thrown /\ g.kind[n] = "view" /\ c.seen[n] = 0 /\ SnInner(inner)
    /\ \E b, x :
          /\ Like(c, b) /\ ~b.thrown /\ x = Snapshot!CloneContents(inner, b, g.refs[n])
          /\ x.clone.thrown => v = x.clone
          /\ ~x.clone.thrown => WithCopy(x.clone, v, n, x.refs)
Fills(g, inner, c, n, v) ==
    /\ ~c.thrown /\ g.kind[n] \in {"container", "leaf"} /\ c.seen[n] = 0 /\ SnInner(inner)
    /\ \E a, b, x :
          /\ Like(c, a) /\ ~a.thrown /\ WithCopy(a, b, n, <<>>)
          /\ x = Snapshot!CloneContents(inner, b, g.refs[n])
          /\ v \in SnStates /\ v.seen = x.clone.seen /\ v.nodes = x.clone.nodes /\ v.thrown = x.clone.thrown
          /\ v.copies = [x.clone.copies EXCEPT ![Len(c.copies) + 1] = x.refs]
          /\ v.ref = Snapshot!Copy(Len(c.copies) + 1)

Calls(g, inner, c, n, depth, v) ==
    \/ c.thrown /\ v = c
    \/ Keeps(g, c, n, v)
    \/ Knows(g, c, n, v)
    \/ Refuses(g, c, n, depth, v)
    \/ depth <= ClMaxDepth /\ Views(g, inner, c, n, v)
    \/ depth <= ClMaxDepth /\ Fills(g, inner, c, n, v)

(* A view that is cloned. *)
LEMMA SnViews ==
    ASSUME NEW g, SnGraph(g), NEW inner, SnInner(inner), NEW c \in SnStates, NEW n \in ClNodes,
           ~c.thrown, g.kind[n] = "view", c.seen[n] = 0, NEW b, Like(c, b), ~b.thrown,
           NEW x, x = Snapshot!CloneContents(inner, b, g.refs[n]),
           NEW v, v = IF x.clone.thrown THEN x.clone ELSE Snapshot!Register(x.clone, n, x.refs)
    PROVE  Views(g, inner, c, n, v)
  <1>1. b \in SnStates /\ g.refs[n] \in Seq(ClNodes)
    BY DEF Like, SnGraph
  <1>2. SnContentsAre(inner, b, g.refs[n], x)
    BY <1>1, SnContentsGrow
  <1>3. x.clone \in SnStates /\ x.refs \in Seq(SnRefs)
    BY <1>2 DEF SnContentsAre, SnSoFar
  <1>4. WithCopy(x.clone, Snapshot!Register(x.clone, n, x.refs), n, x.refs)
    BY <1>3, SnRegister
  <1> QED
    BY <1>4 DEF Views

(* A container or a leaf that is cloned. *)
LEMMA SnContains ==
    ASSUME NEW g, SnGraph(g), NEW inner, SnInner(inner), NEW c \in SnStates, NEW n \in ClNodes,
           ~c.thrown, g.kind[n] \in {"container", "leaf"}, c.seen[n] = 0, NEW a, Like(c, a), ~a.thrown,
           NEW b, b = Snapshot!Register(a, n, <<>>), NEW x, x = Snapshot!CloneContents(inner, b, g.refs[n]),
           NEW v, v = [x.clone EXCEPT !.copies[b.ref.id] = x.refs, !.ref = b.ref]
    PROVE  Fills(g, inner, c, n, v)
  <1> DEFINE k == Len(c.copies) + 1
             copies == [x.clone.copies EXCEPT ![k] = x.refs]
  <1>1. a \in SnStates /\ g.refs[n] \in Seq(ClNodes) /\ a.copies = c.copies
    BY DEF Like, SnGraph
  <1>2. WithCopy(a, b, n, <<>>)
    <2>1. <<>> \in Seq(SnRefs)
      OBVIOUS
    <2> QED
      BY <1>1, <2>1, SnRegister
  <1>3. b \in SnStates /\ b.ref = Snapshot!Copy(k) /\ b.copies = Append(c.copies, <<>>)
    BY <1>1, <1>2 DEF WithCopy
  <1>4. b.ref.id = k /\ b.ref \in SnRefs
    BY <1>3 DEF Snapshot!Copy, SnStates
  <1>5. SnContentsAre(inner, b, g.refs[n], x)
    BY <1>1, <1>3, SnContentsGrow
  <1>6. x.clone \in SnStates /\ x.refs \in Seq(SnRefs) /\ Len(b.copies) <= Len(x.clone.copies)
    BY <1>5 DEF SnContentsAre, SnSoFar, SnAdds
  <1>7. k \in 1..Len(x.clone.copies) /\ x.clone.copies \in Seq(Seq(SnRefs))
    <2>1. c.copies \in Seq(Seq(SnRefs)) /\ x.clone.copies \in Seq(Seq(SnRefs)) /\ <<>> \in Seq(SnRefs)
      BY <1>6 DEF SnStates
    <2>2. Len(c.copies) \in Nat /\ Len(x.clone.copies) \in Nat /\ Len(b.copies) = k
      BY <1>3, <2>1, AppendProperties, LenProperties
    <2> QED
      BY <1>6, <2>1, <2>2
  <1> HIDE DEF k
  <1>8. copies \in Seq(Seq(SnRefs))
    BY <1>6, <1>7, ExceptSeq
  <1>9. v = [x.clone EXCEPT !.copies = copies, !.ref = b.ref]
    BY <1>4, <1>6 DEF SnStates
  <1> HIDE DEF copies
  <1>10. /\ v \in SnStates /\ v.seen = x.clone.seen /\ v.nodes = x.clone.nodes /\ v.thrown = x.clone.thrown
         /\ v.copies = copies /\ v.ref = b.ref
    BY <1>4, <1>6, <1>8, <1>9 DEF SnStates
  <1>11. /\ Like(c, a) /\ ~a.thrown /\ WithCopy(a, b, n, <<>>)
         /\ x = Snapshot!CloneContents(inner, b, g.refs[n])
         /\ v \in SnStates /\ v.seen = x.clone.seen /\ v.nodes = x.clone.nodes /\ v.thrown = x.clone.thrown
         /\ v.copies = [x.clone.copies EXCEPT ![Len(c.copies) + 1] = x.refs]
         /\ v.ref = Snapshot!Copy(Len(c.copies) + 1)
    BY <1>2, <1>3, <1>10 DEF copies, k
  <1> QED
    BY <1>11, Zenon DEF Fills

(* Every call keeps, knows, refuses, or copies. *)
LEMMA SnCalled ==
    ASSUME NEW g, SnGraph(g), NEW inner, NEW depth \in Nat, depth <= ClMaxDepth => SnInner(inner),
           NEW c \in SnStates, NEW n \in ClNodes,
           NEW v, v = Snapshot!CloneValue(g, inner, c, n, depth)
    PROVE  Calls(g, inner, c, n, depth, v)
  <1>0. ClMaxDepth \in Nat /\ ClMaxNodes \in Nat
    BY SnapshotAssumption
  <1> DEFINE counted == [c EXCEPT !.nodes = c.nodes + 1]
  <1>1. Like(c, counted) /\ counted.thrown = c.thrown /\ counted.nodes = c.nodes + 1
    <2> DEFINE k == c.nodes + 1
    <2>1. k \in Nat
      BY DEF SnStates
    <2> HIDE DEF k
    <2>2. PICK e : e = [c EXCEPT !.nodes = k]
      OBVIOUS
    <2>3. e \in SnStates /\ e.copies = c.copies /\ e.seen = c.seen /\ e.thrown = c.thrown /\ e.nodes = k
      BY <2>1, <2>2 DEF SnStates
    <2> QED
      BY <2>2, <2>3 DEF Like, k
  <1>2. g.kind[n] \in SnKinds /\ c.thrown \in BOOLEAN /\ c.seen[n] \in Nat /\ c.nodes \in Nat
    BY DEF SnGraph, SnStates
  <1>3. CASE c.thrown
    BY <1>3 DEF Snapshot!CloneValue, Calls
  <1>4. CASE ~c.thrown /\ g.kind[n] = "function"
    <2>1. v = [c EXCEPT !.ref = Snapshot!Same(n)]
      BY <1>4 DEF Snapshot!CloneValue
    <2>2. Snapshot!Same(n) \in SnRefs
      BY SnapshotAssumption DEF Snapshot!Same, SnRefs
    <2>3. Like(c, v) /\ ~v.thrown /\ v.ref = Snapshot!Same(n)
      <3> DEFINE r == Snapshot!Same(n)
      <3> HIDE DEF r
      <3>1. r \in SnRefs /\ v = [c EXCEPT !.ref = r]
        BY <2>1, <2>2 DEF r
      <3>2. Like(c, v) /\ ~v.thrown /\ v.ref = r
        BY <1>4, <3>1 DEF Like, SnStates
      <3> QED
        BY <3>2 DEF r
    <2> QED
      BY <1>4, <2>3 DEF Calls, Keeps, Copied
  <1>5. CASE ~c.thrown /\ g.kind[n] # "function" /\ depth > ClMaxDepth
    <2>1. v = [c EXCEPT !.thrown = TRUE]
      BY <1>5 DEF Snapshot!CloneValue
    <2>2. Like(c, v) /\ v.thrown
      BY <2>1 DEF Like, SnStates
    <2> QED
      BY <1>5, <2>2 DEF Calls, Refuses
  <1>6. CASE ~c.thrown /\ g.kind[n] # "function" /\ ~(depth > ClMaxDepth) /\ c.seen[n] # 0
    <2> DEFINE r == Snapshot!Copy(c.seen[n])
    <2>1. r \in SnRefs
      BY <1>2 DEF Snapshot!Copy, SnRefs
    <2>2. v = [c EXCEPT !.ref = r]
      BY <1>6 DEF Snapshot!CloneValue
    <2> HIDE DEF r
    <2>3. Like(c, v) /\ ~v.thrown /\ v.ref = r
      BY <1>6, <2>1, <2>2 DEF Like, SnStates
    <2> QED
      BY <1>6, <2>3 DEF Calls, Knows, r
  <1>7. CASE ~c.thrown /\ g.kind[n] # "function" /\ ~(depth > ClMaxDepth) /\ c.seen[n] = 0
    <2>1. SnInner(inner)
      BY <1>0, <1>7
    <2>2. CASE counted.nodes > ClMaxNodes
      <3>1. v = [counted EXCEPT !.thrown = TRUE]
        BY <1>7, <2>2 DEF Snapshot!CloneValue
      <3> HIDE DEF counted
      <3>2. Like(counted, v) /\ v.thrown /\ v.nodes = counted.nodes
        BY <1>1, <3>1 DEF Like, SnStates
      <3>3. Like(c, v)
        BY <1>1, <3>2 DEF Like
      <3> QED
        BY <1>7, <2>2, <3>2, <3>3 DEF Calls, Refuses
    <2>3. CASE ~(counted.nodes > ClMaxNodes) /\ g.kind[n] = "handle"
      <3> DEFINE r == Snapshot!Same(n)
      <3>1. r \in SnRefs
        BY SnapshotAssumption DEF Snapshot!Same, SnRefs
      <3>2. v = [counted EXCEPT !.ref = r]
        BY <1>7, <2>3 DEF Snapshot!CloneValue
      <3> HIDE DEF counted, r
      <3>3. Like(counted, v) /\ v.thrown = counted.thrown /\ v.ref = r
        BY <1>1, <3>1, <3>2 DEF Like, SnStates
      <3>4. Like(c, v)
        BY <1>1, <3>3 DEF Like
      <3> QED
        BY <1>1, <1>7, <2>3, <3>3, <3>4 DEF Calls, Keeps, Copied, r
    <2>4. CASE ~(counted.nodes > ClMaxNodes) /\ g.kind[n] = "view"
      <3> DEFINE x == Snapshot!CloneContents(inner, counted, g.refs[n])
      <3>1. v = IF x.clone.thrown THEN x.clone ELSE Snapshot!Register(x.clone, n, x.refs)
        BY <1>7, <2>4 DEF Snapshot!CloneValue
      <3>2. PICK b, y : b = counted /\ y = x
        OBVIOUS
      <3>3. y = Snapshot!CloneContents(inner, b, g.refs[n]) /\ Like(c, b) /\ ~b.thrown
        BY <1>1, <1>7, <3>2
      <3>4. v = IF y.clone.thrown THEN y.clone ELSE Snapshot!Register(y.clone, n, y.refs)
        BY <3>1, <3>2
      <3>5. Views(g, inner, c, n, v)
        BY <1>7, <2>1, <2>4, <3>3, <3>4, SnViews
      <3> QED
        BY <1>0, <1>7, <3>5 DEF Calls
    <2>5. CASE ~(counted.nodes > ClMaxNodes) /\ g.kind[n] \in {"container", "leaf"}
      <3> DEFINE copy == Snapshot!Register(counted, n, <<>>)
                 x == Snapshot!CloneContents(inner, copy, g.refs[n])
      <3>1. v = [x.clone EXCEPT !.copies[copy.ref.id] = x.refs, !.ref = copy.ref]
        BY <1>7, <2>5 DEF Snapshot!CloneValue
      <3>2. PICK a, b, y : a = counted /\ b = copy /\ y = x
        OBVIOUS
      <3>3. /\ y = Snapshot!CloneContents(inner, b, g.refs[n]) /\ Like(c, a) /\ ~a.thrown
            /\ b = Snapshot!Register(a, n, <<>>)
        BY <1>1, <1>7, <3>2
      <3>4. v = [y.clone EXCEPT !.copies[b.ref.id] = y.refs, !.ref = b.ref]
        BY <3>1, <3>2
      <3>5. Fills(g, inner, c, n, v)
        BY <1>7, <2>1, <2>5, <3>3, <3>4, SnContains
      <3> QED
        BY <1>0, <1>7, <3>5 DEF Calls
    <2> QED
      BY <1>2, <1>7, <2>2, <2>3, <2>4, <2>5 DEF SnKinds
  <1> QED
    BY <1>2, <1>3, <1>4, <1>5, <1>6, <1>7

(* A call adds copies, or does not go on.                                   *)
LEMMA SnAdding ==
    ASSUME NEW g, SnGraph(g), NEW inner, NEW depth, NEW c \in SnStates, NEW n \in ClNodes,
           NEW v, Calls(g, inner, c, n, depth, v)
    PROVE  SnAdds(c, v)
  <1>1. c.copies \in Seq(Seq(SnRefs)) /\ Len(c.copies) \in Nat
    BY LenProperties DEF SnStates
  <1>2. ASSUME NEW e, Like(c, e) PROVE e \in SnStates /\ Len(c.copies) <= Len(e.copies)
    BY <1>1, <1>2 DEF Like
  <1>3. CASE c.thrown /\ v = c
    BY <1>1, <1>3 DEF SnAdds
  <1>4. CASE Keeps(g, c, n, v)
    BY <1>2, <1>4 DEF SnAdds, Keeps
  <1>5. CASE Knows(g, c, n, v)
    BY <1>2, <1>5 DEF SnAdds, Knows
  <1>6. CASE Refuses(g, c, n, depth, v)
    BY <1>2, <1>6 DEF SnAdds, Refuses
  <1>7. CASE Views(g, inner, c, n, v)
    <2>1. PICK b, x : /\ Like(c, b) /\ ~b.thrown /\ x = Snapshot!CloneContents(inner, b, g.refs[n])
                      /\ x.clone.thrown => v = x.clone
                      /\ ~x.clone.thrown => WithCopy(x.clone, v, n, x.refs)
      BY <1>7 DEF Views
    <2>2. SnInner(inner) /\ ~c.thrown /\ b \in SnStates /\ g.refs[n] \in Seq(ClNodes)
      BY <1>7, <2>1 DEF Views, Like, SnGraph
    <2>3. SnContentsAre(inner, b, g.refs[n], x)
      BY <2>1, <2>2, SnContentsGrow
    <2>4. /\ x.clone \in SnStates /\ x.refs \in Seq(SnRefs) /\ Len(c.copies) <= Len(x.clone.copies)
      BY <2>1, <2>3 DEF SnContentsAre, SnSoFar, SnAdds, Like
    <2>5. x.clone.copies \in Seq(Seq(SnRefs)) /\ Len(x.clone.copies) \in Nat /\ x.clone.thrown \in BOOLEAN
      BY <2>4, LenProperties DEF SnStates
    <2>6. CASE x.clone.thrown
      BY <2>1, <2>2, <2>4, <2>6 DEF SnAdds
    <2>7. CASE ~x.clone.thrown
      <3>1. v \in SnStates /\ v.copies = Append(x.clone.copies, x.refs)
        BY <2>1, <2>7 DEF WithCopy
      <3>2. Len(v.copies) = Len(x.clone.copies) + 1
        BY <2>4, <2>5, <3>1, AppendProperties
      <3> QED
        BY <1>1, <2>2, <2>4, <2>5, <3>1, <3>2 DEF SnAdds
    <2> QED
      BY <2>5, <2>6, <2>7
  <1>8. CASE Fills(g, inner, c, n, v)
    <2>1. PICK a, b, x :
             /\ Like(c, a) /\ ~a.thrown /\ WithCopy(a, b, n, <<>>)
             /\ x = Snapshot!CloneContents(inner, b, g.refs[n])
             /\ v \in SnStates /\ v.seen = x.clone.seen /\ v.nodes = x.clone.nodes
             /\ v.thrown = x.clone.thrown
             /\ v.copies = [x.clone.copies EXCEPT ![Len(c.copies) + 1] = x.refs]
             /\ v.ref = Snapshot!Copy(Len(c.copies) + 1)
      BY <1>8, Zenon DEF Fills
    <2>2. SnInner(inner) /\ ~c.thrown /\ b \in SnStates /\ g.refs[n] \in Seq(ClNodes)
          /\ b.copies = Append(c.copies, <<>>)
      BY <1>8, <2>1 DEF Fills, Like, SnGraph, WithCopy
    <2>3. SnContentsAre(inner, b, g.refs[n], x)
      BY <2>1, <2>2, SnContentsGrow
    <2>4. /\ x.clone \in SnStates /\ Len(b.copies) <= Len(x.clone.copies)
      BY <2>1, <2>3 DEF SnContentsAre, SnSoFar, SnAdds
    <2>5. x.clone.copies \in Seq(Seq(SnRefs)) /\ v.copies \in Seq(Seq(SnRefs))
      BY <2>1, <2>4 DEF SnStates
    <2>6. Len(b.copies) = Len(c.copies) + 1
      <3>1. <<>> \in Seq(SnRefs)
        OBVIOUS
      <3> QED
        BY <1>1, <2>2, <3>1, AppendProperties
    <2>7. Len(v.copies) = Len(x.clone.copies)
      <3> DEFINE k == Len(c.copies) + 1
      <3>1. k \in 1..Len(x.clone.copies)
        <4>1. Len(x.clone.copies) \in Nat
          BY <2>5, LenProperties
        <4> QED
          BY <1>1, <2>4, <2>6, <4>1
      <3>2. x.refs \in Seq(SnRefs)
        BY <2>3 DEF SnContentsAre, SnSoFar
      <3> HIDE DEF k
      <3>3. Len([x.clone.copies EXCEPT ![k] = x.refs]) = Len(x.clone.copies)
        BY <2>5, <3>1, <3>2, ExceptSeq
      <3> QED
        BY <2>1, <3>3 DEF k
    <2>8. Len(x.clone.copies) \in Nat
      BY <2>5, LenProperties
    <2> QED
      BY <1>1, <2>1, <2>2, <2>4, <2>6, <2>7, <2>8 DEF SnAdds
  <1> QED
    BY <1>3, <1>4, <1>5, <1>6, <1>7, <1>8 DEF Calls

-----------------------------------------------------------------------------
(* The calls, level by level from the deepest *)

SnInners == {f \in [SnCalls -> SnStates] : SnInner(f)}
SnRow(g, inner, room) ==
    [call \in SnCalls |->
        Snapshot!CloneValue(g, inner, call[1], call[2], (ClMaxDepth + 1) - room)]
SnAt(g, at) ==
    /\ at \in [0..(ClMaxDepth + 1) -> SnInners]
    /\ \A room \in 0..(ClMaxDepth + 1) :
          at[room] = SnRow(g, IF room = 0 THEN <<>> ELSE at[room - 1], room)

(* The calls of one level are functions of the clones under way. *)
LEMMA SnRows ==
    ASSUME NEW g, SnGraph(g), NEW room \in 0..(ClMaxDepth + 1), NEW inner, room # 0 => SnInner(inner)
    PROVE  SnRow(g, inner, room) \in SnInners
  <1> DEFINE depth == (ClMaxDepth + 1) - room
             row == SnRow(g, inner, room)
  <1>1. depth \in Nat /\ (depth <= ClMaxDepth => SnInner(inner))
    BY SnapshotAssumption
  <1>2. ASSUME NEW c \in SnStates, NEW n \in ClNodes
        PROVE  /\ row[<<c, n>>] = Snapshot!CloneValue(g, inner, c, n, depth)
               /\ SnAdds(c, row[<<c, n>>])
    <2>1. <<c, n>> \in SnCalls /\ <<c, n>>[1] = c /\ <<c, n>>[2] = n
      BY DEF SnCalls
    <2>2. row[<<c, n>>] = Snapshot!CloneValue(g, inner, c, n, depth)
      BY <2>1 DEF SnRow
    <2> HIDE DEF depth
    <2>3. PICK v : v = Snapshot!CloneValue(g, inner, c, n, depth)
      OBVIOUS
    <2>4. Calls(g, inner, c, n, depth, v)
      BY <1>1, <2>3, SnCalled
    <2>5. SnAdds(c, v)
      BY <2>4, SnAdding
    <2> QED
      BY <2>2, <2>3, <2>5
  <1>3. row = [call \in SnCalls |-> row[call]]
    BY DEF SnRow
  <1> HIDE DEF row, depth
  <1>4. \A call \in SnCalls : call[1] \in SnStates /\ call[2] \in ClNodes /\ call = <<call[1], call[2]>>
    BY DEF SnCalls
  <1>5. \A call \in SnCalls : row[call] \in SnStates
    BY <1>2, <1>4 DEF SnAdds
  <1>6. row \in [SnCalls -> SnStates]
    BY <1>3, <1>5
  <1>7. SnInner(row)
    BY <1>2, <1>6 DEF SnInner
  <1> QED
    BY <1>6, <1>7 DEF SnInners, row

(* The levels of calls exist. *)
LEMMA SnExists == ASSUME NEW g, SnGraph(g) PROVE \E at : SnAt(g, at)
  <1> DEFINE n == ClMaxDepth + 1
             base == SnRow(g, <<>>, 0)
             step == [p \in SnInners \X (1..n) |-> SnRow(g, p[1], p[2])]
  <1>1. n \in Nat
    BY SnapshotAssumption
  <1>2. base \in SnInners
    BY <1>1, SnRows
  <1>3. ASSUME NEW x \in SnInners, NEW i \in 1..n
        PROVE  step[<<x, i>>] = SnRow(g, x, i) /\ step[<<x, i>>] \in SnInners
    <2>1. <<x, i>> \in SnInners \X (1..n) /\ <<x, i>>[1] = x /\ <<x, i>>[2] = i
      OBVIOUS
    <2>2. step[<<x, i>>] = SnRow(g, x, i)
      BY <2>1
    <2>3. SnInner(x) /\ i \in 0..(ClMaxDepth + 1)
      BY <1>1 DEF SnInners
    <2>4. SnRow(g, x, i) \in SnInners
      BY <2>3, SnRows
    <2> QED
      BY <2>2, <2>4
  <1>4. PICK at \in [0..n -> SnInners] : Recurs(at, n, base, step)
    <2> HIDE DEF step, base, n
    <2>1. \A x \in SnInners, i \in 1..n : step[<<x, i>>] \in SnInners
      BY <1>3
    <2> QED
      BY <1>1, <1>2, <2>1, RecursionExists
  <1>5. ASSUME NEW room \in 0..n
        PROVE  at[room] = SnRow(g, IF room = 0 THEN <<>> ELSE at[room - 1], room)
    <2>1. CASE room = 0
      BY <1>4, <2>1 DEF Recurs
    <2>2. CASE room # 0
      <3>1. room \in 1..n /\ room - 1 \in 0..n
        BY <1>1, <2>2
      <3>2. at[room - 1] \in SnInners /\ at[room] = step[<<at[room - 1], room>>]
        <4> HIDE DEF step, n
        <4> QED
          BY <1>4, <3>1 DEF Recurs
      <3> HIDE DEF step, n
      <3>3. at[room] = SnRow(g, at[room - 1], room)
        BY <1>3, <3>1, <3>2
      <3> QED
        BY <2>2, <3>3
    <2> QED
      BY <2>1, <2>2
  <1>6. SnAt(g, at)
    BY <1>4, <1>5 DEF SnAt
  <1> QED
    BY <1>6

(* The clone of a value is made by such calls.                              *)
LEMMA SnMade ==
    ASSUME NEW g, SnGraph(g), NEW n
    PROVE  \E at : SnAt(g, at) /\ Snapshot!CloneInternal(g, n) = at[ClMaxDepth + 1][<<Snapshot!Unvisited, n>>]
  <1> DEFINE Step(f) ==
                 [room \in 0..ClMaxDepth + 1 |->
                    [call \in Snapshot!CloneStates \X ClNodes |->
                        Snapshot!CloneValue(g, IF room = 0 THEN <<>> ELSE f[room - 1], call[1], call[2],
                                            (ClMaxDepth + 1) - room)]]
             at == CHOOSE f : f = Step(f)
  <1>1. Snapshot!CloneStates \X ClNodes = SnCalls
    BY DEF Snapshot!CloneStates, Snapshot!References, SnCalls, SnStates, SnRefs
  <1>2. PICK f : SnAt(g, f)
    BY SnExists
  <1>3. Snapshot!CloneInternal(g, n) = at[ClMaxDepth + 1][<<Snapshot!Unvisited, n>>]
    BY DEF Snapshot!CloneInternal
  <1> DEFINE Rows(h) == [room \in 0..ClMaxDepth + 1 |-> SnRow(g, IF room = 0 THEN <<>> ELSE h[room - 1], room)]
  <1>4. \A h : Step(h) = Rows(h)
    BY <1>1 DEF SnRow
  <1> HIDE DEF Step
  <1>5. f = Rows(f)
    <2>1. f = [room \in 0..ClMaxDepth + 1 |-> f[room]]
      BY <1>2 DEF SnAt
    <2> QED
      BY <1>2, <2>1 DEF SnAt
  <1> HIDE DEF Rows
  <1>6. at = Rows(at)
    BY <1>4, <1>5
  <1> HIDE DEF at
  <1>7. ClMaxDepth + 1 \in Nat /\ \A room \in 0..ClMaxDepth + 1 :
           at[room] = SnRow(g, IF room = 0 THEN <<>> ELSE at[room - 1], room)
    <2> DEFINE w == Rows(at)
    <2>1. \A room \in 0..ClMaxDepth + 1 : w[room] = SnRow(g, IF room = 0 THEN <<>> ELSE at[room - 1], room)
      BY DEF Rows
    <2> HIDE DEF w
    <2>2. w = at
      BY <1>6 DEF w
    <2> QED
      BY <2>1, <2>2, SnapshotAssumption
  <1>8. at \in [0..(ClMaxDepth + 1) -> SnInners]
    <2> DEFINE T == {k \in Nat : k <= ClMaxDepth + 1 => at[k] \in SnInners}
    <2>1. 0 \in T
      <3>1. at[0] = SnRow(g, <<>>, 0) /\ 0 \in 0..(ClMaxDepth + 1)
        BY <1>7
      <3> QED
        BY <3>1, SnRows
    <2>2. ASSUME NEW k \in Nat, k \in T PROVE k + 1 \in T
      <3>1. CASE k + 1 <= ClMaxDepth + 1
        <4>1. k + 1 \in 0..(ClMaxDepth + 1) /\ (k + 1) - 1 = k /\ k + 1 # 0 /\ at[k] \in SnInners
          BY <1>7, <2>2, <3>1
        <4>2. at[k + 1] = SnRow(g, at[k], k + 1)
          BY <1>7, <4>1
        <4>3. SnInner(at[k])
          BY <4>1 DEF SnInners
        <4> QED
          BY <4>1, <4>2, <4>3, SnRows
      <3> QED
        BY <3>1
    <2> HIDE DEF T
    <2>3. Nat \subseteq T
      BY <2>1, <2>2, SetInduction
    <2>4. \A k \in 0..(ClMaxDepth + 1) : at[k] \in SnInners
      BY <1>7, <2>3 DEF T
    <2>5. at = [room \in 0..(ClMaxDepth + 1) |-> at[room]]
      <3> DEFINE w == Rows(at)
      <3>1. w = [room \in 0..(ClMaxDepth + 1) |-> w[room]]
        BY DEF Rows
      <3> HIDE DEF w
      <3> QED
        BY <1>6, <3>1 DEF w
    <2> QED
      BY <2>4, <2>5
  <1>9. SnAt(g, at)
    BY <1>7, <1>8 DEF SnAt
  <1> QED
    BY <1>3, <1>9

-----------------------------------------------------------------------------
(* A clone under way *)

SnRoot(g, R) ==
    /\ SnGraph(g) /\ 1 \in R /\ R \subseteq ClNodes
    /\ \A m \in R, k \in Nat : k \in 1..Len(g.refs[m]) => g.refs[m][k] \in R

(* What stands in the clone for a value, and whether it is there.           *)
Img(g, c, n) == IF Copied(g, n) THEN Snapshot!Copy(c.seen[n]) ELSE Snapshot!Same(n)
Settled(g, c, n) == Copied(g, n) => c.seen[n] # 0
RefsSettled(g, c, n) == \A k \in 1..Len(g.refs[n]) : Settled(g, c, g.refs[n][k])
Images(g, c, n) == [k \in 1..Len(g.refs[n]) |-> Img(g, c, g.refs[n][k])]
Finished(g, c, n) == RefsSettled(g, c, n) /\ c.copies[c.seen[n]] = Images(g, c, n)

(* The invariant of the walk: each value that was seen has a copy of its    *)
(* own, finished but for those of G, whose contents are under way.          *)
GoodClone(g, R, G, c) ==
    /\ c \in SnStates /\ ~c.thrown
    /\ \A m \in ClNodes : c.seen[m] # 0 => /\ c.seen[m] <= Len(c.copies) /\ m \in R /\ Copied(g, m)
                                           /\ m \notin G => Finished(g, c, m)
    /\ \A m, k \in ClNodes : c.seen[m] # 0 /\ c.seen[m] = c.seen[k] => m = k
    /\ \A i \in 1..Len(c.copies) : \E m \in ClNodes : c.seen[m] = i

KeepsSeen(c, e) == \A m \in ClNodes : c.seen[m] # 0 => e.seen[m] = c.seen[m]

(* A walk from the value along references.                                  *)
Walks(g, walk, d) ==
    /\ walk \in [0..d -> ClNodes] /\ walk[0] = 1
    /\ \A i \in 0..(d - 1) : \E k \in 1..Len(g.refs[walk[i]]) : walk[i + 1] = g.refs[walk[i]][k]
Apart(walk, d) == \A i, j \in 0..d : walk[i] = walk[j] => i = j
DeepIn(g) ==
    \E walk : /\ Walks(g, walk, ClMaxDepth + 1) /\ Apart(walk, ClMaxDepth)
              /\ g.kind[walk[ClMaxDepth + 1]] # "function"
Refused(g, c) == DeepIn(g) \/ c.nodes > ClMaxNodes

(* The way to a value, at depth d, and past it, to its references.          *)
OnWay(g, c, walk, d, n) ==
    /\ Walks(g, walk, d) /\ walk[d] = n /\ Apart(walk, d - 1)
    /\ \A i \in 0..(d - 1) : c.seen[walk[i]] # 0 \/ (g.kind[walk[i]] = "view" /\ g.kind[n] = "leaf")
ToLeaves(g, n) == \A k \in 1..Len(g.refs[n]) : g.kind[g.refs[n][k]] = "leaf"
Past(g, c, walk, d, n) ==
    /\ Walks(g, walk, d) /\ walk[d] = n /\ Apart(walk, d)
    /\ \A i \in 0..d : c.seen[walk[i]] # 0 \/ (g.kind[walk[i]] = "view" /\ ToLeaves(g, n))

Sound(g, R, G, c, e) ==
    /\ e \in SnStates
    /\ e.thrown => Refused(g, e)
    /\ ~e.thrown => GoodClone(g, R, G, e) /\ KeepsSeen(c, e)
OthersStay(g, c, e) == \A m \in ClNodes : g.kind[m] # "leaf" => e.seen[m] = c.seen[m]
Answers(g, R, G, c, n, e) ==
    /\ Sound(g, R, G, c, e)
    /\ ~e.thrown => /\ Settled(g, e, n) /\ e.ref = Img(g, e, n)
                    /\ g.kind[n] = "leaf" => OthersStay(g, c, e)
Works(g, R, f, d) ==
    \A c, n, G, walk : n \in R /\ GoodClone(g, R, G, c) /\ OnWay(g, c, walk, d, n)
                          => Answers(g, R, G, c, n, f[<<c, n>>])

(* What is settled stays so, with the same image. *)
LEMMA SeenKept ==
    ASSUME NEW g, NEW c, NEW e, KeepsSeen(c, e), NEW n \in ClNodes, Settled(g, c, n)
    PROVE  Settled(g, e, n) /\ Img(g, e, n) = Img(g, c, n)
  BY DEF KeepsSeen, Settled, Img

(* References that are settled stay so, with the same images. *)
LEMMA SettledKept ==
    ASSUME NEW g, SnGraph(g), NEW c, NEW e, KeepsSeen(c, e), NEW n \in ClNodes, RefsSettled(g, c, n)
    PROVE  RefsSettled(g, e, n) /\ Images(g, e, n) = Images(g, c, n)
  <1>1. \A k \in 1..Len(g.refs[n]) : g.refs[n][k] \in ClNodes
    <2>1. g.refs[n] \in Seq(ClNodes)
      BY DEF SnGraph
    <2> QED
      BY <2>1, LenProperties
  <1>2. \A k \in 1..Len(g.refs[n]) :
           Settled(g, e, g.refs[n][k]) /\ Img(g, e, g.refs[n][k]) = Img(g, c, g.refs[n][k])
    BY <1>1, SeenKept DEF RefsSettled
  <1> QED
    BY <1>2 DEF RefsSettled, Images

(* One reference further on the way.                                        *)
LEMMA SnFurther ==
    ASSUME NEW g, SnGraph(g), NEW c, NEW e, KeepsSeen(c, e), NEW d \in Nat, NEW n, NEW walk,
           Past(g, c, walk, d, n), NEW k \in 1..Len(g.refs[n])
    PROVE  \E way : OnWay(g, e, way, d + 1, g.refs[n][k])
  <1> DEFINE m == g.refs[n][k]
             way == [i \in 0..(d + 1) |-> IF i = d + 1 THEN m ELSE walk[i]]
  <1>1. /\ walk \in [0..d -> ClNodes] /\ walk[0] = 1 /\ walk[d] = n /\ Apart(walk, d)
        /\ \A i \in 0..(d - 1) : \E j \in 1..Len(g.refs[walk[i]]) : walk[i + 1] = g.refs[walk[i]][j]
        /\ \A i \in 0..d : c.seen[walk[i]] # 0 \/ (g.kind[walk[i]] = "view" /\ ToLeaves(g, n))
    BY DEF Past, Walks
  <1>2. n \in ClNodes /\ m \in ClNodes
    <2>1. n \in ClNodes
      BY <1>1
    <2>2. g.refs[n] \in Seq(ClNodes)
      BY <2>1 DEF SnGraph
    <2> QED
      BY <2>1, <2>2, LenProperties
  <1> HIDE DEF m
  <1>3. /\ way \in [0..(d + 1) -> ClNodes] /\ way[d + 1] = m
        /\ \A i \in 0..d : way[i] = walk[i] /\ walk[i] \in ClNodes
    <2>1. \A i \in 0..(d + 1) : i # d + 1 => i \in 0..d
      OBVIOUS
    <2>2. \A i \in 0..d : i \in 0..(d + 1) /\ i # d + 1
      OBVIOUS
    <2>3. d + 1 \in 0..(d + 1)
      OBVIOUS
    <2> QED
      BY <1>1, <1>2, <2>1, <2>2, <2>3
  <1> HIDE DEF way
  <1>4. Walks(g, way, d + 1)
    <2>1. way[0] = 1
      BY <1>1, <1>3
    <2>2. ASSUME NEW i \in 0..d PROVE \E j \in 1..Len(g.refs[way[i]]) : way[i + 1] = g.refs[way[i]][j]
      <3>1. CASE i = d
        <4>1. way[i] = n /\ way[i + 1] = m
          BY <1>1, <1>3, <3>1
        <4> QED
          BY <4>1 DEF m
      <3>2. CASE i # d
        <4>1. i \in 0..(d - 1) /\ i + 1 \in 0..d
          BY <3>2
        <4>2. way[i] = walk[i] /\ way[i + 1] = walk[i + 1]
          BY <1>3, <4>1
        <4> QED
          BY <1>1, <4>1, <4>2
      <3> QED
        BY <3>1, <3>2
    <2>3. (d + 1) - 1 = d
      OBVIOUS
    <2> QED
      BY <1>3, <2>1, <2>2, <2>3 DEF Walks
  <1>5. Apart(way, (d + 1) - 1)
    <2>1. (d + 1) - 1 = d
      OBVIOUS
    <2> QED
      BY <1>1, <1>3, <2>1 DEF Apart
  <1>6. \A i \in 0..((d + 1) - 1) : e.seen[way[i]] # 0 \/ (g.kind[way[i]] = "view" /\ g.kind[m] = "leaf")
    <2>1. (d + 1) - 1 = d
      OBVIOUS
    <2>2. ToLeaves(g, n) => g.kind[m] = "leaf"
      BY DEF ToLeaves, m
    <2> QED
      BY <1>1, <1>3, <2>1, <2>2 DEF KeepsSeen
  <1>7. OnWay(g, e, way, d + 1, m)
    BY <1>3, <1>4, <1>5, <1>6 DEF OnWay
  <1> QED
    BY <1>7 DEF m

-----------------------------------------------------------------------------
(* The contents of a copy are its references' images. *)

Filled(g, R, G, c, n, x) ==
    /\ Sound(g, R, G, c, x.clone)
    /\ ~x.clone.thrown => /\ RefsSettled(g, x.clone, n) /\ x.refs = Images(g, x.clone, n)
                          /\ ToLeaves(g, n) => OthersStay(g, c, x.clone)

(* The contents of a copy are the images of the references. *)
LEMMA SnFilled ==
    ASSUME NEW g, NEW R, SnRoot(g, R), NEW inner, SnInner(inner), NEW d \in Nat, Works(g, R, inner, d + 1),
           NEW n \in R, NEW G, NEW c, GoodClone(g, R, G, c), NEW walk, Past(g, c, walk, d, n),
           NEW x, x = Snapshot!CloneContents(inner, c, g.refs[n])
    PROVE  Filled(g, R, G, c, n, x)
  <1> DEFINE refs == g.refs[n]
  <1>1. c \in SnStates /\ ~c.thrown /\ n \in ClNodes /\ refs \in Seq(ClNodes) /\ SnGraph(g)
    BY DEF SnRoot, SnGraph, GoodClone
  <1>2. PICK after : SnAfter(inner, c, refs, after) /\ x = after[Len(refs)]
    BY <1>1, SnContents
  <1>3. Len(refs) \in Nat /\ \A i \in 1..Len(refs) : refs[i] \in ClNodes /\ refs[i] \in R
    <2>1. Len(refs) \in Nat /\ \A i \in 1..Len(refs) : refs[i] \in ClNodes
      <3> HIDE DEF refs
      <3> QED
        BY <1>1, LenProperties
    <2> QED
      BY <2>1 DEF SnRoot
  <1> HIDE DEF refs
  <1> DEFINE Holds(i) == LET b == after[i].clone IN
                 /\ Sound(g, R, G, c, b)
                 /\ ~b.thrown => /\ Len(after[i].refs) = i
                                 /\ \A k \in 1..i : Settled(g, b, refs[k]) /\ after[i].refs[k] = Img(g, b, refs[k])
                                 /\ ToLeaves(g, n) => OthersStay(g, c, b)
             T == {i \in Nat : i <= Len(refs) => Holds(i)}
  <1>4. \A i \in 0..Len(refs) : after[i].clone \in SnStates /\ after[i].refs \in Seq(SnRefs)
    BY <1>2 DEF SnAfter, SnSoFar
  <1>5. 0 \in T
    <2>1. after[0].clone = c /\ after[0].refs = <<>>
      BY <1>2 DEF SnAfter
    <2>2. KeepsSeen(c, c) /\ OthersStay(g, c, c)
      BY DEF KeepsSeen, OthersStay
    <2>3. Sound(g, R, G, c, c)
      BY <1>1, <2>2 DEF Sound
    <2> QED
      BY <2>1, <2>2, <2>3
  <1>6. ASSUME NEW i \in Nat, i \in T PROVE i + 1 \in T
    <2> SUFFICES ASSUME i + 1 <= Len(refs) PROVE Holds(i + 1)
      OBVIOUS
    <2> DEFINE b == after[i].clone
               e == after[i + 1].clone
               m == refs[i + 1]
               rs == after[i].refs
               ss == after[i + 1].refs
    <2>1. i + 1 \in 1..Len(refs) /\ i \in 0..Len(refs) /\ i + 1 \in 0..Len(refs) /\ (i + 1) - 1 = i
      BY <1>3
    <2>2. e = inner[<<b, m>>] /\ ss = Append(rs, e.ref)
      BY <1>2, <2>1 DEF SnAfter
    <2>3. b \in SnStates /\ e \in SnStates /\ m \in ClNodes /\ m \in R /\ rs \in Seq(SnRefs)
          /\ b.thrown \in BOOLEAN
      BY <1>3, <1>4, <2>1 DEF SnStates
    <2>4. /\ Sound(g, R, G, c, b)
          /\ ~b.thrown => /\ Len(rs) = i
                          /\ \A k \in 1..i : Settled(g, b, refs[k]) /\ rs[k] = Img(g, b, refs[k])
                          /\ ToLeaves(g, n) => OthersStay(g, c, b)
      BY <1>3, <1>6, <2>1
    <2> SUFFICES /\ Sound(g, R, G, c, e)
                 /\ ~e.thrown => /\ Len(ss) = i + 1
                                 /\ \A k \in 1..(i + 1) : Settled(g, e, refs[k]) /\ ss[k] = Img(g, e, refs[k])
                                 /\ ToLeaves(g, n) => OthersStay(g, c, e)
      OBVIOUS
    <2> HIDE DEF b, e, m, rs, ss
    <2>5. CASE b.thrown
      <3>1. e = b
        BY <2>2, <2>3, <2>5 DEF SnInner, SnAdds
      <3> QED
        BY <2>4, <2>5, <3>1
    <2>6. CASE ~b.thrown
      <3>1. GoodClone(g, R, G, b) /\ KeepsSeen(c, b)
        BY <2>4, <2>6 DEF Sound
      <3>2. PICK way : OnWay(g, b, way, d + 1, m)
        BY <1>1, <2>1, <3>1, SnFurther DEF m, refs
      <3>3. Answers(g, R, G, b, m, e)
        BY <2>2, <2>3, <3>1, <3>2 DEF Works
      <3>4. e.ref \in SnRefs
        BY <2>3 DEF SnStates
      <3>5. CASE e.thrown
        BY <3>3, <3>5 DEF Answers, Sound
      <3>6. CASE ~e.thrown
        <4>1. /\ GoodClone(g, R, G, e) /\ KeepsSeen(b, e) /\ Settled(g, e, m) /\ e.ref = Img(g, e, m)
              /\ g.kind[m] = "leaf" => OthersStay(g, b, e)
          BY <3>3, <3>6 DEF Answers, Sound
        <4>2. KeepsSeen(c, e)
          BY <3>1, <4>1 DEF KeepsSeen
        <4>3. Sound(g, R, G, c, e)
          BY <2>3, <3>6, <4>1, <4>2 DEF Sound
        <4>4. Len(ss) = i + 1 /\ ss[i + 1] = e.ref /\ \A k \in 1..i : ss[k] = rs[k]
          BY <2>2, <2>3, <2>4, <2>6, <3>4, AppendProperties
        <4>5. ASSUME NEW k \in 1..(i + 1) PROVE Settled(g, e, refs[k]) /\ ss[k] = Img(g, e, refs[k])
          <5>1. CASE k = i + 1
            BY <4>1, <4>4, <5>1 DEF m
          <5>2. CASE k # i + 1
            <6>1. k \in 1..i /\ k \in 1..Len(refs)
              BY <1>3, <2>1, <5>2
            <6>2. Settled(g, b, refs[k]) /\ ss[k] = Img(g, b, refs[k]) /\ refs[k] \in ClNodes
              BY <1>3, <2>4, <2>6, <4>4, <6>1
            <6>3. Settled(g, e, refs[k]) /\ Img(g, e, refs[k]) = Img(g, b, refs[k])
              BY <4>1, <6>2, SeenKept
            <6> QED
              BY <6>2, <6>3
          <5> QED
            BY <5>1, <5>2
        <4>6. ToLeaves(g, n) => OthersStay(g, c, e)
          <5>1. ToLeaves(g, n) => g.kind[m] = "leaf"
            BY <2>1 DEF ToLeaves, m, refs
          <5> QED
            BY <2>4, <2>6, <4>1, <5>1 DEF OthersStay
        <4> QED
          BY <4>3, <4>4, <4>5, <4>6
      <3> QED
        BY <2>3, <3>5, <3>6 DEF SnStates
    <2> QED
      BY <2>3, <2>5, <2>6
  <1>7. Nat \subseteq T
    <2> HIDE DEF T
    <2> QED
      BY <1>5, <1>6, SetInduction
  <1>8. Holds(Len(refs))
    BY <1>3, <1>7
  <1>9. /\ Sound(g, R, G, c, x.clone)
        /\ ~x.clone.thrown =>
             /\ Len(x.refs) = Len(refs)
             /\ \A k \in 1..Len(refs) : Settled(g, x.clone, refs[k]) /\ x.refs[k] = Img(g, x.clone, refs[k])
             /\ ToLeaves(g, n) => OthersStay(g, c, x.clone)
    BY <1>2, <1>8
  <1>10. x.refs \in Seq(SnRefs)
    BY <1>2, <1>3, <1>4
  <1>11. ASSUME ~x.clone.thrown PROVE x.refs = Images(g, x.clone, n)
    <2>1. x.refs = [k \in 1..Len(x.refs) |-> x.refs[k]]
      BY <1>10, LenProperties
    <2> QED
      BY <1>9, <1>11, <2>1 DEF Images, refs
  <1> QED
    BY <1>9, <1>11 DEF Filled, RefsSettled, refs

-----------------------------------------------------------------------------
(* What a call does to a clone under way *)

(* A budget spent, or another reference returned, leaves the clone good.    *)
LEMMA SnLike ==
    ASSUME NEW g, NEW R, NEW G, NEW c, NEW e, GoodClone(g, R, G, c), Like(c, e), ~e.thrown
    PROVE  GoodClone(g, R, G, e) /\ KeepsSeen(c, e) /\ OthersStay(g, c, e)
  <1>1. e \in SnStates /\ e.copies = c.copies /\ e.seen = c.seen
    BY DEF Like
  <1>2. \A m \in ClNodes : Finished(g, c, m) => Finished(g, e, m)
    BY <1>1 DEF Finished, RefsSettled, Settled, Images, Img
  <1>3. GoodClone(g, R, G, e)
    BY <1>1, <1>2 DEF GoodClone
  <1> QED
    BY <1>1, <1>3 DEF KeepsSeen, OthersStay

Registered(g, R, G, c, n, refs, e) ==
    /\ GoodClone(g, R, G \cup {n}, e) /\ KeepsSeen(c, e)
    /\ e.seen[n] = Len(c.copies) + 1 /\ e.seen[n] # 0 /\ e.copies[e.seen[n]] = refs
    /\ \A m \in ClNodes : m # n => e.seen[m] = c.seen[m]

(* A copy is added for a value that had none.                               *)
LEMMA SnRegistered ==
    ASSUME NEW g, SnGraph(g), NEW R, NEW G, NEW c, GoodClone(g, R, G, c), NEW n \in ClNodes, n \in R,
           c.seen[n] = 0, Copied(g, n), NEW refs \in Seq(SnRefs), NEW e, WithCopy(c, e, n, refs)
    PROVE  Registered(g, R, G, c, n, refs, e)
  <1> DEFINE k == Len(c.copies)
  <1>1. /\ c \in SnStates /\ ~c.thrown /\ e \in SnStates /\ e.thrown = c.thrown
        /\ c.copies \in Seq(Seq(SnRefs)) /\ c.seen \in [ClNodes -> Nat]
        /\ e.copies = Append(c.copies, refs) /\ e.seen = [c.seen EXCEPT ![n] = k + 1]
    BY DEF GoodClone, SnStates, WithCopy
  <1>2. k \in Nat
    BY <1>1, LenProperties
  <1>3. Len(e.copies) = k + 1 /\ e.copies[k + 1] = refs /\ \A i \in 1..k : e.copies[i] = c.copies[i]
    BY <1>1, AppendProperties
  <1>4. e.seen[n] = k + 1 /\ \A m \in ClNodes : m # n => e.seen[m] = c.seen[m]
    BY <1>1
  <1>5. KeepsSeen(c, e)
    BY <1>4 DEF KeepsSeen
  <1>6. /\ \A m \in ClNodes : c.seen[m] # 0 => /\ c.seen[m] <= k /\ m \in R /\ Copied(g, m)
                                               /\ m \notin G => Finished(g, c, m)
        /\ \A m, j \in ClNodes : c.seen[m] # 0 /\ c.seen[m] = c.seen[j] => m = j
        /\ \A i \in 1..k : \E m \in ClNodes : c.seen[m] = i
        /\ \A m \in ClNodes : c.seen[m] \in Nat
    BY <1>1 DEF GoodClone
  <1> HIDE DEF k
  <1>7. ASSUME NEW m \in ClNodes, e.seen[m] # 0
        PROVE  /\ e.seen[m] <= Len(e.copies) /\ m \in R /\ Copied(g, m)
               /\ m \notin G \cup {n} => Finished(g, e, m)
    <2>1. CASE m = n
      BY <1>2, <1>3, <1>4, <2>1
    <2>2. CASE m # n
      <3>1. e.seen[m] = c.seen[m] /\ c.seen[m] # 0
        BY <1>4, <1>7, <2>2
      <3>2. /\ c.seen[m] <= k /\ m \in R /\ Copied(g, m) /\ c.seen[m] \in 1..k
            /\ m \notin G => Finished(g, c, m)
        BY <1>2, <1>6, <3>1
      <3>3. ASSUME m \notin G PROVE Finished(g, e, m)
        <4>1. RefsSettled(g, c, m) /\ c.copies[c.seen[m]] = Images(g, c, m)
          BY <3>2, <3>3 DEF Finished
        <4>2. RefsSettled(g, e, m) /\ Images(g, e, m) = Images(g, c, m)
          BY <1>5, <4>1, SettledKept
        <4>3. e.copies[e.seen[m]] = c.copies[c.seen[m]]
          BY <1>3, <3>1, <3>2
        <4> QED
          BY <4>1, <4>2, <4>3 DEF Finished
      <3>4. e.seen[m] <= Len(e.copies)
        BY <1>2, <1>3, <1>6, <3>1, <3>2
      <3> QED
        BY <3>2, <3>3, <3>4
    <2> QED
      BY <2>1, <2>2
  <1>8. ASSUME NEW m \in ClNodes, NEW j \in ClNodes, e.seen[m] # 0, e.seen[m] = e.seen[j] PROVE m = j
    <2>1. CASE m = n
      <3>1. j # n => c.seen[j] = k + 1 /\ c.seen[j] # 0 /\ c.seen[j] <= k
        BY <1>2, <1>4, <1>6, <1>8, <2>1
      <3> QED
        BY <1>2, <2>1, <3>1
    <2>2. CASE m # n /\ j = n
      <3>1. c.seen[m] = k + 1 /\ c.seen[m] # 0 /\ c.seen[m] <= k
        BY <1>2, <1>4, <1>6, <1>8, <2>2
      <3> QED
        BY <1>2, <3>1
    <2>3. CASE m # n /\ j # n
      BY <1>4, <1>6, <1>8, <2>3
    <2> QED
      BY <2>1, <2>2, <2>3
  <1>9. ASSUME NEW i \in 1..Len(e.copies) PROVE \E m \in ClNodes : e.seen[m] = i
    <2>1. CASE i = k + 1
      BY <1>4, <2>1
    <2>2. CASE i # k + 1
      <3>1. i \in 1..k
        BY <1>2, <1>3, <2>2
      <3>2. PICK m \in ClNodes : c.seen[m] = i
        BY <1>6, <3>1
      <3>3. e.seen[m] = i
        <4>1. i # 0
          BY <3>1
        <4> QED
          BY <3>2, <4>1, <1>5 DEF KeepsSeen
      <3> QED
        BY <3>3
    <2> QED
      BY <2>1, <2>2
  <1>10. GoodClone(g, R, G \cup {n}, e)
    BY <1>1, <1>7, <1>8, <1>9 DEF GoodClone
  <1>11. k + 1 # 0
    BY <1>2
  <1> QED
    BY <1>3, <1>4, <1>5, <1>10, <1>11 DEF Registered, k

(* A copy that is finished is no longer under way.                          *)
LEMMA SnUnmarked ==
    ASSUME NEW g, NEW R, NEW G, NEW n, NEW e, GoodClone(g, R, G \cup {n}, e), Finished(g, e, n)
    PROVE  GoodClone(g, R, G, e)
  <1>1. \A m \in ClNodes : m \notin G => m = n \/ m \notin G \cup {n}
    OBVIOUS
  <1> QED
    BY <1>1 DEF GoodClone

(* The contents are put into the copy.                                      *)
LEMMA SnFilling ==
    ASSUME NEW g, SnGraph(g), NEW R, NEW G, NEW n \in ClNodes, NEW y, GoodClone(g, R, G \cup {n}, y),
           y.seen[n] # 0, RefsSettled(g, y, n),
           NEW v, v \in SnStates, v.seen = y.seen, v.thrown = y.thrown,
           v.copies = [y.copies EXCEPT ![y.seen[n]] = Images(g, y, n)]
    PROVE  GoodClone(g, R, G, v)
  <1> DEFINE k == y.seen[n]
             refs == Images(g, y, n)
  <1>1. y.copies \in Seq(Seq(SnRefs)) /\ y.seen \in [ClNodes -> Nat] /\ Len(y.copies) \in Nat /\ ~y.thrown
    BY LenProperties DEF GoodClone, SnStates
  <1>2. /\ \A m \in ClNodes : y.seen[m] # 0 => /\ y.seen[m] <= Len(y.copies) /\ m \in R /\ Copied(g, m)
                                               /\ m \notin G \cup {n} => Finished(g, y, m)
        /\ \A m, j \in ClNodes : y.seen[m] # 0 /\ y.seen[m] = y.seen[j] => m = j
        /\ \A i \in 1..Len(y.copies) : \E m \in ClNodes : y.seen[m] = i
    BY DEF GoodClone
  <1>3. k \in 1..Len(y.copies)
    BY <1>1, <1>2
  <1>4. \A m \in ClNodes : Images(g, v, m) = Images(g, y, m) /\ (RefsSettled(g, y, m) => RefsSettled(g, v, m))
    BY DEF Images, Img, RefsSettled, Settled
  <1> HIDE DEF k, refs
  <1>5. v.copies = [y.copies EXCEPT ![k] = refs]
    BY DEF k, refs
  <1>6. /\ Len(v.copies) = Len(y.copies) /\ v.copies[k] = refs
        /\ \A i \in 1..Len(y.copies) : i # k => v.copies[i] = y.copies[i]
    BY <1>1, <1>3, <1>5, LenProperties
  <1>7. ASSUME NEW m \in ClNodes, y.seen[m] # 0, m \notin G PROVE Finished(g, v, m)
    <2>1. CASE m = n
      BY <1>4, <1>6, <2>1 DEF Finished, k, refs
    <2>2. CASE m # n
      <3>1. y.seen[m] # k /\ y.seen[m] \in 1..Len(y.copies) /\ Finished(g, y, m)
        BY <1>1, <1>2, <1>7, <2>2 DEF k
      <3> QED
        BY <1>4, <1>6, <3>1 DEF Finished
    <2> QED
      BY <2>1, <2>2
  <1> QED
    BY <1>1, <1>2, <1>6, <1>7 DEF GoodClone

-----------------------------------------------------------------------------
(* The way past a value that is copied, to its references. *)
LEMMA SnPast ==
    ASSUME NEW g, SnGraph(g), NEW d \in Nat, NEW n \in ClNodes, NEW c, NEW walk, OnWay(g, c, walk, d, n),
           c.seen[n] = 0, NEW b, KeepsSeen(c, b), b.seen[n] # 0 \/ g.kind[n] = "view"
    PROVE  Past(g, b, walk, d, n)
  <1>1. /\ walk \in [0..d -> ClNodes] /\ walk[d] = n /\ Walks(g, walk, d) /\ Apart(walk, d - 1)
        /\ \A i \in 0..(d - 1) : c.seen[walk[i]] # 0 \/ (g.kind[walk[i]] = "view" /\ g.kind[n] = "leaf")
    BY DEF OnWay, Walks
  <1>2. \A i \in 0..d : walk[i] \in ClNodes /\ (i # d => i \in 0..(d - 1))
    BY <1>1
  <1>3. \A i \in 0..(d - 1) : walk[i] # n
    BY <1>1
  <1>4. Apart(walk, d)
    <2> SUFFICES ASSUME NEW i \in 0..d, NEW j \in 0..d, walk[i] = walk[j] PROVE i = j
      BY DEF Apart
    <2> QED
      BY <1>1, <1>2, <1>3 DEF Apart
  <1>5. g.kind[n] = "leaf" \/ g.kind[n] = "view" => ToLeaves(g, n)
    <2>1. CASE g.kind[n] = "leaf"
      <3>1. g.refs[n] = <<>>
        BY <2>1 DEF SnGraph
      <3>2. Len(g.refs[n]) = 0
        BY <3>1
      <3> QED
        BY <3>2 DEF ToLeaves
    <2>2. CASE g.kind[n] = "view"
      <3>1. Len(g.refs[n]) = 1 /\ g.kind[g.refs[n][1]] = "leaf"
        BY <2>2 DEF SnGraph
      <3>2. \A k \in 1..Len(g.refs[n]) : k = 1
        BY <3>1
      <3> QED
        BY <3>1, <3>2 DEF ToLeaves
    <2> QED
      BY <2>1, <2>2
  <1>6. ASSUME NEW i \in 0..d PROVE b.seen[walk[i]] # 0 \/ (g.kind[walk[i]] = "view" /\ ToLeaves(g, n))
    <2>1. CASE i = d
      BY <1>1, <1>5, <2>1
    <2>2. CASE i # d
      <3>1. i \in 0..(d - 1) /\ walk[i] \in ClNodes
        BY <1>2, <2>2
      <3>2. CASE c.seen[walk[i]] # 0
        BY <3>1, <3>2 DEF KeepsSeen
      <3>3. CASE g.kind[walk[i]] = "view" /\ g.kind[n] = "leaf"
        BY <1>5, <3>3
      <3> QED
        BY <1>1, <3>1, <3>2, <3>3
    <2> QED
      BY <2>1, <2>2
  <1> QED
    BY <1>1, <1>4, <1>6 DEF Past

-----------------------------------------------------------------------------
(* A view is copied after its buffer. *)
LEMMA SnViewing ==
    ASSUME NEW g, NEW R, SnRoot(g, R), NEW inner, NEW d \in Nat, Works(g, R, inner, d + 1), NEW n \in R,
           NEW G, NEW c, GoodClone(g, R, G, c), NEW walk, OnWay(g, c, walk, d, n),
           NEW v, Views(g, inner, c, n, v)
    PROVE  Answers(g, R, G, c, n, v)
  <1>1. SnGraph(g) /\ n \in ClNodes /\ g.kind[n] = "view" /\ c.seen[n] = 0 /\ SnInner(inner)
    BY DEF SnRoot, Views
  <1>2. PICK b, x : /\ Like(c, b) /\ ~b.thrown /\ x = Snapshot!CloneContents(inner, b, g.refs[n])
                    /\ x.clone.thrown => v = x.clone
                    /\ ~x.clone.thrown => WithCopy(x.clone, v, n, x.refs)
    BY DEF Views
  <1>3. GoodClone(g, R, G, b) /\ KeepsSeen(c, b) /\ b.seen = c.seen
    BY <1>2, SnLike DEF Like
  <1>4. Past(g, b, walk, d, n)
    BY <1>1, <1>3, SnPast
  <1>5. Filled(g, R, G, b, n, x)
    BY <1>1, <1>2, <1>3, <1>4, SnFilled
  <1>6. x.clone \in SnStates /\ x.clone.thrown \in BOOLEAN
    BY <1>5 DEF Filled, Sound, SnStates
  <1>7. CASE x.clone.thrown
    BY <1>2, <1>5, <1>7 DEF Filled, Answers, Sound
  <1>8. CASE ~x.clone.thrown
    <2> DEFINE y == x.clone
    <2>1. /\ GoodClone(g, R, G, y) /\ KeepsSeen(b, y) /\ RefsSettled(g, y, n) /\ x.refs = Images(g, y, n)
          /\ ToLeaves(g, n) => OthersStay(g, b, y)
      BY <1>5, <1>8 DEF Filled, Sound
    <2>2. ToLeaves(g, n)
      <3>1. Len(g.refs[n]) = 1 /\ g.kind[g.refs[n][1]] = "leaf"
        BY <1>1 DEF SnGraph
      <3>2. \A k \in 1..Len(g.refs[n]) : k = 1
        BY <3>1
      <3> QED
        BY <3>1, <3>2 DEF ToLeaves
    <2>3. y.seen[n] = 0 /\ Copied(g, n)
      BY <1>1, <1>3, <2>1, <2>2 DEF OthersStay, Copied
    <2>4. WithCopy(y, v, n, x.refs)
      BY <1>2, <1>8
    <2>5. x.refs \in Seq(SnRefs)
      <3>1. b \in SnStates /\ g.refs[n] \in Seq(ClNodes)
        BY <1>1, <1>2 DEF Like, SnGraph
      <3>2. SnContentsAre(inner, b, g.refs[n], x)
        BY <1>1, <1>2, <3>1, SnContentsGrow
      <3> QED
        BY <3>2 DEF SnContentsAre, SnSoFar
    <2> HIDE DEF y
    <2>6. GoodClone(g, R, G \cup {n}, v) /\ KeepsSeen(y, v) /\ v.seen[n] # 0
          /\ v.seen[n] = Len(y.copies) + 1 /\ v.copies[v.seen[n]] = x.refs
      <3>1. Registered(g, R, G, y, n, x.refs, v)
        BY <1>1, <2>1, <2>3, <2>4, <2>5, SnRegistered
      <3> QED
        BY <3>1 DEF Registered
    <2>7. Finished(g, v, n)
      <3>1. RefsSettled(g, v, n) /\ Images(g, v, n) = Images(g, y, n)
        BY <1>1, <2>1, <2>6, SettledKept
      <3> QED
        BY <2>1, <2>6, <3>1 DEF Finished
    <2>8. GoodClone(g, R, G, v)
      BY <2>6, <2>7, SnUnmarked
    <2>9. KeepsSeen(c, v)
      BY <1>3, <2>1, <2>6 DEF KeepsSeen
    <2>10. Settled(g, v, n) /\ v.ref = Img(g, v, n)
      BY <2>3, <2>4, <2>6 DEF Settled, Img, WithCopy
    <2>11. Sound(g, R, G, c, v)
      BY <2>8, <2>9 DEF Sound, GoodClone
    <2> QED
      BY <1>1, <2>10, <2>11 DEF Answers
  <1> QED
    BY <1>6, <1>7, <1>8

(* A container is copied before its contents, and a leaf has none.          *)
LEMMA SnFills ==
    ASSUME NEW g, NEW R, SnRoot(g, R), NEW inner, NEW d \in Nat, Works(g, R, inner, d + 1), NEW n \in R,
           NEW G, NEW c, GoodClone(g, R, G, c), NEW walk, OnWay(g, c, walk, d, n),
           NEW v, Fills(g, inner, c, n, v)
    PROVE  Answers(g, R, G, c, n, v)
  <1>1. SnGraph(g) /\ n \in ClNodes /\ g.kind[n] \in {"container", "leaf"} /\ c.seen[n] = 0 /\ SnInner(inner)
    BY DEF SnRoot, Fills
  <1>2. PICK a, b, x :
           /\ Like(c, a) /\ ~a.thrown /\ WithCopy(a, b, n, <<>>)
           /\ x = Snapshot!CloneContents(inner, b, g.refs[n])
           /\ v \in SnStates /\ v.seen = x.clone.seen /\ v.nodes = x.clone.nodes /\ v.thrown = x.clone.thrown
           /\ v.copies = [x.clone.copies EXCEPT ![Len(c.copies) + 1] = x.refs]
           /\ v.ref = Snapshot!Copy(Len(c.copies) + 1)
    BY Zenon DEF Fills
  <1>3. GoodClone(g, R, G, a) /\ KeepsSeen(c, a) /\ a.seen = c.seen /\ a.copies = c.copies
    BY <1>2, SnLike DEF Like
  <1>4. <<>> \in Seq(SnRefs) /\ Copied(g, n) /\ a.seen[n] = 0
    BY <1>1, <1>3 DEF Copied
  <1>5. /\ GoodClone(g, R, G \cup {n}, b) /\ KeepsSeen(a, b) /\ b.seen[n] # 0
        /\ b.seen[n] = Len(c.copies) + 1 /\ \A m \in ClNodes : m # n => b.seen[m] = c.seen[m]
    <2>1. Registered(g, R, G, a, n, <<>>, b)
      BY <1>1, <1>2, <1>3, <1>4, SnRegistered
    <2> QED
      BY <1>3, <2>1 DEF Registered
  <1>6. KeepsSeen(c, b)
    BY <1>3, <1>5 DEF KeepsSeen
  <1>7. Past(g, b, walk, d, n)
    BY <1>1, <1>5, <1>6, SnPast
  <1>8. Filled(g, R, G \cup {n}, b, n, x)
    BY <1>1, <1>2, <1>5, <1>7, SnFilled
  <1> DEFINE y == x.clone
  <1>9. /\ v \in SnStates /\ v.thrown \in BOOLEAN /\ v.seen = y.seen /\ v.nodes = y.nodes
        /\ v.thrown = y.thrown /\ v.copies = [y.copies EXCEPT ![Len(c.copies) + 1] = x.refs]
        /\ v.ref = Snapshot!Copy(Len(c.copies) + 1)
    BY <1>2 DEF SnStates
  <1>10. Sound(g, R, G \cup {n}, b, y)
    BY <1>8 DEF Filled
  <1>11. ~y.thrown => /\ RefsSettled(g, y, n) /\ x.refs = Images(g, y, n)
                      /\ ToLeaves(g, n) => OthersStay(g, b, y)
    BY <1>8 DEF Filled
  <1> HIDE DEF y
  <1>12. CASE v.thrown
    <2>1. Refused(g, v)
      BY <1>9, <1>10, <1>12 DEF Sound, Refused
    <2> QED
      BY <1>9, <1>12, <2>1 DEF Answers, Sound
  <1>13. CASE ~v.thrown
    <2>1. GoodClone(g, R, G \cup {n}, y) /\ KeepsSeen(b, y)
      BY <1>9, <1>10, <1>13 DEF Sound
    <2>2. y.seen[n] = Len(c.copies) + 1 /\ y.seen[n] # 0 /\ RefsSettled(g, y, n) /\ x.refs = Images(g, y, n)
      BY <1>1, <1>5, <1>9, <1>11, <1>13, <2>1 DEF KeepsSeen
    <2>3. v.copies = [y.copies EXCEPT ![y.seen[n]] = Images(g, y, n)]
      BY <1>9, <2>2
    <2>4. GoodClone(g, R, G, v)
      BY <1>1, <1>9, <2>1, <2>2, <2>3, SnFilling
    <2>5. KeepsSeen(c, v)
      BY <1>6, <1>9, <2>1 DEF KeepsSeen
    <2>6. Settled(g, v, n) /\ v.ref = Img(g, v, n)
      BY <1>4, <1>9, <2>2 DEF Settled, Img
    <2>7. Sound(g, R, G, c, v)
      BY <1>9, <1>13, <2>4, <2>5 DEF Sound
    <2>8. ASSUME g.kind[n] = "leaf" PROVE OthersStay(g, c, v)
      <3>1. Len(g.refs[n]) = 0
        <4>1. g.refs[n] = <<>>
          BY <1>1, <2>8 DEF SnGraph
        <4> QED
          BY <4>1
      <3>2. ToLeaves(g, n)
        BY <3>1 DEF ToLeaves
      <3>3. OthersStay(g, b, y)
        BY <1>9, <1>11, <1>13, <3>2
      <3> QED
        BY <1>5, <1>9, <2>8, <3>3 DEF OthersStay
    <2> QED
      BY <2>6, <2>7, <2>8 DEF Answers
  <1> QED
    BY <1>9, <1>12, <1>13

(* A call answers for its value.                                            *)
LEMMA SnAnswers ==
    ASSUME NEW g, NEW R, SnRoot(g, R), NEW inner, NEW d \in Nat, d <= ClMaxDepth + 1,
           d <= ClMaxDepth => Works(g, R, inner, d + 1), NEW n \in R,
           NEW G, NEW c, GoodClone(g, R, G, c), NEW walk, OnWay(g, c, walk, d, n),
           NEW v, Calls(g, inner, c, n, d, v)
    PROVE  Answers(g, R, G, c, n, v)
  <1>0. ClMaxDepth \in Nat /\ n \in ClNodes /\ ~c.thrown /\ c \in SnStates
    BY SnapshotAssumption DEF SnRoot, GoodClone
  <1>1. CASE Keeps(g, c, n, v)
    <2>1. ~Copied(g, n) /\ Like(c, v) /\ ~v.thrown /\ v.ref = Snapshot!Same(n)
      BY <1>1 DEF Keeps
    <2>2. GoodClone(g, R, G, v) /\ KeepsSeen(c, v) /\ OthersStay(g, c, v)
      BY <2>1, SnLike
    <2> QED
      BY <2>1, <2>2 DEF Answers, Sound, GoodClone, Settled, Img
  <1>2. CASE Knows(g, c, n, v)
    <2>1. c.seen[n] # 0 /\ Like(c, v) /\ ~v.thrown /\ v.ref = Snapshot!Copy(c.seen[n]) /\ v.seen = c.seen
      BY <1>2 DEF Knows, Like
    <2>2. GoodClone(g, R, G, v) /\ KeepsSeen(c, v) /\ OthersStay(g, c, v)
      BY <2>1, SnLike
    <2>3. Copied(g, n)
      BY <1>0, <2>1 DEF GoodClone
    <2> QED
      BY <2>1, <2>2, <2>3 DEF Answers, Sound, GoodClone, Settled, Img
  <1>3. CASE Refuses(g, c, n, d, v)
    <2>1. v \in SnStates /\ v.thrown
      BY <1>3 DEF Refuses, Like
    <2>2. CASE d > ClMaxDepth /\ g.kind[n] # "function"
      <3>1. d = ClMaxDepth + 1 /\ d - 1 = ClMaxDepth
        BY <1>0, <2>2
      <3>2. Walks(g, walk, ClMaxDepth + 1) /\ Apart(walk, ClMaxDepth) /\ walk[ClMaxDepth + 1] = n
        BY <3>1 DEF OnWay
      <3>3. DeepIn(g)
        BY <2>2, <3>2 DEF DeepIn
      <3> QED
        BY <2>1, <3>3 DEF Answers, Sound, Refused
    <2>3. CASE v.nodes > ClMaxNodes
      BY <2>1, <2>3 DEF Answers, Sound, Refused
    <2> QED
      BY <1>3, <2>2, <2>3 DEF Refuses
  <1>4. CASE d <= ClMaxDepth /\ Views(g, inner, c, n, v)
    BY <1>4, SnViewing
  <1>5. CASE d <= ClMaxDepth /\ Fills(g, inner, c, n, v)
    BY <1>5, SnFills
  <1> QED
    BY <1>0, <1>1, <1>2, <1>3, <1>4, <1>5 DEF Calls

-----------------------------------------------------------------------------
(* The whole clone *)

(* One level of calls, when the level below works.                          *)
LEMMA SnLevel ==
    ASSUME NEW g, NEW R, SnRoot(g, R), NEW room \in 0..(ClMaxDepth + 1), NEW inner,
           room # 0 => SnInner(inner) /\ Works(g, R, inner, (ClMaxDepth + 1) - room + 1)
    PROVE  Works(g, R, SnRow(g, inner, room), (ClMaxDepth + 1) - room)
  <1> DEFINE d == (ClMaxDepth + 1) - room
             row == SnRow(g, inner, room)
  <1>1. d \in Nat /\ d <= ClMaxDepth + 1 /\ (d <= ClMaxDepth => room # 0)
    <2>1. ClMaxDepth \in Nat
      BY SnapshotAssumption
    <2> QED
      BY <2>1
  <1>2. SnGraph(g) /\ R \subseteq ClNodes
    BY DEF SnRoot
  <1>3. ASSUME NEW c, NEW n, NEW G, NEW walk, n \in R, GoodClone(g, R, G, c), OnWay(g, c, walk, d, n)
        PROVE  Answers(g, R, G, c, n, row[<<c, n>>])
    <2>1. c \in SnStates /\ n \in ClNodes
      BY <1>2, <1>3 DEF GoodClone
    <2>2. <<c, n>> \in SnCalls /\ <<c, n>>[1] = c /\ <<c, n>>[2] = n
      BY <2>1 DEF SnCalls
    <2>3. row[<<c, n>>] = Snapshot!CloneValue(g, inner, c, n, d)
      BY <2>2 DEF SnRow
    <2> HIDE DEF d, row
    <2>4. PICK v : v = Snapshot!CloneValue(g, inner, c, n, d)
      OBVIOUS
    <2>5. d <= ClMaxDepth => SnInner(inner) /\ Works(g, R, inner, d + 1)
      BY <1>1 DEF d
    <2>6. Calls(g, inner, c, n, d, v)
      BY <1>1, <1>2, <2>1, <2>4, <2>5, SnCalled
    <2>7. Answers(g, R, G, c, n, v)
      BY <1>1, <1>3, <2>5, <2>6, SnAnswers
    <2> QED
      BY <2>3, <2>4, <2>7
  <1> HIDE DEF d, row
  <1>4. Works(g, R, row, d)
    BY <1>3 DEF Works
  <1> QED
    BY <1>4 DEF d, row

(* Every level of calls works.                                              *)
LEMMA SnLevels ==
    ASSUME NEW g, NEW R, SnRoot(g, R), NEW at, SnAt(g, at)
    PROVE  Works(g, R, at[ClMaxDepth + 1], 0)
  <1> DEFINE n == ClMaxDepth + 1
             T == {room \in Nat : room <= n => Works(g, R, at[room], n - room)}
  <1>1. n \in Nat
    BY SnapshotAssumption
  <1>2. /\ \A room \in 0..n : at[room] = SnRow(g, IF room = 0 THEN <<>> ELSE at[room - 1], room)
        /\ \A room \in 0..n : SnInner(at[room])
    BY DEF SnAt, SnInners
  <1>3. 0 \in T
    <2>1. 0 \in 0..n /\ at[0] = SnRow(g, <<>>, 0)
      BY <1>1, <1>2
    <2>2. Works(g, R, SnRow(g, <<>>, 0), n - 0)
      BY <2>1, SnLevel
    <2> QED
      BY <2>1, <2>2
  <1>4. ASSUME NEW room \in Nat, room \in T PROVE room + 1 \in T
    <2> SUFFICES ASSUME room + 1 <= n PROVE Works(g, R, at[room + 1], n - (room + 1))
      OBVIOUS
    <2>1. room + 1 \in 0..n /\ room \in 0..n /\ room + 1 # 0 /\ (room + 1) - 1 = room
          /\ n - (room + 1) + 1 = n - room
      BY <1>1
    <2>2. at[room + 1] = SnRow(g, at[room], room + 1) /\ SnInner(at[room])
      BY <1>2, <2>1
    <2>3. Works(g, R, at[room], n - (room + 1) + 1)
      BY <1>1, <1>4, <2>1
    <2>4. Works(g, R, SnRow(g, at[room], room + 1), n - (room + 1))
      BY <2>1, <2>2, <2>3, SnLevel
    <2> QED
      BY <2>2, <2>4
  <1>5. Nat \subseteq T
    <2> HIDE DEF T
    <2> QED
      BY <1>3, <1>4, SetInduction
  <1>6. Works(g, R, at[n], n - n) /\ n - n = 0
    BY <1>1, <1>5
  <1> QED
    BY <1>6

(* Nothing is seen at first.                                                *)
LEMMA SnUnvisited ==
    ASSUME NEW g, NEW R
    PROVE  GoodClone(g, R, {}, Snapshot!Unvisited) /\ KeepsSeen(Snapshot!Unvisited, Snapshot!Unvisited)
  <1> DEFINE c == Snapshot!Unvisited
  <1>1. /\ c.copies = <<>> /\ c.seen = [n \in ClNodes |-> 0] /\ c.nodes = 0 /\ c.thrown = FALSE
        /\ c.ref = Snapshot!Same(1)
        /\ c = [copies |-> c.copies, seen |-> c.seen, nodes |-> c.nodes, thrown |-> c.thrown, ref |-> c.ref]
    BY DEF Snapshot!Unvisited
  <1> HIDE DEF c
  <1>2. c \in SnStates
    <2>1. <<>> \in Seq(Seq(SnRefs)) /\ [n \in ClNodes |-> 0] \in [ClNodes -> Nat] /\ Snapshot!Same(1) \in SnRefs
      BY DEF Snapshot!Same, SnRefs
    <2>2. /\ c.copies \in Seq(Seq(SnRefs)) /\ c.seen \in [ClNodes -> Nat] /\ c.nodes \in Nat
          /\ c.thrown \in BOOLEAN /\ c.ref \in SnRefs
      <3>1. c.nodes \in Nat /\ c.thrown \in BOOLEAN
        BY DEF c, Snapshot!Unvisited
      <3>2. c.copies \in Seq(Seq(SnRefs))
        BY <1>1, <2>1
      <3>3. c.seen \in [ClNodes -> Nat]
        BY <1>1, <2>1
      <3>4. c.ref \in SnRefs
        BY <1>1, <2>1
      <3> QED
        BY <3>1, <3>2, <3>3, <3>4
    <2>3. \E copies, seen, nodes, thrown, ref :
             c = [copies |-> copies, seen |-> seen, nodes |-> nodes, thrown |-> thrown, ref |-> ref]
      BY <1>1, Zenon
    <2> QED
      BY <2>2, <2>3 DEF SnStates
  <1>3. Len(c.copies) = 0 /\ \A n \in ClNodes : c.seen[n] = 0
    BY <1>1
  <1>4. GoodClone(g, R, {}, c)
    BY <1>1, <1>2, <1>3 DEF GoodClone
  <1> QED
    BY <1>4 DEF KeepsSeen, c

(* The clone of the value answers for it.                                   *)
LEMMA SnWhole ==
    ASSUME NEW g, NEW R, SnRoot(g, R)
    PROVE  Answers(g, R, {}, Snapshot!Unvisited, 1, Snapshot!CloneInternal(g, 1))
  <1> DEFINE walk == [i \in 0..0 |-> 1]
             c == Snapshot!Unvisited
  <1>1. SnGraph(g) /\ 1 \in R /\ 1 \in ClNodes
    BY SnapshotAssumption DEF SnRoot
  <1>2. PICK at : SnAt(g, at) /\ Snapshot!CloneInternal(g, 1) = at[ClMaxDepth + 1][<<c, 1>>]
    BY <1>1, SnMade
  <1>3. OnWay(g, c, walk, 0, 1)
    <2>1. walk \in [0..0 -> ClNodes] /\ walk[0] = 1
      BY <1>1
    <2>2. 0 - 1 < 0 /\ 0..(0 - 1) = {}
      OBVIOUS
    <2> HIDE DEF walk
    <2> QED
      BY <2>1, <2>2 DEF OnWay, Walks, Apart
  <1>4. GoodClone(g, R, {}, c)
    BY SnUnvisited
  <1>5. Works(g, R, at[ClMaxDepth + 1], 0)
    BY <1>2, SnLevels
  <1> HIDE DEF c, walk
  <1>6. Answers(g, R, {}, c, 1, at[ClMaxDepth + 1][<<c, 1>>])
    BY <1>1, <1>3, <1>4, <1>5 DEF Works
  <1> QED
    BY <1>2, <1>6 DEF c

-----------------------------------------------------------------------------
(* The invariant of the snapshot: what came out is the clone of the graph.  *)
SnShapes ==
    [kind : [ClNodes -> SnKinds], refs : [ClNodes -> Seq(ClNodes)], done : BOOLEAN, clone : SnStates]
SnGood(x) ==
    /\ x \in SnShapes
    /\ \E g : SnGraph(g) /\ x.kind = g.kind /\ x.refs = g.refs
              /\ (x.done => x.clone = Snapshot!CloneInternal(g, 1))

(* A graph that is cloned is one.                                           *)
LEMMA SnIsGraph ==
    ASSUME NEW kind \in [ClNodes -> Snapshot!Kinds], NEW refs \in [ClNodes -> Snapshot!RefLists],
           Snapshot!IsGraph(kind, refs), NEW g, g.kind = kind, g.refs = refs
    PROVE  SnGraph(g) /\ kind \in [ClNodes -> SnKinds] /\ refs \in [ClNodes -> Seq(ClNodes)]
  <1>1. kind \in [ClNodes -> SnKinds]
    BY DEF Snapshot!Kinds, SnKinds
  <1>2. ASSUME NEW n \in ClNodes PROVE refs[n] \in Seq(ClNodes)
    <2>1. PICK k \in 0..ClMaxRefs : refs[n] \in [1..k -> ClNodes]
      BY DEF Snapshot!RefLists
    <2>2. k \in Nat
      BY <2>1
    <2> QED
      BY <2>1, <2>2
  <1>3. refs \in [ClNodes -> Seq(ClNodes)]
    BY <1>2
  <1>4. ASSUME NEW n \in ClNodes
        PROVE  /\ kind[n] \notin {"container", "view"} => refs[n] = <<>>
               /\ kind[n] = "view" => Len(refs[n]) = 1 /\ kind[refs[n][1]] = "leaf"
    BY DEF Snapshot!IsGraph
  <1> QED
    BY <1>1, <1>3, <1>4 DEF SnGraph

(* The invariant holds at first, and a clone keeps it.                      *)
LEMMA SnInit == Snapshot!ClInit => SnGood(state)
  <1> SUFFICES ASSUME Snapshot!ClInit PROVE SnGood(state)
    OBVIOUS
  <1>1. PICK kind \in [ClNodes -> Snapshot!Kinds], refs \in [ClNodes -> Snapshot!RefLists] :
           /\ Snapshot!IsGraph(kind, refs)
           /\ state = [kind |-> kind, refs |-> refs, done |-> FALSE, clone |-> Snapshot!Unvisited]
    BY DEF Snapshot!ClInit
  <1>2. Snapshot!Unvisited \in SnStates
    BY SnUnvisited DEF GoodClone
  <1> DEFINE x == state
  <1>3. x.kind = kind /\ x.refs = refs /\ x.done = FALSE /\ x.clone \in SnStates
        /\ x = [kind |-> x.kind, refs |-> x.refs, done |-> x.done, clone |-> x.clone]
    BY <1>1, <1>2
  <1> HIDE DEF x
  <1>4. SnGraph(x) /\ kind \in [ClNodes -> SnKinds] /\ refs \in [ClNodes -> Seq(ClNodes)]
    BY <1>1, <1>3, SnIsGraph
  <1>5. x \in SnShapes
    BY <1>3, <1>4 DEF SnShapes
  <1>6. SnGood(x)
    BY <1>3, <1>4, <1>5 DEF SnGood
  <1> QED
    BY <1>6 DEF x

(* A clone keeps the invariant. *)
LEMMA SnStep == SnGood(state) /\ Snapshot!ClNext => SnGood(state')
  <1> SUFFICES ASSUME SnGood(state), Snapshot!ClNext PROVE SnGood(state')
    OBVIOUS
  <1>1. ~state.done /\ state' = [state EXCEPT !.done = TRUE, !.clone = Snapshot!CloneInternal(state, 1)]
    BY DEF Snapshot!ClNext, Snapshot!Clones
  <1>2. PICK x, y : x = state /\ y = state'
    OBVIOUS
  <1>3. x \in SnShapes /\ SnGraph(x)
    BY <1>2 DEF SnGood, SnGraph
  <1>4. PICK e : e = Snapshot!CloneInternal(x, 1)
    OBVIOUS
  <1>5. e \in SnStates
    <2>1. PICK at : SnAt(x, at) /\ e = at[ClMaxDepth + 1][<<Snapshot!Unvisited, 1>>]
      BY <1>3, <1>4, SnMade
    <2>2. ClMaxDepth + 1 \in 0..(ClMaxDepth + 1) /\ 1 \in ClNodes
      BY SnapshotAssumption
    <2>3. SnInner(at[ClMaxDepth + 1]) /\ Snapshot!Unvisited \in SnStates
      BY <2>1, <2>2, SnUnvisited DEF SnAt, SnInners, GoodClone
    <2> QED
      BY <2>1, <2>2, <2>3 DEF SnInner, SnAdds
  <1>6. y = [x EXCEPT !.done = TRUE, !.clone = e]
    BY <1>1, <1>2, <1>4
  <1>7. y \in SnShapes /\ y.kind = x.kind /\ y.refs = x.refs /\ y.clone = e
    BY <1>3, <1>5, <1>6 DEF SnShapes
  <1>8. SnGood(y)
    BY <1>3, <1>4, <1>7 DEF SnGood
  <1> QED
    BY <1>2, <1>8

-----------------------------------------------------------------------------
(* What is reached in the graph, and what is copied of it *)

SnNext(g) == [n \in ClNodes |-> {g.refs[n][k] : k \in 1..Len(g.refs[n])}]

(* The references of a value, by place.                                     *)
LEMMA SnPlaces ==
    ASSUME NEW g, SnGraph(g), NEW n \in ClNodes
    PROVE  /\ DOMAIN g.refs[n] = 1..Len(g.refs[n]) /\ Len(g.refs[n]) \in Nat
           /\ \A k \in 1..Len(g.refs[n]) : g.refs[n][k] \in ClNodes
           /\ Snapshot!Range(g.refs[n]) = SnNext(g)[n]
  <1>1. g.refs[n] \in Seq(ClNodes)
    BY DEF SnGraph
  <1>2. DOMAIN g.refs[n] = 1..Len(g.refs[n]) /\ Len(g.refs[n]) \in Nat
        /\ \A k \in 1..Len(g.refs[n]) : g.refs[n][k] \in ClNodes
    BY <1>1, LenProperties
  <1> QED
    BY <1>2 DEF Snapshot!Range, SnNext

(* What is reached from the value.                                          *)
LEMMA SnReached ==
    ASSUME NEW g, SnGraph(g), state.refs = g.refs
    PROVE  ReachIs(SnNext(g), {1}, Snapshot!Reached) /\ SnRoot(g, Snapshot!Reached)
  <1> DEFINE R == Snapshot!Reached
             next == [n \in ClNodes |-> Snapshot!Range(state.refs[n])]
  <1>1. next = SnNext(g)
    <2>1. \A n \in ClNodes : Snapshot!Range(state.refs[n]) = SnNext(g)[n]
      BY SnPlaces
    <2>2. SnNext(g) = [n \in ClNodes |-> SnNext(g)[n]]
      BY DEF SnNext
    <2> QED
      BY <2>1, <2>2
  <1>2. R = Reach(next, {1})
    BY DEF Snapshot!Reached, Snapshot!Reach, Reach
  <1> HIDE DEF R, next
  <1>3. DOMAIN SnNext(g) = ClNodes /\ \A m \in ClNodes : SnNext(g)[m] \subseteq ClNodes
    BY SnPlaces DEF SnNext
  <1>4. {1} \in SUBSET DOMAIN SnNext(g)
    BY <1>3, SnapshotAssumption
  <1>5. ReachIs(SnNext(g), {1}, R)
    BY <1>1, <1>2, <1>3, <1>4, Reached
  <1>6. R \subseteq ClNodes /\ 1 \in R /\ \A m \in R : SnNext(g)[m] \subseteq R
    BY <1>3, <1>5 DEF ReachIs
  <1>7. ASSUME NEW m \in R, NEW k \in Nat, k \in 1..Len(g.refs[m]) PROVE g.refs[m][k] \in R
    <2>1. m \in ClNodes
      BY <1>6
    <2>2. g.refs[m][k] \in SnNext(g)[m]
      BY <1>7, <2>1 DEF SnNext
    <2> QED
      BY <1>6, <2>2
  <1>8. SnRoot(g, R)
    BY <1>6, <1>7 DEF SnRoot
  <1> QED
    BY <1>5, <1>8 DEF R

(* What is reached and copied is what was seen.                             *)
LEMMA SnCopied ==
    ASSUME NEW g, SnGraph(g), NEW R, ReachIs(SnNext(g), {1}, R), NEW c, GoodClone(g, R, {}, c),
           Settled(g, c, 1)
    PROVE  {n \in R : Copied(g, n)} = {n \in ClNodes : c.seen[n] # 0}
  <1> DEFINE C == {n \in ClNodes : c.seen[n] # 0 \/ ~Copied(g, n)}
  <1>1. 1 \in C /\ C \subseteq ClNodes /\ DOMAIN SnNext(g) = ClNodes
    BY SnapshotAssumption DEF Settled, SnNext
  <1>2. ASSUME NEW m \in C PROVE SnNext(g)[m] \subseteq C
    <2>1. m \in ClNodes /\ SnNext(g)[m] = {g.refs[m][k] : k \in 1..Len(g.refs[m])}
      BY DEF SnNext
    <2>2. CASE c.seen[m] # 0
      <3>1. Finished(g, c, m)
        BY <2>1, <2>2 DEF GoodClone
      <3>2. \A k \in 1..Len(g.refs[m]) : Settled(g, c, g.refs[m][k]) /\ g.refs[m][k] \in ClNodes
        BY <2>1, <3>1, SnPlaces DEF Finished, RefsSettled
      <3>3. \A k \in 1..Len(g.refs[m]) : g.refs[m][k] \in C
        BY <3>2 DEF Settled
      <3> HIDE DEF C
      <3> QED
        BY <2>1, <3>3
    <2>3. CASE ~Copied(g, m)
      <3>1. g.refs[m] = <<>>
        BY <2>1, <2>3 DEF SnGraph, Copied
      <3>2. 1..Len(g.refs[m]) = {}
        BY <3>1
      <3> QED
        BY <2>1, <3>2
    <2> QED
      BY <2>2, <2>3
  <1>3. R \subseteq C /\ R \subseteq ClNodes
    <2> HIDE DEF C
    <2>1. C \in SUBSET DOMAIN SnNext(g) /\ {1} \subseteq C
      BY <1>1
    <2> QED
      BY <1>1, <1>2, <2>1 DEF ReachIs
  <1>4. \A n \in ClNodes : c.seen[n] # 0 => n \in R /\ Copied(g, n)
    BY DEF GoodClone
  <1> QED
    BY <1>3, <1>4

(* The copies, one for each value that was seen.                            *)
LEMMA SnCounted ==
    ASSUME NEW g, NEW R, NEW c, GoodClone(g, R, {}, c), NEW S, S = {n \in ClNodes : c.seen[n] # 0}
    PROVE  /\ {c.seen[n] : n \in S} = DOMAIN c.copies
           /\ Cardinality(S) = Len(c.copies)
  <1> DEFINE k == Len(c.copies)
             f == [i \in 1..k |-> CHOOSE m \in ClNodes : c.seen[m] = i]
  <1>1. c.copies \in Seq(Seq(SnRefs)) /\ c.seen \in [ClNodes -> Nat] /\ k \in Nat /\ DOMAIN c.copies = 1..k
    BY LenProperties DEF GoodClone, SnStates
  <1>2. /\ \A m \in S : m \in ClNodes /\ c.seen[m] \in 1..k
        /\ \A m, j \in S : c.seen[m] = c.seen[j] => m = j
        /\ \A i \in 1..k : \E m \in ClNodes : c.seen[m] = i
    <2>1. /\ \A m \in ClNodes : c.seen[m] # 0 => c.seen[m] <= k
          /\ \A m, j \in ClNodes : c.seen[m] # 0 /\ c.seen[m] = c.seen[j] => m = j
          /\ \A i \in 1..k : \E m \in ClNodes : c.seen[m] = i
      BY DEF GoodClone
    <2>2. \A m \in S : m \in ClNodes /\ c.seen[m] \in Nat /\ c.seen[m] # 0
      BY <1>1
    <2> HIDE DEF k
    <2> QED
      BY <1>1, <2>1, <2>2
  <1> HIDE DEF k
  <1>3. \A i \in 1..k : f[i] \in S /\ c.seen[f[i]] = i
    <2>1. \A i \in 1..k : f[i] \in ClNodes /\ c.seen[f[i]] = i
      BY <1>2
    <2> HIDE DEF f
    <2> QED
      BY <2>1
  <1>4. DOMAIN f = 1..k /\ f = [i \in 1..k |-> f[i]]
    OBVIOUS
  <1> HIDE DEF f
  <1>5. f \in [1..k -> S]
    BY <1>3, <1>4
  <1>6. f \in Injection(1..k, S)
    BY <1>3, <1>4, <1>5 DEF Injection, IsInjective
  <1>7. f \in Surjection(1..k, S)
    <2>1. ASSUME NEW m \in S PROVE \E i \in 1..k : f[i] = m
      <3>1. c.seen[m] \in 1..k
        BY <1>2
      <3>2. f[c.seen[m]] = m
        BY <1>2, <1>3, <3>1
      <3> QED
        BY <3>1, <3>2
    <2> QED
      BY <1>5, <2>1 DEF Surjection
  <1>8. ExistsBijection(1..k, S)
    BY <1>6, <1>7 DEF ExistsBijection, Bijection
  <1>9. Cardinality(S) = k
    BY <1>1, <1>8, FS_CountingElements
  <1>10. {c.seen[n] : n \in S} = 1..k
    <2>1. ASSUME NEW i \in 1..k PROVE i \in {c.seen[n] : n \in S}
      BY <1>3, Zenon
    <2>2. {c.seen[n] : n \in S} \subseteq 1..k
      BY <1>2
    <2> QED
      BY <2>1, <2>2
  <1> QED
    BY <1>1, <1>9, <1>10 DEF k

(* A way too deep is one in the graph that is cloned.                       *)
LEMMA SnDeep ==
    ASSUME NEW g, SnGraph(g), state.refs = g.refs, state.kind = g.kind, DeepIn(g)
    PROVE  Snapshot!TooDeep
  <1> DEFINE d == ClMaxDepth + 1
  <1>1. PICK walk : /\ Walks(g, walk, d) /\ Apart(walk, ClMaxDepth)
                    /\ g.kind[walk[d]] # "function"
    BY DEF DeepIn
  <1>2. ClMaxDepth \in Nat /\ d - 1 = ClMaxDepth /\ 0..(d - 1) = 0..ClMaxDepth
    BY SnapshotAssumption
  <1>3. /\ walk \in [0..d -> ClNodes] /\ walk[0] = 1
        /\ \A i \in 0..ClMaxDepth : \E k \in 1..Len(g.refs[walk[i]]) : walk[i + 1] = g.refs[walk[i]][k]
    BY <1>1, <1>2 DEF Walks
  <1>4. ASSUME NEW i \in 0..ClMaxDepth PROVE walk[i + 1] \in Snapshot!Range(state.refs[walk[i]])
    <2>1. walk[i] \in ClNodes
      BY <1>2, <1>3
    <2>2. Snapshot!Range(g.refs[walk[i]]) = {g.refs[walk[i]][k] : k \in 1..Len(g.refs[walk[i]])}
      <3>1. Snapshot!Range(g.refs[walk[i]]) = SnNext(g)[walk[i]]
        BY <2>1, SnPlaces
      <3> QED
        BY <2>1, <3>1 DEF SnNext
    <2> QED
      BY <1>3, <2>2
  <1>5. \A i, j \in 0..ClMaxDepth : walk[i] = walk[j] => i = j
    BY <1>1 DEF Apart
  <1> QED
    BY <1>1, <1>3, <1>4, <1>5 DEF Snapshot!TooDeep

(* The snapshot is the graph.                                               *)
LEMMA SnHolds == SnGood(state) => Snapshot!SnapshotIsTheGraph
  <1> SUFFICES ASSUME SnGood(state), state.done PROVE Snapshot!SnapshotIsTheGraph
    BY DEF Snapshot!SnapshotIsTheGraph
  <1> DEFINE R == Snapshot!Reached
             c == state.clone
             Image(n) == IF state.kind[n] \in {"handle", "function"} THEN Snapshot!Same(n)
                         ELSE Snapshot!Copy(c.seen[n])
             copied == {n \in R : state.kind[n] \notin {"handle", "function"}}
  <1>1. PICK g : SnGraph(g) /\ state.kind = g.kind /\ state.refs = g.refs /\ c = Snapshot!CloneInternal(g, 1)
    BY DEF SnGood
  <1>2. ReachIs(SnNext(g), {1}, R) /\ SnRoot(g, R)
    BY <1>1, SnReached
  <1>3. Answers(g, R, {}, Snapshot!Unvisited, 1, c)
    BY <1>1, <1>2, SnWhole
  <1>4. Sound(g, R, {}, Snapshot!Unvisited, c) /\ (~c.thrown => Settled(g, c, 1) /\ c.ref = Img(g, c, 1))
    BY <1>3 DEF Answers
  <1>5. \A n : Image(n) = Img(g, c, n)
    BY <1>1 DEF Img, Copied
  <1>6. copied = {n \in R : Copied(g, n)}
    BY <1>1 DEF Copied
  <1> HIDE DEF R, c, Image, copied
  <1>7. ASSUME c.thrown PROVE Snapshot!TooDeep \/ c.nodes > ClMaxNodes
    <2>1. Refused(g, c)
      BY <1>4, <1>7 DEF Sound
    <2> QED
      BY <1>1, <2>1, SnDeep DEF Refused
  <1>8. ASSUME ~c.thrown
        PROVE  /\ c.ref = Image(1)
               /\ {c.seen[n] : n \in copied} = DOMAIN c.copies
               /\ Cardinality(copied) = Len(c.copies)
               /\ \A n \in copied :
                     c.copies[c.seen[n]] = [k \in DOMAIN state.refs[n] |-> Image(state.refs[n][k])]
    <2>1. GoodClone(g, R, {}, c) /\ Settled(g, c, 1) /\ c.ref = Img(g, c, 1)
      BY <1>4, <1>8 DEF Sound
    <2>2. copied = {n \in ClNodes : c.seen[n] # 0}
      BY <1>1, <1>2, <1>6, <2>1, SnCopied
    <2>3. {c.seen[n] : n \in copied} = DOMAIN c.copies /\ Cardinality(copied) = Len(c.copies)
      BY <2>1, <2>2, SnCounted
    <2>4. ASSUME NEW n \in copied
          PROVE  c.copies[c.seen[n]] = [k \in DOMAIN state.refs[n] |-> Image(state.refs[n][k])]
      <3>1. n \in ClNodes /\ Finished(g, c, n)
        BY <2>1, <2>2 DEF GoodClone
      <3>2. c.copies[c.seen[n]] = [k \in 1..Len(g.refs[n]) |-> Img(g, c, g.refs[n][k])]
        BY <3>1 DEF Finished, Images
      <3>3. DOMAIN g.refs[n] = 1..Len(g.refs[n])
        BY <1>1, <3>1, SnPlaces
      <3> QED
        BY <1>1, <1>5, <3>2, <3>3
    <2> QED
      BY <1>5, <2>1, <2>3, <2>4
  <1>9. CASE c.thrown
    BY <1>7, <1>9 DEF Snapshot!SnapshotIsTheGraph, c
  <1>10. CASE ~c.thrown
    <2>1. \A S : Snapshot!Cardinality(S) = Cardinality(S)
      BY DEF Snapshot!Cardinality, Cardinality
    <2> QED
      BY <1>8, <1>10, <2>1 DEF Snapshot!SnapshotIsTheGraph, c, R, Image, copied
  <1> QED
    BY <1>9, <1>10

-----------------------------------------------------------------------------
(* A context is its owner's: no frame shows another request's, each names   *)
(* one user and one tenant and lists every trace id once; a snapshot is the *)
(* same graph; and a record lists its trace, of loggers that are apart.     *)
THEOREM ContextsCannotBleed == AllSpec => []ContextIsItsOwn
  <1> DEFINE Inv == /\ subject = "contexts" => CxGood(state)
                    /\ subject = "snapshot" => SnGood(state)
                    /\ subject = "builder" => BuGood(state)
  <1>1. AllInit => Inv
    BY CxInit, SnInit, BuInit DEF AllInit
  <1>2. Inv /\ [AllNext]_<<subject, state, clock>> => Inv'
    <2> SUFFICES ASSUME Inv, [AllNext]_<<subject, state, clock>> PROVE Inv'
      OBVIOUS
    <2>1. CASE AllNext
      <3>1. /\ subject' = subject
            /\ subject = "contexts" => Contexts!CxNext
            /\ subject = "snapshot" => Snapshot!ClNext
            /\ subject = "builder" => Builder!LrNext
        BY <2>1 DEF AllNext
      <3> QED
        BY <3>1, CxStep, SnStep, BuStep
    <2>2. CASE UNCHANGED <<subject, state, clock>>
      BY <2>2
    <2> QED
      BY <2>1, <2>2
  <1>3. Inv => ContextIsItsOwn
    BY CxHolds, SnHolds, BuHolds DEF ContextIsItsOwn
  <1> QED
    BY <1>1, <1>2, <1>3, PTL DEF AllSpec

(***************************************************************************)
(* Part 2: the shutdown of the servers                                     *)
(***************************************************************************)

(* Which coroutine runs in which phase, and when the result is there.      *)
Control ==
    /\ phase = "running" => gracefulPc = "idle"
    /\ phase = "draining" => gracefulPc \in {"before", "closing", "flush", "after"}
    /\ phase = "forced" <=> forcePc # "idle"
    /\ resolved <=> phase = "closed" \/ forcePc = "ended"

(* The flush runs once, and who waits for it has started it.               *)
FlushState ==
    /\ flushes = IF flush = "none" THEN 0 ELSE 1
    /\ phase \in {"running", "draining"} /\ flush # "none" => gracefulPc \in {"flush", "after"}
    /\ gracefulPc \in {"flush", "after"} => flush # "none"
    /\ gracefulPc = "after" \/ phase = "closed" => flush = "settled"
    /\ forcePc \in {"flush", "ended"} => flush # "none"

(* A server with a connection is not closed, and close() calls back when   *)
(* the server is.  The graceful coroutine passes only if all have.         *)
ServerState ==
    /\ \A s \in active : listener[s] # "closed"
    /\ \A s \in Servers : closeResult[s] = "ok" => listener[s] = "closed"
    /\ gracefulPc = "closing" => \A s \in Servers : closeResult[s] # "none"
    /\ gracefulPc \in {"flush", "after"} \/ phase = "closed"
         => \A s \in Servers : closeResult[s] = "ok"

(* Connections are destroyed by force() alone.                             *)
ForceState == (phase # "forced" => killed = {}) /\ NoConnectionSurvivesForce

LifecycleInv == TypeOK /\ Control /\ FlushState /\ ServerState /\ ForceState

USE ServersAssumption, MaxFaultsAssumption

-----------------------------------------------------------------------------
(* A set of servers has a size.                                            *)
LEMMA ServersSize ==
    ASSUME NEW U \in SUBSET Servers
    PROVE  Cardinality(U) \in Nat
  BY FS_Subset, FS_CardinalityType

(* The invariant of the controller holds at first.                          *)
LEMMA LifecycleInit == Init => LifecycleInv
  <1> SUFFICES ASSUME Init PROVE LifecycleInv
    OBVIOUS
  <1>1. ControlType
    BY DEF Init, ControlType, Phases, GracefulPcs, ForcePcs
  <1>2. ServerType
    BY DEF Init, ServerType
  <1>3. HistoryType
    <2>1. early \in BOOLEAN
      BY Zenon DEF Init
    <2> QED
      BY <2>1 DEF Init, HistoryType
  <1>4. Control /\ FlushState /\ ServerState /\ ForceState
    BY DEF Init, Control, FlushState, ServerState, ForceState,
           NoConnectionSurvivesForce
  <1> QED
    BY <1>1, <1>2, <1>3, <1>4 DEF LifecycleInv, TypeOK

(* force() from a phase it may leave, in any state of the graceful path.   *)
LEMMA ForceStep ==
    ASSUME LifecycleInv, EnterForce, gracefulPc' \in {gracefulPc, "ended"}
    PROVE  LifecycleInv'
  <1>1. PICK U \in SUBSET Servers : \E K \in SUBSET Servers :
          faults + Cardinality(U \cup K) <= MaxFaults /\ ForceServers(U, K)
    BY DEF EnterForce
  <1>11. PICK K \in SUBSET Servers :
          faults + Cardinality(U \cup K) <= MaxFaults /\ ForceServers(U, K)
    BY <1>1
  <1>2. Cardinality(U \cup K) \in Nat
    BY ServersSize
  <1>3. TypeOK'
    <2>1. ControlType'
      BY DEF LifecycleInv, TypeOK, ControlType, Control, EnterForce, CanForce,
             Phases, GracefulPcs, ForcePcs
    <2>2. ServerType'
      BY <1>11 DEF LifecycleInv, TypeOK, ServerType, EnterForce, ForceServers
    <2>3. HistoryType'
      BY <1>11, <1>2 DEF LifecycleInv, TypeOK, ServerType, HistoryType, EnterForce,
                         ForceServers
    <2> QED
      BY <2>1, <2>2, <2>3 DEF TypeOK
  <1>4. Control'
    BY DEF LifecycleInv, TypeOK, ControlType, ServerType, HistoryType, Control,
           EnterForce, CanForce, Phases
  <1>5. FlushState'
    BY DEF LifecycleInv, TypeOK, ControlType, ServerType, HistoryType, FlushState,
           EnterForce, CanForce, Phases
  <1>6. ServerState'
    BY <1>11 DEF LifecycleInv, TypeOK, ControlType, ServerType, HistoryType,
                 ServerState, EnterForce, ForceServers, CanForce, Phases
  <1>7. ForceState'
    BY <1>11 DEF LifecycleInv, TypeOK, ControlType, ServerType, HistoryType,
                 ForceState, NoConnectionSurvivesForce, EnterForce, ForceServers
  <1> QED
    BY <1>3, <1>4, <1>5, <1>6, <1>7 DEF LifecycleInv

(* The forced coroutine, from its hook to the result.                      *)
LEMMA ForcePathStep ==
    ASSUME LifecycleInv, ForceHookSettles \/ ForceDeadline
    PROVE  LifecycleInv'
  <1>1. CASE AfterForceHook
    <2>1. ControlType'
      BY <1>1 DEF AfterForceHook, FlushOnce, Finish, Cleanup, armVars, serverVars,
                  LifecycleInv, TypeOK,
             ControlType, Control, Phases, GracefulPcs, ForcePcs
    <2>2. ServerType' /\ HistoryType'
      BY <1>1 DEF AfterForceHook, FlushOnce, Finish, Cleanup, armVars, serverVars,
                  LifecycleInv, TypeOK,
             ServerType, HistoryType
    <2>3. Control'
      BY <1>1 DEF AfterForceHook, FlushOnce, Finish, Cleanup, armVars, serverVars,
                  LifecycleInv, TypeOK,
             ControlType, Control, Phases, GracefulPcs, ForcePcs
    <2>4. FlushState'
      BY <1>1 DEF AfterForceHook, FlushOnce, Finish, Cleanup, armVars, serverVars,
                  LifecycleInv, TypeOK,
             ControlType, HistoryType, Control, FlushState, Phases
    <2>5. ServerState' /\ ForceState'
      BY <1>1 DEF AfterForceHook, FlushOnce, Finish, Cleanup, armVars, serverVars,
                  LifecycleInv, TypeOK,
             ControlType, Control, ServerType, ServerState, ForceState, NoConnectionSurvivesForce, Phases
    <2> QED
      BY <2>1, <2>2, <2>3, <2>4, <2>5 DEF LifecycleInv, TypeOK
  <1>2. CASE ForceDeadline /\ ~AfterForceHook
    BY <1>2 DEF ForceDeadline, Finish, Cleanup, LifecycleInv, TypeOK, ControlType,
                ServerType, HistoryType,
                Control, FlushState, ServerState, ForceState, armVars, serverVars,
                NoConnectionSurvivesForce, Phases, GracefulPcs, ForcePcs
  <1> QED
    BY <1>1, <1>2 DEF ForceHookSettles, ForceDeadline

(* The graceful coroutine ends, the phase having changed.                  *)
LEMMA GracefulEndsStep ==
    ASSUME LifecycleInv, GracefulEnds, gracefulPc # "idle"
    PROVE  LifecycleInv'
  BY DEF GracefulEnds, StillDraining, LifecycleInv, TypeOK, ControlType, ServerType,
         HistoryType,
         Control, FlushState, ServerState, ForceState, armVars, serverVars,
         NoConnectionSurvivesForce, Phases, GracefulPcs, ForcePcs

(* The graceful coroutine, from the request to the result.                 *)
LEMMA GracefulPathStep ==
    ASSUME LifecycleInv,
           \/ \E sigint \in BOOLEAN : BeginGraceful(sigint)
           \/ BeforeHookSettles \/ ServersSettle \/ AfterHookSettles
    PROVE  LifecycleInv'
  <1>1. ASSUME NEW sigint \in BOOLEAN, BeginGraceful(sigint) PROVE LifecycleInv'
    BY <1>1 DEF BeginGraceful, LifecycleInv, TypeOK, ControlType, ServerType,
                HistoryType,
                Control, FlushState, ServerState, ForceState, serverVars,
                NoConnectionSurvivesForce, Phases, GracefulPcs, ForcePcs
  <1>2. ASSUME NEW F \in SUBSET Servers, CloseGracefully(F), gracefulPc = "before"
        PROVE  LifecycleInv'
    <2>1. Cardinality(F) \in Nat
      BY ServersSize
    <2> QED
      BY <1>2, <2>1 DEF CloseGracefully, StillDraining, LifecycleInv, TypeOK,
                        ControlType, ServerType, HistoryType,
                Control, FlushState, ServerState, ForceState, armVars,
                NoConnectionSurvivesForce, Phases, GracefulPcs, ForcePcs
  <1>3. CASE ServersSettle /\ ~GracefulEnds
    <2>1. CASE EnterForce /\ gracefulPc' = "ended"
      BY <2>1, ForceStep
    <2>2. CASE ~(EnterForce /\ gracefulPc' = "ended")
      <3>1. \A s \in Servers : closeResult[s] = "ok"
        BY <1>3, <2>2 DEF ServersSettle, AllSettled, LifecycleInv, TypeOK,
                          ControlType, ServerType, HistoryType, ServerState
      <3> QED
        BY <1>3, <2>2, <3>1 DEF ServersSettle, StillDraining, FlushOnce,
                LifecycleInv, TypeOK, ControlType, ServerType, HistoryType,
                Control, FlushState, ServerState, ForceState, armVars, serverVars,
                NoConnectionSurvivesForce, Phases, GracefulPcs, ForcePcs
    <2> QED
      BY <2>1, <2>2
  <1>4. CASE AfterHookSettles /\ ~GracefulEnds
    BY <1>4 DEF AfterHookSettles, StillDraining, Finish, Cleanup,
                LifecycleInv, TypeOK, ControlType, ServerType, HistoryType,
                Control, FlushState, ServerState, ForceState, serverVars,
                NoConnectionSurvivesForce, Phases, GracefulPcs, ForcePcs
  <1> QED
    BY <1>1, <1>2, <1>3, <1>4, GracefulEndsStep
       DEF BeforeHookSettles, ServersSettle, AfterHookSettles

(* The flush settles, under both coroutines at once.                       *)
LEMMA FlushSettlesStep ==
    ASSUME LifecycleInv, FlushSettles
    PROVE  LifecycleInv'
  <1>1. ControlType'
    BY DEF FlushSettles, StillDraining, Finish, Cleanup, armVars, serverVars,
           LifecycleInv, TypeOK,
           ControlType, Control, Phases, GracefulPcs, ForcePcs
  <1>2. ServerType' /\ HistoryType'
    BY DEF FlushSettles, StillDraining, Finish, Cleanup, armVars, serverVars,
           LifecycleInv, TypeOK,
           ServerType, HistoryType
  <1>3. Control'
    BY DEF FlushSettles, StillDraining, Finish, Cleanup, armVars, serverVars,
           LifecycleInv, TypeOK,
           ControlType, Control, Phases, GracefulPcs, ForcePcs
  <1>4. FlushState'
    BY DEF FlushSettles, StillDraining, Finish, Cleanup, armVars, serverVars,
           LifecycleInv, TypeOK,
           ControlType, HistoryType, Control, FlushState, Phases
  <1>5. ServerState' /\ ForceState'
    BY DEF FlushSettles, StillDraining, Finish, Cleanup, armVars, serverVars,
           LifecycleInv, TypeOK,
           ControlType, Control, ServerType, ServerState, ForceState, NoConnectionSurvivesForce, Phases
  <1> QED
    BY <1>1, <1>2, <1>3, <1>4, <1>5 DEF LifecycleInv, TypeOK

(* The servers move on their own, and dispose() only disarms.              *)
LEMMA OutsideStep ==
    ASSUME LifecycleInv,
           \/ \E s \in Servers : Accept(s) \/ ConnectionsEnd(s) \/ ServerCloses(s)
           \/ Dispose
           \/ GraceTimerFires /\ ~EnterForce
           \/ UNCHANGED vars
    PROVE  LifecycleInv'
  <1>1. ASSUME NEW s \in Servers, Accept(s) \/ ConnectionsEnd(s) PROVE LifecycleInv'
    BY <1>1 DEF Accept, ConnectionsEnd, outsideServers, armVars, pcVars,
                LifecycleInv,
         TypeOK, ControlType, ServerType, HistoryType, Control, FlushState, ServerState, ForceState,
         NoConnectionSurvivesForce, Phases, GracefulPcs, ForcePcs
  <1>2. ASSUME NEW s \in Servers, ServerCloses(s) PROVE LifecycleInv'
    BY <1>2 DEF ServerCloses, outsideServers, armVars, pcVars, LifecycleInv,
         TypeOK, ControlType, ServerType, HistoryType, Control, FlushState, ServerState, ForceState,
         NoConnectionSurvivesForce, Phases, GracefulPcs, ForcePcs
  <1>3. CASE Dispose
    BY <1>3 DEF Dispose, Cleanup, pcVars, serverVars, LifecycleInv,
         TypeOK, ControlType, ServerType, HistoryType, Control, FlushState, ServerState, ForceState,
         NoConnectionSurvivesForce, Phases, GracefulPcs, ForcePcs
  <1>4. CASE GraceTimerFires /\ ~EnterForce
    <2>1. ControlType'
      <3>1. /\ timer' = FALSE
            /\ UNCHANGED <<interactive, phase, resolved, eof, disposed, pcVars, flush>>
        BY <1>4 DEF GraceTimerFires
      <3> QED
        BY Zenon, <3>1 DEF pcVars, LifecycleInv, TypeOK, ControlType
    <2>2. ServerType' /\ HistoryType'
      BY <1>4 DEF GraceTimerFires, pcVars, serverVars, LifecycleInv, TypeOK,
             ServerType, HistoryType
    <2>3. Control'
      BY <1>4 DEF GraceTimerFires, pcVars, serverVars, LifecycleInv, TypeOK,
             ControlType, Control, Phases, GracefulPcs, ForcePcs
    <2>4. FlushState'
      BY <1>4 DEF GraceTimerFires, pcVars, serverVars, LifecycleInv, TypeOK,
             ControlType, HistoryType, Control, FlushState, Phases
    <2>5. ServerState' /\ ForceState'
      BY <1>4 DEF GraceTimerFires, pcVars, serverVars, LifecycleInv, TypeOK,
             ControlType, Control, ServerType, ServerState, ForceState, NoConnectionSurvivesForce, Phases
    <2> QED
      BY <2>1, <2>2, <2>3, <2>4, <2>5 DEF LifecycleInv, TypeOK
  <1>5. CASE UNCHANGED vars
    BY <1>5 DEF vars, armVars, pcVars, serverVars, LifecycleInv,
         TypeOK, ControlType, ServerType, HistoryType, Control, FlushState, ServerState, ForceState,
         NoConnectionSurvivesForce, Phases, GracefulPcs, ForcePcs
  <1> QED
    BY <1>1, <1>2, <1>3, <1>4, <1>5

(* Every step of the controller keeps the invariant.                        *)
LEMMA LifecycleStep == LifecycleInv /\ [Next]_vars => LifecycleInv'
  <1> SUFFICES ASSUME LifecycleInv, [Next]_vars PROVE LifecycleInv'
    OBVIOUS
  <1>1. CASE Signal \/ RequestGraceful
    BY <1>1, ForceStep, GracefulPathStep DEF Signal, RequestGraceful, Trigger
  <1>2. CASE ForceNow \/ StdinEnds \/ (GraceTimerFires /\ EnterForce)
    <2>1. gracefulPc' = gracefulPc
      BY <1>2 DEF ForceNow, StdinEnds, GraceTimerFires, pcVars
    <2> QED
      BY <1>2, <2>1, ForceStep DEF ForceNow, StdinEnds
  <1> QED
    BY <1>1, <1>2, ForcePathStep, GracefulPathStep, FlushSettlesStep, OutsideStep
       DEF Next

-----------------------------------------------------------------------------
(* All that follows rests on one invariant.                                *)
LEMMA LifecycleInvariant == Spec => []LifecycleInv
  BY LifecycleInit, LifecycleStep, PTL DEF Spec

(* Every variable of the controller keeps its type, and a result carries a  *)
(* final phase (finish).                                                   *)
THEOREM TypeCorrect == Spec => []TypeOK
  BY LifecycleInvariant, PTL DEF LifecycleInv

(* The flush hook runs at most once, and once if the shutdown completes     *)
(* (flushOnce), for any number of servers, signals and forces.             *)
THEOREM FlushesOnce == Spec => []FlushedOnce
  <1>1. LifecycleInv => FlushedOnce
    BY DEF LifecycleInv, TypeOK, ControlType, ServerType, HistoryType, Control,
           FlushState, FlushedOnce, GracefulPcs, ForcePcs
  <1> QED
    BY <1>1, LifecycleInvariant, PTL

(* Telemetry is flushed after the last request of the last server, unless  *)
(* the shutdown is forced (the graceful coroutine).                        *)
THEOREM FlushesAfterDrain == Spec => []FlushFollowsDrain
  <1>1. LifecycleInv => FlushFollowsDrain
    BY DEF LifecycleInv, TypeOK, ControlType, ServerType, HistoryType, Control,
           FlushState, ServerState, FlushFollowsDrain, Phases
  <1> QED
    BY <1>1, LifecycleInvariant, PTL

(* The result "closed" means a drain without a force, a complete flush and *)
(* every server closed by itself.                                          *)
THEOREM ClosedMeansGraceful == Spec => []ClosedIsGraceful
  <1>1. LifecycleInv => ClosedIsGraceful
    BY DEF LifecycleInv, TypeOK, ControlType, ServerType, HistoryType, Control,
           FlushState, ServerState, ForceState, ClosedIsGraceful
  <1> QED
    BY <1>1, LifecycleInvariant, PTL

(* force() leaves no server with a connection or a listener, except where   *)
(* the server's own calls failed (force).                                  *)
THEOREM ForceDisconnects == Spec => []NoConnectionSurvivesForce
  BY LifecycleInvariant, PTL DEF LifecycleInv, ForceState

(* The controller implements the transition table of                       *)
(* transitionShutdownState: each step takes one entry of it or none.       *)
THEOREM TableIsImplemented == Spec => ImplementsTransitionTable
  <1>1. Init => Table!Init
    BY DEF Init, Table!Init
  <1>2. LifecycleInv /\ [Next]_vars => [Table!Next]_phase
    <2> SUFFICES ASSUME LifecycleInv, [Next]_vars, phase' # phase
                 PROVE  Table!Next
      OBVIOUS
    <2>1. \/ phase' = "draining" /\ phase = "running"
          \/ phase' = "forced" /\ phase \in {"running", "draining"}
          \/ phase' = "closed" /\ phase = "draining"
      <3>1. CASE EnterForce
        BY <3>1 DEF EnterForce, CanForce, LifecycleInv, TypeOK, ControlType,
                    ServerType, HistoryType, Phases
      <3>2. CASE ~EnterForce
        BY <3>2 DEF Next, vars, Signal, RequestGraceful, Trigger, BeginGraceful,
                    ForceNow,
               StdinEnds, Dispose, GraceTimerFires, ForceDeadline, AfterForceHook, Finish,
               BeforeHookSettles, CloseGracefully, GracefulEnds, ServersSettle, FlushSettles,
               AfterHookSettles, StillDraining, ForceHookSettles, Accept, ConnectionsEnd,
               ServerCloses, outsideServers, LifecycleInv, Control
      <3> QED
        BY <3>1, <3>2
    <2> QED
      BY <2>1 DEF Table!Next, Table!Transitions
  <1> QED
    BY <1>1, <1>2, LifecycleInvariant, PTL
       DEF Spec, ImplementsTransitionTable, Table!Spec

-----------------------------------------------------------------------------
(* What is armed: nothing before a request, and nothing after cleanup, but  *)
(* for a cleanup that came before the request.                             *)
ArmState ==
    /\ phase = "running" => timer = FALSE /\ eof = FALSE
    /\ resolved = TRUE => disposed = TRUE
    /\ disposed = TRUE /\ early = FALSE
         => timer = FALSE /\ eof = FALSE /\ phase # "running"

(* Every step keeps what is armed in step with the phase.                   *)
LEMMA ArmStep ==
    ASSUME LifecycleInv, ArmState, [Next]_vars
    PROVE  ArmState'
  <1>0. /\ timer \in BOOLEAN /\ eof \in BOOLEAN /\ disposed \in BOOLEAN
        /\ resolved \in BOOLEAN
    BY DEF LifecycleInv, TypeOK, ControlType
  <1>1. CASE EnterForce
    BY <1>1 DEF EnterForce, ArmState
  <1>2. ASSUME NEW sigint \in BOOLEAN, BeginGraceful(sigint) PROVE ArmState'
    BY <1>2 DEF BeginGraceful, ArmState
  <1>3. CASE Dispose
    BY <1>0, <1>3 DEF Dispose, Cleanup, ArmState
  <1>4. ASSUME NEW p \in {"forced", "closed"}, Finish(p), early' = early PROVE ArmState'
    BY <1>0, <1>4 DEF Finish, Cleanup, ArmState
  <1>5. CASE timer' = FALSE /\ UNCHANGED <<phase, resolved, eof, disposed, early>>
    BY <1>5 DEF ArmState
  <1>6. CASE UNCHANGED <<phase, resolved, timer, eof, disposed, early>>
    BY <1>6 DEF ArmState
  <1>7. CASE Signal \/ RequestGraceful \/ ForceNow \/ StdinEnds \/ GraceTimerFires
    BY <1>1, <1>2, <1>5, <1>7
       DEF Signal, RequestGraceful, Trigger, ForceNow, StdinEnds, GraceTimerFires
  <1>8. CASE ForceDeadline \/ ForceHookSettles \/ FlushSettles \/ AfterHookSettles
    BY <1>4, <1>6, <1>8
       DEF ForceDeadline, ForceHookSettles, AfterForceHook, FlushSettles,
           AfterHookSettles,
           GracefulEnds, armVars
  <1>9. CASE BeforeHookSettles \/ ServersSettle
    BY <1>1, <1>6, <1>9
       DEF BeforeHookSettles, CloseGracefully, GracefulEnds, ServersSettle, armVars
  <1>10. ASSUME NEW s \in Servers, Accept(s) \/ ConnectionsEnd(s) \/ ServerCloses(s)
         PROVE  ArmState'
    BY <1>6, <1>10 DEF Accept, ConnectionsEnd, ServerCloses, outsideServers, armVars
  <1>11. CASE UNCHANGED vars
    BY <1>6, <1>11 DEF vars, armVars
  <1> QED
    BY <1>3, <1>7, <1>8, <1>9, <1>10, <1>11 DEF Next

(* A resolved controller leaves no timer armed and stdin as it found it     *)
(* (cleanup), unless dispose() came before the shutdown.                   *)
THEOREM NothingStaysArmed == Spec => []NothingLeftArmed
  <1>1. Init => ArmState
    BY DEF Init, ArmState
  <1>2. LifecycleInv /\ ArmState => NothingLeftArmed
    BY DEF LifecycleInv, TypeOK, ControlType, HistoryType, ArmState,
           NothingLeftArmed
  <1> QED
    BY <1>1, <1>2, ArmStep, LifecycleInvariant, PTL DEF Spec
=============================================================================
