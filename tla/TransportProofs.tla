---------------------------- MODULE TransportProofs ----------------------------
(***************************************************************************)
(* Proofs about the transports of MCTransports, for every value of the     *)
(* constants its assumptions allow.  Each transport has an inductive       *)
(* invariant of its own over the record `state', and a part of this module *)
(* that shows that it holds at the start, is kept by every step and gives  *)
(* what the runs check; the last part puts the subjects together.          *)
(***************************************************************************)
EXTENDS MCTransports, ListTheorems, FiniteSetTheorems, TLAPS

(***************************************************************************)
(* Part 1: the session transport                                           *)
(***************************************************************************)

LegStates == {"idle", "none", "open", "ok", "failed"}
CallPcs == {"idle", "ingest", "realtime", "resolved", "rejected"}

SmType ==
    state \in [legs : (SUBSET Session!Legs) \ {{}},
               leg : [SmCalls -> [Session!Legs -> LegStates]],
               pc : [SmCalls -> CallPcs],
               right : [SmCalls -> BOOLEAN]]

(* A call waits for an open leg, ingest first, and a settled call has none. *)
CallInOrder(c) ==
    LET ingest == state.leg[c]["ingest"]
        realtime == state.leg[c]["realtime"]
        pc == state.pc[c]
    IN  /\ pc = "idle" => ingest = "idle" /\ realtime = "idle"
        /\ pc = "ingest" => ingest = "open"
        /\ pc = "realtime" => realtime = "open" /\ ingest \notin {"open", "failed"}
        /\ pc = "resolved" => ingest \notin {"open", "failed"} /\ realtime # "open"
        /\ pc = "rejected" => \/ ingest = "failed"
                              \/ ~state.right[c] /\ ingest = "idle" /\ realtime = "idle"

SmInv == SmType /\ \A c \in SmCalls : CallInOrder(c)

LEMMA LegsAreTwo == Session!Legs = {"realtime", "ingest"}
  BY DEF Session!Legs

LEMMA SessionInit == Session!SmInit => SmInv
  BY LegsAreTwo DEF Session!SmInit, SmInv, SmType, CallInOrder, LegStates, CallPcs

LEMMA SessionCall ==
    ASSUME SmInv, NEW c \in SmCalls, NEW isWrite \in BOOLEAN,
           Session!SmCall(c, isWrite)
    PROVE  SmInv'
  <1>1. CASE isWrite /\ ~state.right[c]
    <2>1. state' = [state EXCEPT !.pc[c] = "rejected"] /\ state.pc[c] = "idle"
      BY <1>1 DEF Session!SmCall
    <2>2. SmType'
      BY <2>1 DEF SmInv, SmType, CallPcs
    <2>3. ASSUME NEW d \in SmCalls PROVE CallInOrder(d)'
      BY <1>1, <2>1, LegsAreTwo DEF SmInv, SmType, CallInOrder
    <2> QED
      BY <2>2, <2>3 DEF SmInv
  <1>2. CASE ~(isWrite /\ ~state.right[c])
    <2>1. /\ state' = [state EXCEPT
                 !.leg[c] = [l \in Session!Legs |-> IF l \in state.legs THEN "open" ELSE "none"],
                 !.pc[c] = IF "ingest" \in state.legs THEN "ingest" ELSE "realtime"]
          /\ state.pc[c] = "idle"
      BY <1>2 DEF Session!SmCall
    <2>2. SmType'
      BY <2>1 DEF SmInv, SmType, CallPcs, LegStates
    <2>3. state.legs # {} /\ state.legs \subseteq {"realtime", "ingest"}
      BY LegsAreTwo DEF SmInv, SmType
    <2>4. ASSUME NEW d \in SmCalls PROVE CallInOrder(d)'
      BY <2>1, <2>3, LegsAreTwo DEF SmInv, SmType, CallInOrder
    <2> QED
      BY <2>2, <2>4 DEF SmInv
  <1> QED
    BY <1>1, <1>2

LEMMA SessionSettles ==
    ASSUME SmInv, NEW c \in SmCalls, NEW l \in Session!Legs, NEW ok \in BOOLEAN,
           Session!LegSettles(c, l, ok)
    PROVE  SmInv'
  <1> DEFINE how == IF ok THEN "ok" ELSE "failed"
             x == [state EXCEPT !.leg[c][l] = how]
             ingest == x.leg[c]["ingest"]
             realtime == x.leg[c]["realtime"]
             pc == IF x.pc[c] = "rejected" \/ ingest = "open" THEN x.pc[c]
                   ELSE IF ingest = "failed" THEN "rejected"
                   ELSE IF realtime = "open" THEN "realtime" ELSE "resolved"
  <1>1. state.leg[c][l] = "open" /\ state' = Session!Resume(x, c)
    BY DEF Session!LegSettles
  <1>2. /\ x.legs = state.legs /\ x.right = state.right /\ x.pc = state.pc
        /\ x.leg = [state.leg EXCEPT ![c][l] = how]
        /\ x \in [legs : (SUBSET Session!Legs) \ {{}},
                  leg : [SmCalls -> [Session!Legs -> LegStates]],
                  pc : [SmCalls -> CallPcs], right : [SmCalls -> BOOLEAN]]
    BY DEF SmInv, SmType, LegStates
  <1> HIDE DEF x
  <1>3. state' = [x EXCEPT !.pc[c] = pc]
    BY <1>1, <1>2 DEF Session!Resume
  <1>4. pc \in CallPcs
    BY <1>2 DEF CallPcs
  <1> HIDE DEF pc
  <1>5. SmType'
    BY <1>2, <1>3, <1>4 DEF SmType
  <1>6. state'.leg = x.leg /\ state'.right = x.right /\ state'.pc = [state.pc EXCEPT ![c] = pc]
    BY <1>2, <1>3
  <1>7. ASSUME NEW d \in SmCalls PROVE CallInOrder(d)'
    <2>1. CASE d # c
      BY <1>2, <1>6, <2>1, LegsAreTwo DEF SmInv, SmType, CallInOrder
    <2>2. CASE d = c
      <3>1. /\ CallInOrder(c) /\ state.leg[c] \in [Session!Legs -> LegStates]
            /\ state.pc[c] \in CallPcs
        BY DEF SmInv, SmType
      <3>2. /\ state'.leg[c] = [state.leg[c] EXCEPT ![l] = how]
            /\ state'.pc[c] = pc /\ state'.right[c] = state.right[c]
        BY <1>2, <1>6 DEF SmInv, SmType
      <3>3. l = "ingest" \/ l = "realtime"
        BY LegsAreTwo
      <3>4. /\ ingest = [state.leg[c] EXCEPT ![l] = how]["ingest"]
            /\ realtime = [state.leg[c] EXCEPT ![l] = how]["realtime"]
            /\ x.pc[c] = state.pc[c]
        BY <1>2 DEF SmInv, SmType
      <3> QED
        BY <1>1, <2>2, <3>1, <3>2, <3>3, <3>4, LegsAreTwo
        DEF CallInOrder, pc, CallPcs, LegStates
    <2> QED
      BY <2>1, <2>2
  <1> QED
    BY <1>5, <1>7 DEF SmInv

LEMMA SessionStep == SmInv /\ Session!SmNext => SmInv'
  BY SessionCall, SessionSettles DEF Session!SmNext

LEMMA SessionSettled == SmInv => Session!DurableDecides
  BY LegsAreTwo DEF SmInv, SmType, CallInOrder, CallPcs, Session!DurableDecides

(***************************************************************************)
(* Part 2: the error tracking transport                                    *)
(***************************************************************************)

EtStates ==
    [phase : [EtWrites -> {"new", "posting", "done", "skipped", "failed"}],
     endpoint : [EtWrites -> 0..2],
     seen : Seq(Tracking!Hashes),
     endpoints : {1, 2}, dedupe : BOOLEAN, beacon : BOOLEAN,
     delivered : SUBSET Tracking!Hashes]

(* A hash is told of when it was delivered or a write of it still posts.    *)
ToldOf(x, h) ==
    h \in x.delivered \/ \E w \in EtWrites : EtHash[w] = h /\ x.phase[w] = "posting"

EtGood(x) ==
    /\ x \in EtStates
    /\ \A w \in EtWrites : x.endpoint[w] <= x.endpoints
    /\ Once(x.seen) /\ Len(x.seen) <= EtMaxHashes
    /\ ~x.dedupe => x.seen = <<>>
    /\ \A h \in Elements(x.seen) : ToldOf(x, h)

LEMMA HashType == \A w \in EtWrites : EtHash[w] \in Tracking!Hashes
  BY DEF Tracking!Hashes

LEMMA TrackingInit == Tracking!EtInit => EtGood(state)
  <1> SUFFICES ASSUME Tracking!EtInit PROVE EtGood(state)
    OBVIOUS
  <1>1. /\ state \in EtStates /\ state.seen = <<>> /\ Len(state.seen) = 0
        /\ \A w \in EtWrites : state.endpoint[w] = 0
    <2>1. /\ state.phase = [w \in EtWrites |-> "new"]
          /\ state.endpoint = [w \in EtWrites |-> 0]
          /\ state.seen = <<>> /\ state.endpoints \in {1, 2}
          /\ state.dedupe \in BOOLEAN /\ state.beacon \in BOOLEAN
          /\ state.delivered = {}
          /\ state = [phase |-> state.phase, endpoint |-> state.endpoint,
                      seen |-> state.seen, endpoints |-> state.endpoints,
                      dedupe |-> state.dedupe, beacon |-> state.beacon,
                      delivered |-> state.delivered]
      BY DEF Tracking!EtInit
    <2>2. <<>> \in Seq(Tracking!Hashes) /\ Len(<<>>) = 0
      BY EmptySeq
    <2>3. state.phase \in [EtWrites -> {"new", "posting", "done", "skipped", "failed"}]
      BY <2>1
    <2>4. state.endpoint \in [EtWrites -> 0..2]
      BY <2>1
    <2>5. state \in EtStates
      BY <2>1, <2>2, <2>3, <2>4 DEF EtStates
    <2> QED
      BY <2>1, <2>2, <2>5
  <1> QED
    BY <1>1, OnceEmpty, TrackingAssumption DEF EtGood, EtStates

LEMMA TrackingForget ==
    ASSUME NEW x \in EtStates, NEW h
    PROVE  LET y == Tracking!Forget(x, h)
           IN  /\ y \in EtStates
               /\ y.phase = x.phase /\ y.endpoint = x.endpoint
               /\ y.endpoints = x.endpoints /\ y.dedupe = x.dedupe
               /\ y.delivered = x.delivered
               /\ y.seen = Without(x.seen, {h})
  <1> DEFINE y == Tracking!Forget(x, h)
             w == Without(x.seen, {h})
  <1>1. Tracking!Without(x.seen, {h}) = w
    BY DEF Tracking!Without, Without
  <1>2. y = [x EXCEPT !.seen = w]
    BY <1>1 DEF Tracking!Forget
  <1>3. x.seen \in Seq(Tracking!Hashes)
    BY DEF EtStates
  <1>4. w \in Seq(Tracking!Hashes)
    BY <1>3, OnceWithout
  <1> HIDE DEF w, y
  <1>5. /\ y \in EtStates
        /\ y.phase = x.phase /\ y.endpoint = x.endpoint
        /\ y.endpoints = x.endpoints /\ y.dedupe = x.dedupe
        /\ y.delivered = x.delivered /\ y.seen = w
    BY <1>2, <1>4 DEF EtStates
  <1> QED
    BY <1>5 DEF w, y

(* The eviction keeps what it keeps once, and makes room.                   *)
LEMMA TrackingRemember ==
    ASSUME NEW x \in EtStates, NEW h \in Tracking!Hashes,
           Once(x.seen), Len(x.seen) <= EtMaxHashes, h \notin Elements(x.seen)
    PROVE  LET y == Tracking!Remember(x, h)
           IN  /\ y = [x EXCEPT !.seen = y.seen] /\ y.seen \in Seq(Tracking!Hashes)
               /\ Once(y.seen) /\ Len(y.seen) <= EtMaxHashes
               /\ Elements(y.seen) \subseteq Elements(x.seen) \cup {h}
  <1> DEFINE s == x.seen
             half == EtMaxHashes \div 2
             t == IF Len(s) >= EtMaxHashes THEN SubSeq(s, half + 1, Len(s)) ELSE s
             y == Tracking!Remember(x, h)
  <1>1. y = [x EXCEPT !.seen = Append(t, h)]
    BY DEF Tracking!Remember
  <1>2. s \in Seq(Tracking!Hashes) /\ Len(s) \in Nat
    BY LenProperties DEF EtStates
  <1>3. half \in 1..EtMaxHashes
    BY TrackingAssumption
  <1> HIDE DEF half
  <1>4. /\ t \in Seq(Tracking!Hashes) /\ Once(t) /\ Len(t) + 1 <= EtMaxHashes
        /\ Elements(t) \subseteq Elements(s)
    <2>1. CASE Len(s) >= EtMaxHashes
      <3> DEFINE b == SubSeq(s, half + 1, Len(s))
      <3>1. half \in 0..Len(s)
        BY <1>2, <1>3, <2>1, TrackingAssumption
      <3>2. /\ b \in Seq(Tracking!Hashes) /\ Len(b) = Len(s) - half /\ Once(b)
            /\ Elements(b) \subseteq Elements(s)
        BY <1>2, <3>1, OnceCut
      <3>3. t = b
        BY <2>1
      <3> HIDE DEF b, t
      <3> QED
        BY <1>2, <1>3, <3>2, <3>3, TrackingAssumption
    <2>2. CASE ~(Len(s) >= EtMaxHashes)
      BY <1>2, <2>2, TrackingAssumption
    <2> QED
      BY <2>1, <2>2
  <1> HIDE DEF t
  <1>5. /\ Append(t, h) \in Seq(Tracking!Hashes) /\ Len(Append(t, h)) = Len(t) + 1
        /\ Elements(Append(t, h)) = Elements(t) \cup {h}
        /\ h \notin Elements(t) => Once(Append(t, h))
    BY <1>4, OnceAppend
  <1>6. y.seen = Append(t, h)
    BY <1>1 DEF EtStates
  <1> HIDE DEF y, s
  <1>7. Elements(t) \subseteq Elements(x.seen)
    BY <1>4 DEF s
  <1> QED
    BY <1>1, <1>4, <1>5, <1>6, <1>7 DEF y

LEMMA TrackingWrite ==
    ASSUME EtGood(state), NEW w \in EtWrites, Tracking!EtWrite(w)
    PROVE  EtGood(state')
  <1> DEFINE h == EtHash[w]
             skip == [state EXCEPT !.phase[w] = "skipped"]
  <1>1. h \in Tracking!Hashes /\ state.phase[w] = "new" /\ state \in EtStates
    BY HashType DEF Tracking!EtWrite, EtGood
  <1>2. ASSUME NEW x, x = [state EXCEPT !.seen = x.seen], x.seen \in Seq(Tracking!Hashes),
               Once(x.seen), Len(x.seen) <= EtMaxHashes, ~x.dedupe => x.seen = <<>>,
               Elements(x.seen) \subseteq Elements(state.seen) \cup {h},
               state' = Tracking!Posts(x, w)
        PROVE  EtGood(state')
    <2>1. /\ x \in EtStates /\ x.phase = state.phase /\ x.endpoint = state.endpoint
          /\ x.endpoints = state.endpoints /\ x.delivered = state.delivered
          /\ x.dedupe = state.dedupe
      BY <1>1, <1>2 DEF EtStates
    <2>2. state' = [x EXCEPT !.phase[w] = "posting", !.endpoint[w] = 1]
      BY <1>2 DEF Tracking!Posts
    <2>3. /\ state' \in EtStates /\ state'.seen = x.seen /\ state'.delivered = x.delivered
          /\ state'.phase = [state.phase EXCEPT ![w] = "posting"]
          /\ state'.endpoint = [state.endpoint EXCEPT ![w] = 1]
          /\ state'.endpoints = x.endpoints /\ state'.dedupe = x.dedupe
      <3>1. /\ state'.seen = x.seen /\ state'.delivered = x.delivered
            /\ state'.phase = [x.phase EXCEPT ![w] = "posting"]
            /\ state'.endpoint = [x.endpoint EXCEPT ![w] = 1]
            /\ state'.endpoints = x.endpoints /\ state'.dedupe = x.dedupe
        BY <2>1, <2>2 DEF EtStates
      <3>2. [x.phase EXCEPT ![w] = "posting"] \in
                [EtWrites -> {"new", "posting", "done", "skipped", "failed"}]
        BY <2>1 DEF EtStates
      <3>3. [x.endpoint EXCEPT ![w] = 1] \in [EtWrites -> 0..2]
        BY <2>1 DEF EtStates
      <3>4. state' = [[x EXCEPT !.phase = [x.phase EXCEPT ![w] = "posting"]]
                        EXCEPT !.endpoint = [x.endpoint EXCEPT ![w] = 1]]
        BY <2>1, <2>2 DEF EtStates
      <3>5. state' \in EtStates
        BY <2>1, <3>2, <3>3, <3>4 DEF EtStates
      <3> QED
        BY <2>1, <3>1, <3>5
    <2>4. ToldOf(state', h)
      BY <1>1, <2>3 DEF ToldOf, EtStates
    <2>5. \A g : ToldOf(state, g) => ToldOf(state', g)
      BY <1>1, <2>1, <2>3 DEF ToldOf, EtStates
    <2>6. \A v \in EtWrites : state'.endpoint[v] <= state'.endpoints
      BY <1>1, <2>1, <2>3 DEF EtGood, EtStates
    <2> QED
      BY <1>2, <2>1, <2>3, <2>4, <2>5, <2>6 DEF EtGood
  <1>3. CASE state' = skip
    <2>1. /\ state' \in EtStates /\ state'.seen = state.seen
          /\ state'.delivered = state.delivered /\ state'.endpoint = state.endpoint
          /\ state'.phase = [state.phase EXCEPT ![w] = "skipped"]
          /\ state'.endpoints = state.endpoints /\ state'.dedupe = state.dedupe
      BY <1>1, <1>3 DEF EtStates
    <2>2. \A g : ToldOf(state, g) => ToldOf(state', g)
      BY <1>1, <2>1 DEF ToldOf, EtStates
    <2> QED
      BY <2>1, <2>2 DEF EtGood
  <1>4. CASE ~state.dedupe /\ state' = Tracking!Posts(state, w)
    <2>1. state = [state EXCEPT !.seen = state.seen] /\ state.seen \in Seq(Tracking!Hashes)
      BY <1>1 DEF EtStates
    <2> QED
      BY <1>2, <1>4, <2>1 DEF EtGood
  <1>5. CASE /\ state.dedupe /\ h \notin Tracking!Range(state.seen)
             /\ state' = Tracking!Posts(Tracking!Remember(state, h), w)
    <2>1. h \notin Elements(state.seen)
      BY <1>5 DEF Elements, Tracking!Range
    <2> DEFINE x == Tracking!Remember(state, h)
    <2>2. /\ x = [state EXCEPT !.seen = x.seen] /\ x.seen \in Seq(Tracking!Hashes)
          /\ Once(x.seen) /\ Len(x.seen) <= EtMaxHashes
          /\ Elements(x.seen) \subseteq Elements(state.seen) \cup {h}
      BY <1>1, <2>1, TrackingRemember DEF EtGood
    <2> HIDE DEF x
    <2>3. x.dedupe = state.dedupe
      BY <1>1, <2>2 DEF EtStates
    <2>4. state' = Tracking!Posts(x, w)
      BY <1>5 DEF x
    <2> QED
      BY <1>2, <1>5, <2>2, <2>3, <2>4
  <1> QED
    BY <1>3, <1>4, <1>5 DEF Tracking!EtWrite

LEMMA TrackingTaken ==
    ASSUME EtGood(state), NEW w \in EtWrites, Tracking!PostTaken(w)
    PROVE  EtGood(state')
  <1>1. state \in EtStates /\ EtHash[w] \in Tracking!Hashes
    BY HashType DEF EtGood
  <1>2. /\ state' \in EtStates /\ state'.seen = state.seen
        /\ state'.delivered = state.delivered \cup {EtHash[w]}
        /\ state'.phase = [state.phase EXCEPT ![w] = "done"]
        /\ state'.endpoint = state.endpoint
        /\ state'.endpoints = state.endpoints /\ state'.dedupe = state.dedupe
    BY <1>1 DEF EtStates, Tracking!PostTaken
  <1>3. \A g : ToldOf(state, g) => ToldOf(state', g)
    BY <1>1, <1>2 DEF ToldOf, EtStates
  <1> QED
    BY <1>2, <1>3 DEF EtGood

LEMMA TrackingFails ==
    ASSUME EtGood(state), NEW w \in EtWrites, Tracking!PostFails(w)
    PROVE  EtGood(state')
  <1> DEFINE h == EtHash[w]
             z == [state EXCEPT !.phase[w] = "failed"]
             y == IF state.endpoint[w] < state.endpoints
                  THEN [state EXCEPT !.endpoint[w] = @ + 1]
                  ELSE IF state.dedupe THEN Tracking!Forget(z, h) ELSE z
  <1>1. state \in EtStates /\ h \in Tracking!Hashes /\ state.phase[w] = "posting"
    BY HashType DEF EtGood, Tracking!PostFails
  <1>2. PICK taken \in BOOLEAN :
            state' = IF taken THEN [y EXCEPT !.delivered = @ \cup {h}] ELSE y
    BY DEF Tracking!PostFails
  <1>3. EtGood(y)
    <2>1. CASE state.endpoint[w] < state.endpoints
      <3>1. y = [state EXCEPT !.endpoint[w] = @ + 1]
        BY <2>1
      <3>2. state.endpoint[w] + 1 \in 0..2 /\ state.endpoint[w] + 1 <= state.endpoints
        BY <1>1, <2>1 DEF EtStates
      <3> HIDE DEF y
      <3>3. /\ y \in EtStates /\ y.seen = state.seen /\ y.delivered = state.delivered
            /\ y.phase = state.phase /\ y.endpoints = state.endpoints
            /\ y.dedupe = state.dedupe
            /\ y.endpoint = [state.endpoint EXCEPT ![w] = state.endpoint[w] + 1]
        BY <1>1, <3>1, <3>2 DEF EtStates
      <3>4. \A v \in EtWrites : y.endpoint[v] <= y.endpoints
        BY <1>1, <3>2, <3>3 DEF EtGood, EtStates
      <3> QED
        BY <3>3, <3>4 DEF EtGood, ToldOf
    <2>2. CASE ~(state.endpoint[w] < state.endpoints)
      <3>1. /\ z \in EtStates /\ z.seen = state.seen /\ z.delivered = state.delivered
            /\ z.phase = [state.phase EXCEPT ![w] = "failed"]
            /\ z.endpoints = state.endpoints
            /\ z.dedupe = state.dedupe /\ z.endpoint = state.endpoint
        BY <1>1 DEF EtStates
      <3>2. \A g : g # h /\ ToldOf(state, g) => ToldOf(z, g)
        BY <1>1, <3>1 DEF ToldOf, EtStates
      <3>3. CASE ~state.dedupe
        <4>1. y = z /\ state.seen = <<>>
          BY <2>2, <3>3 DEF EtGood
        <4> HIDE DEF y, z
        <4> QED
          BY <3>1, <3>2, <4>1, OnceEmpty DEF EtGood
      <3>4. CASE state.dedupe
        <4>1. y = Tracking!Forget(z, h)
          BY <2>2, <3>4
        <4> HIDE DEF y, z, h
        <4>2. /\ y \in EtStates /\ y.phase = z.phase /\ y.endpoint = z.endpoint
              /\ y.endpoints = z.endpoints /\ y.dedupe = z.dedupe
              /\ y.delivered = z.delivered /\ y.seen = Without(z.seen, {h})
          BY <3>1, <4>1, TrackingForget
        <4>3. /\ Len(y.seen) <= Len(z.seen) /\ Len(y.seen) \in Nat
              /\ Elements(y.seen) = Elements(z.seen) \ {h}
              /\ Once(z.seen) => Once(y.seen)
          <5>1. z.seen \in Seq(Tracking!Hashes)
            BY <3>1 DEF EtStates
          <5> QED
            BY <4>2, <5>1, OnceWithout
        <4>4. \A g : ToldOf(z, g) => ToldOf(y, g)
          BY <4>2 DEF ToldOf
        <4>5. Len(y.seen) <= EtMaxHashes
          <5>1. Len(state.seen) \in Nat
            BY <1>1, LenProperties DEF EtStates
          <5> QED
            BY <5>1, <3>1, <4>3, TrackingAssumption DEF EtGood
        <4> QED
          BY <3>1, <3>2, <3>4, <4>2, <4>3, <4>4, <4>5 DEF EtGood
      <3> QED
        BY <3>3, <3>4
    <2> QED
      BY <2>1, <2>2
  <1> HIDE DEF y, h
  <1>4. CASE ~taken
    BY <1>2, <1>3, <1>4
  <1>5. CASE taken
    <2>1. state' = [y EXCEPT !.delivered = @ \cup {h}]
      BY <1>2, <1>5
    <2>2. /\ state' \in EtStates /\ state'.seen = y.seen /\ state'.phase = y.phase
          /\ state'.delivered = y.delivered \cup {h} /\ state'.endpoint = y.endpoint
          /\ state'.endpoints = y.endpoints /\ state'.dedupe = y.dedupe
      BY <1>1, <1>3, <2>1 DEF EtStates, EtGood
    <2>3. \A g : ToldOf(y, g) => ToldOf(state', g)
      BY <2>2 DEF ToldOf
    <2> QED
      BY <1>3, <2>2, <2>3 DEF EtGood
  <1> QED
    BY <1>4, <1>5

LEMMA TrackingBeacons ==
    ASSUME EtGood(state), Tracking!ExitBeacons
    PROVE  EtGood(state')
  <1>1. state \in EtStates
    BY DEF EtGood
  <1>2. PICK queued \in SUBSET {w \in EtWrites \ EtBelow : state.phase[w] = "posting"} :
            state' = [state EXCEPT !.beacon = FALSE,
                                   !.delivered = @ \cup {EtHash[w] : w \in queued}]
    BY DEF Tracking!ExitBeacons
  <1> DEFINE H == {EtHash[w] : w \in queued}
  <1>3. H \subseteq Tracking!Hashes
    BY HashType
  <1>4. state' = [state EXCEPT !.beacon = FALSE, !.delivered = @ \cup H]
    BY <1>2
  <1> HIDE DEF H
  <1>5. /\ state' \in EtStates /\ state'.seen = state.seen /\ state'.phase = state.phase
        /\ state'.delivered = state.delivered \cup H /\ state'.endpoint = state.endpoint
        /\ state'.endpoints = state.endpoints /\ state'.dedupe = state.dedupe
    BY <1>1, <1>3, <1>4 DEF EtStates
  <1>6. \A g : ToldOf(state, g) => ToldOf(state', g)
    BY <1>5 DEF ToldOf
  <1> QED
    BY <1>5, <1>6 DEF EtGood

LEMMA TrackingStep == EtGood(state) /\ Tracking!EtNext => EtGood(state')
  BY TrackingWrite, TrackingTaken, TrackingFails, TrackingBeacons DEF Tracking!EtNext

LEMMA TrackingTold == EtGood(state) => Tracking!EtTypeOK /\ Tracking!SeenMeansTold
  <1> SUFFICES ASSUME EtGood(state) PROVE Tracking!EtTypeOK /\ Tracking!SeenMeansTold
    OBVIOUS
  <1>1. state \in EtStates /\ state.seen \in Seq(Tracking!Hashes)
    BY DEF EtGood, EtStates
  <1>2. /\ Elements(state.seen) \subseteq Tracking!Hashes
        /\ Elements(state.seen) = Range(state.seen)
        /\ IsInjective(state.seen)
    BY <1>1, ElementsType DEF EtGood
  <1>3. Range(state.seen) = Tracking!Range(state.seen)
    BY DEF Range, Tracking!Range
  <1>4. Tracking!IsInjective(state.seen)
    BY <1>2 DEF IsInjective, Tracking!IsInjective
  <1>5. Tracking!SeenMeansTold
    BY <1>2, <1>3 DEF EtGood, ToldOf, Tracking!SeenMeansTold
  <1>6. state.endpoint \in [EtWrites -> 0..state.endpoints]
    BY <1>1 DEF EtGood, EtStates
  <1> QED
    BY <1>1, <1>2, <1>3, <1>4, <1>5, <1>6 DEF EtGood, EtStates, Tracking!EtTypeOK

(***************************************************************************)
(* Part 3: the local journal                                               *)
(***************************************************************************)

FileNames == LjProcesses \X LjKinds \X Nat \X Nat
Entries == [record : LjRecords, ended : BOOLEAN]
FileSets == UNION {[D -> Seq(Entries)] : D \in SUBSET FileNames}
WriterStates == [start : Nat, seq : Nat, count : Nat, open : BOOLEAN]
PruneStates == [on : BOOLEAN, cutoff : Nat, todo : SUBSET LjProcesses]
Answers == {"new", "waiting", "pruning", "ok", "error", "budget", "no directory", "crashed"}

JournalStates ==
    [clock : Nat, dirs : SUBSET LjProcesses, files : FileSets,
     pc : [LjProcesses -> {"new", "opening", "open", "failed", "crashed"}],
     writer : [LjProcesses -> [LjKinds -> WriterStates]],
     total : [LjProcesses -> Nat],
     prune : [Journal!Agents -> PruneStates],
     told : [LjRecords -> Answers],
     start : [LjRecords -> Nat],
     home : [LjRecords -> {<<>>} \cup (LjProcesses \X LjKinds) \cup FileNames]]

(* The segment that starts at s is older than the retention.                *)
Expires(x, s) == s + LjRetention + 1 <= x.clock

(* A record that is in a file has been written, and it is in one place.     *)
OneFile(x) ==
    /\ \A f \in DOMAIN x.files : \A i \in 1..Len(x.files[f]) :
          x.told[x.files[f][i].record] \notin {"new", "waiting"}
    /\ \A f, g \in DOMAIN x.files :
          \A i \in 1..Len(x.files[f]), j \in 1..Len(x.files[g]) :
              x.files[f][i].record = x.files[g][j].record => f = g /\ i = j
    /\ \A f \in DOMAIN x.files : f[1] \in x.dirs

(* An open writer has its file, or the file is old.                         *)
WriterFile(x, p, k) == <<p, k, x.writer[p][k].start, x.writer[p][k].seq>>
WritersHaveFiles(x) ==
    \A p \in LjProcesses, k \in LjKinds :
        x.writer[p][k].open =>
            WriterFile(x, p, k) \in DOMAIN x.files \/ Expires(x, x.writer[p][k].start)

(* What is pruned was old when the pruning began.                           *)
PrunesTheOld(x) ==
    /\ LjRetention <= x.clock
    /\ \A a \in Journal!Agents : x.prune[a].cutoff + LjRetention <= x.clock
    /\ \A r \in LjRecords : x.prune[r].on => x.told[r] = "pruning"

(* A record that waits for the lock knows where to go; one that is written  *)
(* is in a file of its segment, until that is old.                          *)
KeepsRecords(x) ==
    /\ \A r \in LjRecords :
          x.told[r] = "waiting" => x.home[r] \in LjProcesses \X LjKinds
    /\ \A r \in LjRecords : x.told[r] \in {"ok", "pruning"} =>
          \/ Expires(x, x.start[r])
          \/ /\ x.home[r] \in DOMAIN x.files /\ x.home[r][3] = x.start[r]
             /\ [record |-> r, ended |-> TRUE] \in Elements(x.files[x.home[r]])

JournalGood(x) ==
    /\ x \in JournalStates /\ IsFiniteSet(DOMAIN x.files)
    /\ OneFile(x) /\ WritersHaveFiles(x) /\ PrunesTheOld(x) /\ KeepsRecords(x)

-----------------------------------------------------------------------------
LEMMA RetentionType == LjRetention \in Nat
  BY JournalAssumption

USE RetentionType

LEMMA FilesType ==
    ASSUME NEW F
    PROVE  F \in FileSets <=> /\ F = [f \in DOMAIN F |-> F[f]]
                              /\ DOMAIN F \subseteq FileNames
                              /\ \A f \in DOMAIN F : F[f] \in Seq(Entries)
  <1>1. ASSUME F \in FileSets
        PROVE  /\ F = [f \in DOMAIN F |-> F[f]] /\ DOMAIN F \subseteq FileNames
               /\ \A f \in DOMAIN F : F[f] \in Seq(Entries)
    <2>1. PICK D \in SUBSET FileNames : F \in [D -> Seq(Entries)]
      BY <1>1 DEF FileSets
    <2> QED
      BY <2>1
  <1>2. ASSUME F = [f \in DOMAIN F |-> F[f]], DOMAIN F \subseteq FileNames,
               \A f \in DOMAIN F : F[f] \in Seq(Entries)
        PROVE  F \in FileSets
    <2>1. F \in [DOMAIN F -> Seq(Entries)]
      BY <1>2
    <2> QED
      BY <1>2, <2>1 DEF FileSets
  <1> QED
    BY <1>1, <1>2

(* The first sequence number that is free exists.                           *)
LEMMA FreeNumber ==
    ASSUME NEW T, IsFiniteSet(T), NEW first \in Nat
    PROVE  LET seq == CHOOSE n \in first..(first + Cardinality(T)) :
                          n \notin T /\ \A m \in first..(n - 1) : m \in T
           IN  seq \in Nat /\ seq \notin T
  <1> DEFINE N == first..(first + Cardinality(T))
             Free == {n \in N : n \notin T}
  <1>1. Cardinality(T) \in Nat
    BY FS_CardinalityType
  <1>2. Free # {}
    <2> SUFFICES ASSUME N \subseteq T PROVE FALSE
      OBVIOUS
    <2>1. Cardinality(N) <= Cardinality(T)
      BY FS_Subset
    <2>2. first \in Int /\ first + Cardinality(T) \in Int
      BY <1>1
    <2>3. Cardinality(N) = IF first > first + Cardinality(T) THEN 0
                           ELSE (first + Cardinality(T)) - first + 1
      BY <2>2, FS_Interval
    <2> QED
      BY <1>1, <2>1, <2>3
  <1>3. Free \in SUBSET Nat
    BY <1>1
  <1> HIDE DEF Free
  <1>4. PICK n \in Free : \A m \in Free : n <= m
    BY <1>2, <1>3, Least
  <1>5. n \in N /\ n \notin T
    BY DEF Free
  <1>6. ASSUME NEW m \in first..(n - 1) PROVE m \in T
    <2>1. m \in N /\ ~(n <= m)
      BY <1>1, <1>5
    <2> QED
      BY <1>4, <2>1 DEF Free
  <1>7. \E k \in N : k \notin T /\ \A m \in first..(k - 1) : m \in T
    BY <1>5, <1>6
  <1>8. N \subseteq Nat
    BY <1>1
  <1> HIDE DEF N
  <1>9. LET seq == CHOOSE k \in N : k \notin T /\ \A m \in first..(k - 1) : m \in T
        IN  seq \in N /\ seq \notin T
    BY <1>7
  <1> QED
    BY <1>8, <1>9 DEF N

(* The sequence numbers of the files S of a process, kind and segment.      *)
TakenNumbers(S, p, k, s) == {f[4] : f \in {f \in S : f[1] = p /\ f[2] = k /\ f[3] = s}}

LEMMA FiniteNumbers ==
    ASSUME NEW S, IsFiniteSet(S), NEW p, NEW k, NEW s
    PROVE  IsFiniteSet(TakenNumbers(S, p, k, s))
  <1> DEFINE U == {f \in S : f[1] = p /\ f[2] = k /\ f[3] = s}
             T == {f[4] : f \in U}
  <1>1. IsFiniteSet(U)
    BY FS_Subset
  <1> HIDE DEF U
  <1>2. PICK q \in Seq(U) : \A f \in U : \E n \in 1..Len(q) : q[n] = f
    BY <1>1 DEF IsFiniteSet
  <1> DEFINE t == [i \in 1..Len(q) |-> q[i][4]]
  <1>3. t \in Seq(T) /\ Len(t) = Len(q)
    <2>1. Len(q) \in Nat /\ \A i \in 1..Len(q) : q[i] \in U
      BY LenProperties, ElementOfSeq
    <2>2. \A i \in 1..Len(q) : q[i][4] \in T
      BY <2>1
    <2> HIDE DEF T
    <2> QED
      BY <2>1, <2>2
  <1>4. ASSUME NEW e \in T PROVE \E n \in 1..Len(t) : t[n] = e
    <2>1. PICK f \in U : e = f[4]
      OBVIOUS
    <2>2. PICK n \in 1..Len(q) : q[n] = f
      BY <1>2
    <2>3. t[n] = e
      BY <2>1, <2>2
    <2> HIDE DEF t
    <2> QED
      BY <1>3, <2>2, <2>3
  <1>5. IsFiniteSet(T)
    <2> HIDE DEF T, t
    <2> QED
      BY <1>3, <1>4 DEF IsFiniteSet
  <1> QED
    BY <1>5 DEF U, TakenNumbers

LEMMA FreeFile ==
    ASSUME NEW x, JournalGood(x), NEW p \in LjProcesses, NEW k \in LjKinds, NEW s \in Nat
    PROVE  \E n \in Nat : /\ Journal!SegmentFile(x, p, k, s) = <<p, k, s, n>>
                          /\ <<p, k, s, n>> \notin DOMAIN x.files
  <1> DEFINE w == x.writer[p][k]
             first == IF w.open /\ w.start = s THEN w.seq + 1 ELSE 0
             taken == TakenNumbers(DOMAIN x.files, p, k, s)
             seq == CHOOSE n \in first..(first + Cardinality(taken)) :
                        n \notin taken /\ \A m \in first..(n - 1) : m \in taken
  <1>1. first \in Nat
    <2>1. w \in WriterStates
      BY DEF JournalGood, JournalStates
    <2> QED
      BY <2>1 DEF WriterStates
  <1>2. IsFiniteSet(taken)
    <2>1. IsFiniteSet(DOMAIN x.files)
      BY DEF JournalGood
    <2> QED
      BY <2>1, FiniteNumbers
  <1>3. Journal!SegmentFile(x, p, k, s) = <<p, k, s, seq>>
    BY DEF Journal!SegmentFile, Journal!Cardinality, Cardinality, TakenNumbers
  <1>4. \A n : <<p, k, s, n>> \in DOMAIN x.files => n \in taken
    BY DEF TakenNumbers
  <1> HIDE DEF first, taken
  <1>5. seq \in Nat /\ seq \notin taken
    BY <1>1, <1>2, FreeNumber
  <1> QED
    BY <1>3, <1>4, <1>5

-----------------------------------------------------------------------------
LEMMA JournalInit == Journal!LjInit => JournalGood(state)
  <1> SUFFICES ASSUME Journal!LjInit PROVE JournalGood(state)
    OBVIOUS
  <1> DEFINE none == [start |-> 0, seq |-> 0, count |-> 0, open |-> FALSE]
             off == [on |-> FALSE, cutoff |-> 0, todo |-> {}]
  <1>1. none \in WriterStates /\ off \in PruneStates
    BY DEF WriterStates, PruneStates
  <1>2. /\ state.clock = LjRetention /\ state.dirs = {} /\ state.files = <<>>
        /\ state.pc = [p \in LjProcesses |-> "new"]
        /\ state.writer = [p \in LjProcesses |-> [k \in LjKinds |-> none]]
        /\ state.total = [p \in LjProcesses |-> 0]
        /\ state.prune = [a \in Journal!Agents |-> off]
        /\ state.told = [r \in LjRecords |-> "new"]
        /\ state.start = [r \in LjRecords |-> 0]
        /\ state.home = [r \in LjRecords |-> <<>>]
        /\ state = [clock |-> state.clock, dirs |-> state.dirs, files |-> state.files,
                    pc |-> state.pc, writer |-> state.writer, total |-> state.total,
                    prune |-> state.prune, told |-> state.told, start |-> state.start,
                    home |-> state.home]
    BY DEF Journal!LjInit, Journal!None, Journal!NoPrune, Journal!NoHome
  <1> HIDE DEF none, off
  <1>3. DOMAIN state.files = {} /\ state.files = [f \in {} |-> <<>>]
    BY <1>2
  <1>4. state.files \in FileSets
    <2>1. state.files = [f \in DOMAIN state.files |-> state.files[f]]
      BY <1>3
    <2> QED
      BY <1>3, <2>1, FilesType
  <1>5. state \in JournalStates
    <2>1. /\ state.clock \in Nat /\ state.dirs \in SUBSET LjProcesses
          /\ state.pc \in [LjProcesses -> {"new", "opening", "open", "failed", "crashed"}]
          /\ state.total \in [LjProcesses -> Nat] /\ state.start \in [LjRecords -> Nat]
      BY <1>2
    <2>2. state.writer \in [LjProcesses -> [LjKinds -> WriterStates]]
      BY <1>1, <1>2
    <2>3. state.prune \in [Journal!Agents -> PruneStates]
      BY <1>1, <1>2
    <2>4. state.told \in [LjRecords -> Answers]
      BY <1>2 DEF Answers
    <2>5. state.home \in [LjRecords -> {<<>>} \cup (LjProcesses \X LjKinds) \cup FileNames]
      BY <1>2
    <2> QED
      BY <1>2, <1>4, <2>1, <2>2, <2>3, <2>4, <2>5 DEF JournalStates
  <1>6. IsFiniteSet(DOMAIN state.files)
    BY <1>3, FS_EmptySet
  <1>7. OneFile(state)
    BY <1>3 DEF OneFile
  <1>8. WritersHaveFiles(state)
    BY <1>2 DEF WritersHaveFiles, none
  <1>9. PrunesTheOld(state)
    <2>1. \A a \in Journal!Agents : state.prune[a].on = FALSE /\ state.prune[a].cutoff = 0
      BY <1>2 DEF off
    <2>2. LjRecords \subseteq Journal!Agents
      BY DEF Journal!Agents
    <2> QED
      BY <1>2, <2>1, <2>2 DEF PrunesTheOld
  <1>10. KeepsRecords(state)
    BY <1>2 DEF KeepsRecords
  <1> QED
    BY <1>5, <1>6, <1>7, <1>8, <1>9, <1>10 DEF JournalGood

(* prune_app_dir begins for an agent that may: a cutoff of now is old.      *)
LEMMA JournalStartPrune ==
    ASSUME NEW x, JournalGood(x), NEW a \in Journal!Agents,
           a \in LjRecords => x.told[a] = "pruning"
    PROVE  JournalGood(Journal!StartPrune(x, a))
  <1> DEFINE y == Journal!StartPrune(x, a)
             new == [on |-> TRUE, cutoff |-> x.clock - LjRetention, todo |-> x.dirs]
  <1>1. y = [x EXCEPT !.prune[a] = new]
    BY DEF Journal!StartPrune
  <1>2. x \in JournalStates
    BY DEF JournalGood
  <1>3. new \in PruneStates /\ new.cutoff + LjRetention = x.clock
    <2>1. x.clock \in Nat /\ x.dirs \in SUBSET LjProcesses /\ LjRetention <= x.clock
      BY <1>2 DEF JournalStates, JournalGood, PrunesTheOld
    <2>2. x.clock - LjRetention \in Nat /\ (x.clock - LjRetention) + LjRetention = x.clock
      BY <2>1
    <2> QED
      BY <2>1, <2>2 DEF PruneStates
  <1> HIDE DEF y, new
  <1>4. /\ y \in JournalStates /\ y.clock = x.clock /\ y.dirs = x.dirs
        /\ y.files = x.files /\ y.writer = x.writer /\ y.told = x.told
        /\ y.start = x.start /\ y.home = x.home
        /\ y.prune = [x.prune EXCEPT ![a] = new]
    BY <1>1, <1>2, <1>3 DEF JournalStates
  <1>5. PrunesTheOld(y)
    <2>1. x.prune \in [Journal!Agents -> PruneStates]
      BY <1>2 DEF JournalStates
    <2>2. \A b \in Journal!Agents : y.prune[b].cutoff + LjRetention <= y.clock
      BY <1>2, <1>3, <1>4, <2>1 DEF JournalGood, PrunesTheOld, JournalStates
    <2>3. LjRecords \subseteq Journal!Agents
      BY DEF Journal!Agents
    <2>4. \A r \in LjRecords : y.prune[r].on => y.told[r] = "pruning"
      BY <1>4, <2>1, <2>3 DEF JournalGood, PrunesTheOld
    <2> QED
      BY <1>4, <2>2, <2>4 DEF JournalGood, PrunesTheOld
  <1>6. OneFile(y) /\ WritersHaveFiles(y) /\ KeepsRecords(y)
    BY <1>4 DEF JournalGood, OneFile, WritersHaveFiles, WriterFile, KeepsRecords, Expires
  <1> QED
    BY <1>4, <1>5, <1>6 DEF JournalGood, y

(* The pruning of a directory removes old files only.                       *)
LEMMA JournalPruneDir ==
    ASSUME NEW x, JournalGood(x), NEW a \in Journal!Agents, NEW d \in LjProcesses
    PROVE  JournalGood(Journal!PruneDir(x, a, d))
  <1> DEFINE y == Journal!PruneDir(x, a, d)
             cutoff == x.prune[a].cutoff
             kept == {f \in DOMAIN x.files : f[1] # d \/ ~(f[3] + 1 <= cutoff)}
             files == [f \in kept |-> x.files[f]]
             dirs == IF \E f \in kept : f[1] = d THEN x.dirs ELSE x.dirs \ {d}
  <1>1. y = [x EXCEPT !.files = files, !.dirs = dirs,
                      !.prune[a].todo = x.prune[a].todo \ {d}]
    BY DEF Journal!PruneDir, Journal!Expired
  <1>2. /\ x \in JournalStates /\ x.prune \in [Journal!Agents -> PruneStates]
        /\ x.prune[a] \in PruneStates /\ x.clock \in Nat
    BY DEF JournalGood, JournalStates
  <1>3. files \in FileSets /\ DOMAIN files = kept /\ kept \subseteq DOMAIN x.files
        /\ \A f \in kept : files[f] = x.files[f]
    <2>1. x.files \in FileSets
      BY <1>2 DEF JournalStates
    <2>2. DOMAIN x.files \subseteq FileNames /\ \A f \in DOMAIN x.files : x.files[f] \in Seq(Entries)
      BY <2>1, FilesType
    <2>3. /\ DOMAIN files = kept /\ kept \subseteq DOMAIN x.files
          /\ \A f \in kept : files[f] = x.files[f]
          /\ files = [f \in DOMAIN files |-> files[f]]
      OBVIOUS
    <2> HIDE DEF files, kept
    <2> QED
      BY <2>2, <2>3, FilesType
  <1>4. \A f \in DOMAIN x.files : f \notin kept => f[3] + LjRetention + 1 <= x.clock
    <2>1. cutoff \in Nat /\ cutoff + LjRetention <= x.clock
      BY <1>2 DEF PruneStates, JournalGood, PrunesTheOld
    <2>2. \A f \in DOMAIN x.files : f[3] \in Nat
      <3>1. DOMAIN x.files \subseteq FileNames
        BY <1>2, FilesType DEF JournalStates
      <3> QED
        BY <3>1 DEF FileNames
    <2>3. \A f \in DOMAIN x.files : f \notin kept => f[3] + 1 <= cutoff
      OBVIOUS
    <2> HIDE DEF cutoff, kept
    <2> QED
      BY <1>2, <2>1, <2>2, <2>3
  <1>5. dirs \subseteq x.dirs /\ \A f \in kept : f[1] \in x.dirs => f[1] \in dirs
    OBVIOUS
  <1> HIDE DEF y, files, dirs, kept
  <1> DEFINE todo == [x.prune[a] EXCEPT !.todo = x.prune[a].todo \ {d}]
  <1>6. todo \in PruneStates /\ todo.cutoff = cutoff /\ todo.on = x.prune[a].on
    BY <1>2 DEF PruneStates
  <1>7. y = [x EXCEPT !.files = files, !.dirs = dirs, !.prune = [x.prune EXCEPT ![a] = todo]]
    BY <1>1, <1>2 DEF JournalStates
  <1> HIDE DEF todo, cutoff
  <1>8. /\ y \in JournalStates /\ y.clock = x.clock /\ y.dirs = dirs
        /\ y.files = files /\ y.writer = x.writer /\ y.told = x.told
        /\ y.start = x.start /\ y.home = x.home
        /\ y.prune = [x.prune EXCEPT ![a] = todo]
    <2>1. dirs \in SUBSET LjProcesses
      BY <1>2, <1>5 DEF JournalStates
    <2>2. [x.prune EXCEPT ![a] = todo] \in [Journal!Agents -> PruneStates]
      BY <1>2, <1>6
    <2> QED
      BY <1>2, <1>3, <1>7, <2>1, <2>2 DEF JournalStates
  <1>9. PrunesTheOld(y)
    <2>1. LjRecords \subseteq Journal!Agents
      BY DEF Journal!Agents
    <2>2. \A b \in Journal!Agents : y.prune[b].cutoff = x.prune[b].cutoff /\ y.prune[b].on = x.prune[b].on
      BY <1>2, <1>6, <1>8 DEF cutoff
    <2> QED
      BY <1>8, <2>1, <2>2 DEF JournalGood, PrunesTheOld
  <1>10. OneFile(y)
    <2>1. \A f \in DOMAIN y.files : f \in DOMAIN x.files /\ y.files[f] = x.files[f]
      BY <1>3, <1>8
    <2>2. \A f \in DOMAIN y.files : f[1] \in y.dirs
      BY <1>3, <1>5, <1>8 DEF JournalGood, OneFile
    <2>3. ASSUME NEW f \in DOMAIN y.files, NEW i \in 1..Len(y.files[f])
          PROVE  y.told[y.files[f][i].record] \notin {"new", "waiting"}
      BY <1>8, <2>1 DEF JournalGood, OneFile
    <2>4. ASSUME NEW f \in DOMAIN y.files, NEW i \in 1..Len(y.files[f]),
                 NEW g \in DOMAIN y.files, NEW j \in 1..Len(y.files[g]),
                 y.files[f][i].record = y.files[g][j].record
          PROVE  f = g /\ i = j
      <3>1. /\ f \in DOMAIN x.files /\ g \in DOMAIN x.files
            /\ y.files[f] = x.files[f] /\ y.files[g] = x.files[g]
        BY <2>1
      <3>2. /\ i \in 1..Len(x.files[f]) /\ j \in 1..Len(x.files[g])
            /\ x.files[f][i].record = x.files[g][j].record
        BY <2>4, <3>1
      <3> QED
        BY <3>1, <3>2 DEF JournalGood, OneFile
    <2> QED
      BY <1>8, <2>1, <2>2, <2>3, <2>4 DEF OneFile
  <1>11. \A f \in DOMAIN x.files : f \in DOMAIN y.files \/ Expires(x, f[3])
    BY <1>3, <1>4, <1>8 DEF Expires
  <1>12. WritersHaveFiles(y)
    <2>1. ASSUME NEW p \in LjProcesses, NEW k \in LjKinds, y.writer[p][k].open
          PROVE  WriterFile(y, p, k) \in DOMAIN y.files \/ Expires(y, y.writer[p][k].start)
      <3>1. WriterFile(x, p, k) \in DOMAIN x.files \/ Expires(x, x.writer[p][k].start)
        BY <1>8, <2>1 DEF JournalGood, WritersHaveFiles
      <3>2. WriterFile(x, p, k)[3] = x.writer[p][k].start /\ WriterFile(y, p, k) = WriterFile(x, p, k)
        BY <1>8 DEF WriterFile
      <3> QED
        BY <1>8, <1>11, <3>1, <3>2 DEF Expires
    <2> QED
      BY <2>1 DEF WritersHaveFiles
  <1>13. KeepsRecords(y)
    <2>1. ASSUME NEW r \in LjRecords, y.told[r] \in {"ok", "pruning"}, ~Expires(y, y.start[r])
          PROVE  /\ y.home[r] \in DOMAIN y.files /\ y.home[r][3] = y.start[r]
                 /\ [record |-> r, ended |-> TRUE] \in Elements(y.files[y.home[r]])
      <3>1. /\ x.home[r] \in DOMAIN x.files /\ x.home[r][3] = x.start[r]
            /\ [record |-> r, ended |-> TRUE] \in Elements(x.files[x.home[r]])
            /\ ~Expires(x, x.start[r])
        BY <1>8, <2>1 DEF JournalGood, KeepsRecords, Expires
      <3>2. x.home[r] \in DOMAIN y.files
        BY <1>11, <3>1
      <3> QED
        BY <1>3, <1>8, <3>1, <3>2
    <2> QED
      BY <1>8, <2>1 DEF JournalGood, KeepsRecords
  <1>14. IsFiniteSet(DOMAIN y.files)
    BY <1>3, <1>8, FS_Subset DEF JournalGood
  <1> QED
    BY <1>8, <1>9, <1>10, <1>12, <1>13, <1>14 DEF JournalGood, y

(* A step that leaves the files, the writers and where records go alone.    *)
Calm(x, y) ==
    /\ x.clock <= y.clock /\ x.dirs \subseteq y.dirs
    /\ y.files = x.files /\ y.writer = x.writer /\ y.start = x.start /\ y.home = x.home
    /\ \A a \in Journal!Agents : \/ y.prune[a] = x.prune[a]
                                 \/ y.prune[a] = Journal!NoPrune
    /\ \A r \in LjRecords :
          \/ y.told[r] = x.told[r]
          \/ y.told[r] = "ok" /\ x.told[r] = "pruning"
          \/ y.told[r] \in {"error", "budget", "no directory", "crashed"}
    /\ \A r \in LjRecords : y.prune[r].on => y.told[r] = "pruning"

LEMMA RecordType ==
    ASSUME NEW x \in JournalStates, NEW f \in DOMAIN x.files, NEW i \in 1..Len(x.files[f])
    PROVE  x.files[f][i] \in Entries /\ x.files[f][i].record \in LjRecords
  <1>1. x.files[f] \in Seq(Entries)
    BY FilesType DEF JournalStates
  <1>2. x.files[f][i] \in Entries
    BY <1>1, ElementOfSeq
  <1> QED
    BY <1>2 DEF Entries

LEMMA JournalCalm ==
    ASSUME NEW x, JournalGood(x), NEW y \in JournalStates, Calm(x, y)
    PROVE  JournalGood(y)
  <1>1. /\ x \in JournalStates /\ x.clock \in Nat /\ y.clock \in Nat
        /\ x.clock <= y.clock /\ LjRetention <= x.clock
    BY DEF JournalGood, JournalStates, Calm, PrunesTheOld
  <1>2. ASSUME NEW s \in Nat, Expires(x, s) PROVE Expires(y, s)
    BY <1>1, <1>2 DEF Expires
  <1>3. PrunesTheOld(y)
    <2>1. Journal!NoPrune.cutoff = 0
      BY DEF Journal!NoPrune
    <2>2. \A a \in Journal!Agents : x.prune[a].cutoff \in Nat
      BY <1>1 DEF JournalStates, PruneStates
    <2>3. LjRetention <= y.clock
      BY <1>1
    <2>4. ASSUME NEW a \in Journal!Agents PROVE y.prune[a].cutoff + LjRetention <= y.clock
      <3>1. x.prune[a].cutoff + LjRetention <= x.clock
        BY DEF JournalGood, PrunesTheOld
      <3>2. y.prune[a].cutoff = x.prune[a].cutoff \/ y.prune[a].cutoff = 0
        BY <2>1 DEF Calm
      <3> QED
        BY <1>1, <2>2, <2>3, <3>1, <3>2
    <2> QED
      BY <2>3, <2>4 DEF PrunesTheOld, Calm
  <1>4. OneFile(y)
    <2>1. y.files = x.files /\ x.dirs \subseteq y.dirs
      BY DEF Calm
    <2>2. ASSUME NEW f \in DOMAIN y.files, NEW i \in 1..Len(y.files[f])
          PROVE  y.told[y.files[f][i].record] \notin {"new", "waiting"}
      <3> DEFINE q == x.files[f][i].record
      <3>1. q \in LjRecords /\ x.told[q] \notin {"new", "waiting"}
        BY <1>1, <2>1, RecordType DEF JournalGood, OneFile
      <3> HIDE DEF q
      <3>2. y.told[q] \notin {"new", "waiting"}
        BY <3>1 DEF Calm
      <3> QED
        BY <2>1, <3>2 DEF q
    <2> QED
      BY <2>1, <2>2 DEF JournalGood, OneFile
  <1>5. WritersHaveFiles(y)
    <2>1. ASSUME NEW p \in LjProcesses, NEW k \in LjKinds PROVE x.writer[p][k].start \in Nat
      <3>1. x.writer[p][k] \in WriterStates
        BY <1>1 DEF JournalStates
      <3> QED
        BY <3>1 DEF WriterStates
    <2>2. y.writer = x.writer /\ y.files = x.files
      BY DEF Calm
    <2> QED
      BY <1>2, <2>1, <2>2 DEF JournalGood, WritersHaveFiles, WriterFile
  <1>6. KeepsRecords(y)
    <2>1. \A r \in LjRecords : x.start[r] \in Nat
      BY <1>1 DEF JournalStates
    <2>2. \A r \in LjRecords : y.told[r] \in {"ok", "pruning"} => x.told[r] \in {"ok", "pruning"}
      BY DEF Calm
    <2>3. \A r \in LjRecords : y.told[r] = "waiting" => x.told[r] = "waiting"
      BY DEF Calm
    <2>4. y.start = x.start /\ y.home = x.home /\ y.files = x.files
      BY DEF Calm
    <2> QED
      BY <1>2, <2>1, <2>2, <2>3, <2>4 DEF JournalGood, KeepsRecords
  <1> QED
    BY <1>3, <1>4, <1>5, <1>6 DEF JournalGood, Calm

(* A write that got the lock appends its entry e to the file f of its       *)
(* segment, which is new, or is there, or was pruned for its age.           *)
Appends(x, y, p, r, f, e) ==
    /\ DOMAIN x.files \subseteq DOMAIN y.files
    /\ DOMAIN y.files \subseteq DOMAIN x.files \cup {f}
    /\ \A g \in DOMAIN x.files : g # f => y.files[g] = x.files[g]
    /\ f \in DOMAIN y.files =>
          /\ p \in x.dirs
          /\ y.files[f] = Append(IF f \in DOMAIN x.files THEN x.files[f] ELSE <<>>, e)
    /\ f \in DOMAIN y.files \/ Expires(x, x.start[r])
    /\ \A q \in LjProcesses, l \in LjKinds : y.writer[q][l].open =>
          \/ /\ x.writer[q][l].open /\ x.writer[q][l].start = y.writer[q][l].start
             /\ x.writer[q][l].seq = y.writer[q][l].seq
          \/ WriterFile(y, q, l) = f

LEMMA ClockType ==
    ASSUME NEW x \in JournalStates
    PROVE  x.clock \in Nat /\ x.clock <= x.clock
  <1>1. x.clock \in Nat
    BY DEF JournalStates
  <1> QED
    BY <1>1

LEMMA AppendsAlike ==
    ASSUME NEW x, NEW y, NEW z, NEW p, NEW r, NEW f, NEW e, Appends(x, y, p, r, f, e),
           z.files = y.files,
           \A q \in LjProcesses, l \in LjKinds :
               /\ z.writer[q][l].open = y.writer[q][l].open
               /\ z.writer[q][l].start = y.writer[q][l].start
               /\ z.writer[q][l].seq = y.writer[q][l].seq
    PROVE  Appends(x, z, p, r, f, e)
  <1>1. \A q \in LjProcesses, l \in LjKinds : WriterFile(z, q, l) = WriterFile(y, q, l)
    BY DEF WriterFile
  <1> QED
    BY <1>1 DEF Appends

LEMMA JournalWritten ==
    ASSUME NEW x, JournalGood(x), NEW y \in JournalStates,
           NEW r \in LjRecords, x.told[r] = "waiting",
           NEW p \in LjProcesses, NEW k \in LjKinds, NEW n \in Nat,
           NEW ended \in BOOLEAN, NEW how \in {"ok", "pruning", "error"},
           NEW f, f = <<p, k, x.start[r], n>>,
           NEW e, e = [record |-> r, ended |-> ended],
           y.clock = x.clock, y.dirs = x.dirs, y.start = x.start, y.prune = x.prune,
           y.told = [x.told EXCEPT ![r] = how],
           how # "error" => ended = TRUE /\ y.home = [x.home EXCEPT ![r] = f],
           how = "error" => y.home = x.home,
           Appends(x, y, p, r, f, e)
    PROVE  JournalGood(y)
  <1> DEFINE old == IF f \in DOMAIN x.files THEN x.files[f] ELSE <<>>
  <1>1. /\ x \in JournalStates /\ x.told \in [LjRecords -> Answers]
        /\ x.home \in [LjRecords -> {<<>>} \cup (LjProcesses \X LjKinds) \cup FileNames]
        /\ x.start[r] \in Nat /\ x.files \in FileSets
    BY DEF JournalGood, JournalStates
  <1>2. /\ DOMAIN x.files \subseteq FileNames
        /\ \A g \in DOMAIN x.files : x.files[g] \in Seq(Entries)
    BY <1>1, FilesType
  <1>3. ASSUME NEW g \in DOMAIN x.files, NEW i \in 1..Len(x.files[g])
        PROVE  /\ x.files[g][i].record \in LjRecords /\ x.files[g][i].record # r
               /\ x.told[x.files[g][i].record] \notin {"new", "waiting"}
    BY <1>1, RecordType DEF JournalGood, OneFile
  <1>4. f[1] = p /\ f[3] = x.start[r]
    OBVIOUS
  <1>5. ASSUME f \in DOMAIN y.files
        PROVE  /\ Len(old) \in Nat /\ Len(y.files[f]) = Len(old) + 1
               /\ \A i \in 1..Len(old) : y.files[f][i] = old[i]
               /\ y.files[f][Len(old) + 1] = e
               /\ Elements(y.files[f]) = Elements(old) \cup {e}
    <2>1. old \in Seq(Entries)
      <3>1. <<>> \in Seq(Entries)
        OBVIOUS
      <3> QED
        BY <1>2, <3>1
    <2>2. e \in Entries
      BY DEF Entries
    <2>3. y.files[f] = Append(old, e)
      BY <1>5 DEF Appends
    <2> HIDE DEF old
    <2> QED
      BY <2>1, <2>2, <2>3, AppendProperties, LenProperties, OnceAppend
  <1>6. f \notin DOMAIN x.files => Len(old) = 0
    BY EmptySeq
  <1>7. f \in DOMAIN x.files => old = x.files[f]
    OBVIOUS
  <1> HIDE DEF old
  (* An entry of y is one of x, in its place, or the new one.               *)
  <1>8. ASSUME NEW g \in DOMAIN y.files, NEW i \in 1..Len(y.files[g])
        PROVE  \/ /\ g \in DOMAIN x.files /\ i \in 1..Len(x.files[g])
                  /\ y.files[g][i] = x.files[g][i]
               \/ /\ g = f /\ i = Len(old) + 1 /\ y.files[g][i] = e
    <2>1. CASE g # f
      BY <1>8, <2>1 DEF Appends
    <2>2. CASE g = f
      <3>1. CASE i = Len(old) + 1
        BY <1>5, <2>2, <3>1
      <3>2. CASE i # Len(old) + 1
        <4>1. i \in 1..(Len(old) + 1) /\ Len(old) \in Nat
          BY <1>5, <2>2
        <4>2. i \in 1..Len(old)
          BY <3>2, <4>1
        <4>3. Len(old) # 0
          BY <4>1, <4>2
        <4>4. f \in DOMAIN x.files /\ y.files[f][i] = old[i]
          BY <1>5, <1>6, <2>2, <4>2, <4>3
        <4> QED
          BY <1>7, <2>2, <4>2, <4>4
      <3> QED
        BY <3>1, <3>2
    <2> QED
      BY <2>1, <2>2
  <1>9. OneFile(y)
    <2>1. ASSUME NEW g \in DOMAIN y.files, NEW i \in 1..Len(y.files[g])
          PROVE  y.told[y.files[g][i].record] \notin {"new", "waiting"}
      <3>1. y.told[r] = how /\ e.record = r
        BY <1>1
      <3>2. \A q \in LjRecords : q # r => y.told[q] = x.told[q]
        BY <1>1
      <3>3. CASE y.files[g][i] = e
        BY <3>1, <3>3
      <3>4. CASE /\ g \in DOMAIN x.files /\ i \in 1..Len(x.files[g])
                 /\ y.files[g][i] = x.files[g][i]
        BY <1>3, <3>2, <3>4
      <3> QED
        BY <1>8, <3>3, <3>4
    <2>2. ASSUME NEW g \in DOMAIN y.files, NEW i \in 1..Len(y.files[g]),
                 NEW h \in DOMAIN y.files, NEW j \in 1..Len(y.files[h]),
                 y.files[g][i].record = y.files[h][j].record
          PROVE  g = h /\ i = j
      <3>1. \/ /\ g \in DOMAIN x.files /\ i \in 1..Len(x.files[g])
               /\ y.files[g][i] = x.files[g][i]
            \/ /\ g = f /\ i = Len(old) + 1 /\ y.files[g][i] = e
        BY <1>8
      <3>2. \/ /\ h \in DOMAIN x.files /\ j \in 1..Len(x.files[h])
               /\ y.files[h][j] = x.files[h][j]
            \/ /\ h = f /\ j = Len(old) + 1 /\ y.files[h][j] = e
        BY <1>8
      <3>3. e.record = r
        OBVIOUS
      <3>4. CASE /\ g \in DOMAIN x.files /\ i \in 1..Len(x.files[g])
                 /\ y.files[g][i] = x.files[g][i]
        <4>1. y.files[g][i].record # r
          BY <1>3, <3>4
        <4>2. /\ h \in DOMAIN x.files /\ j \in 1..Len(x.files[h])
              /\ y.files[h][j] = x.files[h][j]
          BY <2>2, <3>2, <3>3, <4>1
        <4> QED
          BY <2>2, <3>4, <4>2 DEF JournalGood, OneFile
      <3>5. CASE g = f /\ i = Len(old) + 1 /\ y.files[g][i] = e
        <4>1. y.files[h][j].record = r
          BY <2>2, <3>3, <3>5
        <4>2. h = f /\ j = Len(old) + 1
          BY <1>3, <3>2, <4>1
        <4> QED
          BY <3>5, <4>2
      <3> QED
        BY <3>1, <3>4, <3>5
    <2>3. \A g \in DOMAIN y.files : g[1] \in y.dirs
      BY <1>4 DEF JournalGood, OneFile, Appends
    <2> QED
      BY <2>1, <2>2, <2>3 DEF OneFile
  <1>10. WritersHaveFiles(y)
    <2>1. ASSUME NEW q \in LjProcesses, NEW l \in LjKinds, y.writer[q][l].open
          PROVE  WriterFile(y, q, l) \in DOMAIN y.files \/ Expires(y, y.writer[q][l].start)
      <3>1. CASE /\ x.writer[q][l].open /\ x.writer[q][l].start = y.writer[q][l].start
                 /\ x.writer[q][l].seq = y.writer[q][l].seq
        BY <3>1 DEF JournalGood, WritersHaveFiles, WriterFile, Expires, Appends
      <3>2. CASE WriterFile(y, q, l) = f
        <4>1. y.writer[q][l].start = x.start[r]
          BY <1>4, <3>2 DEF WriterFile
        <4> QED
          BY <3>2, <4>1 DEF Expires, Appends
      <3> QED
        BY <2>1, <3>1, <3>2 DEF Appends
    <2> QED
      BY <2>1 DEF WritersHaveFiles
  <1>11. PrunesTheOld(y)
    <2>1. \A q \in LjRecords : x.prune[q].on => q # r
      BY DEF JournalGood, PrunesTheOld
    <2>2. \A q \in LjRecords : q # r => y.told[q] = x.told[q]
      BY <1>1
    <2> QED
      BY <2>1, <2>2 DEF JournalGood, PrunesTheOld
  <1>12. KeepsRecords(y)
    <2>1. ASSUME NEW q \in LjRecords, y.told[q] = "waiting"
          PROVE  y.home[q] \in LjProcesses \X LjKinds
      <3>1. q # r /\ x.told[q] = "waiting"
        BY <1>1, <2>1
      <3>2. y.home[q] = x.home[q]
        BY <1>1, <3>1
      <3> QED
        BY <3>1, <3>2 DEF JournalGood, KeepsRecords
    <2>2. ASSUME NEW q \in LjRecords, y.told[q] \in {"ok", "pruning"}, ~Expires(y, y.start[q])
          PROVE  /\ y.home[q] \in DOMAIN y.files /\ y.home[q][3] = y.start[q]
                 /\ [record |-> q, ended |-> TRUE] \in Elements(y.files[y.home[q]])
      <3>1. ~Expires(x, x.start[q])
        BY <2>2 DEF Expires
      <3>2. CASE q = r
        <4>1. how # "error" /\ ended = TRUE /\ y.home[r] = f
          BY <1>1, <2>2, <3>2
        <4>2. f \in DOMAIN y.files
          BY <3>1, <3>2 DEF Appends
        <4> QED
          BY <1>4, <1>5, <3>2, <4>1, <4>2
      <3>3. CASE q # r
        <4>1. x.told[q] \in {"ok", "pruning"} /\ y.home[q] = x.home[q]
          BY <1>1, <2>2, <3>3
        <4>2. /\ x.home[q] \in DOMAIN x.files /\ x.home[q][3] = x.start[q]
              /\ [record |-> q, ended |-> TRUE] \in Elements(x.files[x.home[q]])
          BY <3>1, <4>1 DEF JournalGood, KeepsRecords
        <4>3. x.home[q] = f => Elements(x.files[f]) \subseteq Elements(y.files[f])
          BY <1>5, <1>7, <4>2 DEF Appends
        <4> QED
          BY <4>1, <4>2, <4>3 DEF Appends
      <3> QED
        BY <3>2, <3>3
    <2> QED
      BY <2>1, <2>2 DEF KeepsRecords
  <1>13. IsFiniteSet(DOMAIN y.files)
    <2>1. IsFiniteSet(DOMAIN x.files \cup {f})
      BY FS_AddElement DEF JournalGood
    <2> QED
      BY <2>1, FS_Subset DEF Appends
  <1> QED
    BY <1>9, <1>10, <1>11, <1>12, <1>13 DEF JournalGood

(* The part of write_encoded that the file system sees: rotation, append.   *)
LEMMA JournalAppends ==
    ASSUME NEW x, JournalGood(x), NEW p \in LjProcesses, NEW k \in LjKinds,
           NEW r \in LjRecords, NEW e \in Entries,
           Journal!NeedsRotation(x, p, k, x.start[r]) => p \in x.dirs
    PROVE  LET rotate == Journal!NeedsRotation(x, p, k, x.start[r])
               y == IF rotate THEN Journal!Rotate(x, p, k, x.start[r]) ELSE x
               w == y.writer[p][k]
               f == <<p, k, w.start, w.seq>>
               z == Journal!AppendTo(y, f, e)
           IN  /\ \E n \in Nat : f = <<p, k, x.start[r], n>>
               /\ z \in JournalStates
               /\ z.clock = x.clock /\ z.dirs = x.dirs /\ z.start = x.start
               /\ z.prune = x.prune /\ z.told = x.told /\ z.home = x.home
               /\ z.total = x.total /\ Appends(x, z, p, r, f, e)
  <1> DEFINE s == x.start[r]
             rotate == Journal!NeedsRotation(x, p, k, s)
             y == IF rotate THEN Journal!Rotate(x, p, k, s) ELSE x
             w == y.writer[p][k]
             f == <<p, k, w.start, w.seq>>
             z == Journal!AppendTo(y, f, e)
             Done == /\ \E n \in Nat : f = <<p, k, s, n>>
                     /\ z \in JournalStates
                     /\ z.clock = x.clock /\ z.dirs = x.dirs /\ z.start = x.start
                     /\ z.prune = x.prune /\ z.told = x.told /\ z.home = x.home
                     /\ z.total = x.total /\ Appends(x, z, p, r, f, e)
  <1> SUFFICES Done
    BY Zenon
  <1>1. /\ x \in JournalStates /\ s \in Nat /\ x.files \in FileSets
        /\ x.writer \in [LjProcesses -> [LjKinds -> WriterStates]]
        /\ x.writer[p][k] \in WriterStates
    BY DEF JournalGood, JournalStates
  <1>2. /\ x.files = [g \in DOMAIN x.files |-> x.files[g]] /\ DOMAIN x.files \subseteq FileNames
        /\ \A g \in DOMAIN x.files : x.files[g] \in Seq(Entries)
    BY <1>1, FilesType
  <1>3. \A n \in Nat : <<p, k, s, n>> \in FileNames
    BY <1>1 DEF FileNames
  <1>4. CASE rotate
    <2>1. PICK n \in Nat : /\ Journal!SegmentFile(x, p, k, s) = <<p, k, s, n>>
                           /\ <<p, k, s, n>> \notin DOMAIN x.files
      BY <1>1, FreeFile
    <2> DEFINE new == [start |-> s, seq |-> n, count |-> 0, open |-> TRUE]
               g0 == <<p, k, s, n>>
               D == DOMAIN x.files \cup {g0}
               F == [g \in D |-> IF g = g0 THEN <<>> ELSE x.files[g]]
               G == [g \in D |-> IF g = g0 THEN Append(<<>>, e) ELSE x.files[g]]
               W == [x.writer EXCEPT ![p] = [x.writer[p] EXCEPT ![k] = new]]
    <2>2. new \in WriterStates
      BY <1>1 DEF WriterStates
    <2>3. g0[4] = n
      OBVIOUS
    <2>4. y = [x EXCEPT !.files = F, !.writer[p][k] = new]
      BY <1>4, <2>1, <2>3 DEF Journal!Rotate
    <2>5. new.start = s /\ new.seq = n /\ new.open = TRUE
      OBVIOUS
    <2>6. W \in [LjProcesses -> [LjKinds -> WriterStates]] /\ W[p][k] = new
          /\ \A q \in LjProcesses, l \in LjKinds :
                W[q][l] = IF q = p /\ l = k THEN new ELSE x.writer[q][l]
      <3> HIDE DEF new
      <3> QED
        BY <1>1, <2>2
    <2>7. y = [x EXCEPT !.files = F, !.writer = W]
      BY <1>1, <2>4 DEF JournalStates
    <2> HIDE DEF new, W, F, y
    <2>8. /\ y.files = F /\ y.writer = W
          /\ y = [x EXCEPT !.files = y.files, !.writer = y.writer]
      BY <1>1, <2>7 DEF JournalStates
    <2>9. f = g0
      BY <2>5, <2>6, <2>8
    <2>10. /\ DOMAIN F = D /\ g0 \in D /\ [F EXCEPT ![g0] = Append(F[g0], e)] = G
      BY DEF F
    <2>11. z = [y EXCEPT !.files = G]
      <3>1. z = [y EXCEPT !.files[g0] = Append(y.files[g0], e)]
        BY <2>8, <2>9, <2>10 DEF Journal!AppendTo
      <3>2. z = [y EXCEPT !.files = [y.files EXCEPT ![g0] = Append(y.files[g0], e)]]
        BY <3>1
      <3> QED
        BY <2>8, <2>10, <3>2
    <2>12. G \in FileSets /\ DOMAIN G = D /\ G[g0] = Append(<<>>, e)
           /\ \A g \in DOMAIN x.files : g # g0 => G[g] = x.files[g]
      <3>1. Append(<<>>, e) \in Seq(Entries)
        OBVIOUS
      <3>2. /\ DOMAIN G = D /\ G[g0] = Append(<<>>, e)
            /\ \A g \in DOMAIN x.files : g # g0 => G[g] = x.files[g]
        OBVIOUS
      <3>3. \A g \in D : G[g] \in Seq(Entries)
        BY <1>2, <3>1
      <3>4. D \subseteq FileNames
        BY <1>2, <1>3
      <3>5. G = [g \in DOMAIN G |-> G[g]]
        OBVIOUS
      <3> HIDE DEF G
      <3> QED
        BY <3>2, <3>3, <3>4, <3>5, FilesType
    <2> HIDE DEF G, z, y, w, f, rotate
    <2>13. z = [x EXCEPT !.files = G, !.writer = W]
      BY <1>1, <2>7, <2>8, <2>11 DEF JournalStates
    <2>14. /\ z \in JournalStates /\ z.files = G /\ z.writer = W
           /\ z.clock = x.clock /\ z.dirs = x.dirs /\ z.start = x.start
           /\ z.prune = x.prune /\ z.told = x.told /\ z.home = x.home
           /\ z.total = x.total
      BY <1>1, <2>6, <2>12, <2>13 DEF JournalStates
    <2>15. Appends(x, z, p, r, f, e)
      <3>1. \A q \in LjProcesses, l \in LjKinds :
                z.writer[q][l] = x.writer[q][l] \/ WriterFile(z, q, l) = f
        BY <2>5, <2>6, <2>9, <2>14 DEF WriterFile
      <3>2. DOMAIN z.files = DOMAIN x.files \cup {f} /\ f \notin DOMAIN x.files
        BY <2>1, <2>9, <2>12, <2>14
      <3>3. z.files[f] = Append(<<>>, e) /\ p \in x.dirs
        BY <1>4, <2>9, <2>12, <2>14 DEF rotate
      <3>4. \A g \in DOMAIN x.files : g # f => z.files[g] = x.files[g]
        BY <2>9, <2>12, <2>14
      <3> QED
        BY <3>1, <3>2, <3>3, <3>4 DEF Appends
    <2> QED
      BY <2>9, <2>14, <2>15
  <1>5. CASE ~rotate
    <2>1. y = x /\ w = x.writer[p][k] /\ w.open = TRUE /\ w.start = s /\ w.seq \in Nat
      BY <1>1, <1>5 DEF Journal!NeedsRotation, WriterStates
    <2>2. f = <<p, k, s, w.seq>> /\ f = WriterFile(x, p, k) /\ f[1] = p
      BY <2>1 DEF WriterFile
    <2> HIDE DEF y, w, f, rotate
    <2>z. z = Journal!AppendTo(y, f, e)
      OBVIOUS
    <2> HIDE DEF z
    <2>3. f \in DOMAIN x.files \/ Expires(x, s)
      BY <2>1, <2>2 DEF JournalGood, WritersHaveFiles
    <2>4. CASE f \notin DOMAIN x.files
      <3>1. z = x
        BY <2>1, <2>4, <2>z DEF Journal!AppendTo
      <3>2. Appends(x, x, p, r, f, e)
        BY <2>3, <2>4 DEF Appends
      <3> QED
        BY <1>1, <2>1, <2>2, <3>1, <3>2
    <2>5. CASE f \in DOMAIN x.files
      <3> DEFINE G == [x.files EXCEPT ![f] = Append(x.files[f], e)]
      <3>1. z = [x EXCEPT !.files = G]
        BY <1>1, <2>1, <2>5, <2>z DEF Journal!AppendTo, JournalStates
      <3>2. Append(x.files[f], e) \in Seq(Entries)
        BY <1>2, <2>5
      <3>3. DOMAIN G = DOMAIN x.files /\ G[f] = Append(x.files[f], e)
            /\ \A g \in DOMAIN x.files : g # f => G[g] = x.files[g]
        BY <1>2, <2>5
      <3>4. G \in FileSets
        <4>1. G = [g \in DOMAIN G |-> G[g]]
          BY <1>2
        <4>2. \A g \in DOMAIN G : G[g] \in Seq(Entries)
          BY <1>2, <3>2, <3>3
        <4> HIDE DEF G
        <4> QED
          BY <1>2, <3>3, <4>1, <4>2, FilesType
      <3> HIDE DEF G
      <3>5. /\ z \in JournalStates /\ z.files = G /\ z.writer = x.writer
            /\ z.clock = x.clock /\ z.dirs = x.dirs /\ z.start = x.start
            /\ z.prune = x.prune /\ z.told = x.told /\ z.home = x.home
            /\ z.total = x.total
        BY <1>1, <3>1, <3>4 DEF JournalStates
      <3>6. p \in x.dirs
        BY <2>2, <2>5 DEF JournalGood, OneFile
      <3>7. Appends(x, z, p, r, f, e)
        BY <2>5, <3>3, <3>5, <3>6 DEF Appends
      <3> QED
        BY <2>1, <2>2, <3>5, <3>7
    <2> QED
      BY <2>4, <2>5
  <1> QED
    BY <1>4, <1>5, Zenon

(* What a write does between the lock and its release.                      *)
LEMMA JournalWrites ==
    ASSUME NEW x, JournalGood(x), NEW r \in LjRecords, x.told[r] = "waiting",
           NEW torn \in BOOLEAN
    PROVE  JournalGood(Journal!WriteEncoded(x, r, torn))
  <1> DEFINE p == x.home[r][1]
             k == x.home[r][2]
             rotate == Journal!NeedsRotation(x, p, k, x.start[r])
             y == IF rotate THEN Journal!Rotate(x, p, k, x.start[r]) ELSE x
             w == y.writer[p][k]
             f == <<p, k, w.start, w.seq>>
             e == [record |-> r, ended |-> ~torn]
             z == Journal!AppendTo(y, f, e)
             done == [z EXCEPT !.writer[p][k].count = z.writer[p][k].count + 1,
                               !.total[p] = z.total[p] + 1, !.home[r] = f]
             result == Journal!WriteEncoded(x, r, torn)
  <1>1. /\ x \in JournalStates /\ x.told \in [LjRecords -> Answers]
        /\ x.total \in [LjProcesses -> Nat]
        /\ x.home \in [LjRecords -> {<<>>} \cup (LjProcesses \X LjKinds) \cup FileNames]
        /\ x.start \in [LjRecords -> Nat]
    BY DEF JournalGood, JournalStates
  <1>2. x.home[r] \in LjProcesses \X LjKinds
    BY DEF JournalGood, KeepsRecords
  <1>3. p \in LjProcesses /\ k \in LjKinds
    BY <1>2
  <1>4. e \in Entries /\ (~torn) \in BOOLEAN
    BY DEF Entries
  <1>5. /\ (x.total[p] + 1 > LjMaxTotal => result = Journal!Tell(x, r, "budget"))
        /\ (x.total[p] + 1 > LjMaxTotal \/ (rotate /\ p \notin x.dirs)
               \/ result = IF torn THEN Journal!Tell(z, r, "error")
                           ELSE IF rotate THEN Journal!StartPrune(Journal!Tell(done, r, "pruning"), r)
                           ELSE Journal!Tell(done, r, "ok"))
        /\ (x.total[p] + 1 > LjMaxTotal
               \/ (rotate /\ p \notin x.dirs => result = Journal!Tell(x, r, "no directory")))
    BY DEF Journal!WriteEncoded
  <1> HIDE DEF result, done, z, f, w, y, rotate, e, p, k
  <1>6. ASSUME NEW how \in {"budget", "no directory"}, result = Journal!Tell(x, r, how)
        PROVE  JournalGood(result)
    <2> DEFINE told == [x.told EXCEPT ![r] = how]
    <2>1. told \in [LjRecords -> Answers] /\ told[r] = how
          /\ \A q \in LjRecords : q # r => told[q] = x.told[q]
      BY <1>1 DEF Answers
    <2> HIDE DEF told
    <2>2. result = [x EXCEPT !.told = told]
      BY <1>1, <1>6 DEF Journal!Tell, JournalStates, told
    <2>3. /\ result \in JournalStates /\ result.told = told
          /\ result.clock = x.clock /\ result.dirs = x.dirs /\ result.files = x.files
          /\ result.writer = x.writer /\ result.start = x.start /\ result.home = x.home
          /\ result.prune = x.prune
      BY <1>1, <2>1, <2>2 DEF JournalStates
    <2>4. Calm(x, result)
      <3>1. x.clock \in Nat
        BY <1>1 DEF JournalStates
      <3>2. \A q \in LjRecords : x.prune[q].on => x.told[q] = "pruning"
        BY DEF JournalGood, PrunesTheOld
      <3>3. \A q \in LjRecords :
                \/ result.told[q] = x.told[q]
                \/ result.told[q] \in {"error", "budget", "no directory", "crashed"}
        BY <2>1, <2>3
      <3>4. \A q \in LjRecords : result.prune[q].on => result.told[q] = "pruning"
        BY <2>1, <2>3, <3>2
      <3>5. x.clock <= result.clock /\ x.dirs \subseteq result.dirs
        <4>1. x.clock <= x.clock
          BY <1>1, ClockType
        <4>2. result.clock = x.clock /\ result.dirs = x.dirs
          BY <2>3
        <4> QED
          BY <4>1, <4>2
      <3>6. \A a \in Journal!Agents : result.prune[a] = x.prune[a]
        BY <2>3
      <3> QED
        BY <2>3, <3>3, <3>4, <3>5, <3>6 DEF Calm
    <2> QED
      BY <2>3, <2>4, JournalCalm
  <1>7. CASE ~(x.total[p] + 1 > LjMaxTotal) /\ (rotate => p \in x.dirs)
    <2>1. /\ \E n \in Nat : f = <<p, k, x.start[r], n>>
          /\ z \in JournalStates
          /\ z.clock = x.clock /\ z.dirs = x.dirs /\ z.start = x.start
          /\ z.prune = x.prune /\ z.told = x.told /\ z.home = x.home
          /\ z.total = x.total /\ Appends(x, z, p, r, f, e)
      BY <1>3, <1>4, <1>7, JournalAppends DEF z, f, w, y, rotate
    <2>2. PICK n \in Nat : f = <<p, k, x.start[r], n>>
      BY <2>1
    <2>3. f \in FileNames
      <3>1. x.start[r] \in Nat
        BY <1>1
      <3> QED
        BY <1>3, <2>2, <3>1 DEF FileNames
    <2>4. result = IF torn THEN Journal!Tell(z, r, "error")
                   ELSE IF rotate THEN Journal!StartPrune(Journal!Tell(done, r, "pruning"), r)
                   ELSE Journal!Tell(done, r, "ok")
      BY <1>5, <1>7
    <2>5. ASSUME torn PROVE JournalGood(Journal!Tell(z, r, "error"))
      <3> DEFINE u == Journal!Tell(z, r, "error")
                 told == [x.told EXCEPT ![r] = "error"]
      <3>1. told \in [LjRecords -> Answers]
        BY <1>1 DEF Answers
      <3>2. u = [z EXCEPT !.told = told]
        BY <2>1 DEF Journal!Tell, JournalStates
      <3>3. /\ u \in JournalStates /\ u.told = told /\ u.clock = x.clock /\ u.dirs = x.dirs
            /\ u.start = x.start /\ u.prune = x.prune /\ u.home = x.home
            /\ u.files = z.files /\ u.writer = z.writer
        BY <2>1, <3>1, <3>2 DEF JournalStates
      <3> HIDE DEF u
      <3>4. Appends(x, u, p, r, f, e)
        BY <2>1, <3>3, AppendsAlike
      <3>5. e = [record |-> r, ended |-> ~torn]
        BY DEF e
      <3>6. JournalGood(u)
        BY <1>3, <1>4, <2>2, <3>3, <3>4, <3>5, JournalWritten
      <3> QED
        BY <3>6 DEF u
    <2>6. ASSUME ~torn, NEW how \in {"ok", "pruning"}
          PROVE  JournalGood(Journal!Tell(done, r, how))
                 /\ Journal!Tell(done, r, how).told[r] = how
      <3> DEFINE u == Journal!Tell(done, r, how)
                 told == [x.told EXCEPT ![r] = how]
                 home == [x.home EXCEPT ![r] = f]
                 total == [x.total EXCEPT ![p] = x.total[p] + 1]
                 v == z.writer[p][k]
                 v1 == [v EXCEPT !.count = v.count + 1]
                 writer == [z.writer EXCEPT ![p] = [z.writer[p] EXCEPT ![k] = v1]]
      <3>1. told \in [LjRecords -> Answers] /\ told[r] = how
        BY <1>1 DEF Answers
      <3>2. home \in [LjRecords -> {<<>>} \cup (LjProcesses \X LjKinds) \cup FileNames]
        BY <1>1, <2>3
      <3>3. total \in [LjProcesses -> Nat]
        BY <1>1, <1>3
      <3>4. z.writer \in [LjProcesses -> [LjKinds -> WriterStates]] /\ v \in WriterStates
        BY <1>3, <2>1 DEF JournalStates
      <3>5. v1 \in WriterStates /\ v1.open = v.open /\ v1.start = v.start /\ v1.seq = v.seq
        <4> HIDE DEF v
        <4> QED
          BY <3>4 DEF WriterStates
      <3>6. writer \in [LjProcesses -> [LjKinds -> WriterStates]]
        <4> HIDE DEF v1
        <4> QED
          BY <1>3, <3>4, <3>5
      <3>7. \A q \in LjProcesses, l \in LjKinds :
                /\ writer[q][l].open = z.writer[q][l].open
                /\ writer[q][l].start = z.writer[q][l].start
                /\ writer[q][l].seq = z.writer[q][l].seq
        <4>1. \A q \in LjProcesses, l \in LjKinds :
                  writer[q][l] = z.writer[q][l] \/ (q = p /\ l = k /\ writer[q][l] = v1)
          <5> HIDE DEF v1
          <5> QED
            BY <1>3, <3>4
        <4> HIDE DEF writer, v1
        <4> QED
          BY <3>5, <4>1
      <3>8. u = [z EXCEPT !.told = told, !.home = home, !.total = total, !.writer = writer]
        <4>1. done = [z EXCEPT !.writer = writer, !.total = total, !.home = home]
          BY <2>1 DEF JournalStates, done
        <4>2. u = [done EXCEPT !.told[r] = how]
          BY DEF Journal!Tell
        <4> QED
          BY <2>1, <4>1, <4>2 DEF JournalStates
      <3> HIDE DEF u, told, home, total, writer
      <3>9. /\ u \in JournalStates /\ u.told = told /\ u.clock = x.clock /\ u.dirs = x.dirs
            /\ u.start = x.start /\ u.prune = x.prune /\ u.home = home
            /\ u.files = z.files /\ u.writer = writer
        BY <2>1, <3>1, <3>2, <3>3, <3>6, <3>8 DEF JournalStates
      <3>10. Appends(x, u, p, r, f, e)
        BY <2>1, <3>7, <3>9, AppendsAlike
      <3>11. e = [record |-> r, ended |-> ~torn] /\ (~torn) = TRUE /\ how # "error"
        BY <2>6 DEF e
      <3>12. u.told = [x.told EXCEPT ![r] = how] /\ u.home = [x.home EXCEPT ![r] = f]
        BY <3>9 DEF told, home
      <3>13. JournalGood(u)
        BY <1>3, <2>2, <3>9, <3>10, <3>11, <3>12, JournalWritten
      <3> QED
        BY <3>1, <3>9, <3>13 DEF u
    <2>7. r \in Journal!Agents
      BY DEF Journal!Agents
    <2>8. ASSUME ~torn PROVE JournalGood(Journal!StartPrune(Journal!Tell(done, r, "pruning"), r))
      BY <2>6, <2>7, <2>8, JournalStartPrune
    <2> QED
      BY <2>4, <2>5, <2>6, <2>8 DEF result
  <1>8. CASE x.total[p] + 1 > LjMaxTotal
    BY <1>5, <1>6, <1>8 DEF result
  <1>9. CASE ~(x.total[p] + 1 > LjMaxTotal) /\ rotate /\ p \notin x.dirs
    BY <1>5, <1>6, <1>9 DEF result
  <1>10. JournalGood(result)
    BY <1>7, <1>8, <1>9 DEF result
  <1> QED
    BY <1>10 DEF result

-----------------------------------------------------------------------------
LEMMA JournalStep ==
    ASSUME JournalGood(state), Journal!LjNext
    PROVE  JournalGood(state')
  <1> DEFINE x == state
  <1>1. /\ x \in JournalStates /\ x.prune \in [Journal!Agents -> PruneStates]
        /\ x.told \in [LjRecords -> Answers] /\ x.clock \in Nat /\ x.dirs \subseteq LjProcesses
        /\ x.pc \in [LjProcesses -> {"new", "opening", "open", "failed", "crashed"}]
        /\ x.home \in [LjRecords -> {<<>>} \cup (LjProcesses \X LjKinds) \cup FileNames]
        /\ x.start \in [LjRecords -> Nat]
    BY DEF JournalGood, JournalStates
  <1>2. /\ \A r \in LjRecords : x.prune[r].on => x.told[r] = "pruning"
        /\ x.clock <= x.clock
    <2>1. \A r \in LjRecords : x.prune[r].on => x.told[r] = "pruning"
      BY DEF JournalGood, PrunesTheOld
    <2>2. x.clock <= x.clock
      BY <1>1
    <2> QED
      BY <2>1, <2>2
  <1>3. Journal!NoPrune \in PruneStates /\ Journal!NoPrune.on = FALSE
    BY DEF Journal!NoPrune, PruneStates
  <1>4. /\ LjProcesses \subseteq Journal!Agents /\ LjRecords \subseteq Journal!Agents
        /\ \A a \in LjProcesses : a \notin LjRecords
        /\ \A a \in Journal!Agents : a \in LjRecords \/ a \in LjProcesses
    BY JournalAssumption DEF Journal!Agents
  <1>5. ASSUME NEW p \in LjProcesses, Journal!Opens(p) PROVE JournalGood(x')
    <2> DEFINE y == [x EXCEPT !.pc[p] = "opening"]
    <2>1. /\ y \in JournalStates /\ y.clock = x.clock /\ y.dirs = x.dirs /\ y.files = x.files
          /\ y.writer = x.writer /\ y.start = x.start /\ y.home = x.home
          /\ y.prune = x.prune /\ y.told = x.told
      BY <1>1 DEF JournalStates
    <2>2. Calm(x, y)
      <3> HIDE DEF y
      <3> QED
        BY <1>2, <2>1 DEF Calm
    <2>3. x' = Journal!StartPrune(y, p)
      BY <1>5 DEF Journal!Opens
    <2> HIDE DEF y
    <2>4. JournalGood(y)
      BY <2>1, <2>2, JournalCalm
    <2>5. p \in Journal!Agents /\ p \notin LjRecords
      BY <1>4
    <2> QED
      BY <2>3, <2>4, <2>5, JournalStartPrune
  <1>6. ASSUME NEW p \in LjProcesses, Journal!Crash(p) PROVE JournalGood(x')
    <2> DEFINE dies(r) == x.told[r] \in {"waiting", "pruning"} /\ x.home[r][1] = p
               prune == [a \in Journal!Agents |->
                            IF a = p \/ (a \in LjRecords /\ dies(a))
                            THEN Journal!NoPrune ELSE x.prune[a]]
               told == [r \in LjRecords |-> IF dies(r) THEN "crashed" ELSE x.told[r]]
    <2>1. x' = [x EXCEPT !.pc[p] = "crashed", !.prune = prune, !.told = told]
      BY <1>6 DEF Journal!Crash
    <2>2. told \in [LjRecords -> Answers]
      BY <1>1 DEF Answers
    <2>3. prune \in [Journal!Agents -> PruneStates]
      BY <1>1, <1>3
    <2>4. \A r \in LjRecords : told[r] = x.told[r] \/ told[r] = "crashed"
      OBVIOUS
    <2>5. \A a \in Journal!Agents : prune[a] = x.prune[a] \/ prune[a] = Journal!NoPrune
      OBVIOUS
    <2>6. ASSUME NEW r \in LjRecords, prune[r].on PROVE told[r] = "pruning"
      <3>1. prune[r] # Journal!NoPrune
        BY <1>3, <2>6
      <3>2. ~dies(r) /\ prune[r] = x.prune[r]
        BY <1>4, <2>5, <3>1
      <3>3. told[r] = x.told[r]
        BY <3>2
      <3> HIDE DEF told, prune
      <3> QED
        BY <1>2, <2>6, <3>2, <3>3
    <2> HIDE DEF prune, told
    <2>7. /\ x' \in JournalStates /\ x'.clock = x.clock /\ x'.dirs = x.dirs /\ x'.files = x.files
          /\ x'.writer = x.writer /\ x'.start = x.start /\ x'.home = x.home
          /\ x'.prune = prune /\ x'.told = told
      BY <1>1, <2>1, <2>2, <2>3 DEF JournalStates
    <2>8. Calm(x, x')
      BY <1>2, <2>4, <2>5, <2>6, <2>7 DEF Calm
    <2> QED
      BY <2>7, <2>8, JournalCalm
  <1>7. ASSUME NEW p \in LjProcesses, NEW k \in LjKinds, NEW r \in LjRecords,
               Journal!Takes(p, k, r)
        PROVE  JournalGood(x')
    <2> DEFINE told == [x.told EXCEPT ![r] = "waiting"]
               home == [x.home EXCEPT ![r] = <<p, k>>]
               start == [x.start EXCEPT ![r] = x.clock]
    <2>1. /\ x' = [x EXCEPT !.told = told, !.home = home, !.start = start]
          /\ x.told[r] = "new"
      BY <1>1, <1>7 DEF Journal!Takes, JournalStates
    <2>2. /\ told \in [LjRecords -> Answers] /\ told[r] = "waiting"
          /\ \A q \in LjRecords : q # r => told[q] = x.told[q]
      BY <1>1 DEF Answers
    <2>3. /\ home \in [LjRecords -> {<<>>} \cup (LjProcesses \X LjKinds) \cup FileNames]
          /\ home[r] = <<p, k>> /\ \A q \in LjRecords : q # r => home[q] = x.home[q]
      BY <1>1
    <2>4. /\ start \in [LjRecords -> Nat]
          /\ \A q \in LjRecords : q # r => start[q] = x.start[q]
      BY <1>1
    <2> HIDE DEF told, home, start
    <2>5. /\ x' \in JournalStates /\ x'.clock = x.clock /\ x'.dirs = x.dirs /\ x'.files = x.files
          /\ x'.writer = x.writer /\ x'.start = start /\ x'.home = home
          /\ x'.prune = x.prune /\ x'.told = told
      BY <1>1, <2>1, <2>2, <2>3, <2>4 DEF JournalStates
    <2>6. OneFile(x')
      <3>1. ASSUME NEW f \in DOMAIN x.files, NEW i \in 1..Len(x.files[f])
            PROVE  told[x.files[f][i].record] \notin {"new", "waiting"}
        <4> DEFINE q == x.files[f][i].record
        <4>1. q \in LjRecords /\ x.told[q] \notin {"new", "waiting"}
          BY <1>1, RecordType DEF JournalGood, OneFile
        <4> HIDE DEF q
        <4>2. told[q] = x.told[q]
          BY <2>1, <2>2, <4>1
        <4> QED
          BY <4>1, <4>2 DEF q
      <3> QED
        BY <2>5, <3>1 DEF JournalGood, OneFile
    <2>7. WritersHaveFiles(x')
      BY <2>5 DEF JournalGood, WritersHaveFiles, WriterFile, Expires
    <2>8. PrunesTheOld(x')
      <3>1. \A q \in LjRecords : x.prune[q].on => q # r /\ told[q] = "pruning"
        BY <1>2, <2>1, <2>2
      <3> QED
        BY <2>5, <3>1 DEF JournalGood, PrunesTheOld
    <2>9. KeepsRecords(x')
      <3>1. \A q \in LjRecords : told[q] = "waiting" => home[q] \in LjProcesses \X LjKinds
        <4>1. <<p, k>> \in LjProcesses \X LjKinds
          OBVIOUS
        <4>2. \A q \in LjRecords : x.told[q] = "waiting" => x.home[q] \in LjProcesses \X LjKinds
          BY DEF JournalGood, KeepsRecords
        <4> QED
          BY <2>2, <2>3, <4>1, <4>2
      <3>2. ASSUME NEW q \in LjRecords, told[q] \in {"ok", "pruning"}
            PROVE  \/ Expires(x', start[q])
                   \/ /\ home[q] \in DOMAIN x'.files /\ home[q][3] = start[q]
                      /\ [record |-> q, ended |-> TRUE] \in Elements(x'.files[home[q]])
        <4>1. /\ x.told[q] \in {"ok", "pruning"}
              /\ home[q] = x.home[q] /\ start[q] = x.start[q]
          BY <2>2, <2>3, <2>4, <3>2
        <4> QED
          BY <2>5, <4>1 DEF JournalGood, KeepsRecords, Expires
      <3> QED
        BY <2>5, <3>1, <3>2 DEF KeepsRecords
    <2> QED
      BY <2>5, <2>6, <2>7, <2>8, <2>9 DEF JournalGood
  <1>8. ASSUME NEW a \in Journal!Agents, Journal!PrunesDir(a) PROVE JournalGood(x')
    <2>1. PICK d \in x.prune[a].todo : x' = Journal!PruneDir(x, a, d)
      BY <1>8 DEF Journal!PrunesDir
    <2>2. d \in LjProcesses
      BY <1>1 DEF PruneStates
    <2> QED
      BY <2>1, <2>2, JournalPruneDir
  <1>9. ASSUME NEW a \in Journal!Agents, NEW ok \in BOOLEAN, x.prune[a].on,
               x' = Journal!AfterPrune(x, a, ok)
        PROVE  JournalGood(x')
    <2> DEFINE prune == [x.prune EXCEPT ![a] = Journal!NoPrune]
               y == [x EXCEPT !.prune = prune]
    <2>1. /\ prune \in [Journal!Agents -> PruneStates] /\ prune[a] = Journal!NoPrune
          /\ \A b \in Journal!Agents : b # a => prune[b] = x.prune[b]
      BY <1>1, <1>3
    <2>2. y = [x EXCEPT !.prune[a] = Journal!NoPrune]
      BY <1>1 DEF JournalStates
    <2> HIDE DEF prune
    <2>3. /\ y \in JournalStates /\ y.prune = prune /\ y.clock = x.clock /\ y.dirs = x.dirs
          /\ y.files = x.files /\ y.writer = x.writer /\ y.start = x.start
          /\ y.home = x.home /\ y.told = x.told /\ y.pc = x.pc
      BY <1>1, <2>1 DEF JournalStates
    <2> HIDE DEF y
    <2>4. x' = IF a \in LjRecords THEN Journal!Tell(y, a, IF ok THEN "ok" ELSE "error")
               ELSE IF ok THEN [y EXCEPT !.pc[a] = "open", !.dirs = y.dirs \cup {a}]
               ELSE [y EXCEPT !.pc[a] = "failed"]
      BY <1>9, <2>2 DEF Journal!AfterPrune
    <2>5. \A b \in Journal!Agents : prune[b] = x.prune[b] \/ prune[b] = Journal!NoPrune
      BY <2>1
    <2>6. \A r \in LjRecords : prune[r].on => r # a /\ x.told[r] = "pruning"
      BY <1>2, <1>3, <1>4, <2>1
    <2>7. CASE a \in LjRecords
      <3> DEFINE how == IF ok THEN "ok" ELSE "error"
                 told == [x.told EXCEPT ![a] = how]
      <3>1. how \in {"ok", "error"} /\ x.told[a] = "pruning"
        BY <1>2, <1>9, <2>7
      <3>2. x' = [y EXCEPT !.told[a] = how]
        BY <2>4, <2>7 DEF Journal!Tell
      <3> HIDE DEF how
      <3>3. /\ told \in [LjRecords -> Answers] /\ told[a] = how
            /\ \A r \in LjRecords : r # a => told[r] = x.told[r]
        BY <1>1, <2>7, <3>1 DEF Answers
      <3>4. x' = [y EXCEPT !.told = told]
        BY <2>3, <3>2 DEF JournalStates
      <3> HIDE DEF told
      <3>5. /\ x' \in JournalStates /\ x'.prune = prune /\ x'.clock = x.clock
            /\ x'.dirs = x.dirs /\ x'.files = x.files /\ x'.writer = x.writer
            /\ x'.start = x.start /\ x'.home = x.home /\ x'.told = told
        BY <2>3, <3>3, <3>4 DEF JournalStates
      <3>6. \A r \in LjRecords : prune[r].on => told[r] = "pruning"
        BY <2>6, <3>3
      <3>7. \A r \in LjRecords : \/ told[r] = x.told[r]
                                 \/ told[r] = "ok" /\ x.told[r] = "pruning"
                                 \/ told[r] = "error"
        BY <3>1, <3>3
      <3>8. Calm(x, x')
        BY <1>2, <2>5, <3>5, <3>6, <3>7 DEF Calm
      <3> QED
        BY <3>5, <3>8, JournalCalm
    <2>8. CASE a \notin LjRecords
      <3>1. a \in LjProcesses
        BY <1>4, <2>8
      <3>2. /\ x' \in JournalStates /\ x'.prune = prune /\ x'.clock = x.clock
            /\ x.dirs \subseteq x'.dirs /\ x'.files = x.files /\ x'.writer = x.writer
            /\ x'.start = x.start /\ x'.home = x.home /\ x'.told = x.told
        <4>1. CASE ok
          <5>1. x' = [y EXCEPT !.pc[a] = "open", !.dirs = y.dirs \cup {a}]
            BY <2>4, <2>8, <4>1
          <5>2. [y.pc EXCEPT ![a] = "open"] \in [LjProcesses -> {"new", "opening", "open", "failed", "crashed"}]
            BY <1>1, <2>3
          <5>3. y.dirs \cup {a} \in SUBSET LjProcesses
            BY <1>1, <2>3, <3>1
          <5> QED
            BY <2>3, <3>1, <5>1, <5>2, <5>3 DEF JournalStates
        <4>2. CASE ~ok
          <5>1. x' = [y EXCEPT !.pc[a] = "failed"]
            BY <2>4, <2>8, <4>2
          <5>2. [y.pc EXCEPT ![a] = "failed"] \in [LjProcesses -> {"new", "opening", "open", "failed", "crashed"}]
            BY <1>1, <2>3
          <5> QED
            BY <2>3, <3>1, <5>1, <5>2 DEF JournalStates
        <4> QED
          BY <4>1, <4>2
      <3>3. Calm(x, x')
        BY <1>2, <2>5, <2>6, <3>2 DEF Calm
      <3> QED
        BY <3>2, <3>3, JournalCalm
    <2> QED
      BY <2>7, <2>8
  <1>10. ASSUME NEW r \in LjRecords, Journal!Writes(r) PROVE JournalGood(x')
    <2>1. x.told[r] = "waiting" /\ \E torn \in BOOLEAN : x' = Journal!WriteEncoded(x, r, torn)
      BY <1>10 DEF Journal!Writes
    <2> QED
      BY <2>1, JournalWrites
  <1>11. ASSUME Journal!Tick PROVE JournalGood(x')
    <2>1. x' = [x EXCEPT !.clock = x.clock + 1] /\ x.clock + 1 \in Nat /\ x.clock <= x.clock + 1
      BY <1>1, <1>11 DEF Journal!Tick
    <2>2. /\ x' \in JournalStates /\ x'.clock = x.clock + 1 /\ x'.dirs = x.dirs
          /\ x'.files = x.files /\ x'.writer = x.writer /\ x'.start = x.start
          /\ x'.home = x.home /\ x'.prune = x.prune /\ x'.told = x.told
      BY <1>1, <2>1 DEF JournalStates
    <2>3. Calm(x, x')
      BY <1>2, <2>1, <2>2 DEF Calm
    <2> QED
      BY <2>2, <2>3, JournalCalm
  <1> HIDE DEF x
  <1>12. \A a \in Journal!Agents :
            Journal!PruneEnds(a) \/ Journal!PruneFails(a) =>
                state.prune[a].on /\ \E ok \in BOOLEAN : state' = Journal!AfterPrune(state, a, ok)
    BY DEF Journal!PruneEnds, Journal!PruneFails
  <1> QED
    BY <1>5, <1>6, <1>7, <1>8, <1>9, <1>10, <1>11, <1>12 DEF Journal!LjNext, x

(* What the runs check of the journal.                                      *)
LEMMA JournalHolds ==
    ASSUME JournalGood(state)
    PROVE  Journal!JournalKeeps /\ Journal!OneFileEach
  <1>1. /\ state \in JournalStates /\ state.clock \in Nat
        /\ state.start \in [LjRecords -> Nat] /\ state.files \in FileSets
    BY DEF JournalGood, JournalStates
  <1>2. \A f \in DOMAIN state.files :
            /\ state.files[f] \in Seq(Entries) /\ DOMAIN state.files[f] = 1..Len(state.files[f])
            /\ Elements(state.files[f]) = Range(state.files[f])
    BY <1>1, FilesType, ElementsType
  <1>3. Journal!OneFileEach
    <2>1. OneFile(state)
      BY DEF JournalGood
    <2> QED
      BY <1>2, <2>1 DEF Journal!OneFileEach, OneFile
  <1>4. ASSUME NEW r \in LjRecords, state.told[r] = "ok",
               state.start[r] + 1 > state.clock - LjRetention
        PROVE  [record |-> r, ended |-> TRUE] \in Journal!Entries(state.home[r])
    <2>1. ~Expires(state, state.start[r])
      BY <1>1, <1>4 DEF Expires
    <2>2. /\ state.home[r] \in DOMAIN state.files
          /\ [record |-> r, ended |-> TRUE] \in Elements(state.files[state.home[r]])
      BY <1>4, <2>1 DEF JournalGood, KeepsRecords
    <2>3. Journal!Entries(state.home[r]) = Range(state.files[state.home[r]])
      BY <2>2 DEF Journal!Entries, Journal!Range, Range
    <2> QED
      BY <1>2, <2>2, <2>3
  <1>5. Journal!JournalKeeps
    BY <1>4 DEF Journal!JournalKeeps
  <1> QED
    BY <1>3, <1>5

HIDE RetentionType

(***************************************************************************)
(* Part 4: the HTTP ingest transport                                       *)
(***************************************************************************)

HttpOutcomes == {"new", "held", "acknowledged", "refused", "dropped"}
HttpExits == {"off", "waiting", "draining"}
HttpStates ==
    [queue : Seq(HiRecords), batch : Seq(HiRecords),
     outcome : [HiRecords -> HttpOutcomes],
     committed : SUBSET HiRecords, refused : SUBSET HiRecords,
     posting : [Http!Drains -> Seq(HiRecords)], exitPc : [Http!Exits -> HttpExits],
     retrying : BOOLEAN, interval : BOOLEAN, retry : BOOLEAN, awaitDelivery : BOOLEAN,
     accepting : BOOLEAN, closed : BOOLEAN, given : BOOLEAN]

(* What is held, and only that, is queued or in the pending batch, once.    *)
HttpHeld(x) ==
    /\ Once(x.queue) /\ Once(x.batch)
    /\ Elements(x.queue) \cap Elements(x.batch) = {}
    /\ \A r \in HiRecords :
          x.outcome[r] = "held" <=> r \in Elements(x.queue) \cup Elements(x.batch)

HttpCommits(x) == \A r \in HiRecords : x.outcome[r] = "acknowledged" => r \in x.committed

(* The data of the transport are in order.                                  *)
HttpData(x) ==
    /\ x \in HttpStates /\ Len(x.queue) <= HiMaxQueue /\ Len(x.batch) <= HiBatchSize
    /\ HttpHeld(x) /\ HttpCommits(x)

(* So is its control: who drains has a post, who waits does for the flush,  *)
(* and data that are held have a post or a timer.                           *)
HttpDrains(x) == \A e \in Http!Exits : x.exitPc[e] = "draining" <=> x.posting[e] # <<>>
HttpWaits(x) == \A e \in Http!Exits : x.exitPc[e] = "waiting" => x.posting["flush"] # <<>>
HttpTimed(x) ==
    Http!HasData(x) /\ x.accepting /\ ~x.given =>
        x.interval \/ x.retry \/ \E d \in Http!Drains : x.posting[d] # <<>>

HttpGood(x) == HttpData(x) /\ HttpDrains(x) /\ HttpWaits(x) /\ HttpTimed(x)

(* A step that leaves the queue, the batch and the outcomes alone.          *)
HttpSameData(x, y) ==
    /\ y.queue = x.queue /\ y.batch = x.batch /\ y.outcome = x.outcome
    /\ x.committed \subseteq y.committed

(* A step that leaves the timers, the posts and the exits alone.            *)
HttpSameControl(x, y) ==
    /\ y.posting = x.posting /\ y.exitPc = x.exitPc
    /\ y.interval = x.interval /\ y.retry = x.retry
    /\ y.accepting = x.accepting /\ y.given = x.given

-----------------------------------------------------------------------------
LEMMA HttpConstants ==
    /\ HiBatchSize \in Nat /\ HiBatchSize >= 1 /\ HiMaxQueue \in Nat /\ HiMaxQueue >= 1
    /\ HiMaxFaults \in Nat
    /\ Http!Exits = {"exit", "close"} /\ Http!Drains = {"exit", "close", "flush"}
    /\ Http!Exits \subseteq Http!Drains /\ "flush" \in Http!Drains /\ "flush" \notin Http!Exits
  BY HttpAssumption DEF Http!Exits, Http!Drains

USE HttpConstants

LEMMA HttpSameDataKeeps ==
    ASSUME NEW x, HttpData(x), NEW y \in HttpStates, HttpSameData(x, y)
    PROVE  HttpData(y) /\ (Http!HasData(y) <=> Http!HasData(x))
  BY DEF HttpData, HttpSameData, HttpHeld, HttpCommits, Http!HasData

LEMMA HttpTypes ==
    ASSUME NEW x \in HttpStates
    PROVE  /\ x.queue \in Seq(HiRecords) /\ x.batch \in Seq(HiRecords)
           /\ Len(x.queue) \in Nat /\ Len(x.batch) \in Nat
           /\ Elements(x.queue) \subseteq HiRecords /\ Elements(x.batch) \subseteq HiRecords
           /\ (Elements(x.queue) = {} <=> x.queue = <<>>)
           /\ (Elements(x.batch) = {} <=> x.batch = <<>>)
           /\ Elements(x.batch) = Range(x.batch) /\ Elements(x.queue) = Range(x.queue)
           /\ x.outcome \in [HiRecords -> HttpOutcomes]
           /\ x.posting \in [Http!Drains -> Seq(HiRecords)]
           /\ x.exitPc \in [Http!Exits -> HttpExits]
           /\ x.committed \subseteq HiRecords
  <1>1. /\ x.queue \in Seq(HiRecords) /\ x.batch \in Seq(HiRecords)
        /\ x.outcome \in [HiRecords -> HttpOutcomes]
        /\ x.posting \in [Http!Drains -> Seq(HiRecords)]
        /\ x.exitPc \in [Http!Exits -> HttpExits]
        /\ x.committed \subseteq HiRecords
    BY DEF HttpStates
  <1>2. Len(x.queue) \in Nat /\ Len(x.batch) \in Nat
    BY <1>1, LenProperties
  <1>3. /\ Elements(x.queue) \subseteq HiRecords
        /\ (Elements(x.queue) = {} <=> x.queue = <<>>)
        /\ Elements(x.queue) = Range(x.queue)
    <2> DEFINE s == x.queue
    <2>1. s \in Seq(HiRecords)
      BY <1>1
    <2> HIDE DEF s
    <2>2. Elements(s) \subseteq HiRecords /\ (Elements(s) = {} <=> s = <<>>) /\ Elements(s) = Range(s)
      BY <2>1, ElementsType
    <2> QED
      BY <2>2 DEF s
  <1>4. /\ Elements(x.batch) \subseteq HiRecords
        /\ (Elements(x.batch) = {} <=> x.batch = <<>>)
        /\ Elements(x.batch) = Range(x.batch)
    <2> DEFINE s == x.batch
    <2>1. s \in Seq(HiRecords)
      BY <1>1
    <2> HIDE DEF s
    <2>2. Elements(s) \subseteq HiRecords /\ (Elements(s) = {} <=> s = <<>>) /\ Elements(s) = Range(s)
      BY <2>1, ElementsType
    <2> QED
      BY <2>2 DEF s
  <1> QED
    BY <1>1, <1>2, <1>3, <1>4

(* createBatch takes records from the front of the queue, one at least.     *)
LEMMA HttpCreateBatch ==
    ASSUME NEW x, HttpData(x), NEW d \in Http!Drains, Http!HasData(x)
    PROVE  LET y == Http!CreateBatch(x, d)
           IN  /\ HttpData(y) /\ y.batch # <<>> /\ HttpSameControl(x, y)
  <1> DEFINE y == Http!CreateBatch(x, d)
             heavy == IF d = "flush" THEN HiHeavy ELSE HiExitHeavy
             fits(n) == n <= HiBatchSize /\ (n = 1 \/ \A k \in 1..n : x.queue[k] \notin heavy)
             F == {k \in 1..Len(x.queue) : fits(k)}
             n == Http!Max(F)
  <1>1. x \in HttpStates /\ Len(x.queue) <= HiMaxQueue
    BY DEF HttpData
  <1>2. /\ x.queue \in Seq(HiRecords) /\ Len(x.queue) \in Nat
        /\ (Elements(x.queue) = {} <=> x.queue = <<>>)
    BY <1>1, HttpTypes
  <1>3. CASE x.batch # <<>>
    BY <1>3 DEF Http!CreateBatch, HttpSameControl
  <1>4. CASE x.batch = <<>>
    <2>1. x.queue # <<>>
      BY <1>4 DEF Http!HasData
    <2>2. Len(x.queue) >= 1
      BY <1>2, <2>1, EmptySeq
    <2>3. 1 \in F /\ F \subseteq 0..Len(x.queue)
      BY <1>2, <2>2
    <2>4. n \in F
      <3> HIDE DEF F
      <3>1. PICK m \in F : \A k \in F : m >= k
        BY <1>2, <2>3, Greatest
      <3> QED
        BY <3>1 DEF Http!Max
    <2>5. n \in 1..Len(x.queue) /\ n <= HiBatchSize
      BY <2>4
    <2> DEFINE a == SubSeq(x.queue, 1, n)
               b == SubSeq(x.queue, n + 1, Len(x.queue))
    <2>6. y = [x EXCEPT !.batch = a, !.queue = b]
      BY <1>4 DEF Http!CreateBatch
    <2> HIDE DEF F, n, y
    <2>7. n \in 0..Len(x.queue)
      BY <1>2, <2>5
    <2>8. /\ a \in Seq(HiRecords) /\ b \in Seq(HiRecords)
          /\ Len(a) = n /\ Len(b) = Len(x.queue) - n
          /\ Elements(x.queue) = Elements(a) \cup Elements(b)
          /\ Once(x.queue) => Once(a) /\ Once(b) /\ Elements(a) \cap Elements(b) = {}
      BY <1>2, <2>7, OnceCut
    <2>9. Len(a) >= 1 /\ Len(a) <= HiBatchSize /\ Len(b) <= HiMaxQueue
      BY <1>1, <1>2, <2>5, <2>8
    <2>11. Elements(x.batch) = {}
      BY <1>4, OnceEmpty
    <2> HIDE DEF a, b
    <2>10. a # <<>>
      BY <2>9, EmptySeq
    <2>12. /\ y \in HttpStates /\ y.queue = b /\ y.batch = a /\ y.outcome = x.outcome
           /\ y.committed = x.committed /\ HttpSameControl(x, y)
      BY <1>1, <2>6, <2>8 DEF HttpStates, HttpSameControl
    <2>13. HttpHeld(y)
      BY <2>8, <2>11, <2>12 DEF HttpData, HttpHeld
    <2>14. HttpCommits(y)
      BY <2>12 DEF HttpData, HttpCommits
    <2> QED
      BY <2>9, <2>10, <2>12, <2>13, <2>14 DEF HttpData, y
  <1> QED
    BY <1>3, <1>4

LEMMA HttpPosts ==
    ASSUME NEW x, HttpData(x), NEW d \in Http!Drains, Http!HasData(x)
    PROVE  LET y == Http!Posts(x, d)
           IN  /\ HttpData(y) /\ y.posting[d] # <<>>
               /\ \A c \in Http!Drains : c # d => y.posting[c] = x.posting[c]
               /\ y.exitPc = x.exitPc /\ y.interval = x.interval /\ y.retry = x.retry
               /\ y.accepting = x.accepting /\ y.given = x.given
  <1> DEFINE z == Http!CreateBatch(x, d)
             y == Http!Posts(x, d)
  <1>1. HttpData(z) /\ z.batch # <<>> /\ HttpSameControl(x, z)
    BY HttpCreateBatch
  <1>2. y = [z EXCEPT !.posting[d] = z.batch]
    BY DEF Http!Posts
  <1> HIDE DEF y, z
  <1>3. z \in HttpStates /\ z.batch \in Seq(HiRecords) /\ z.posting \in [Http!Drains -> Seq(HiRecords)]
    BY <1>1, HttpTypes DEF HttpData
  <1> DEFINE posting == [z.posting EXCEPT ![d] = z.batch]
  <1>4. posting \in [Http!Drains -> Seq(HiRecords)] /\ posting[d] = z.batch
        /\ \A c \in Http!Drains : c # d => posting[c] = z.posting[c]
    BY <1>3
  <1>5. y = [z EXCEPT !.posting = posting]
    BY <1>2, <1>3 DEF HttpStates
  <1> HIDE DEF posting
  <1>6. /\ y \in HttpStates /\ HttpSameData(z, y) /\ y.posting = posting
        /\ y.exitPc = z.exitPc /\ y.interval = z.interval /\ y.retry = z.retry
        /\ y.accepting = z.accepting /\ y.given = z.given
    BY <1>3, <1>4, <1>5 DEF HttpStates, HttpSameData
  <1>7. HttpData(y)
    BY <1>1, <1>6, HttpSameDataKeeps
  <1> QED
    BY <1>1, <1>4, <1>6, <1>7 DEF HttpSameControl, y

LEMMA HttpDrainStarts ==
    ASSUME NEW x, HttpData(x), NEW d \in Http!Drains
    PROVE  LET y == Http!DrainStarts(x, d)
           IN  /\ HttpData(y) /\ (Http!HasData(y) => y.posting[d] # <<>>)
               /\ y.posting[d] = x.posting[d] \/ y.posting[d] # <<>>
               /\ \A c \in Http!Drains : c # d => y.posting[c] = x.posting[c]
               /\ y.exitPc = x.exitPc
               /\ y.accepting = x.accepting /\ y.given = x.given
  <1> DEFINE z == [x EXCEPT !.interval = FALSE, !.retry = FALSE]
             y == Http!DrainStarts(x, d)
  <1>1. x \in HttpStates
    BY DEF HttpData
  <1>2. /\ z \in HttpStates /\ HttpSameData(x, z) /\ z.posting = x.posting /\ z.exitPc = x.exitPc
        /\ z.accepting = x.accepting /\ z.given = x.given
    BY <1>1 DEF HttpStates, HttpSameData
  <1>3. y = IF Http!HasData(z) THEN Http!Posts(z, d) ELSE z
    BY DEF Http!DrainStarts
  <1> HIDE DEF y, z
  <1>4. HttpData(z)
    BY <1>2, HttpSameDataKeeps
  <1>5. CASE Http!HasData(z)
    BY <1>2, <1>3, <1>4, <1>5, HttpPosts DEF y
  <1>6. CASE ~Http!HasData(z)
    BY <1>2, <1>3, <1>4, <1>6 DEF y
  <1> QED
    BY <1>5, <1>6

LEMMA HttpFlushes ==
    ASSUME NEW x, HttpData(x), HttpDrains(x), HttpWaits(x), NEW retries \in BOOLEAN
    PROVE  HttpGood(Http!Flushes(x, retries))
  <1> DEFINE y == Http!Flushes(x, retries)
  <1>1. x \in HttpStates
    BY DEF HttpData
  <1>2. CASE x.posting["flush"] # <<>>
    <2>1. PICK b \in BOOLEAN : y = [x EXCEPT !.retrying = b]
      <3>1. y = [x EXCEPT !.retrying = x.retrying \/ retries]
        BY <1>2 DEF Http!Flushes
      <3>2. (x.retrying \/ retries) \in BOOLEAN
        OBVIOUS
      <3> QED
        BY <3>1, <3>2
    <2> HIDE DEF y
    <2>2. y \in HttpStates /\ HttpSameData(x, y) /\ HttpSameControl(x, y)
      BY <1>1, <2>1 DEF HttpStates, HttpSameData, HttpSameControl
    <2>3. HttpData(y)
      BY <2>2, HttpSameDataKeeps
    <2> QED
      BY <1>2, <2>2, <2>3 DEF HttpGood, HttpDrains, HttpWaits, HttpTimed, HttpSameControl, y
  <1>3. CASE x.posting["flush"] = <<>>
    <2> DEFINE u == [x EXCEPT !.retrying = retries]
               z == Http!DrainStarts(u, "flush")
    <2>1. u \in HttpStates /\ HttpSameData(x, u) /\ HttpSameControl(x, u)
      BY <1>1 DEF HttpStates, HttpSameData, HttpSameControl
    <2>2. y = IF z.posting["flush"] # <<>> THEN z ELSE [z EXCEPT !.retrying = FALSE]
      BY <1>3 DEF Http!Flushes
    <2> HIDE DEF u, y
    <2>3. HttpData(u)
      BY <2>1, HttpSameDataKeeps
    <2>4. /\ HttpData(z) /\ (Http!HasData(z) => z.posting["flush"] # <<>>)
          /\ \A c \in Http!Drains : c # "flush" => z.posting[c] = u.posting[c]
          /\ z.exitPc = u.exitPc
      BY <2>3, HttpDrainStarts
    <2> HIDE DEF z
    <2>5. z \in HttpStates
      BY <2>4 DEF HttpData
    <2>6. y \in HttpStates /\ HttpSameData(z, y) /\ HttpSameControl(z, y)
      BY <2>2, <2>5 DEF HttpStates, HttpSameData, HttpSameControl
    <2>7. HttpData(y) /\ (Http!HasData(y) <=> Http!HasData(z))
      BY <2>4, <2>6, HttpSameDataKeeps
    <2>8. HttpTimed(y)
      BY <2>4, <2>6, <2>7 DEF HttpTimed, HttpSameControl
    <2>9. HttpDrains(y)
      BY <2>1, <2>4, <2>6 DEF HttpDrains, HttpSameControl
    <2>10. HttpWaits(y)
      BY <1>3, <2>1, <2>4, <2>6 DEF HttpWaits, HttpSameControl
    <2> QED
      BY <2>7, <2>8, <2>9, <2>10 DEF HttpGood, y
  <1> QED
    BY <1>2, <1>3

(* flushOnExit() goes on: it has a post, or there is nothing left.          *)
LEMMA HttpExitDrains ==
    ASSUME NEW x, HttpData(x), NEW e \in Http!Exits
    PROVE  LET y == Http!ExitDrains(x, e)
           IN  /\ HttpData(y) /\ HttpTimed(y)
               /\ y.exitPc[e] = "draining" <=> y.posting[e] # <<>>
               /\ y.exitPc[e] # "waiting"
               /\ \A c \in Http!Exits : c # e => y.exitPc[c] = x.exitPc[c]
               /\ \A c \in Http!Drains : c # e => y.posting[c] = x.posting[c]
  <1> DEFINE z == Http!DrainStarts(x, e)
             y == Http!ExitDrains(x, e)
  <1>1. e \in Http!Drains
    OBVIOUS
  <1>2. /\ HttpData(z) /\ (Http!HasData(z) => z.posting[e] # <<>>)
        /\ \A c \in Http!Drains : c # e => z.posting[c] = x.posting[c]
        /\ z.exitPc = x.exitPc
    BY <1>1, HttpDrainStarts
  <1>3. /\ z.posting[e] # <<>> => y = [z EXCEPT !.exitPc[e] = "draining"]
        /\ z.posting[e] = <<>> =>
              y = [z EXCEPT !.exitPc[e] = "off", !.closed = z.closed \/ e = "close"]
    BY DEF Http!ExitDrains
  <1> HIDE DEF z, y
  <1>4. z \in HttpStates /\ z.exitPc \in [Http!Exits -> HttpExits]
    BY <1>2, HttpTypes DEF HttpData
  <1>5. PICK pc \in {"draining", "off"}, b \in BOOLEAN :
            /\ y = [z EXCEPT !.exitPc[e] = pc, !.closed = b]
            /\ pc = "draining" <=> z.posting[e] # <<>>
    <2>1. CASE z.posting[e] # <<>>
      <3>1. y = [z EXCEPT !.exitPc[e] = "draining", !.closed = z.closed] /\ z.closed \in BOOLEAN
        BY <1>3, <1>4, <2>1 DEF HttpStates
      <3> QED
        BY <2>1, <3>1
    <2>2. CASE z.posting[e] = <<>>
      <3>1. (z.closed \/ e = "close") \in BOOLEAN
        OBVIOUS
      <3> QED
        BY <1>3, <2>2, <3>1
    <2> QED
      BY <2>1, <2>2
  <1> DEFINE exitPc == [z.exitPc EXCEPT ![e] = pc]
  <1>6. /\ exitPc \in [Http!Exits -> HttpExits] /\ exitPc[e] = pc
        /\ \A c \in Http!Exits : c # e => exitPc[c] = z.exitPc[c]
    BY <1>4 DEF HttpExits
  <1>7. y = [z EXCEPT !.exitPc = exitPc, !.closed = b]
    BY <1>4, <1>5 DEF HttpStates
  <1> HIDE DEF exitPc
  <1>8. /\ y \in HttpStates /\ HttpSameData(z, y) /\ y.posting = z.posting /\ y.exitPc = exitPc
        /\ y.accepting = z.accepting /\ y.given = z.given
    BY <1>4, <1>6, <1>7 DEF HttpStates, HttpSameData
  <1>9. HttpData(y) /\ (Http!HasData(y) <=> Http!HasData(z))
    BY <1>2, <1>8, HttpSameDataKeeps
  <1>10. HttpTimed(y)
    BY <1>1, <1>2, <1>8, <1>9 DEF HttpTimed
  <1> QED
    BY <1>2, <1>5, <1>6, <1>8, <1>9, <1>10 DEF y

LEMMA HttpWakes ==
    ASSUME NEW x, HttpData(x), HttpDrains(x), HttpTimed(x), NEW e \in Http!Exits
    PROVE  LET y == Http!Wakes(x, e)
           IN  /\ HttpData(y) /\ HttpDrains(y) /\ HttpTimed(y) /\ y.exitPc[e] # "waiting"
               /\ \A c \in Http!Exits : c # e => y.exitPc[c] = x.exitPc[c]
  <1> DEFINE y == Http!Wakes(x, e)
  <1>1. CASE x.exitPc[e] = "waiting"
    <2>1. y = Http!ExitDrains(x, e)
      BY <1>1 DEF Http!Wakes
    <2> HIDE DEF y
    <2>2. /\ HttpData(y) /\ HttpTimed(y)
          /\ y.exitPc[e] = "draining" <=> y.posting[e] # <<>>
          /\ y.exitPc[e] # "waiting"
          /\ \A c \in Http!Exits : c # e => y.exitPc[c] = x.exitPc[c]
          /\ \A c \in Http!Drains : c # e => y.posting[c] = x.posting[c]
      BY <2>1, HttpExitDrains
    <2>3. HttpDrains(y)
      BY <2>2 DEF HttpDrains
    <2> QED
      BY <2>2, <2>3 DEF y
  <1>2. CASE x.exitPc[e] # "waiting"
    BY <1>2 DEF Http!Wakes
  <1> QED
    BY <1>1, <1>2

(* The flush has settled, and failed or left nothing: a timer or nobody     *)
(* looks after what it left, and no exit waits any more.                    *)
LEMMA HttpFlushEnds ==
    ASSUME NEW x, HttpData(x), HttpDrains(x),
           NEW lost \in BOOLEAN, NEW retryable \in BOOLEAN, ~lost => ~Http!HasData(x)
    PROVE  HttpGood(Http!FlushEnds(x, lost, retryable))
  <1> DEFINE u == [x EXCEPT !.posting["flush"] = <<>>, !.retrying = FALSE]
             y == Http!ScheduleHiInterval(u)
             z == IF lost /\ retryable /\ x.retrying THEN Http!ScheduleHiRetry(y)
                  ELSE [y EXCEPT !.given = y.given \/ lost]
             a == Http!Wakes(z, "exit")
             b == Http!Wakes(a, "close")
  <1>1. x \in HttpStates /\ x.posting \in [Http!Drains -> Seq(HiRecords)]
    BY HttpTypes DEF HttpData
  <1> DEFINE posting == [x.posting EXCEPT !["flush"] = <<>>]
  <1>2. /\ posting \in [Http!Drains -> Seq(HiRecords)]
        /\ \A c \in Http!Drains : c # "flush" => posting[c] = x.posting[c]
    BY <1>1
  <1>3. u = [x EXCEPT !.posting = posting, !.retrying = FALSE]
    BY <1>1 DEF HttpStates
  <1> HIDE DEF posting, u
  <1>4. /\ u \in HttpStates /\ HttpSameData(x, u) /\ u.exitPc = x.exitPc /\ u.posting = posting
    BY <1>1, <1>2, <1>3 DEF HttpStates, HttpSameData
  <1>5. HttpData(u) /\ HttpDrains(u) /\ (Http!HasData(u) <=> Http!HasData(x))
    BY <1>2, <1>4, HttpSameDataKeeps DEF HttpDrains
  <1>6. /\ y \in HttpStates /\ HttpSameData(u, y) /\ y.exitPc = u.exitPc /\ y.posting = u.posting
    BY <1>4 DEF HttpStates, HttpSameData, Http!ScheduleHiInterval
  <1> HIDE DEF y
  <1>7. HttpData(y) /\ HttpDrains(y) /\ (Http!HasData(y) <=> Http!HasData(x))
    BY <1>5, <1>6, HttpSameDataKeeps DEF HttpDrains
  <1>8. /\ z \in HttpStates /\ HttpSameData(y, z) /\ z.exitPc = y.exitPc /\ z.posting = y.posting
        /\ Http!HasData(y) => ~z.accepting \/ z.retry \/ z.given
    <2>1. CASE lost /\ retryable /\ x.retrying
      <3>1. z = Http!ScheduleHiRetry(y)
        BY <2>1
      <3> QED
        BY <1>6, <3>1 DEF HttpStates, HttpSameData, Http!ScheduleHiRetry
    <2>2. CASE ~(lost /\ retryable /\ x.retrying)
      <3>1. PICK g \in BOOLEAN : z = [y EXCEPT !.given = g] /\ (lost => g = TRUE)
        <4>1. z = [y EXCEPT !.given = y.given \/ lost]
          BY <2>2
        <4>2. (y.given \/ lost) \in BOOLEAN /\ (lost => (y.given \/ lost) = TRUE)
          OBVIOUS
        <4> QED
          BY <4>1, <4>2
      <3> HIDE DEF z
      <3>2. z \in HttpStates /\ HttpSameData(y, z) /\ z.exitPc = y.exitPc /\ z.posting = y.posting
        BY <1>6, <3>1 DEF HttpStates, HttpSameData
      <3>3. z.given = g
        BY <1>6, <3>1 DEF HttpStates
      <3> QED
        BY <1>7, <3>1, <3>2, <3>3
    <2> QED
      BY <2>1, <2>2
  <1>9. Http!FlushEnds(x, lost, retryable) = b
    BY DEF Http!FlushEnds, u, y
  <1> HIDE DEF z
  <1>10. HttpData(z) /\ HttpDrains(z) /\ (Http!HasData(z) <=> Http!HasData(y))
    BY <1>7, <1>8, HttpSameDataKeeps DEF HttpDrains
  <1>11. HttpTimed(z)
    BY <1>8, <1>10 DEF HttpTimed
  <1>12. "exit" \in Http!Exits /\ "close" \in Http!Exits /\ Http!Exits = {"exit", "close"}
    OBVIOUS
  <1>13. HttpData(a) /\ HttpDrains(a) /\ HttpTimed(a) /\ a.exitPc["exit"] # "waiting"
    BY <1>10, <1>11, <1>12, HttpWakes
  <1> HIDE DEF a
  <1>14. HttpData(b) /\ HttpDrains(b) /\ HttpTimed(b) /\ b.exitPc["close"] # "waiting"
         /\ b.exitPc["exit"] = a.exitPc["exit"]
    BY <1>12, <1>13, HttpWakes
  <1> HIDE DEF b
  <1>15. HttpWaits(b)
    BY <1>12, <1>13, <1>14 DEF HttpWaits
  <1> QED
    BY <1>9, <1>14, <1>15 DEF HttpGood

LEMMA HttpDrainEnds ==
    ASSUME NEW x, HttpData(x), HttpDrains(x), HttpWaits(x), NEW d \in Http!Drains,
           NEW lost \in BOOLEAN, NEW retryable \in BOOLEAN, ~lost => ~Http!HasData(x)
    PROVE  HttpGood(Http!DrainEndsHi(x, d, lost, retryable))
  <1> DEFINE y == Http!DrainEndsHi(x, d, lost, retryable)
  <1>1. CASE d = "flush"
    <2>1. y = Http!FlushEnds(x, lost, retryable)
      BY <1>1 DEF Http!DrainEndsHi
    <2> QED
      BY <2>1, HttpFlushEnds
  <1>2. CASE d # "flush"
    <2>1. d \in Http!Exits
      BY <1>2
    <2>2. x \in HttpStates /\ x.posting \in [Http!Drains -> Seq(HiRecords)]
          /\ x.exitPc \in [Http!Exits -> HttpExits]
      BY HttpTypes DEF HttpData
    <2>3. PICK g \in BOOLEAN, c \in BOOLEAN :
              /\ y = [x EXCEPT !.posting[d] = <<>>, !.exitPc[d] = "off", !.given = g, !.closed = c]
              /\ lost => g = TRUE
      <3>1. y = [x EXCEPT !.posting[d] = <<>>, !.exitPc[d] = "off", !.given = x.given \/ lost,
                          !.closed = x.closed \/ (d = "close" /\ ~lost)]
        BY <1>2 DEF Http!DrainEndsHi
      <3>2. /\ (x.given \/ lost) \in BOOLEAN /\ (lost => (x.given \/ lost) = TRUE)
            /\ (x.closed \/ (d = "close" /\ ~lost)) \in BOOLEAN
        OBVIOUS
      <3> QED
        BY <3>1, <3>2
    <2> DEFINE posting == [x.posting EXCEPT ![d] = <<>>]
               exitPc == [x.exitPc EXCEPT ![d] = "off"]
    <2>4. /\ posting \in [Http!Drains -> Seq(HiRecords)] /\ posting[d] = <<>>
          /\ \A e \in Http!Drains : e # d => posting[e] = x.posting[e]
      BY <2>2
    <2>5. /\ exitPc \in [Http!Exits -> HttpExits] /\ exitPc[d] = "off"
          /\ \A e \in Http!Exits : e # d => exitPc[e] = x.exitPc[e]
      BY <2>1, <2>2 DEF HttpExits
    <2>6. y = [x EXCEPT !.posting = posting, !.exitPc = exitPc, !.given = g, !.closed = c]
      BY <2>2, <2>3 DEF HttpStates
    <2> HIDE DEF posting, exitPc, y
    <2>7. /\ y \in HttpStates /\ HttpSameData(x, y) /\ y.posting = posting /\ y.exitPc = exitPc
          /\ y.given = g
      BY <2>2, <2>4, <2>5, <2>6 DEF HttpStates, HttpSameData
    <2>8. HttpData(y) /\ (Http!HasData(y) <=> Http!HasData(x))
      BY <2>7, HttpSameDataKeeps
    <2>9. HttpDrains(y)
      BY <2>4, <2>5, <2>7 DEF HttpDrains
    <2>10. HttpWaits(y)
      BY <1>2, <2>4, <2>5, <2>7 DEF HttpWaits
    <2>11. HttpTimed(y)
      BY <2>3, <2>7, <2>8 DEF HttpTimed
    <2> QED
      BY <2>8, <2>9, <2>10, <2>11 DEF HttpGood, y
  <1> QED
    BY <1>1, <1>2

(* The records of the pending batch are over, and it is gone.               *)
LEMMA HttpBatchEnds ==
    ASSUME NEW x, HttpData(x), NEW how \in {"acknowledged", "refused"},
           how = "acknowledged" => Elements(x.batch) \subseteq x.committed
    PROVE  LET y == [Http!Ends(x, Range(x.batch), how) EXCEPT !.batch = <<>>]
           IN  HttpData(y) /\ HttpSameControl(x, y)
  <1> DEFINE y == [Http!Ends(x, Range(x.batch), how) EXCEPT !.batch = <<>>]
             B == Elements(x.batch)
             outcome == [r \in HiRecords |-> IF r \in B THEN how ELSE x.outcome[r]]
  <1>1. x \in HttpStates /\ B = Range(x.batch) /\ x.outcome \in [HiRecords -> HttpOutcomes]
    BY HttpTypes DEF HttpData
  <1>2. y = [x EXCEPT !.outcome = outcome, !.batch = <<>>]
    BY <1>1 DEF Http!Ends
  <1>3. /\ outcome \in [HiRecords -> HttpOutcomes]
        /\ \A r \in HiRecords : r \in B => outcome[r] = how
        /\ \A r \in HiRecords : r \notin B => outcome[r] = x.outcome[r]
    BY <1>1 DEF HttpOutcomes
  <1>4. Elements(<<>>) = {} /\ Once(<<>>) /\ Len(<<>>) = 0 /\ <<>> \in Seq(HiRecords)
    BY OnceEmpty
  <1> HIDE DEF outcome, y
  <1>5. /\ y \in HttpStates /\ y.queue = x.queue /\ y.batch = <<>> /\ y.outcome = outcome
        /\ y.committed = x.committed /\ HttpSameControl(x, y)
    BY <1>1, <1>2, <1>3, <1>4 DEF HttpStates, HttpSameControl
  <1>6. HttpHeld(y)
    <2> HIDE DEF B
    <2>1. /\ Once(x.queue) /\ Elements(x.queue) \cap B = {}
          /\ \A r \in HiRecords : x.outcome[r] = "held" <=> r \in Elements(x.queue) \cup B
      BY DEF HttpData, HttpHeld, B
    <2>2. \A r \in HiRecords : outcome[r] = "held" <=> r \in Elements(x.queue)
      BY <1>3, <2>1
    <2> QED
      BY <1>4, <1>5, <2>1, <2>2 DEF HttpHeld
  <1>7. HttpCommits(y)
    BY <1>3, <1>5 DEF HttpData, HttpCommits
  <1> QED
    BY <1>4, <1>5, <1>6, <1>7 DEF HttpData, y

LEMMA HttpAcknowledge ==
    ASSUME NEW x, HttpData(x), HttpDrains(x), HttpWaits(x), NEW d \in Http!Drains,
           x.posting[d] # <<>>, Range(x.posting[d]) \subseteq x.committed
    PROVE  HttpGood(Http!Acknowledge(x, d))
  <1> DEFINE y == [Http!Ends(x, Range(x.batch), "acknowledged") EXCEPT !.batch = <<>>]
  <1>1. x \in HttpStates /\ Elements(x.batch) = Range(x.batch)
    BY HttpTypes DEF HttpData
  <1>2. CASE x.batch = <<>> \/ x.batch # x.posting[d]
    <2>1. Http!Acknowledge(x, d) = Http!DrainEndsHi(x, d, TRUE, TRUE)
      BY <1>2 DEF Http!Acknowledge
    <2> QED
      BY <2>1, HttpDrainEnds
  <1>3. CASE ~(x.batch = <<>> \/ x.batch # x.posting[d])
    <2>1. Elements(x.batch) \subseteq x.committed
      BY <1>1, <1>3
    <2>2. HttpData(y) /\ HttpSameControl(x, y)
      BY <2>1, HttpBatchEnds
    <2>3. Http!Acknowledge(x, d) = IF Http!HasData(y) THEN Http!Posts(y, d)
                                   ELSE Http!DrainEndsHi(y, d, FALSE, TRUE)
      BY <1>3 DEF Http!Acknowledge, Http!Range, Range
    <2> HIDE DEF y
    <2>4. HttpDrains(y) /\ HttpWaits(y)
      BY <2>2 DEF HttpDrains, HttpWaits, HttpSameControl
    <2>5. CASE Http!HasData(y)
      <3> DEFINE z == Http!Posts(y, d)
      <3>1. /\ HttpData(z) /\ z.posting[d] # <<>>
            /\ \A c \in Http!Drains : c # d => z.posting[c] = y.posting[c]
            /\ z.exitPc = y.exitPc
        BY <2>2, <2>5, HttpPosts
      <3> HIDE DEF z
      <3>2. HttpDrains(z)
        BY <2>2, <2>4, <3>1 DEF HttpDrains, HttpSameControl
      <3>3. HttpWaits(z)
        BY <2>4, <3>1 DEF HttpWaits
      <3>4. HttpTimed(z)
        BY <3>1 DEF HttpTimed
      <3> QED
        BY <2>3, <2>5, <3>1, <3>2, <3>3, <3>4 DEF HttpGood, z
    <2>6. CASE ~Http!HasData(y)
      BY <2>2, <2>3, <2>4, <2>6, HttpDrainEnds
    <2> QED
      BY <2>5, <2>6
  <1> QED
    BY <1>2, <1>3

-----------------------------------------------------------------------------
LEMMA HttpEnqueue ==
    ASSUME NEW x, HttpGood(x), NEW r \in HiRecords, x.outcome[r] = "new"
    PROVE  LET y == Http!HiEnqueue(x, r)
           IN  /\ HttpData(y) /\ HttpSameControl(x, y)
               /\ y.batch = x.batch /\ y.awaitDelivery = x.awaitDelivery
               /\ y.outcome[r] = "held" => y.accepting /\ Http!HasData(y)
               /\ y.outcome[r] # "held" => (Http!HasData(y) <=> Http!HasData(x))
  <1> DEFINE y == Http!HiEnqueue(x, r)
             Q == Elements(x.queue)
             B == Elements(x.batch)
  <1>1. /\ x \in HttpStates /\ x.queue \in Seq(HiRecords) /\ Len(x.queue) \in Nat
        /\ x.outcome \in [HiRecords -> HttpOutcomes] /\ Len(x.queue) <= HiMaxQueue
        /\ Once(x.queue) /\ Once(x.batch) /\ Q \cap B = {}
        /\ \A q \in HiRecords : x.outcome[q] = "held" <=> q \in Q \cup B
        /\ Len(x.batch) <= HiBatchSize /\ HttpCommits(x) /\ Q \subseteq HiRecords
    BY HttpTypes DEF HttpGood, HttpData, HttpHeld
  <1>2. r \notin Q \cup B
    BY <1>1
  <1>3. CASE ~x.accepting \/ r \in HiTooLarge
    <2> DEFINE outcome == [q \in HiRecords |-> IF q \in {r} THEN "dropped" ELSE x.outcome[q]]
    <2>1. y = [x EXCEPT !.outcome = outcome]
      BY <1>3 DEF Http!HiEnqueue, Http!Ends
    <2>2. /\ outcome \in [HiRecords -> HttpOutcomes] /\ outcome[r] = "dropped"
          /\ \A q \in HiRecords : q # r => outcome[q] = x.outcome[q]
      BY <1>1 DEF HttpOutcomes
    <2> HIDE DEF outcome, y
    <2>3. /\ y \in HttpStates /\ y.queue = x.queue /\ y.batch = x.batch /\ y.outcome = outcome
          /\ y.committed = x.committed /\ HttpSameControl(x, y)
          /\ y.awaitDelivery = x.awaitDelivery
      BY <1>1, <2>1, <2>2 DEF HttpStates, HttpSameControl
    <2> HIDE DEF Q, B
    <2>4. HttpHeld(y)
      <3>1. \A q \in HiRecords : outcome[q] = "held" <=> q \in Q \cup B
        BY <1>1, <1>2, <2>2
      <3> QED
        BY <1>1, <2>3, <3>1 DEF HttpHeld, Q, B
    <2>5. HttpCommits(y)
      BY <1>1, <2>2, <2>3 DEF HttpCommits
    <2> QED
      BY <1>1, <2>2, <2>3, <2>4, <2>5 DEF HttpData, Http!HasData, y
  <1>4. CASE ~(~x.accepting \/ r \in HiTooLarge)
    <2> DEFINE full == Len(x.queue) >= HiMaxQueue
               gone == IF full THEN {Head(x.queue)} ELSE {}
               rest == IF full THEN Tail(x.queue) ELSE x.queue
               outcome == [q \in HiRecords |-> IF q = r THEN "held" ELSE
                              IF q \in gone THEN "dropped" ELSE x.outcome[q]]
               queue == Append(rest, r)
    <2>1. y = [x EXCEPT !.queue = queue, !.outcome = outcome]
      <3>1. CASE full
        <4> DEFINE o1 == [q \in HiRecords |-> IF q \in {Head(x.queue)} THEN "dropped" ELSE x.outcome[q]]
        <4>1. y = [[x EXCEPT !.outcome = o1] EXCEPT !.queue = Append(Tail(x.queue), r),
                                                    !.outcome[r] = "held"]
          BY <1>1, <1>4, <3>1 DEF Http!HiEnqueue, Http!Ends, HttpStates
        <4>2. [o1 EXCEPT ![r] = "held"] = outcome
          BY <3>1
        <4>3. queue = Append(Tail(x.queue), r)
          BY <3>1
        <4> HIDE DEF o1, outcome, queue
        <4>4. y = [x EXCEPT !.queue = Append(Tail(x.queue), r), !.outcome = [o1 EXCEPT ![r] = "held"]]
          BY <1>1, <4>1 DEF HttpStates
        <4> QED
          BY <4>2, <4>3, <4>4
      <3>2. CASE ~full
        <4>1. y = [x EXCEPT !.queue = Append(x.queue, r), !.outcome[r] = "held"]
          BY <1>1, <1>4, <3>2 DEF Http!HiEnqueue, HttpStates
        <4>2. [x.outcome EXCEPT ![r] = "held"] = outcome
          BY <1>1, <3>2
        <4>3. queue = Append(x.queue, r)
          BY <3>2
        <4> HIDE DEF outcome, queue
        <4>4. y = [x EXCEPT !.queue = Append(x.queue, r), !.outcome = [x.outcome EXCEPT ![r] = "held"]]
          BY <1>1, <4>1 DEF HttpStates
        <4> QED
          BY <4>2, <4>3, <4>4
      <3> QED
        BY <3>1, <3>2
    <2>2. /\ rest \in Seq(HiRecords) /\ Len(rest) \in Nat /\ Len(rest) + 1 <= HiMaxQueue
          /\ Once(rest) /\ Q = gone \cup Elements(rest) /\ gone \cap Elements(rest) = {}
      <3>1. CASE full
        <4>1. x.queue # <<>>
          <5>1. Len(x.queue) >= 1
            BY <1>1, <3>1
          <5> QED
            BY <5>1, EmptySeq
        <4>2. /\ Head(x.queue) \in HiRecords /\ Tail(x.queue) \in Seq(HiRecords)
              /\ Len(Tail(x.queue)) = Len(x.queue) - 1
              /\ Elements(x.queue) = {Head(x.queue)} \cup Elements(Tail(x.queue))
              /\ Once(x.queue) => Once(Tail(x.queue)) /\ Head(x.queue) \notin Elements(Tail(x.queue))
          BY <1>1, <4>1, OnceHeadTail
        <4>3. Len(Tail(x.queue)) \in Nat /\ Len(Tail(x.queue)) + 1 <= HiMaxQueue
          <5>1. Len(x.queue) >= 1
            BY <1>1, <3>1
          <5> QED
            BY <1>1, <4>2, <5>1
        <4>4. rest = Tail(x.queue) /\ gone = {Head(x.queue)}
          BY <3>1
        <4> HIDE DEF rest, gone
        <4> QED
          BY <1>1, <4>2, <4>3, <4>4
      <3>2. CASE ~full
        <4>1. Len(x.queue) + 1 <= HiMaxQueue
          BY <1>1, <3>2
        <4> QED
          BY <1>1, <3>2, <4>1
      <3> QED
        BY <3>1, <3>2
    <2>3. /\ outcome \in [HiRecords -> HttpOutcomes] /\ outcome[r] = "held"
          /\ \A q \in HiRecords : q # r => outcome[q] = IF q \in gone THEN "dropped" ELSE x.outcome[q]
      <3> HIDE DEF gone
      <3> QED
        BY <1>1 DEF HttpOutcomes
    <2> HIDE DEF rest, gone
    <2>4. /\ queue \in Seq(HiRecords) /\ Len(queue) = Len(rest) + 1 /\ queue # <<>>
          /\ Elements(queue) = Elements(rest) \cup {r}
          /\ Once(rest) /\ r \notin Elements(rest) => Once(queue)
      BY <2>2, OnceAppend
    <2>5. r \notin Elements(rest)
      BY <1>2, <2>2
    <2> HIDE DEF queue, outcome, y
    <2>6. /\ y \in HttpStates /\ y.queue = queue /\ y.batch = x.batch /\ y.outcome = outcome
          /\ y.committed = x.committed /\ HttpSameControl(x, y)
          /\ y.awaitDelivery = x.awaitDelivery
      BY <1>1, <2>1, <2>3, <2>4 DEF HttpStates, HttpSameControl
    <2> HIDE DEF Q, B
    <2>7. HttpHeld(y)
      <3>1. \A q \in HiRecords : outcome[q] = "held" <=> q \in Elements(queue) \cup B
        BY <1>1, <1>2, <2>2, <2>3, <2>4, <2>5
      <3>2. Elements(queue) \cap B = {}
        BY <1>1, <1>2, <2>2, <2>4
      <3> QED
        BY <1>1, <2>2, <2>4, <2>5, <2>6, <3>1, <3>2 DEF HttpHeld, B
    <2>8. HttpCommits(y)
      BY <1>1, <2>3, <2>6 DEF HttpCommits
    <2>9. Len(queue) <= HiMaxQueue
      BY <2>2, <2>4
    <2>10. y.accepting /\ Http!HasData(y)
      BY <1>4, <2>4, <2>6 DEF Http!HasData, HttpSameControl
    <2> QED
      BY <1>1, <2>3, <2>6, <2>7, <2>8, <2>9, <2>10 DEF HttpData, y
  <1> QED
    BY <1>3, <1>4

LEMMA HttpExitStarts ==
    ASSUME NEW x, HttpData(x), HttpDrains(x), HttpWaits(x), NEW e \in Http!Exits,
           x.exitPc[e] = "off"
    PROVE  HttpGood(Http!ExitStarts(x, e))
  <1> DEFINE y == Http!ExitStarts(x, e)
  <1>1. x \in HttpStates /\ x.exitPc \in [Http!Exits -> HttpExits]
    BY HttpTypes DEF HttpData
  <1>2. CASE ~Http!HasData(x)
    <2>1. PICK c \in BOOLEAN : y = [x EXCEPT !.closed = c]
      <3>1. y = [x EXCEPT !.closed = x.closed \/ e = "close"]
        BY <1>2 DEF Http!ExitStarts
      <3>2. (x.closed \/ e = "close") \in BOOLEAN
        OBVIOUS
      <3> QED
        BY <3>1, <3>2
    <2> HIDE DEF y
    <2>2. y \in HttpStates /\ HttpSameData(x, y) /\ HttpSameControl(x, y)
      BY <1>1, <2>1 DEF HttpStates, HttpSameData, HttpSameControl
    <2>3. HttpData(y) /\ (Http!HasData(y) <=> Http!HasData(x))
      BY <2>2, HttpSameDataKeeps
    <2> QED
      BY <1>2, <2>2, <2>3 DEF HttpGood, HttpDrains, HttpWaits, HttpTimed, HttpSameControl, y
  <1>3. CASE Http!HasData(x) /\ x.posting["flush"] # <<>>
    <2> DEFINE exitPc == [x.exitPc EXCEPT ![e] = "waiting"]
    <2>1. y = [x EXCEPT !.exitPc = exitPc]
      BY <1>1, <1>3 DEF Http!ExitStarts, HttpStates
    <2>2. /\ exitPc \in [Http!Exits -> HttpExits] /\ exitPc[e] = "waiting"
          /\ \A c \in Http!Exits : c # e => exitPc[c] = x.exitPc[c]
      BY <1>1 DEF HttpExits
    <2> HIDE DEF exitPc, y
    <2>3. /\ y \in HttpStates /\ HttpSameData(x, y) /\ y.exitPc = exitPc /\ y.posting = x.posting
      BY <1>1, <2>1, <2>2 DEF HttpStates, HttpSameData
    <2>4. HttpData(y)
      BY <2>3, HttpSameDataKeeps
    <2>5. HttpDrains(y)
      BY <2>2, <2>3 DEF HttpDrains
    <2>6. HttpWaits(y)
      BY <1>3, <2>3 DEF HttpWaits
    <2>7. HttpTimed(y)
      BY <1>3, <2>3 DEF HttpTimed
    <2> QED
      BY <2>4, <2>5, <2>6, <2>7 DEF HttpGood, y
  <1>4. CASE Http!HasData(x) /\ x.posting["flush"] = <<>>
    <2>1. y = Http!ExitDrains(x, e)
      BY <1>4 DEF Http!ExitStarts
    <2> HIDE DEF y
    <2>2. /\ HttpData(y) /\ HttpTimed(y)
          /\ y.exitPc[e] = "draining" <=> y.posting[e] # <<>>
          /\ y.exitPc[e] # "waiting"
          /\ \A c \in Http!Exits : c # e => y.exitPc[c] = x.exitPc[c]
          /\ \A c \in Http!Drains : c # e => y.posting[c] = x.posting[c]
      BY <2>1, HttpExitDrains
    <2>3. HttpDrains(y)
      BY <2>2 DEF HttpDrains
    <2>4. HttpWaits(y)
      BY <2>2 DEF HttpWaits
    <2> QED
      BY <2>2, <2>3, <2>4 DEF HttpGood, y
  <1> QED
    BY <1>2, <1>3, <1>4

-----------------------------------------------------------------------------
LEMMA HttpInit == Http!HiInit => HttpGood(state) /\ faults \in 0..HiMaxFaults
  <1> SUFFICES ASSUME Http!HiInit PROVE HttpGood(state) /\ faults \in 0..HiMaxFaults
    OBVIOUS
  <1>1. /\ state.queue = <<>> /\ state.batch = <<>>
        /\ state.outcome = [r \in HiRecords |-> "new"]
        /\ state.posting = [d \in Http!Drains |-> <<>>]
        /\ state.exitPc = [e \in Http!Exits |-> "off"]
        /\ state.committed = {} /\ state.refused = {} /\ faults = 0
        /\ state = [queue |-> state.queue, batch |-> state.batch, outcome |-> state.outcome,
                    committed |-> state.committed, refused |-> state.refused,
                    posting |-> state.posting, exitPc |-> state.exitPc,
                    retrying |-> FALSE, interval |-> FALSE, retry |-> FALSE,
                    awaitDelivery |-> state.awaitDelivery, accepting |-> TRUE,
                    closed |-> FALSE, given |-> FALSE]
        /\ state.awaitDelivery \in BOOLEAN
    BY DEF Http!HiInit
  <1>2. Elements(<<>>) = {} /\ Once(<<>>) /\ Len(<<>>) = 0 /\ <<>> \in Seq(HiRecords)
    BY OnceEmpty
  <1>3. state \in HttpStates
    <2>1. /\ state.outcome \in [HiRecords -> HttpOutcomes]
          /\ state.exitPc \in [Http!Exits -> HttpExits]
      BY <1>1 DEF HttpOutcomes, HttpExits
    <2>2. /\ state.queue \in Seq(HiRecords) /\ state.batch \in Seq(HiRecords)
          /\ state.posting \in [Http!Drains -> Seq(HiRecords)]
      BY <1>1, <1>2
    <2>3. state.committed \in SUBSET HiRecords /\ state.refused \in SUBSET HiRecords
      BY <1>1
    <2>4. ASSUME NEW q \in Seq(HiRecords), NEW b \in Seq(HiRecords),
                 NEW o \in [HiRecords -> HttpOutcomes], NEW c \in SUBSET HiRecords,
                 NEW f \in SUBSET HiRecords, NEW p \in [Http!Drains -> Seq(HiRecords)],
                 NEW e \in [Http!Exits -> HttpExits], NEW a \in BOOLEAN
          PROVE  [queue |-> q, batch |-> b, outcome |-> o, committed |-> c, refused |-> f,
                  posting |-> p, exitPc |-> e, retrying |-> FALSE, interval |-> FALSE,
                  retry |-> FALSE, awaitDelivery |-> a, accepting |-> TRUE,
                  closed |-> FALSE, given |-> FALSE] \in HttpStates
      BY DEF HttpStates
    <2> DEFINE q == state.queue
               b == state.batch
               o == state.outcome
               c == state.committed
               f == state.refused
               p == state.posting
               e == state.exitPc
               a == state.awaitDelivery
    <2>5. state = [queue |-> q, batch |-> b, outcome |-> o, committed |-> c, refused |-> f,
                   posting |-> p, exitPc |-> e, retrying |-> FALSE, interval |-> FALSE,
                   retry |-> FALSE, awaitDelivery |-> a, accepting |-> TRUE,
                   closed |-> FALSE, given |-> FALSE]
      BY <1>1
    <2>6. /\ q \in Seq(HiRecords) /\ b \in Seq(HiRecords)
          /\ o \in [HiRecords -> HttpOutcomes] /\ c \in SUBSET HiRecords
          /\ f \in SUBSET HiRecords /\ p \in [Http!Drains -> Seq(HiRecords)]
          /\ e \in [Http!Exits -> HttpExits] /\ a \in BOOLEAN
      BY <1>1, <2>1, <2>2, <2>3
    <2> HIDE DEF q, b, o, c, f, p, e, a
    <2> QED
      BY <2>4, <2>5, <2>6
  <1>4. HttpData(state)
    BY <1>1, <1>2, <1>3 DEF HttpData, HttpHeld, HttpCommits
  <1>5. HttpDrains(state) /\ HttpWaits(state) /\ HttpTimed(state)
    BY <1>1 DEF HttpDrains, HttpWaits, HttpTimed, Http!HasData
  <1> QED
    BY <1>1, <1>4, <1>5 DEF HttpGood

LEMMA HttpStep ==
    ASSUME HttpGood(state), faults \in 0..HiMaxFaults, Http!HiNext
    PROVE  HttpGood(state') /\ faults' \in 0..HiMaxFaults
  <1> DEFINE x == state
  <1>1. /\ x \in HttpStates /\ HttpData(x) /\ HttpDrains(x) /\ HttpWaits(x) /\ HttpTimed(x)
        /\ x.posting \in [Http!Drains -> Seq(HiRecords)]
    BY HttpTypes DEF HttpGood, HttpData
  <1>2. ASSUME NEW r \in HiRecords, Http!WriteHi(r) PROVE HttpGood(x')
    <2> DEFINE y == Http!HiEnqueue(x, r)
    <2>1. /\ HttpData(y) /\ HttpSameControl(x, y)
          /\ y.batch = x.batch /\ y.awaitDelivery = x.awaitDelivery
          /\ y.outcome[r] = "held" => y.accepting /\ Http!HasData(y)
          /\ y.outcome[r] # "held" => (Http!HasData(y) <=> Http!HasData(x))
      BY <1>2, HttpEnqueue DEF Http!WriteHi
    <2>2. x' = IF y.outcome[r] # "held" THEN y
               ELSE IF Len(y.queue) >= HiBatchSize \/ y.awaitDelivery
                    THEN Http!Flushes(y, ~y.awaitDelivery)
               ELSE Http!ScheduleHiInterval(y)
      BY <1>2 DEF Http!WriteHi
    <2> HIDE DEF y
    <2>3. HttpDrains(y) /\ HttpWaits(y)
      BY <1>1, <2>1 DEF HttpDrains, HttpWaits, HttpSameControl
    <2>4. CASE y.outcome[r] # "held"
      <3>1. HttpTimed(y)
        BY <1>1, <2>1, <2>4 DEF HttpTimed, HttpSameControl
      <3> QED
        BY <2>1, <2>2, <2>3, <2>4, <3>1 DEF HttpGood
    <2>5. CASE y.outcome[r] = "held" /\ (Len(y.queue) >= HiBatchSize \/ y.awaitDelivery)
      <3>1. x' = Http!Flushes(y, ~y.awaitDelivery) /\ (~y.awaitDelivery) \in BOOLEAN
        BY <2>2, <2>5
      <3> QED
        BY <2>1, <2>3, <3>1, HttpFlushes
    <2>6. CASE y.outcome[r] = "held" /\ ~(Len(y.queue) >= HiBatchSize \/ y.awaitDelivery)
      <3>1. x' = Http!ScheduleHiInterval(y)
        BY <2>2, <2>6
      <3>2. y \in HttpStates
        BY <2>1 DEF HttpData
      <3>3. CASE y.batch # <<>>
        <4>1. x' = y
          BY <3>1, <3>3 DEF Http!ScheduleHiInterval
        <4>2. Http!HasData(x)
          BY <2>1, <3>3 DEF Http!HasData
        <4>3. HttpTimed(y)
          BY <1>1, <2>1, <4>2 DEF HttpTimed, HttpSameControl
        <4> QED
          BY <2>1, <2>3, <4>1, <4>3 DEF HttpGood
      <3>4. CASE y.batch = <<>>
        <4>1. x' = [y EXCEPT !.interval = TRUE]
          BY <2>1, <2>6, <3>1, <3>4 DEF Http!ScheduleHiInterval
        <4>2. /\ x' \in HttpStates /\ HttpSameData(y, x') /\ x'.interval = TRUE
              /\ x'.posting = y.posting /\ x'.exitPc = y.exitPc
          BY <3>2, <4>1 DEF HttpStates, HttpSameData
        <4>3. HttpData(x')
          BY <2>1, <4>2, HttpSameDataKeeps
        <4> QED
          BY <2>3, <4>2, <4>3 DEF HttpGood, HttpDrains, HttpWaits, HttpTimed
      <3> QED
        BY <3>3, <3>4
    <2> QED
      BY <2>4, <2>5, <2>6
  <1>3. ASSUME Http!FlushHi PROVE HttpGood(x')
    BY <1>1, <1>3, HttpFlushes DEF Http!FlushHi
  <1>4. ASSUME NEW y, y = [x EXCEPT !.interval = FALSE] \/ y = [x EXCEPT !.retry = FALSE]
        PROVE  HttpData(y) /\ HttpDrains(y) /\ HttpWaits(y)
    <2>1. y \in HttpStates /\ HttpSameData(x, y) /\ y.posting = x.posting /\ y.exitPc = x.exitPc
      <3>1. CASE y = [x EXCEPT !.interval = FALSE]
        BY <1>1, <3>1 DEF HttpStates, HttpSameData
      <3>2. CASE y = [x EXCEPT !.retry = FALSE]
        BY <1>1, <3>2 DEF HttpStates, HttpSameData
      <3> QED
        BY <1>4, <3>1, <3>2
    <2>2. HttpData(y)
      BY <1>1, <2>1, HttpSameDataKeeps
    <2> QED
      BY <1>1, <2>1, <2>2 DEF HttpDrains, HttpWaits
  <1>5. ASSUME Http!IntervalFiresHi PROVE HttpGood(x')
    BY <1>4, <1>5, HttpFlushes DEF Http!IntervalFiresHi
  <1>6. ASSUME Http!RetryFiresHi PROVE HttpGood(x')
    BY <1>4, <1>6, HttpFlushes DEF Http!RetryFiresHi
  <1>7. ASSUME Http!FlushOnExitHi PROVE HttpGood(x')
    <2>1. "exit" \in Http!Exits /\ x.exitPc["exit"] = "off" /\ x' = Http!ExitStarts(x, "exit")
      BY <1>7 DEF Http!FlushOnExitHi
    <2> QED
      BY <1>1, <2>1, HttpExitStarts
  <1>8. ASSUME Http!CloseHi PROVE HttpGood(x')
    <2> DEFINE y == [x EXCEPT !.accepting = FALSE, !.interval = FALSE, !.retry = FALSE]
    <2>1. x.exitPc["close"] = "off" /\ x' = Http!ExitStarts(y, "close") /\ "close" \in Http!Exits
      BY <1>8 DEF Http!CloseHi
    <2>2. y \in HttpStates /\ HttpSameData(x, y) /\ y.posting = x.posting /\ y.exitPc = x.exitPc
      BY <1>1 DEF HttpStates, HttpSameData
    <2> HIDE DEF y
    <2>3. HttpData(y) /\ HttpDrains(y) /\ HttpWaits(y)
      BY <1>1, <2>2, HttpSameDataKeeps DEF HttpDrains, HttpWaits
    <2> QED
      BY <2>1, <2>2, <2>3, HttpExitStarts
  (* The server commits a post, or refuses it. *)
  <1>9. ASSUME NEW d \in Http!Drains
        PROVE  LET y == Http!Commits(d)
               IN  /\ HttpData(y) /\ HttpDrains(y) /\ HttpWaits(y) /\ y.posting = x.posting
                   /\ Range(x.posting[d]) \subseteq y.committed
    <2> DEFINE y == Http!Commits(d)
               C == x.committed \cup Range(x.posting[d])
    <2>1. y = [x EXCEPT !.committed = C]
      BY DEF Http!Commits, Http!Range, Range
    <2>2. Range(x.posting[d]) \subseteq HiRecords
      <3>1. x.posting[d] \in Seq(HiRecords)
        BY <1>1
      <3> QED
        BY <3>1, ElementsType
    <2>3. C \subseteq HiRecords /\ x.committed \subseteq C /\ Range(x.posting[d]) \subseteq C
      BY <1>1, <2>2 DEF HttpStates
    <2> HIDE DEF C, y
    <2>4. /\ y \in HttpStates /\ HttpSameData(x, y) /\ y.posting = x.posting /\ y.exitPc = x.exitPc
          /\ y.committed = C
      BY <1>1, <2>1, <2>3 DEF HttpStates, HttpSameData
    <2>5. HttpData(y)
      BY <1>1, <2>4, HttpSameDataKeeps
    <2> QED
      BY <1>1, <2>3, <2>4, <2>5 DEF HttpDrains, HttpWaits, y
  <1>10. ASSUME NEW d \in Http!Drains, Http!AckArrives(d) PROVE HttpGood(x')
    <2>1. x.posting[d] # <<>> /\ x' = Http!Acknowledge(Http!Commits(d), d)
      BY <1>10 DEF Http!AckArrives
    <2> QED
      BY <1>9, <2>1, HttpAcknowledge
  <1>11. ASSUME NEW d \in Http!Drains, Http!PostFailsHi(d) PROVE HttpGood(x')
    <2>1. PICK y \in {x, Http!Commits(d)} : x' = Http!DrainEndsHi(y, d, TRUE, TRUE)
      BY <1>11 DEF Http!PostFailsHi
    <2>2. HttpData(y) /\ HttpDrains(y) /\ HttpWaits(y)
      BY <1>1, <1>9
    <2> QED
      BY <2>1, <2>2, HttpDrainEnds
  <1>12. ASSUME NEW d \in Http!Drains, Http!PostRefused(d) PROVE HttpGood(x')
    <2> DEFINE y == [x EXCEPT !.refused = x.refused \cup Range(x.posting[d])]
               z == [Http!Ends(y, Range(y.batch), "refused") EXCEPT !.batch = <<>>]
    <2>1. Range(x.posting[d]) \subseteq HiRecords
      <3>1. x.posting[d] \in Seq(HiRecords)
        BY <1>1
      <3> QED
        BY <3>1, ElementsType
    <2>2. x' = Http!DrainEndsHi(z, d, TRUE, FALSE)
      BY <1>12 DEF Http!PostRefused, Http!RejectPending, Http!Range, Range
    <2>3. y \in HttpStates /\ HttpSameData(x, y) /\ HttpSameControl(x, y)
      BY <1>1, <2>1 DEF HttpStates, HttpSameData, HttpSameControl
    <2> HIDE DEF y
    <2>4. HttpData(y)
      BY <1>1, <2>3, HttpSameDataKeeps
    <2>5. HttpData(z) /\ HttpSameControl(y, z)
      BY <2>4, HttpBatchEnds
    <2> HIDE DEF z
    <2>6. HttpDrains(z) /\ HttpWaits(z)
      BY <1>1, <2>3, <2>5 DEF HttpDrains, HttpWaits, HttpSameControl
    <2> QED
      BY <2>2, <2>5, <2>6, HttpDrainEnds
  <1>13. faults' \in 0..HiMaxFaults
    <2>1. faults' = faults \/ Http!HiFault
      BY DEF Http!HiNext, Http!WriteHi, Http!FlushHi, Http!IntervalFiresHi, Http!RetryFiresHi,
             Http!FlushOnExitHi, Http!CloseHi, Http!AckArrives, Http!PostFailsHi,
             Http!PostRefused, Http!HiNoFault
    <2>2. Http!HiFault => faults' \in 0..HiMaxFaults
      BY DEF Http!HiFault
    <2> QED
      BY <2>1, <2>2
  <1> HIDE DEF x
  <1> QED
    BY <1>2, <1>3, <1>5, <1>6, <1>7, <1>8, <1>10, <1>11, <1>12, <1>13 DEF Http!HiNext, x

(* What the runs check of the HTTP transport.                               *)
LEMMA HttpHolds ==
    ASSUME HttpGood(state), faults \in 0..HiMaxFaults
    PROVE  /\ Http!HiTypeOK /\ Http!HeldOnce
           /\ Http!AcknowledgedIsCommitted /\ Http!HeldIsOnATimer
  <1>1. /\ state \in HttpStates /\ HttpData(state) /\ HttpHeld(state)
    BY DEF HttpGood, HttpData
  <1>2. /\ state.queue \in Seq(HiRecords) /\ state.batch \in Seq(HiRecords)
        /\ Elements(state.queue) \subseteq HiRecords /\ Elements(state.batch) \subseteq HiRecords
        /\ state.exitPc \in [Http!Exits -> HttpExits]
        /\ state.outcome \in [HiRecords -> HttpOutcomes]
    BY <1>1, HttpTypes
  <1>3. Http!HiTypeOK
    <2>1. \A e \in Http!Exits : (state.exitPc[e] = "draining") = (state.posting[e] # <<>>)
      BY DEF HttpGood, HttpDrains
    <2>2. state.exitPc["exit"] = "waiting" => state.posting["flush"] # <<>>
      BY DEF HttpGood, HttpWaits
    <2> QED
      BY <1>1, <1>2, <2>1, <2>2 DEF Http!HiTypeOK, HttpData, HttpOutcomes, HttpExits
  <1>4. Http!HeldOnce
    <2> DEFINE kept == state.queue \o state.batch
    <2>1. /\ kept \in Seq(HiRecords) /\ Elements(kept) = Elements(state.queue) \cup Elements(state.batch)
          /\ Once(kept)
      BY <1>1, <1>2, OnceConcat DEF HttpHeld
    <2> HIDE DEF kept
    <2>2. Elements(kept) = Range(kept) /\ IsInjective(kept)
      BY <2>1, ElementsType
    <2>3. Elements(kept) = {r \in HiRecords : state.outcome[r] = "held"}
      BY <1>1, <1>2, <2>1 DEF HttpHeld
    <2> QED
      BY <2>2, <2>3 DEF Http!HeldOnce, Http!Range, Range, Http!IsInjective, IsInjective, kept
  <1>5. Http!AcknowledgedIsCommitted
    BY <1>1 DEF Http!AcknowledgedIsCommitted, HttpData, HttpCommits
  <1>6. Http!HeldIsOnATimer
    BY DEF Http!HeldIsOnATimer, HttpGood, HttpTimed
  <1> QED
    BY <1>3, <1>4, <1>5, <1>6

HIDE HttpConstants

(***************************************************************************)
(* Part 5: the acknowledged Realtime transport                             *)
(***************************************************************************)

AckStates ==
    [queue : Seq(RaRecords), inFlight : Seq(RaRecords),
     attempts : [RaRecords -> 0..RaMaxAttempts],
     sentOn : [RaRecords -> RaSockets \cup {0}],
     outcome : [RaRecords -> {"new", "pending", "acked", "dropped"}],
     ready : [RaSockets -> {"connecting", "open", "closing", "closed"}],
     join : [RaSockets -> {"none", "sent", "accepted", "rejected"}],
     socket : RaSockets \cup {0}, joined : BOOLEAN, joinRef : RaSockets \cup {0},
     connectTask : {"none", "token", "joining"}, opening : RaSockets \cup {0},
     reconnect : BOOLEAN, timer : BOOLEAN, tries : 0..RaMaxTries,
     heartbeat : {"off", "idle", "awaited"}, accepting : BOOLEAN, closed : BOOLEAN,
     strict : BOOLEAN, flush : [Ack!RaCalls -> {"idle", "waiting", "resolved", "rejected"}]]

(* The records P are queued or in flight, once, and nothing else is; what   *)
(* is queued may be sent again, and what was never taken was never sent.    *)
AckHolds(x, P) ==
    /\ Once(x.queue) /\ Once(x.inFlight)
    /\ Elements(x.queue) \cap Elements(x.inFlight) = {}
    /\ Elements(x.queue) \cup Elements(x.inFlight) = P
AckTries(x) ==
    /\ \A r \in Elements(x.queue) : x.attempts[r] < RaMaxAttempts
    /\ \A r \in RaRecords : x.outcome[r] = "new" => x.attempts[r] = 0

Pending(x) == {r \in RaRecords : x.outcome[r] = "pending"}

(* The data of the transport are in order, and so is its connection task.   *)
AckData(x) ==
    /\ x \in AckStates /\ AckHolds(x, Pending(x)) /\ AckTries(x)
    /\ Len(x.inFlight) <= RaMaxInFlight
    /\ Len(x.queue) + Len(x.inFlight) <= RaMaxQueue + RaMaxInFlight
    /\ x.opening # 0 <=> x.connectTask = "joining"

(* A flush that waits has something to wait for.                            *)
AckWaits(x) == \A c \in Ack!RaCalls : x.flush[c] = "waiting" => ~Ack!IsIdle(x)

AckGood(x) == AckData(x) /\ AckWaits(x) /\ (x.closed => Ack!IsIdle(x))

AckSameData(x, y) ==
    /\ y.queue = x.queue /\ y.inFlight = x.inFlight
    /\ y.attempts = x.attempts /\ y.outcome = x.outcome

(* The sockets and what is armed stay as they are.                          *)
AckChannel(x, y) ==
    /\ y.socket = x.socket /\ y.ready = x.ready /\ y.join = x.join
    /\ y.joinRef = x.joinRef /\ y.joined = x.joined /\ y.closed = x.closed
    /\ y.strict = x.strict /\ y.reconnect = x.reconnect
AckSteady(x, y) == AckChannel(x, y) /\ y.timer = x.timer /\ y.connectTask = x.connectTask

-----------------------------------------------------------------------------
(* Sums that do not grow.                                                   *)
LEMMA Shrinks ==
    ASSUME NEW a \in Nat, NEW b \in Nat, NEW m \in Nat, NEW n \in Nat, a + b <= m + n
    PROVE  /\ \A c \in Nat : c <= b => c + a <= m + n /\ a + c <= m + n
           /\ \A c \in Nat : c < b => (1 + a) + c <= m + n
           /\ \A k \in 0..a : (a - k) + (b + k) <= m + n
  OBVIOUS

LEMMA PartOfSum ==
    ASSUME NEW a \in Nat, NEW b \in Nat, NEW m \in Nat, a + b <= m
    PROVE  a <= m
  OBVIOUS

(* What fits into the window.                                               *)
LEMMA Room ==
    ASSUME NEW a \in Nat, NEW b \in Nat, NEW m \in Nat, b <= m
    PROVE  LET n == IF m - b < a THEN m - b ELSE a IN n \in 0..a /\ b + n <= m
  OBVIOUS

LEMMA AckConstants ==
    /\ RaMaxQueue \in Nat /\ RaMaxTries \in Nat /\ RaMaxFaults \in Nat
    /\ RaMaxInFlight \in Nat /\ RaMaxInFlight >= 1
    /\ RaMaxAttempts \in Nat /\ RaMaxAttempts >= 1
    /\ 0 \notin RaSockets /\ "close" \in Ack!RaCalls /\ RaFlushes \subseteq Ack!RaCalls
  BY AckAssumption DEF Ack!RaCalls, Ack!Closer

LEMMA AckNoTries == 0 \in 0..RaMaxTries
  BY AckConstants

USE AckConstants

LEMMA AckTypes ==
    ASSUME NEW x \in AckStates
    PROVE  /\ x.queue \in Seq(RaRecords) /\ x.inFlight \in Seq(RaRecords)
           /\ Len(x.queue) \in Nat /\ Len(x.inFlight) \in Nat
           /\ Elements(x.queue) \subseteq RaRecords /\ Elements(x.inFlight) \subseteq RaRecords
           /\ Elements(x.queue) = Ack!Range(x.queue)
           /\ Elements(x.inFlight) = Ack!Range(x.inFlight)
           /\ (Ack!IsIdle(x) <=> Elements(x.queue) \cup Elements(x.inFlight) = {})
           /\ x.attempts \in [RaRecords -> 0..RaMaxAttempts]
           /\ x.sentOn \in [RaRecords -> RaSockets \cup {0}]
           /\ x.outcome \in [RaRecords -> {"new", "pending", "acked", "dropped"}]
           /\ x.ready \in [RaSockets -> {"connecting", "open", "closing", "closed"}]
           /\ x.join \in [RaSockets -> {"none", "sent", "accepted", "rejected"}]
           /\ x.flush \in [Ack!RaCalls -> {"idle", "waiting", "resolved", "rejected"}]
           /\ x.socket \in RaSockets \cup {0} /\ x.tries \in 0..RaMaxTries
  <1>1. /\ x.queue \in Seq(RaRecords) /\ x.inFlight \in Seq(RaRecords)
        /\ x.attempts \in [RaRecords -> 0..RaMaxAttempts]
        /\ x.sentOn \in [RaRecords -> RaSockets \cup {0}]
        /\ x.outcome \in [RaRecords -> {"new", "pending", "acked", "dropped"}]
        /\ x.ready \in [RaSockets -> {"connecting", "open", "closing", "closed"}]
        /\ x.join \in [RaSockets -> {"none", "sent", "accepted", "rejected"}]
        /\ x.flush \in [Ack!RaCalls -> {"idle", "waiting", "resolved", "rejected"}]
        /\ x.socket \in RaSockets \cup {0} /\ x.tries \in 0..RaMaxTries
    BY DEF AckStates
  <1>2. ASSUME NEW s \in Seq(RaRecords)
        PROVE  /\ Len(s) \in Nat /\ Elements(s) \subseteq RaRecords
               /\ Elements(s) = Ack!Range(s) /\ (Elements(s) = {} <=> s = <<>>)
    <2>1. Len(s) \in Nat /\ DOMAIN s = 1..Len(s)
      BY LenProperties
    <2>2. Elements(s) \subseteq RaRecords /\ (Elements(s) = {} <=> s = <<>>)
      BY ElementsType
    <2>3. Elements(s) = Ack!Range(s)
      BY <2>1 DEF Elements, Ack!Range
    <2> QED
      BY <2>1, <2>2, <2>3
  <1> DEFINE q == x.queue
             f == x.inFlight
  <1>3. Ack!IsIdle(x) <=> q = <<>> /\ f = <<>>
    BY DEF Ack!IsIdle
  <1>4. q \in Seq(RaRecords) /\ f \in Seq(RaRecords)
    BY <1>1
  <1> HIDE DEF q, f
  <1>5. /\ Len(q) \in Nat /\ Elements(q) \subseteq RaRecords
        /\ Elements(q) = Ack!Range(q) /\ (Elements(q) = {} <=> q = <<>>)
        /\ Len(f) \in Nat /\ Elements(f) \subseteq RaRecords
        /\ Elements(f) = Ack!Range(f) /\ (Elements(f) = {} <=> f = <<>>)
    BY <1>2, <1>4
  <1>6. Ack!IsIdle(x) <=> Elements(q) \cup Elements(f) = {}
    BY <1>3, <1>5
  <1> QED
    BY <1>1, <1>5, <1>6 DEF q, f

LEMMA AckSameDataKeeps ==
    ASSUME NEW x, AckData(x), NEW y \in AckStates, AckSameData(x, y),
           y.opening # 0 <=> y.connectTask = "joining"
    PROVE  AckData(y) /\ (Ack!IsIdle(y) <=> Ack!IsIdle(x))
  BY DEF AckData, AckSameData, AckHolds, AckTries, Pending, Ack!IsIdle

(* A step beside the data that wakes no flush keeps the whole.              *)
LEMMA AckAside ==
    ASSUME NEW x, AckGood(x), NEW y \in AckStates, AckSameData(x, y),
           y.opening # 0 <=> y.connectTask = "joining",
           y.closed = x.closed, y.flush = x.flush
    PROVE  AckGood(y)
  <1>1. AckData(y) /\ (Ack!IsIdle(y) <=> Ack!IsIdle(x))
    BY AckSameDataKeeps DEF AckGood
  <1> QED
    BY <1>1 DEF AckGood, AckWaits

LEMMA AckNotifyIdle ==
    ASSUME NEW x, AckData(x)
    PROVE  LET y == Ack!NotifyIdle(x)
           IN  /\ AckData(y) /\ AckWaits(y) /\ AckSameData(x, y) /\ y.closed = x.closed
               /\ (Ack!IsIdle(y) <=> Ack!IsIdle(x)) /\ AckSteady(x, y)
  <1> DEFINE y == Ack!NotifyIdle(x)
             flush == [c \in Ack!RaCalls |-> IF x.flush[c] = "waiting" THEN "resolved" ELSE x.flush[c]]
  <1>1. x \in AckStates /\ x.flush \in [Ack!RaCalls -> {"idle", "waiting", "resolved", "rejected"}]
        /\ (x.opening # 0 <=> x.connectTask = "joining")
    BY AckTypes DEF AckData
  <1>2. CASE Ack!IsIdle(x)
    <2>1. y = [x EXCEPT !.flush = flush]
      BY <1>2 DEF Ack!NotifyIdle
    <2>2. /\ flush \in [Ack!RaCalls -> {"idle", "waiting", "resolved", "rejected"}]
          /\ \A c \in Ack!RaCalls : flush[c] # "waiting"
      BY <1>1
    <2> HIDE DEF flush, y
    <2>3. /\ y \in AckStates /\ AckSameData(x, y) /\ y.closed = x.closed /\ y.flush = flush
          /\ y.opening = x.opening /\ y.connectTask = x.connectTask /\ AckSteady(x, y)
      BY <1>1, <2>1, <2>2 DEF AckStates, AckSameData, AckSteady, AckChannel
    <2>4. AckData(y) /\ (Ack!IsIdle(y) <=> Ack!IsIdle(x))
      BY <1>1, <2>3, AckSameDataKeeps
    <2> QED
      BY <2>2, <2>3, <2>4 DEF AckWaits, y
  <1>3. CASE ~Ack!IsIdle(x)
    BY <1>3 DEF Ack!NotifyIdle, AckWaits, AckSameData, AckSteady, AckChannel
  <1> QED
    BY <1>2, <1>3

(* Records that are held nowhere, or leave with this step, are dropped.     *)
LEMMA AckDropAll ==
    ASSUME NEW x \in AckStates, NEW R
    PROVE  LET y == Ack!DropAll(x, R)
           IN  /\ y \in AckStates /\ Pending(y) = Pending(x) \ R
               /\ \A r \in RaRecords : y.outcome[r] = "new" => x.outcome[r] = "new"
               /\ y = [x EXCEPT !.outcome = y.outcome]
               /\ y.queue = x.queue /\ y.inFlight = x.inFlight /\ y.attempts = x.attempts
               /\ y.opening = x.opening /\ y.connectTask = x.connectTask
               /\ y.closed = x.closed /\ y.flush = x.flush /\ AckSteady(x, y)
  <1> DEFINE y == Ack!DropAll(x, R)
             outcome == [r \in RaRecords |-> IF r \in R THEN "dropped" ELSE x.outcome[r]]
  <1>1. y = [x EXCEPT !.outcome = outcome]
    BY DEF Ack!DropAll
  <1>2. outcome \in [RaRecords -> {"new", "pending", "acked", "dropped"}]
        /\ \A r \in RaRecords : outcome[r] = IF r \in R THEN "dropped" ELSE x.outcome[r]
    BY AckTypes
  <1> HIDE DEF outcome, y
  <1>3. /\ y \in AckStates /\ y.outcome = outcome
        /\ y.queue = x.queue /\ y.inFlight = x.inFlight /\ y.attempts = x.attempts
        /\ y.opening = x.opening /\ y.connectTask = x.connectTask
        /\ y.closed = x.closed /\ y.flush = x.flush /\ AckSteady(x, y)
    BY <1>1, <1>2 DEF AckStates, AckSteady, AckChannel
  <1>4. Pending(y) = Pending(x) \ R
    BY <1>2, <1>3 DEF Pending
  <1> QED
    BY <1>1, <1>2, <1>3, <1>4 DEF y

LEMMA AckRestoreInFlight ==
    ASSUME NEW x, AckData(x)
    PROVE  LET y == Ack!RestoreInFlight(x)
           IN  /\ AckData(y) /\ AckWaits(y) /\ y.inFlight = <<>> /\ y.closed = x.closed
               /\ Ack!IsIdle(x) => Ack!IsIdle(y)
               /\ AckSteady(x, y)
  <1> DEFINE spent == {r \in Ack!Range(x.inFlight) : x.attempts[r] >= RaMaxAttempts}
             back == Without(x.inFlight, spent)
             w == Ack!DropAll(x, spent)
             queue == back \o x.queue
             z == [w EXCEPT !.inFlight = <<>>, !.queue = back \o w.queue]
             y == Ack!RestoreInFlight(x)
  <1>1. y = Ack!NotifyIdle(z)
    BY DEF Ack!RestoreInFlight, Ack!Without, Without
  <1>2. /\ x \in AckStates /\ AckHolds(x, Pending(x)) /\ AckTries(x)
        /\ Len(x.queue) + Len(x.inFlight) <= RaMaxQueue + RaMaxInFlight
        /\ (x.opening # 0 <=> x.connectTask = "joining")
    BY DEF AckData
  <1>3. /\ x.queue \in Seq(RaRecords) /\ x.inFlight \in Seq(RaRecords)
        /\ Len(x.queue) \in Nat /\ Len(x.inFlight) \in Nat
        /\ Elements(x.inFlight) = Ack!Range(x.inFlight)
        /\ Elements(x.inFlight) \subseteq RaRecords /\ Elements(x.queue) \subseteq RaRecords
        /\ x.attempts \in [RaRecords -> 0..RaMaxAttempts]
    BY <1>2, AckTypes
  <1>4. /\ w \in AckStates /\ Pending(w) = Pending(x) \ spent
        /\ \A r \in RaRecords : w.outcome[r] = "new" => x.outcome[r] = "new"
        /\ w.queue = x.queue /\ w.inFlight = x.inFlight /\ w.attempts = x.attempts
        /\ w.opening = x.opening /\ w.connectTask = x.connectTask
        /\ w.closed = x.closed /\ w.flush = x.flush /\ AckSteady(x, w)
    BY <1>2, AckDropAll
  <1>5. /\ spent \subseteq Elements(x.inFlight)
        /\ \A r \in Elements(x.inFlight) : r \notin spent => x.attempts[r] < RaMaxAttempts
    <2>1. \A r \in Elements(x.inFlight) : r \notin spent => ~(x.attempts[r] >= RaMaxAttempts)
      BY <1>3
    <2>2. \A r \in Elements(x.inFlight) : x.attempts[r] \in 0..RaMaxAttempts
      BY <1>3
    <2> HIDE DEF spent
    <2>3. \A r \in Elements(x.inFlight) : r \notin spent => x.attempts[r] < RaMaxAttempts
      BY <2>1, <2>2
    <2> QED
      BY <1>3, <2>3 DEF spent
  <1> HIDE DEF spent
  <1>6. /\ back \in Seq(RaRecords) /\ Len(back) <= Len(x.inFlight) /\ Len(back) \in Nat
        /\ Elements(back) = Elements(x.inFlight) \ spent
        /\ Once(x.inFlight) => Once(back)
    BY <1>3, OnceWithout
  <1> HIDE DEF back
  <1>7. /\ queue \in Seq(RaRecords) /\ Len(queue) = Len(back) + Len(x.queue)
        /\ Elements(queue) = Elements(back) \cup Elements(x.queue)
        /\ Once(queue) <=> /\ Once(back) /\ Once(x.queue)
                           /\ Elements(back) \cap Elements(x.queue) = {}
    BY <1>3, <1>6, OnceConcat
  <1>8. Elements(<<>>) = {} /\ Once(<<>>) /\ Len(<<>>) = 0 /\ <<>> \in Seq(RaRecords)
    BY OnceEmpty
  <1> HIDE DEF w, y
  <1>9. z = [w EXCEPT !.inFlight = <<>>, !.queue = queue]
    BY <1>4
  <1> HIDE DEF z, queue
  <1>10. /\ z \in AckStates /\ z.queue = queue /\ z.inFlight = <<>> /\ z.attempts = x.attempts
         /\ z.opening = x.opening /\ z.connectTask = x.connectTask
         /\ z.closed = x.closed /\ z.outcome = w.outcome /\ AckSteady(x, z)
    BY <1>4, <1>7, <1>8, <1>9 DEF AckStates, AckSteady, AckChannel
  <1>11. Pending(z) = Pending(x) \ spent
    BY <1>4, <1>10 DEF Pending
  <1>12. AckHolds(z, Pending(z))
    BY <1>2, <1>5, <1>6, <1>7, <1>8, <1>10, <1>11 DEF AckHolds
  <1>13. AckTries(z)
    <2>1. \A r \in Elements(queue) : x.attempts[r] < RaMaxAttempts
      BY <1>2, <1>5, <1>6, <1>7 DEF AckTries
    <2>2. \A r \in RaRecords : z.outcome[r] = "new" => x.attempts[r] = 0
      BY <1>2, <1>4, <1>10 DEF AckTries
    <2> QED
      BY <1>10, <2>1, <2>2 DEF AckTries
  <1>14. /\ Len(z.inFlight) <= RaMaxInFlight
         /\ Len(z.queue) + Len(z.inFlight) <= RaMaxQueue + RaMaxInFlight
    <2>1. Len(queue) <= RaMaxQueue + RaMaxInFlight /\ Len(queue) \in Nat
      <3>1. /\ Len(queue) = Len(back) + Len(x.queue) /\ Len(back) <= Len(x.inFlight)
            /\ Len(x.queue) + Len(x.inFlight) <= RaMaxQueue + RaMaxInFlight
        BY <1>2, <1>6, <1>7
      <3>2. Len(back) \in Nat /\ Len(x.queue) \in Nat /\ Len(x.inFlight) \in Nat
        BY <1>3, <1>6
      <3>3. Len(back) + Len(x.queue) <= RaMaxQueue + RaMaxInFlight
        BY <3>1, <3>2, Shrinks
      <3>4. Len(back) + Len(x.queue) \in Nat
        BY <3>2
      <3> QED
        BY <3>1, <3>3, <3>4
    <2> QED
      BY <1>8, <1>10, <2>1
  <1>15. AckData(z)
    BY <1>2, <1>10, <1>12, <1>13, <1>14 DEF AckData
  <1>16. Ack!IsIdle(x) => Ack!IsIdle(z)
    <2>1. Elements(z.queue) \cup Elements(z.inFlight) \subseteq
              Elements(x.queue) \cup Elements(x.inFlight)
      BY <1>6, <1>7, <1>8, <1>10
    <2> QED
      BY <1>2, <1>10, <2>1, AckTypes
  <1>17. /\ AckData(y) /\ AckWaits(y) /\ AckSameData(z, y) /\ y.closed = z.closed
         /\ (Ack!IsIdle(y) <=> Ack!IsIdle(z)) /\ AckSteady(z, y)
    BY <1>1, <1>15, AckNotifyIdle
  <1> QED
    BY <1>10, <1>16, <1>17 DEF AckSameData, AckSteady, AckChannel, y

(* failPending leaves nothing behind.                                       *)
LEMMA AckFailPending ==
    ASSUME NEW x, AckData(x)
    PROVE  LET y == Ack!FailPending(x)
           IN  AckGood(y) /\ Ack!IsIdle(y) /\ y.closed = x.closed /\ AckSteady(x, y)
  <1> DEFINE u == Ack!RestoreInFlight(x)
             w == Ack!DropAll(u, Ack!Range(u.queue))
             z == [w EXCEPT !.queue = <<>>]
             y == Ack!FailPending(x)
  <1>1. y = Ack!NotifyIdle(z)
    BY DEF Ack!FailPending
  <1>2. AckData(u) /\ u.inFlight = <<>> /\ u.closed = x.closed /\ AckSteady(x, u)
    BY AckRestoreInFlight
  <1> HIDE DEF u, y
  <1>3. /\ u \in AckStates /\ AckHolds(u, Pending(u)) /\ AckTries(u)
        /\ (u.opening # 0 <=> u.connectTask = "joining")
        /\ Elements(u.queue) = Ack!Range(u.queue)
    BY <1>2, AckTypes DEF AckData
  <1>4. /\ w \in AckStates /\ Pending(w) = Pending(u) \ Elements(u.queue)
        /\ \A r \in RaRecords : w.outcome[r] = "new" => u.outcome[r] = "new"
        /\ w.queue = u.queue /\ w.inFlight = u.inFlight /\ w.attempts = u.attempts
        /\ w.opening = u.opening /\ w.connectTask = u.connectTask
        /\ w.closed = u.closed /\ AckSteady(u, w)
    BY <1>3, AckDropAll
  <1>5. Elements(<<>>) = {} /\ Once(<<>>) /\ Len(<<>>) = 0 /\ <<>> \in Seq(RaRecords)
    BY OnceEmpty
  <1> HIDE DEF w
  <1>6. /\ z \in AckStates /\ z.queue = <<>> /\ z.inFlight = <<>> /\ z.attempts = u.attempts
        /\ z.opening = u.opening /\ z.connectTask = u.connectTask
        /\ z.closed = u.closed /\ z.outcome = w.outcome /\ AckSteady(u, z)
    BY <1>2, <1>4, <1>5 DEF AckStates, AckSteady, AckChannel
  <1> HIDE DEF z
  <1>7. Pending(z) = {}
    <2>1. Pending(z) = Pending(w)
      BY <1>6 DEF Pending
    <2> QED
      BY <1>2, <1>3, <1>4, <1>5, <2>1 DEF AckHolds
  <1>8. AckHolds(z, Pending(z))
    BY <1>5, <1>6, <1>7 DEF AckHolds
  <1>9. AckTries(z)
    BY <1>3, <1>4, <1>5, <1>6 DEF AckTries
  <1>10. /\ Len(z.inFlight) <= RaMaxInFlight
         /\ Len(z.queue) + Len(z.inFlight) <= RaMaxQueue + RaMaxInFlight
    BY <1>5, <1>6
  <1>11. AckData(z) /\ Ack!IsIdle(z)
    BY <1>3, <1>6, <1>8, <1>9, <1>10 DEF AckData, Ack!IsIdle
  <1>12. /\ AckData(y) /\ AckWaits(y) /\ y.closed = z.closed
         /\ (Ack!IsIdle(y) <=> Ack!IsIdle(z)) /\ AckSteady(z, y)
    BY <1>1, <1>11, AckNotifyIdle
  <1> QED
    BY <1>2, <1>6, <1>11, <1>12 DEF AckGood, AckSteady, AckChannel, y

LEMMA AckCloseSocket ==
    ASSUME NEW x, AckData(x), NEW code
    PROVE  LET y == Ack!CloseSocket(x, code)
           IN  /\ AckData(y) /\ AckSameData(x, y) /\ y.closed = x.closed /\ y.flush = x.flush
               /\ (Ack!IsIdle(y) <=> Ack!IsIdle(x))
               /\ y.opening = x.opening /\ y.connectTask = x.connectTask
               /\ AckGood(x) => AckGood(y)
  <1> DEFINE y == Ack!CloseSocket(x, code)
  <1>1. /\ x \in AckStates /\ x.socket \in RaSockets \cup {0}
        /\ x.ready \in [RaSockets -> {"connecting", "open", "closing", "closed"}]
        /\ (x.opening # 0 <=> x.connectTask = "joining")
    BY AckTypes DEF AckData
  <1>2. CASE x.socket = 0 \/ ~Ack!MayClose(x.strict, code)
    BY <1>2 DEF Ack!CloseSocket, AckSameData
  <1>3. CASE ~(x.socket = 0 \/ ~Ack!MayClose(x.strict, code))
    <2> DEFINE how == IF x.ready[x.socket] = "closed" THEN x.ready[x.socket] ELSE "closing"
               ready == [x.ready EXCEPT ![x.socket] = how]
    <2>1. y = [x EXCEPT !.ready = ready]
      BY <1>1, <1>3 DEF Ack!CloseSocket, AckStates
    <2>2. ready \in [RaSockets -> {"connecting", "open", "closing", "closed"}]
      BY <1>1
    <2> HIDE DEF ready, y
    <2>3. /\ y \in AckStates /\ AckSameData(x, y) /\ y.closed = x.closed /\ y.flush = x.flush
          /\ y.opening = x.opening /\ y.connectTask = x.connectTask
      BY <1>1, <2>1, <2>2 DEF AckStates, AckSameData
    <2>4. AckData(y) /\ (Ack!IsIdle(y) <=> Ack!IsIdle(x))
      BY <1>1, <2>3, AckSameDataKeeps
    <2>5. AckGood(x) => AckGood(y)
      BY <1>1, <2>3, AckAside
    <2> QED
      BY <2>3, <2>4, <2>5 DEF y
  <1> QED
    BY <1>2, <1>3

LEMMA AckScheduleReconnect ==
    ASSUME NEW x, AckGood(x)
    PROVE  AckGood(Ack!ScheduleReconnect(x))
  <1> DEFINE y == Ack!ScheduleReconnect(x)
  <1>1. /\ x \in AckStates /\ x.tries \in 0..RaMaxTries /\ AckData(x)
        /\ (x.opening # 0 <=> x.connectTask = "joining")
    BY AckTypes DEF AckGood, AckData
  <1>2. CASE x.closed \/ ~x.reconnect \/ x.timer \/ Ack!IsIdle(x)
    BY <1>2 DEF Ack!ScheduleReconnect
  <1>3. CASE ~(x.closed \/ ~x.reconnect \/ x.timer \/ Ack!IsIdle(x)) /\ x.tries >= RaMaxTries
    BY <1>1, <1>3, AckFailPending DEF Ack!ScheduleReconnect
  <1>4. CASE ~(x.closed \/ ~x.reconnect \/ x.timer \/ Ack!IsIdle(x)) /\ ~(x.tries >= RaMaxTries)
    <2>1. y = [x EXCEPT !.tries = x.tries + 1, !.timer = TRUE]
      BY <1>4 DEF Ack!ScheduleReconnect
    <2>2. x.tries + 1 \in 0..RaMaxTries
      <3>1. x.tries \in 0..RaMaxTries /\ ~(x.tries >= RaMaxTries)
        BY <1>1, <1>4
      <3> QED
        BY <3>1
    <2> HIDE DEF y
    <2>3. /\ y \in AckStates /\ AckSameData(x, y) /\ y.closed = x.closed /\ y.flush = x.flush
          /\ y.opening = x.opening /\ y.connectTask = x.connectTask
      BY <1>1, <2>1, <2>2 DEF AckStates, AckSameData
    <2> QED
      BY <1>1, <2>3, AckAside DEF y
  <1> QED
    BY <1>2, <1>3, <1>4

(* pump moves the front of the queue to the window's end.                   *)
LEMMA AckPump ==
    ASSUME NEW x, AckGood(x)
    PROVE  LET y == Ack!Pump(x)
           IN  /\ AckGood(y) /\ AckSteady(x, y)
               /\ Ack!Joined(x) /\ ~x.closed => y.queue = <<>> \/ y.inFlight # <<>>
  <1> DEFINE room == RaMaxInFlight - Len(x.inFlight)
             n == IF room < Len(x.queue) THEN room ELSE Len(x.queue)
             batch == SubSeq(x.queue, 1, n)
             rest == SubSeq(x.queue, n + 1, Len(x.queue))
             window == x.inFlight \o batch
             sent == Ack!Range(batch)
             attempts == [r \in RaRecords |-> IF r \in sent THEN x.attempts[r] + 1 ELSE x.attempts[r]]
             sentOn == [r \in RaRecords |-> IF r \in sent THEN x.socket ELSE x.sentOn[r]]
             y == Ack!Pump(x)
  <1>1. /\ x \in AckStates /\ AckHolds(x, Pending(x)) /\ AckTries(x) /\ AckData(x)
        /\ Len(x.inFlight) <= RaMaxInFlight
        /\ Len(x.queue) + Len(x.inFlight) <= RaMaxQueue + RaMaxInFlight
        /\ (x.opening # 0 <=> x.connectTask = "joining")
    BY DEF AckGood, AckData
  <1>2. /\ x.queue \in Seq(RaRecords) /\ x.inFlight \in Seq(RaRecords)
        /\ Len(x.queue) \in Nat /\ Len(x.inFlight) \in Nat
        /\ Elements(x.queue) \subseteq RaRecords
        /\ x.attempts \in [RaRecords -> 0..RaMaxAttempts]
        /\ x.sentOn \in [RaRecords -> RaSockets \cup {0}] /\ x.socket \in RaSockets \cup {0}
    BY <1>1, AckTypes
  <1>3. CASE ~Ack!Joined(x) \/ x.closed
    BY <1>3 DEF Ack!Pump, AckSteady, AckChannel
  <1>4. CASE ~(~Ack!Joined(x) \/ x.closed)
    <2>1. y = [x EXCEPT !.queue = rest, !.inFlight = window, !.attempts = attempts,
                        !.sentOn = sentOn]
      BY <1>4 DEF Ack!Pump
    <2>2. n \in 0..Len(x.queue) /\ Len(x.inFlight) + n <= RaMaxInFlight
      BY <1>1, <1>2, Room
    <2>16. n = Len(x.queue) \/ Len(x.inFlight) + n = RaMaxInFlight
      BY <1>2
    <2> HIDE DEF n, y
    <2>3. /\ batch \in Seq(RaRecords) /\ rest \in Seq(RaRecords)
          /\ Len(batch) = n /\ Len(rest) = Len(x.queue) - n
          /\ Elements(x.queue) = Elements(batch) \cup Elements(rest)
          /\ Once(x.queue) => Once(batch) /\ Once(rest) /\ Elements(batch) \cap Elements(rest) = {}
      BY <1>2, <2>2, OnceCut
    <2> HIDE DEF batch, rest
    <2>4. /\ window \in Seq(RaRecords) /\ Len(window) = Len(x.inFlight) + Len(batch)
          /\ Elements(window) = Elements(x.inFlight) \cup Elements(batch)
          /\ Once(window) <=> /\ Once(x.inFlight) /\ Once(batch)
                              /\ Elements(x.inFlight) \cap Elements(batch) = {}
      BY <1>2, <2>3, OnceConcat
    <2>5. sent = Elements(batch)
      <3>1. DOMAIN batch = 1..Len(batch)
        BY <2>3, LenProperties
      <3> QED
        BY <3>1 DEF Elements, Ack!Range
    <2> HIDE DEF window, sent
    <2>6. /\ attempts \in [RaRecords -> 0..RaMaxAttempts]
          /\ \A r \in RaRecords : r \notin sent => attempts[r] = x.attempts[r]
      <3>1. \A r \in sent : x.attempts[r] < RaMaxAttempts
        BY <1>1, <2>3, <2>5 DEF AckTries
      <3>2. \A r \in RaRecords : x.attempts[r] \in 0..RaMaxAttempts
        BY <1>2
      <3>3. \A r \in RaRecords : r \in sent => x.attempts[r] + 1 \in 0..RaMaxAttempts
        BY <3>1, <3>2
      <3> QED
        BY <3>2, <3>3
    <2>7. sentOn \in [RaRecords -> RaSockets \cup {0}]
      BY <1>2
    <2> HIDE DEF attempts, sentOn
    <2>8. /\ y \in AckStates /\ y.queue = rest /\ y.inFlight = window /\ y.attempts = attempts
          /\ y.outcome = x.outcome /\ y.opening = x.opening /\ y.connectTask = x.connectTask
          /\ y.closed = x.closed /\ y.flush = x.flush /\ AckSteady(x, y)
      BY <1>1, <2>1, <2>3, <2>4, <2>6, <2>7 DEF AckStates, AckSteady, AckChannel
    <2>9. Pending(y) = Pending(x)
      BY <2>8 DEF Pending
    <2>10. Elements(rest) \cup Elements(window) = Elements(x.queue) \cup Elements(x.inFlight)
      BY <2>3, <2>4
    <2>11. AckHolds(y, Pending(y))
      BY <1>1, <2>3, <2>4, <2>8, <2>9, <2>10 DEF AckHolds
    <2>12. AckTries(y)
      <3>1. \A r \in Elements(rest) : r \in RaRecords /\ r \notin sent /\ x.attempts[r] < RaMaxAttempts
        BY <1>1, <1>2, <2>3, <2>5 DEF AckHolds, AckTries
      <3>2. \A r \in RaRecords : x.outcome[r] = "new" => r \notin sent
        <4>1. \A r \in sent : x.outcome[r] = "pending"
          BY <1>1, <2>3, <2>5 DEF AckHolds, Pending
        <4> QED
          BY <4>1
      <3> QED
        BY <1>1, <2>6, <2>8, <3>1, <3>2 DEF AckTries
    <2>13. /\ Len(window) <= RaMaxInFlight
           /\ Len(rest) + Len(window) <= RaMaxQueue + RaMaxInFlight
      <3>1. Len(window) = Len(x.inFlight) + n /\ Len(rest) = Len(x.queue) - n
        BY <2>3, <2>4
      <3>2. Len(rest) + Len(window) <= RaMaxQueue + RaMaxInFlight
        BY <1>1, <1>2, <2>2, <3>1, Shrinks
      <3> QED
        BY <2>2, <3>1, <3>2
    <2>14. AckData(y)
      BY <1>1, <2>8, <2>11, <2>12, <2>13 DEF AckData
    <2>15. Ack!IsIdle(y) <=> Ack!IsIdle(x)
      BY <1>1, <2>8, <2>10, AckTypes
    <2>17. rest = <<>> \/ window # <<>>
      <3>1. CASE n = Len(x.queue)
        <4>1. Len(rest) = 0
          BY <1>2, <2>3, <3>1
        <4> QED
          BY <2>3, <4>1
      <3>2. CASE Len(x.inFlight) + n = RaMaxInFlight
        <4>1. Len(window) # 0
          BY <2>3, <2>4, <3>2
        <4>2. Len(<<>>) = 0
          OBVIOUS
        <4> QED
          BY <4>1, <4>2
      <3> QED
        BY <2>16, <3>1, <3>2
    <2> QED
      BY <2>8, <2>14, <2>15, <2>17 DEF AckGood, AckWaits, y
  <1> QED
    BY <1>3, <1>4

LEMMA AckKick ==
    ASSUME NEW x, AckGood(x)
    PROVE  AckGood(Ack!Kick(x))
  <1> DEFINE y == Ack!Kick(x)
  <1>1. /\ x \in AckStates /\ (x.opening # 0 <=> x.connectTask = "joining")
        /\ x.connectTask \in {"none", "token", "joining"}
    BY DEF AckGood, AckData, AckStates
  <1>2. CASE x.closed \/ x.timer \/ Ack!IsIdle(x)
    BY <1>2 DEF Ack!Kick
  <1>3. CASE ~(x.closed \/ x.timer \/ Ack!IsIdle(x)) /\ Ack!Joined(x)
    BY <1>3, AckPump DEF Ack!Kick
  <1>4. CASE ~(x.closed \/ x.timer \/ Ack!IsIdle(x)) /\ ~Ack!Joined(x)
    <2> DEFINE task == IF x.connectTask = "none" THEN "token" ELSE x.connectTask
    <2>1. y = [x EXCEPT !.connectTask = task]
      BY <1>4 DEF Ack!Kick
    <2>2. task \in {"none", "token", "joining"} /\ (task = "joining" <=> x.connectTask = "joining")
      BY <1>1
    <2> HIDE DEF task, y
    <2>3. /\ y \in AckStates /\ AckSameData(x, y) /\ y.closed = x.closed /\ y.flush = x.flush
          /\ y.opening = x.opening /\ y.connectTask = task
      BY <1>1, <2>1, <2>2 DEF AckStates, AckSameData
    <2> QED
      BY <1>1, <2>2, <2>3, AckAside DEF y
  <1> QED
    BY <1>2, <1>3, <1>4

LEMMA AckOpenFails ==
    ASSUME NEW x, AckGood(x)
    PROVE  AckGood(Ack!OpenFails(x))
  <1> DEFINE y == [x EXCEPT !.connectTask = "none", !.opening = 0]
  <1>1. x \in AckStates
    BY DEF AckGood, AckData
  <1>2. /\ y \in AckStates /\ AckSameData(x, y) /\ y.closed = x.closed /\ y.flush = x.flush
        /\ y.opening = 0 /\ y.connectTask = "none"
    BY <1>1 DEF AckStates, AckSameData
  <1>3. Ack!OpenFails(x) = IF x.reconnect THEN Ack!ScheduleReconnect(y) ELSE Ack!FailPending(y)
    BY DEF Ack!OpenFails
  <1> HIDE DEF y
  <1>4. AckGood(y)
    BY <1>2, AckAside
  <1>5. AckGood(Ack!ScheduleReconnect(y)) /\ AckGood(Ack!FailPending(y))
    BY <1>4, AckScheduleReconnect, AckFailPending DEF AckGood
  <1> QED
    BY <1>3, <1>5

LEMMA AckFinishError ==
    ASSUME NEW x, AckGood(x), NEW s
    PROVE  AckGood(Ack!FinishError(x, s))
  BY AckOpenFails DEF Ack!FinishError

LEMMA AckBeginFlush ==
    ASSUME NEW x, AckGood(x), NEW c \in Ack!RaCalls
    PROVE  AckGood(Ack!BeginFlush(x, c))
  <1>1. /\ x \in AckStates /\ AckData(x) /\ (x.opening # 0 <=> x.connectTask = "joining")
        /\ x.flush \in [Ack!RaCalls -> {"idle", "waiting", "resolved", "rejected"}]
    BY AckTypes DEF AckGood, AckData
  <1>2. CASE Ack!IsIdle(x)
    <2> DEFINE flush == [x.flush EXCEPT ![c] = "resolved"]
               y == [x EXCEPT !.flush = flush]
    <2>1. Ack!BeginFlush(x, c) = y
      BY <1>1, <1>2 DEF Ack!BeginFlush, AckStates
    <2>2. /\ flush \in [Ack!RaCalls -> {"idle", "waiting", "resolved", "rejected"}]
          /\ \A d \in Ack!RaCalls : flush[d] = "waiting" => x.flush[d] = "waiting"
      BY <1>1
    <2> HIDE DEF flush
    <2>3. /\ y \in AckStates /\ AckSameData(x, y) /\ y.closed = x.closed /\ y.flush = flush
          /\ y.opening = x.opening /\ y.connectTask = x.connectTask
      BY <1>1, <2>2 DEF AckStates, AckSameData
    <2> HIDE DEF y
    <2>4. AckData(y) /\ (Ack!IsIdle(y) <=> Ack!IsIdle(x))
      BY <1>1, <2>3, AckSameDataKeeps
    <2> QED
      BY <2>1, <2>2, <2>3, <2>4 DEF AckGood, AckWaits
  <1>3. CASE ~Ack!IsIdle(x)
    <2> DEFINE flush == [x.flush EXCEPT ![c] = "waiting"]
               y == [x EXCEPT !.flush = flush, !.timer = FALSE]
    <2>1. Ack!BeginFlush(x, c) = Ack!Kick(y)
      <3>1. [x EXCEPT !.flush[c] = "waiting", !.timer = FALSE] = y
        BY <1>1 DEF AckStates
      <3> HIDE DEF y
      <3> QED
        BY <1>3, <3>1 DEF Ack!BeginFlush
    <2>2. flush \in [Ack!RaCalls -> {"idle", "waiting", "resolved", "rejected"}]
      BY <1>1
    <2> HIDE DEF flush
    <2>3. /\ y \in AckStates /\ AckSameData(x, y) /\ y.closed = x.closed
          /\ y.opening = x.opening /\ y.connectTask = x.connectTask
      BY <1>1, <2>2 DEF AckStates, AckSameData
    <2> HIDE DEF y
    <2>4. AckData(y) /\ (Ack!IsIdle(y) <=> Ack!IsIdle(x))
      BY <1>1, <2>3, AckSameDataKeeps
    <2>5. AckGood(y)
      BY <1>3, <2>3, <2>4 DEF AckGood, AckWaits
    <2> QED
      BY <2>1, <2>5, AckKick
  <1> QED
    BY <1>2, <1>3

(* What is queued is under way: a timer, a connection or a socket's close   *)
(* is due, or the window has a record, or the state is one of the two that  *)
(* QueuedIsUnderWay leaves out.                                             *)
AckArmed(x) ==
    \/ x.timer \/ x.connectTask # "none"
    \/ x.socket # 0 /\ x.ready[x.socket] = "closing"
AckCurrent(x) == x.socket # 0 /\ x.joinRef = x.socket /\ x.join[x.socket] = "accepted"
AckExempt(x) ==
    x.closed \/ (x.strict /\ ~x.reconnect) \/ (x.joined /\ ~AckCurrent(x))
AckMoves(x) ==
    \/ AckArmed(x) \/ AckExempt(x) \/ Ack!IsIdle(x)
    \/ x.joined /\ (x.queue = <<>> \/ x.inFlight # <<>>)
AckSockets(x) ==
    /\ x.socket # 0 => x.ready[x.socket] # "closed"
    /\ \A s \in RaSockets : x.join[s] = "accepted" => x.ready[s] \in {"open", "closing", "closed"}
AckLive(x) == AckSockets(x) /\ AckMoves(x)

LEMMA AckLiveSteady ==
    ASSUME NEW x, NEW y, AckSteady(x, y), AckLive(x),
           Ack!IsIdle(y) \/ (y.queue = x.queue /\ y.inFlight = x.inFlight)
    PROVE  AckLive(y)
  BY DEF AckLive, AckSockets, AckMoves, AckArmed, AckExempt, AckCurrent, AckSteady, AckChannel,
         Ack!IsIdle

(* A record has left the window: the rest of the state still moves, unless  *)
(* the channel has joined and the window can be filled.                     *)
LEMMA AckLeft ==
    ASSUME NEW x, NEW y, AckSteady(x, y), AckLive(x), ~Ack!IsIdle(x)
    PROVE  AckSockets(y) /\ (y.joined \/ AckMoves(y))
  BY DEF AckLive, AckSockets, AckMoves, AckArmed, AckExempt, AckCurrent, AckSteady, AckChannel

LEMMA AckChannelSockets ==
    ASSUME NEW x, NEW y, AckChannel(x, y), AckSockets(x)
    PROVE  AckSockets(y)
  BY DEF AckSockets, AckChannel

(* Nothing is left: nothing has to move.                                    *)
LEMMA AckIdleLive ==
    ASSUME NEW x, AckData(x), AckSockets(x)
    PROVE  AckLive(Ack!FailPending(x))
  <1> DEFINE y == Ack!FailPending(x)
  <1>1. Ack!IsIdle(y) /\ AckChannel(x, y)
    BY AckFailPending DEF AckSteady
  <1> HIDE DEF y
  <1>2. AckSockets(y)
    BY <1>1, AckChannelSockets
  <1> QED
    BY <1>1, <1>2 DEF AckLive, AckMoves, y

LEMMA AckPumpLive ==
    ASSUME NEW x, AckGood(x), AckSockets(x), x.joined \/ AckMoves(x)
    PROVE  AckLive(Ack!Pump(x))
  <1> DEFINE y == Ack!Pump(x)
  <1>1. /\ AckSteady(x, y) /\ AckSockets(y)
        /\ Ack!Joined(x) /\ ~x.closed => y.queue = <<>> \/ y.inFlight # <<>>
    <2>1. /\ AckSteady(x, y)
          /\ Ack!Joined(x) /\ ~x.closed => y.queue = <<>> \/ y.inFlight # <<>>
      BY AckPump
    <2> HIDE DEF y
    <2> QED
      BY <2>1, AckChannelSockets DEF AckSteady
  <1>2. ~(Ack!Joined(x) /\ ~x.closed) => y = x
    BY DEF Ack!Pump
  <1> HIDE DEF y
  <1>3. ASSUME Ack!Joined(x), ~x.closed PROVE AckLive(y)
    BY <1>1, <1>3 DEF AckLive, AckMoves, AckSteady, AckChannel, Ack!Joined
  <1>4. ASSUME ~(Ack!Joined(x) /\ ~x.closed) PROVE AckLive(y)
    <2>1. x.socket \in RaSockets \cup {0}
      BY AckTypes DEF AckGood, AckData
    <2>2. x.joined => AckArmed(x) \/ AckExempt(x)
      BY <1>4, <2>1 DEF AckSockets, AckArmed, AckExempt, AckCurrent, Ack!Joined
    <2>3. AckMoves(x)
      BY <2>2 DEF AckMoves
    <2> QED
      BY <1>1, <1>2, <1>4, <2>3 DEF AckLive
  <1> QED
    BY <1>3, <1>4 DEF y

LEMMA AckScheduleLive ==
    ASSUME NEW x, AckGood(x), AckSockets(x), x.reconnect \/ AckMoves(x)
    PROVE  AckLive(Ack!ScheduleReconnect(x))
  <1> DEFINE y == [x EXCEPT !.tries = x.tries + 1, !.timer = TRUE]
  <1>1. x \in AckStates
    BY DEF AckGood, AckData
  <1>2. AckChannel(x, y) /\ y.timer
    BY <1>1 DEF AckStates, AckChannel
  <1>3. \/ Ack!ScheduleReconnect(x) = x /\ (x.closed \/ ~x.reconnect \/ x.timer \/ Ack!IsIdle(x))
        \/ Ack!ScheduleReconnect(x) = Ack!FailPending(x)
        \/ Ack!ScheduleReconnect(x) = y
    BY DEF Ack!ScheduleReconnect
  <1> HIDE DEF y
  <1>4. AckLive(y)
    BY <1>2, AckChannelSockets DEF AckLive, AckMoves, AckArmed
  <1>5. x.closed \/ ~x.reconnect \/ x.timer \/ Ack!IsIdle(x) => AckLive(x)
    BY DEF AckLive, AckMoves, AckArmed, AckExempt
  <1>6. AckLive(Ack!FailPending(x))
    BY AckIdleLive DEF AckGood
  <1> QED
    BY <1>3, <1>4, <1>5, <1>6

LEMMA AckKickLive ==
    ASSUME NEW x, AckGood(x), AckSockets(x)
    PROVE  AckLive(Ack!Kick(x))
  <1> DEFINE task == IF x.connectTask = "none" THEN "token" ELSE x.connectTask
             y == [x EXCEPT !.connectTask = task]
  <1>1. x \in AckStates
    BY DEF AckGood, AckData
  <1>2. \/ Ack!Kick(x) = x /\ (x.closed \/ x.timer \/ Ack!IsIdle(x))
        \/ Ack!Kick(x) = Ack!Pump(x) /\ Ack!Joined(x)
        \/ Ack!Kick(x) = y
    BY DEF Ack!Kick
  <1>3. task # "none"
    OBVIOUS
  <1> HIDE DEF task
  <1>4. AckChannel(x, y) /\ y.connectTask # "none"
    BY <1>1, <1>3 DEF AckStates, AckChannel
  <1> HIDE DEF y
  <1>5. AckLive(y)
    BY <1>4, AckChannelSockets DEF AckLive, AckMoves, AckArmed
  <1>6. x.closed \/ x.timer \/ Ack!IsIdle(x) => AckLive(x)
    BY DEF AckLive, AckMoves, AckArmed, AckExempt
  <1>7. Ack!Joined(x) => AckLive(Ack!Pump(x))
    BY AckPumpLive DEF Ack!Joined
  <1> QED
    BY <1>2, <1>5, <1>6, <1>7

LEMMA AckOpenFailsLive ==
    ASSUME NEW x, AckGood(x), AckSockets(x)
    PROVE  AckLive(Ack!OpenFails(x))
  <1> DEFINE y == [x EXCEPT !.connectTask = "none", !.opening = 0]
  <1>1. x \in AckStates
    BY DEF AckGood, AckData
  <1>2. /\ y \in AckStates /\ AckSameData(x, y) /\ y.closed = x.closed /\ y.flush = x.flush
        /\ y.opening = 0 /\ y.connectTask = "none" /\ AckChannel(x, y)
    BY <1>1 DEF AckStates, AckSameData, AckChannel
  <1>3. Ack!OpenFails(x) = IF y.reconnect THEN Ack!ScheduleReconnect(y) ELSE Ack!FailPending(y)
    BY <1>2 DEF Ack!OpenFails, AckChannel
  <1> HIDE DEF y
  <1>4. AckGood(y) /\ AckSockets(y)
    BY <1>2, AckAside, AckChannelSockets
  <1> QED
    BY <1>3, <1>4, AckScheduleLive, AckIdleLive DEF AckGood

LEMMA AckFinishErrorLive ==
    ASSUME NEW x, AckGood(x), AckLive(x), NEW s
    PROVE  AckLive(Ack!FinishError(x, s))
  BY AckOpenFailsLive DEF Ack!FinishError, AckLive

LEMMA AckBeginFlushLive ==
    ASSUME NEW x, AckGood(x), AckSockets(x), NEW c \in Ack!RaCalls
    PROVE  AckLive(Ack!BeginFlush(x, c))
  <1> DEFINE done == [x EXCEPT !.flush[c] = "resolved"]
             y == [x EXCEPT !.flush[c] = "waiting", !.timer = FALSE]
  <1>1. /\ x \in AckStates /\ AckData(x) /\ (x.opening # 0 <=> x.connectTask = "joining")
        /\ x.flush \in [Ack!RaCalls -> {"idle", "waiting", "resolved", "rejected"}]
    BY AckTypes DEF AckGood, AckData
  <1>2. Ack!BeginFlush(x, c) = IF Ack!IsIdle(x) THEN done ELSE Ack!Kick(y)
    BY DEF Ack!BeginFlush
  <1>3. Ack!IsIdle(x) => AckLive(done)
    <2>1. done.queue = x.queue /\ done.inFlight = x.inFlight /\ AckSteady(x, done)
      BY <1>1 DEF AckStates, AckSteady, AckChannel
    <2> HIDE DEF done
    <2>2. Ack!IsIdle(x) => AckLive(x)
      BY DEF AckLive, AckMoves
    <2> QED
      BY <2>1, <2>2, AckLiveSteady
  <1>4. ~Ack!IsIdle(x) => AckLive(Ack!Kick(y))
    <2>1. /\ y \in AckStates /\ AckSameData(x, y) /\ y.closed = x.closed
          /\ y.opening = x.opening /\ y.connectTask = x.connectTask /\ AckChannel(x, y)
      <3> DEFINE flush == [x.flush EXCEPT ![c] = "waiting"]
      <3>1. flush \in [Ack!RaCalls -> {"idle", "waiting", "resolved", "rejected"}]
        BY <1>1
      <3>2. y = [x EXCEPT !.flush = flush, !.timer = FALSE]
        BY <1>1 DEF AckStates
      <3> HIDE DEF flush, y
      <3> QED
        BY <1>1, <3>1, <3>2 DEF AckStates, AckSameData, AckChannel
    <2> HIDE DEF y
    <2>2. AckData(y) /\ (Ack!IsIdle(y) <=> Ack!IsIdle(x)) /\ AckSockets(y)
      BY <1>1, <2>1, AckSameDataKeeps, AckChannelSockets
    <2>3. ~Ack!IsIdle(x) => AckGood(y)
      BY <2>1, <2>2 DEF AckGood, AckWaits
    <2> QED
      BY <2>2, <2>3, AckKickLive
  <1> HIDE DEF done, y
  <1> QED
    BY <1>2, <1>3, <1>4

(* A socket that is told to close is closing, unless close() throws.        *)
LEMMA AckCloses ==
    ASSUME NEW x \in AckStates, AckSockets(x), NEW code
    PROVE  LET y == Ack!CloseSocket(x, code)
           IN  /\ AckSockets(y) /\ y.reconnect = x.reconnect /\ (AckMoves(x) => AckMoves(y))
               /\ x.socket # 0 /\ Ack!MayClose(x.strict, code) => AckArmed(y)
  <1> DEFINE y == Ack!CloseSocket(x, code)
             ready == [x.ready EXCEPT ![x.socket] = "closing"]
  <1>1. /\ x.socket \in RaSockets \cup {0}
        /\ x.ready \in [RaSockets -> {"connecting", "open", "closing", "closed"}]
    BY AckTypes
  <1>2. CASE x.socket = 0 \/ ~Ack!MayClose(x.strict, code)
    BY <1>2 DEF Ack!CloseSocket
  <1>3. CASE ~(x.socket = 0 \/ ~Ack!MayClose(x.strict, code))
    <2>1. x.ready[x.socket] # "closed"
      BY <1>3 DEF AckSockets
    <2>2. y = [x EXCEPT !.ready = ready]
      BY <1>3, <2>1 DEF Ack!CloseSocket, AckStates
    <2>3. \A s \in RaSockets : ready[s] = IF s = x.socket THEN "closing" ELSE x.ready[s]
      BY <1>1
    <2> HIDE DEF ready, y
    <2>4. /\ y.ready = ready /\ y.socket = x.socket /\ y.join = x.join
          /\ y.reconnect = x.reconnect
      BY <2>2 DEF AckStates
    <2>5. AckSockets(y) /\ AckArmed(y)
      BY <1>1, <1>3, <2>3, <2>4 DEF AckSockets, AckArmed
    <2> QED
      BY <2>4, <2>5 DEF AckMoves, y
  <1> QED
    BY <1>2, <1>3

LEMMA AckCloseLive ==
    ASSUME NEW x, AckGood(x), AckLive(x), NEW code
    PROVE  LET y == Ack!CloseSocket(x, code) IN AckGood(y) /\ AckLive(y)
  BY AckCloses, AckCloseSocket DEF AckLive, AckGood, AckData

(* A record leaves the window: it is over, or goes back to the queue.       *)
LEMMA AckTaken ==
    ASSUME NEW x, AckGood(x), NEW r \in Elements(x.inFlight)
    PROVE  LET y == Ack!Taken(x, r)
           IN  /\ y \in AckStates /\ r \in RaRecords /\ ~x.closed /\ y.closed = x.closed
               /\ y.queue = x.queue /\ y.attempts = x.attempts /\ y.outcome = x.outcome
               /\ y.opening = x.opening /\ y.connectTask = x.connectTask /\ y.flush = x.flush
               /\ Once(y.inFlight) /\ Elements(y.inFlight) = Elements(x.inFlight) \ {r}
               /\ Len(y.inFlight) < Len(x.inFlight) /\ Len(y.inFlight) \in Nat
               /\ AckSteady(x, y) /\ ~Ack!IsIdle(x)
  <1> DEFINE y == Ack!Taken(x, r)
             w == Without(x.inFlight, {r})
  <1>1. /\ x \in AckStates /\ AckHolds(x, Pending(x))
    BY DEF AckGood, AckData
  <1>2. x.inFlight \in Seq(RaRecords) /\ Elements(x.inFlight) \subseteq RaRecords
    BY <1>1, AckTypes
  <1>3. y = [x EXCEPT !.inFlight = w]
    BY DEF Ack!Taken, Ack!Without, Without
  <1>4. /\ w \in Seq(RaRecords) /\ Len(w) <= Len(x.inFlight) /\ Len(w) \in Nat
        /\ Elements(w) = Elements(x.inFlight) \ {r}
        /\ Elements(x.inFlight) \cap {r} # {} => Len(w) < Len(x.inFlight)
        /\ Once(x.inFlight) => Once(w)
    BY <1>2, OnceWithout
  <1> HIDE DEF w, y
  <1>5. /\ y \in AckStates /\ y.closed = x.closed /\ y.inFlight = w
        /\ y.queue = x.queue /\ y.attempts = x.attempts /\ y.outcome = x.outcome
        /\ y.opening = x.opening /\ y.connectTask = x.connectTask /\ y.flush = x.flush
        /\ AckSteady(x, y)
    BY <1>1, <1>3, <1>4 DEF AckStates, AckSteady, AckChannel
  <1>6. ~Ack!IsIdle(x)
    BY <1>1, AckTypes
  <1>7. ~x.closed
    BY <1>6 DEF AckGood
  <1> QED
    BY <1>1, <1>2, <1>4, <1>5, <1>6, <1>7 DEF AckHolds, y

LEMMA AckOver ==
    ASSUME NEW x, AckGood(x), NEW r \in Elements(x.inFlight),
           NEW y \in AckStates, NEW how \in {"acked", "dropped"},
           y = [Ack!Taken(x, r) EXCEPT !.outcome = [x.outcome EXCEPT ![r] = how]]
    PROVE  LET z == Ack!NotifyIdle(y)
           IN  AckGood(z) /\ AckSteady(x, z) /\ ~Ack!IsIdle(x)
  <1> DEFINE t == Ack!Taken(x, r)
             outcome == [x.outcome EXCEPT ![r] = how]
  <1>1. /\ t \in AckStates /\ r \in RaRecords /\ ~x.closed /\ t.closed = x.closed
        /\ t.queue = x.queue /\ t.attempts = x.attempts /\ t.outcome = x.outcome
        /\ t.opening = x.opening /\ t.connectTask = x.connectTask /\ t.flush = x.flush
        /\ Once(t.inFlight) /\ Elements(t.inFlight) = Elements(x.inFlight) \ {r}
        /\ Len(t.inFlight) < Len(x.inFlight) /\ Len(t.inFlight) \in Nat
        /\ AckSteady(x, t) /\ ~Ack!IsIdle(x)
    BY AckTaken
  <1>2. /\ x \in AckStates /\ AckHolds(x, Pending(x)) /\ AckTries(x)
        /\ Len(x.inFlight) <= RaMaxInFlight
        /\ Len(x.queue) + Len(x.inFlight) <= RaMaxQueue + RaMaxInFlight
        /\ (x.opening # 0 <=> x.connectTask = "joining")
    BY DEF AckGood, AckData
  <1>3. /\ Len(x.queue) \in Nat /\ Len(x.inFlight) \in Nat
        /\ x.outcome \in [RaRecords -> {"new", "pending", "acked", "dropped"}]
    BY <1>2, AckTypes
  <1>4. outcome[r] = how /\ \A q \in RaRecords : q # r => outcome[q] = x.outcome[q]
    BY <1>1, <1>3
  <1> HIDE DEF t, outcome
  <1>5. /\ y.outcome = outcome /\ y.queue = x.queue /\ y.inFlight = t.inFlight
        /\ y.attempts = x.attempts /\ y.closed = x.closed
        /\ y.opening = x.opening /\ y.connectTask = x.connectTask /\ AckSteady(t, y)
    BY <1>1 DEF AckStates, AckSteady, AckChannel, t, outcome
  <1>6. Pending(y) = Pending(x) \ {r}
    BY <1>4, <1>5 DEF Pending
  <1>7. AckHolds(y, Pending(y))
    BY <1>1, <1>2, <1>5, <1>6 DEF AckHolds
  <1>8. AckTries(y)
    BY <1>2, <1>4, <1>5 DEF AckTries
  <1>9. /\ Len(y.inFlight) <= RaMaxInFlight
        /\ Len(y.queue) + Len(y.inFlight) <= RaMaxQueue + RaMaxInFlight
    <2>1. /\ Len(t.inFlight) <= RaMaxInFlight
          /\ Len(x.queue) + Len(t.inFlight) <= RaMaxQueue + RaMaxInFlight
      <3>1. Len(t.inFlight) <= Len(x.inFlight) /\ Len(t.inFlight) <= RaMaxInFlight
        BY <1>1, <1>2, <1>3
      <3> QED
        BY <1>1, <1>2, <1>3, <3>1, Shrinks
    <2> QED
      BY <1>5, <2>1
  <1>10. AckData(y)
    BY <1>2, <1>5, <1>7, <1>8, <1>9 DEF AckData
  <1> DEFINE z == Ack!NotifyIdle(y)
  <1>11. AckData(z) /\ AckWaits(z) /\ z.closed = y.closed /\ AckSteady(y, z)
    BY <1>10, AckNotifyIdle
  <1> HIDE DEF z
  <1>12. AckGood(z) /\ AckSteady(x, z)
    BY <1>1, <1>5, <1>11 DEF AckGood, AckSteady, AckChannel
  <1> QED
    BY <1>1, <1>12 DEF z

LEMMA AckRetry ==
    ASSUME NEW x, AckGood(x), NEW r \in Elements(x.inFlight)
    PROVE  LET z == Ack!Retry(Ack!Taken(x, r), r)
           IN  AckGood(z) /\ (AckLive(x) => AckLive(z))
  <1> DEFINE t == Ack!Taken(x, r)
  <1>1. /\ t \in AckStates /\ r \in RaRecords /\ ~x.closed /\ t.closed = x.closed
        /\ t.queue = x.queue /\ t.attempts = x.attempts /\ t.outcome = x.outcome
        /\ t.opening = x.opening /\ t.connectTask = x.connectTask /\ t.flush = x.flush
        /\ Once(t.inFlight) /\ Elements(t.inFlight) = Elements(x.inFlight) \ {r}
        /\ Len(t.inFlight) < Len(x.inFlight) /\ Len(t.inFlight) \in Nat
        /\ AckSteady(x, t) /\ ~Ack!IsIdle(x)
    BY AckTaken
  <1>2. /\ x \in AckStates /\ AckHolds(x, Pending(x)) /\ AckTries(x)
        /\ Len(x.inFlight) <= RaMaxInFlight
        /\ Len(x.queue) + Len(x.inFlight) <= RaMaxQueue + RaMaxInFlight
        /\ (x.opening # 0 <=> x.connectTask = "joining")
    BY DEF AckGood, AckData
  <1>3. /\ x.queue \in Seq(RaRecords) /\ Len(x.queue) \in Nat /\ Len(x.inFlight) \in Nat
        /\ x.outcome \in [RaRecords -> {"new", "pending", "acked", "dropped"}]
        /\ x.attempts \in [RaRecords -> 0..RaMaxAttempts]
    BY <1>2, AckTypes
  <1>4. CASE t.attempts[r] >= RaMaxAttempts
    <2> DEFINE y == Ack!DropAll(t, {r})
    <2>1. Ack!Retry(t, r) = Ack!Pump(Ack!NotifyIdle(y))
      BY <1>4 DEF Ack!Retry
    <2>2. y \in AckStates
      BY <1>1, AckDropAll
    <2>3. y = [t EXCEPT !.outcome = [x.outcome EXCEPT ![r] = "dropped"]]
      <3>1. [q \in RaRecords |-> IF q \in {r} THEN "dropped" ELSE x.outcome[q]]
               = [x.outcome EXCEPT ![r] = "dropped"]
        BY <1>3
      <3> QED
        BY <1>1, <3>1 DEF Ack!DropAll
    <2> HIDE DEF y
    <2> DEFINE z == Ack!NotifyIdle(y)
    <2>4. AckGood(z) /\ AckSteady(x, z)
      BY <2>2, <2>3, AckOver
    <2> HIDE DEF z
    <2>5. AckLive(x) => AckLive(Ack!Pump(z))
      BY <1>1, <2>4, AckLeft, AckPumpLive
    <2> QED
      BY <2>1, <2>4, <2>5, AckPump DEF z
  <1>5. CASE ~(t.attempts[r] >= RaMaxAttempts)
    <2> DEFINE queue == <<r>> \o x.queue
               y == [t EXCEPT !.queue = <<r>> \o t.queue]
    <2>1. Ack!Retry(t, r) = Ack!ScheduleReconnect(Ack!CloseSocket(y, 1011))
      BY <1>5 DEF Ack!Retry
    <2>2. <<r>> \in Seq(RaRecords) /\ Once(<<r>>) /\ Elements(<<r>>) = {r} /\ Len(<<r>>) = 1
      BY <1>1, OnceSingle
    <2> DEFINE one == <<r>>
    <2>14. one \in Seq(RaRecords) /\ Once(one) /\ Elements(one) = {r} /\ Len(one) = 1
           /\ queue = one \o x.queue
      BY <2>2
    <2>3. /\ queue \in Seq(RaRecords) /\ Len(queue) = 1 + Len(x.queue)
          /\ Elements(queue) = {r} \cup Elements(x.queue)
          /\ Once(queue) <=> Once(x.queue) /\ {r} \cap Elements(x.queue) = {}
      <3> HIDE DEF one, queue
      <3>2. one \in Seq(RaRecords) /\ x.queue \in Seq(RaRecords)
        BY <1>3, <2>14
      <3>1. /\ one \o x.queue \in Seq(RaRecords)
            /\ Len(one \o x.queue) = Len(one) + Len(x.queue)
            /\ Elements(one \o x.queue) = Elements(one) \cup Elements(x.queue)
            /\ Once(one \o x.queue) <=> /\ Once(one) /\ Once(x.queue)
                                         /\ Elements(one) \cap Elements(x.queue) = {}
        BY <3>2, OnceConcat
      <3> QED
        BY <2>14, <3>1
    <2> HIDE DEF queue, one
    <2>4. y = [t EXCEPT !.queue = queue]
      BY <1>1 DEF queue
    <2> HIDE DEF t, y
    <2>5. /\ y \in AckStates /\ y.outcome = x.outcome /\ y.queue = queue
          /\ y.inFlight = t.inFlight /\ y.attempts = x.attempts /\ y.closed = x.closed
          /\ y.opening = x.opening /\ y.connectTask = x.connectTask /\ y.flush = x.flush
          /\ AckSteady(x, y)
      BY <1>1, <2>3, <2>4 DEF AckStates, AckSteady, AckChannel
    <2>6. Pending(y) = Pending(x)
      BY <2>5 DEF Pending
    <2>7. AckHolds(y, Pending(y))
      BY <1>1, <1>2, <2>3, <2>5, <2>6 DEF AckHolds
    <2>8. AckTries(y)
      <3>1. x.attempts[r] < RaMaxAttempts
        BY <1>1, <1>3, <1>5
      <3> QED
        BY <1>2, <2>3, <2>5, <3>1 DEF AckTries
    <2>9. /\ Len(y.inFlight) <= RaMaxInFlight
          /\ Len(y.queue) + Len(y.inFlight) <= RaMaxQueue + RaMaxInFlight
      <3>1. /\ Len(t.inFlight) <= RaMaxInFlight
            /\ Len(queue) + Len(t.inFlight) <= RaMaxQueue + RaMaxInFlight
        <4>1. Len(t.inFlight) <= RaMaxInFlight
          BY <1>1, <1>2, <1>3
        <4>2. Len(queue) = 1 + Len(x.queue)
          BY <2>3
        <4>3. (1 + Len(x.queue)) + Len(t.inFlight) <= RaMaxQueue + RaMaxInFlight
          BY <1>1, <1>2, <1>3, Shrinks
        <4> QED
          BY <4>1, <4>2, <4>3
      <3> QED
        BY <2>5, <3>1
    <2>10. AckData(y)
      BY <1>2, <2>5, <2>7, <2>8, <2>9 DEF AckData
    <2>11. ~Ack!IsIdle(y)
      BY <2>3, <2>5, AckTypes
    <2>12. AckGood(y)
      BY <1>1, <2>5, <2>10, <2>11 DEF AckGood, AckWaits
    <2> DEFINE z == Ack!CloseSocket(y, 1011)
    <2>13. AckGood(z)
      BY <2>10, <2>12, AckCloseSocket
    <2>15. AckLive(x) => AckSockets(z) /\ (z.reconnect \/ AckMoves(z))
      <3>1. SUFFICES ASSUME AckLive(x) PROVE AckSockets(z) /\ (z.reconnect \/ AckMoves(z))
        OBVIOUS
      <3>2. AckSockets(y) /\ (y.joined \/ AckMoves(y))
        BY <1>1, <2>5, <3>1, AckLeft
      <3>3. /\ AckSockets(z) /\ z.reconnect = y.reconnect /\ (AckMoves(y) => AckMoves(z))
            /\ y.socket # 0 /\ Ack!MayClose(y.strict, 1011) => AckArmed(z)
        BY <2>5, <3>2, AckCloses
      <3> HIDE DEF z
      <3>4. y.joined /\ y.socket = 0 => AckMoves(y)
        BY DEF AckMoves, AckExempt, AckCurrent
      <3>5. ~Ack!MayClose(y.strict, 1011) /\ ~y.reconnect => AckMoves(y)
        BY DEF AckMoves, AckExempt, Ack!MayClose
      <3> QED
        BY <3>2, <3>3, <3>4, <3>5 DEF AckMoves
    <2> HIDE DEF z
    <2>16. AckLive(x) => AckLive(Ack!ScheduleReconnect(z))
      BY <2>13, <2>15, AckScheduleLive
    <2> QED
      BY <2>1, <2>13, <2>16, AckScheduleReconnect DEF t, z
  <1> QED
    BY <1>4, <1>5

-----------------------------------------------------------------------------
LEMMA AckInit ==
    ASSUME Ack!RaInit
    PROVE  AckGood(state) /\ AckLive(state) /\ faults \in 0..RaMaxFaults
  <1> DEFINE a == state.attempts
             n == state.sentOn
             o == state.outcome
             y == state.ready
             j == state.join
             f == state.flush
             b == state.reconnect
             strict == state.strict
  <1>1. /\ a = [r \in RaRecords |-> 0] /\ n = [r \in RaRecords |-> 0]
        /\ o = [r \in RaRecords |-> "new"] /\ y = [s \in RaSockets |-> "closed"]
        /\ j = [s \in RaSockets |-> "none"] /\ f = [c \in Ack!RaCalls |-> "idle"]
        /\ b \in BOOLEAN /\ strict \in BOOLEAN /\ faults = 0
        /\ state = [queue |-> <<>>, inFlight |-> <<>>, attempts |-> a, sentOn |-> n,
                    outcome |-> o, ready |-> y, join |-> j, socket |-> 0, joined |-> FALSE,
                    joinRef |-> 0, connectTask |-> "none", opening |-> 0, reconnect |-> b,
                    timer |-> FALSE, tries |-> 0, heartbeat |-> "off", accepting |-> TRUE,
                    closed |-> FALSE, strict |-> strict, flush |-> f]
    BY DEF Ack!RaInit
  <1>2. Elements(<<>>) = {} /\ Once(<<>>) /\ Len(<<>>) = 0 /\ <<>> \in Seq(RaRecords)
    BY OnceEmpty
  <1>3. /\ a \in [RaRecords -> 0..RaMaxAttempts] /\ n \in [RaRecords -> RaSockets \cup {0}]
        /\ o \in [RaRecords -> {"new", "pending", "acked", "dropped"}]
        /\ y \in [RaSockets -> {"connecting", "open", "closing", "closed"}]
        /\ j \in [RaSockets -> {"none", "sent", "accepted", "rejected"}]
        /\ f \in [Ack!RaCalls -> {"idle", "waiting", "resolved", "rejected"}]
        /\ 0 \in 0..RaMaxTries
    BY <1>1
  <1>4. /\ \A r \in RaRecords : a[r] = 0 /\ o[r] = "new"
        /\ \A c \in Ack!RaCalls : f[c] = "idle"
        /\ \A k \in RaSockets : j[k] = "none"
    BY <1>1
  <1> HIDE DEF a, n, o, y, j, f, b, strict
  <1>5. state \in AckStates
    BY <1>1, <1>2, <1>3 DEF AckStates
  <1>6. /\ state.queue = <<>> /\ state.inFlight = <<>> /\ state.opening = 0
        /\ state.connectTask = "none" /\ state.closed = FALSE
        /\ state.attempts = a /\ state.outcome = o /\ state.flush = f
        /\ state.socket = 0 /\ state.join = j
    BY <1>1
  <1>7. Pending(state) = {}
    BY <1>4, <1>6 DEF Pending
  <1>8. AckHolds(state, Pending(state))
    BY <1>2, <1>6, <1>7 DEF AckHolds
  <1>9. AckTries(state)
    BY <1>2, <1>4, <1>6 DEF AckTries
  <1>10. AckData(state)
    BY <1>2, <1>5, <1>6, <1>8, <1>9 DEF AckData
  <1>11. AckLive(state)
    BY <1>4, <1>6 DEF AckLive, AckSockets, AckMoves, Ack!IsIdle
  <1> QED
    BY <1>1, <1>4, <1>6, <1>10, <1>11 DEF AckGood, AckWaits

LEMMA AckWrite ==
    ASSUME AckGood(state), AckLive(state), NEW r \in RaRecords, Ack!Write(r)
    PROVE  AckGood(state') /\ AckLive(state')
  <1> DEFINE x == state
  <1>1. /\ x \in AckStates /\ AckData(x) /\ AckHolds(x, Pending(x)) /\ AckTries(x) /\ AckWaits(x)
        /\ x.outcome[r] = "new" /\ Len(x.inFlight) <= RaMaxInFlight
        /\ Len(x.queue) + Len(x.inFlight) <= RaMaxQueue + RaMaxInFlight
        /\ (x.opening # 0 <=> x.connectTask = "joining") /\ (x.closed => Ack!IsIdle(x))
    BY DEF AckGood, AckData, Ack!Write
  <1>2. /\ x.queue \in Seq(RaRecords) /\ Len(x.queue) \in Nat /\ Len(x.inFlight) \in Nat
        /\ Elements(x.queue) \subseteq RaRecords
        /\ x.outcome \in [RaRecords -> {"new", "pending", "acked", "dropped"}]
    BY <1>1, AckTypes
  <1>3. r \notin Pending(x) /\ r \notin Elements(x.queue) /\ r \notin Elements(x.inFlight)
    BY <1>1 DEF Pending, AckHolds
  <1>4. CASE ~x.accepting \/ x.closed \/ r \in RaOversized \/ RaMaxQueue = 0
    <2> DEFINE y == Ack!DropAll(x, {r})
    <2>1. x' = y
      BY <1>4 DEF Ack!Write
    <2>2. /\ y \in AckStates /\ Pending(y) = Pending(x) \ {r}
          /\ \A q \in RaRecords : y.outcome[q] = "new" => x.outcome[q] = "new"
          /\ y.queue = x.queue /\ y.inFlight = x.inFlight /\ y.attempts = x.attempts
          /\ y.opening = x.opening /\ y.connectTask = x.connectTask
          /\ y.closed = x.closed /\ y.flush = x.flush /\ AckSteady(x, y)
      BY <1>1, AckDropAll
    <2> HIDE DEF y
    <2>3. Pending(y) = Pending(x)
      BY <1>3, <2>2
    <2>4. AckData(y)
      BY <1>1, <2>2, <2>3 DEF AckData, AckHolds, AckTries
    <2>5. Ack!IsIdle(y) <=> Ack!IsIdle(x)
      BY <2>2 DEF Ack!IsIdle
    <2>6. AckLive(y)
      BY <2>2, AckLiveSteady
    <2> QED
      BY <1>1, <2>1, <2>2, <2>4, <2>5, <2>6 DEF AckGood, AckWaits
  <1>5. CASE ~(~x.accepting \/ x.closed \/ r \in RaOversized \/ RaMaxQueue = 0)
    <2> DEFINE over == IF Len(x.queue) < RaMaxQueue THEN 0 ELSE Len(x.queue) - RaMaxQueue + 1
               gone == SubSeq(x.queue, 1, over)
               rest == SubSeq(x.queue, over + 1, Len(x.queue))
               queue == Append(rest, r)
               w == Ack!DropAll(x, Ack!Range(gone))
               outcome == [w.outcome EXCEPT ![r] = "pending"]
               y == [w EXCEPT !.queue = queue, !.outcome = outcome]
    <2>1. over \in 0..Len(x.queue) /\ Len(x.queue) - over + 1 <= RaMaxQueue
      <3>1. RaMaxQueue >= 1
        BY <1>5
      <3>2. Len(x.queue) \in Nat
        BY <1>2
      <3> QED
        BY <3>1, <3>2
    <2>2. /\ w \in AckStates /\ Pending(w) = Pending(x) \ Ack!Range(gone)
          /\ \A q \in RaRecords : w.outcome[q] = "new" => x.outcome[q] = "new"
          /\ w.queue = x.queue /\ w.inFlight = x.inFlight /\ w.attempts = x.attempts
          /\ w.opening = x.opening /\ w.connectTask = x.connectTask
          /\ w.closed = x.closed /\ w.flush = x.flush /\ AckSteady(x, w)
      BY <1>1, AckDropAll
    <2>3. x' = Ack!Kick(y)
      <3>1. y = [w EXCEPT !.queue = Append(SubSeq(w.queue, over + 1, Len(w.queue)), r),
                          !.outcome[r] = "pending"]
        BY <2>2 DEF AckStates
      <3> QED
        BY <1>5, <3>1 DEF Ack!Write
    <2>10. RaMaxQueue >= 1 /\ ~x.closed
      BY <1>5
    <2> HIDE DEF over
    <2>4. /\ gone \in Seq(RaRecords) /\ rest \in Seq(RaRecords)
          /\ Len(rest) = Len(x.queue) - over
          /\ Elements(x.queue) = Elements(gone) \cup Elements(rest)
          /\ Once(x.queue) => Once(gone) /\ Once(rest) /\ Elements(gone) \cap Elements(rest) = {}
      BY <1>2, <2>1, OnceCut
    <2> HIDE DEF gone, rest
    <2>5. Ack!Range(gone) = Elements(gone)
      <3>1. DOMAIN gone = 1..Len(gone)
        BY <2>4, LenProperties
      <3> QED
        BY <3>1 DEF Elements, Ack!Range
    <2>6. /\ queue \in Seq(RaRecords) /\ Len(queue) = Len(rest) + 1 /\ queue # <<>>
          /\ Elements(queue) = Elements(rest) \cup {r}
          /\ Once(rest) /\ r \notin Elements(rest) => Once(queue)
      BY <2>4, OnceAppend
    <2> HIDE DEF w, queue
    <2>7. /\ outcome \in [RaRecords -> {"new", "pending", "acked", "dropped"}]
          /\ outcome[r] = "pending" /\ \A q \in RaRecords : q # r => outcome[q] = w.outcome[q]
      <3>1. w.outcome \in [RaRecords -> {"new", "pending", "acked", "dropped"}]
        BY <2>2, AckTypes
      <3> QED
        BY <3>1
    <2> HIDE DEF outcome
    <2>8. /\ y \in AckStates /\ y.outcome = outcome /\ y.queue = queue
          /\ y.inFlight = x.inFlight /\ y.attempts = x.attempts /\ y.closed = x.closed
          /\ y.opening = x.opening /\ y.connectTask = x.connectTask /\ y.flush = x.flush
          /\ AckChannel(x, y)
      BY <2>2, <2>6, <2>7 DEF AckStates, AckSteady, AckChannel
    <2> HIDE DEF y
    <2>9. Pending(y) = (Pending(x) \ Elements(gone)) \cup {r}
      <3>1. \A q \in RaRecords : q # r => (q \in Pending(y) <=> q \in Pending(w))
        BY <2>7, <2>8 DEF Pending
      <3>2. r \in Pending(y) /\ Pending(y) \subseteq RaRecords /\ Pending(w) \subseteq RaRecords
        BY <2>7, <2>8 DEF Pending
      <3> QED
        BY <2>2, <2>5, <3>1, <3>2
    <2>11. AckHolds(y, Pending(y))
      <3>1. /\ Once(queue) /\ Elements(queue) \cap Elements(x.inFlight) = {}
        BY <1>1, <1>3, <2>4, <2>6 DEF AckHolds
      <3>2. Elements(queue) \cup Elements(x.inFlight) = (Pending(x) \ Elements(gone)) \cup {r}
        <4>1. Elements(gone) \cap Elements(x.inFlight) = {}
          BY <1>1, <2>4 DEF AckHolds
        <4>2. Elements(gone) \cap Elements(rest) = {}
          BY <1>1, <2>4 DEF AckHolds
        <4>3. Pending(x) = Elements(gone) \cup Elements(rest) \cup Elements(x.inFlight)
          BY <1>1, <2>4 DEF AckHolds
        <4> QED
          BY <2>6, <4>1, <4>2, <4>3
      <3> QED
        BY <1>1, <2>8, <2>9, <3>1, <3>2 DEF AckHolds
    <2>12. AckTries(y)
      <3>1. x.attempts[r] = 0 /\ 0 < RaMaxAttempts
        BY <1>1 DEF AckTries
      <3>2. \A q \in RaRecords : outcome[q] = "new" => x.outcome[q] = "new"
        BY <2>2, <2>7
      <3>3. \A q \in Elements(queue) : x.attempts[q] < RaMaxAttempts
        BY <1>1, <2>4, <2>6, <3>1 DEF AckTries
      <3> QED
        BY <1>1, <2>8, <3>2, <3>3 DEF AckTries
    <2>13. Len(y.queue) + Len(y.inFlight) <= RaMaxQueue + RaMaxInFlight
      <3>1. Len(queue) <= RaMaxQueue /\ Len(queue) \in Nat
        <4>1. Len(queue) = Len(x.queue) - over + 1
          BY <2>4, <2>6
        <4> QED
          BY <1>2, <2>1, <4>1
      <3>2. Len(queue) + Len(x.inFlight) <= RaMaxQueue + RaMaxInFlight
        <4>1. Len(x.inFlight) <= RaMaxInFlight /\ Len(x.inFlight) \in Nat
          BY <1>1, <1>2
        <4> QED
          BY <3>1, <4>1
      <3> QED
        BY <2>8, <3>2
    <2>14. AckData(y)
      BY <1>1, <2>8, <2>11, <2>12, <2>13 DEF AckData
    <2>15. ~Ack!IsIdle(y)
      BY <2>6, <2>8 DEF Ack!IsIdle
    <2>16. AckGood(y)
      BY <2>8, <2>10, <2>14, <2>15 DEF AckGood, AckWaits
    <2>17. AckSockets(y)
      BY <2>8, AckChannelSockets DEF AckLive
    <2> QED
      BY <2>3, <2>16, <2>17, AckKick, AckKickLive
  <1> QED
    BY <1>4, <1>5

(* close() ends: it leaves nothing, and nobody waits.                       *)
LEMMA AckCloseEnds ==
    ASSUME AckGood(state), AckLive(state), Ack!CloseEnds
    PROVE  AckGood(state') /\ AckLive(state')
  <1> DEFINE x == state
             u == [x EXCEPT !.closed = TRUE, !.heartbeat = "off"]
             v == Ack!FailPending(u)
             w == Ack!CloseSocket(v, 1000)
             flush == [c \in Ack!RaCalls |-> IF w.flush[c] = "waiting" THEN "rejected" ELSE w.flush[c]]
             y == [w EXCEPT !.socket = 0, !.joined = FALSE, !.flush = flush]
  <1>1. x \in AckStates /\ AckData(x) /\ (x.opening # 0 <=> x.connectTask = "joining")
    BY DEF AckGood, AckData
  <1>2. x' = y
    BY DEF Ack!CloseEnds
  <1>3. /\ u \in AckStates /\ AckSameData(x, u) /\ u.opening = x.opening
        /\ u.connectTask = x.connectTask /\ u.closed
        /\ u.socket = x.socket /\ u.ready = x.ready /\ u.join = x.join
    BY <1>1 DEF AckStates, AckSameData
  <1> HIDE DEF u
  <1>4. AckData(u)
    BY <1>1, <1>3, AckSameDataKeeps
  <1>5. AckGood(v) /\ Ack!IsIdle(v) /\ AckSteady(u, v) /\ v.closed
    BY <1>3, <1>4, AckFailPending
  <1>11. AckSockets(v)
    BY <1>3, <1>5 DEF AckLive, AckSockets, AckSteady, AckChannel
  <1> HIDE DEF v
  <1>6. AckGood(w) /\ Ack!IsIdle(w) /\ w.closed
    BY <1>5, AckCloseSocket DEF AckGood
  <1>12. AckSockets(w)
    BY <1>5, <1>11, AckCloses DEF AckGood, AckData
  <1> HIDE DEF w
  <1>7. /\ w \in AckStates /\ AckData(w) /\ (w.opening # 0 <=> w.connectTask = "joining")
        /\ w.flush \in [Ack!RaCalls -> {"idle", "waiting", "resolved", "rejected"}]
    BY <1>6, AckTypes DEF AckGood, AckData
  <1>8. /\ flush \in [Ack!RaCalls -> {"idle", "waiting", "resolved", "rejected"}]
        /\ \A c \in Ack!RaCalls : flush[c] # "waiting"
    BY <1>7
  <1> HIDE DEF flush
  <1>9. /\ y \in AckStates /\ AckSameData(w, y) /\ y.flush = flush
        /\ y.opening = w.opening /\ y.connectTask = w.connectTask
        /\ y.closed = w.closed /\ y.socket = 0 /\ y.ready = w.ready /\ y.join = w.join
    BY <1>7, <1>8 DEF AckStates, AckSameData
  <1> HIDE DEF y
  <1>10. AckData(y) /\ Ack!IsIdle(y)
    BY <1>6, <1>7, <1>9, AckSameDataKeeps
  <1>13. AckLive(y)
    BY <1>6, <1>9, <1>12 DEF AckLive, AckSockets, AckMoves, AckExempt
  <1> QED
    BY <1>2, <1>8, <1>9, <1>10, <1>13 DEF AckGood, AckWaits

LEMMA AckSocketCloses ==
    ASSUME AckGood(state), AckLive(state), NEW s \in RaSockets, Ack!SocketCloses(s)
    PROVE  AckGood(state') /\ AckLive(state')
  <1> DEFINE x == state
             ready == [x.ready EXCEPT ![s] = "closed"]
             gone == [x EXCEPT !.ready = ready]
             u == [gone EXCEPT !.socket = 0, !.joined = FALSE, !.joinRef = 0, !.heartbeat = "off"]
             v == Ack!RestoreInFlight(u)
             y == IF v.reconnect THEN Ack!ScheduleReconnect(v) ELSE Ack!FailPending(v)
  <1>1. /\ x \in AckStates /\ (x.opening # 0 <=> x.connectTask = "joining")
        /\ x.ready \in [RaSockets -> {"connecting", "open", "closing", "closed"}]
    BY AckTypes DEF AckGood, AckData
  <1>2. x' = Ack!FinishError(IF x.socket = s THEN y ELSE gone, s)
    <2>1. [x EXCEPT !.ready[s] = "closed"] = gone
      BY <1>1 DEF AckStates
    <2> HIDE DEF gone
    <2> QED
      BY <2>1 DEF Ack!SocketCloses
  <1>3. /\ ready \in [RaSockets -> {"connecting", "open", "closing", "closed"}]
        /\ \A k \in RaSockets : ready[k] = IF k = s THEN "closed" ELSE x.ready[k]
    BY <1>1
  <1> HIDE DEF ready
  <1>4. /\ gone \in AckStates /\ AckSameData(x, gone) /\ gone.closed = x.closed
        /\ gone.flush = x.flush /\ gone.opening = x.opening /\ gone.connectTask = x.connectTask
        /\ gone.timer = x.timer /\ gone.ready = ready /\ gone.socket = x.socket
        /\ gone.join = x.join /\ gone.joinRef = x.joinRef /\ gone.joined = x.joined
        /\ gone.strict = x.strict /\ gone.reconnect = x.reconnect
    BY <1>1, <1>3 DEF AckStates, AckSameData
  <1> HIDE DEF gone
  <1>5. AckGood(gone)
    BY <1>1, <1>4, AckAside
  <1>6. /\ u \in AckStates /\ AckSameData(gone, u) /\ u.closed = gone.closed
        /\ u.flush = gone.flush /\ u.opening = gone.opening /\ u.connectTask = gone.connectTask
        /\ u.socket = 0 /\ u.ready = ready /\ u.join = gone.join
    BY <1>4 DEF AckStates, AckSameData
  <1> HIDE DEF u
  <1>7. AckGood(u)
    BY <1>1, <1>4, <1>5, <1>6, AckAside
  <1>8. AckGood(v) /\ AckSteady(u, v)
    BY <1>7, AckRestoreInFlight DEF AckGood
  <1>10. AckSockets(v)
    BY <1>3, <1>4, <1>6, <1>8 DEF AckLive, AckSockets, AckSteady, AckChannel
  <1>11. x.socket # s => AckLive(gone)
    <2>1. SUFFICES ASSUME x.socket # s PROVE AckLive(gone)
      OBVIOUS
    <2>2. x.socket \in RaSockets \cup {0}
      BY <1>1, AckTypes
    <2>3. AckSockets(gone)
      BY <1>3, <1>4, <2>1, <2>2 DEF AckLive, AckSockets
    <2>4. AckMoves(gone)
      BY <1>3, <1>4, <2>1, <2>2
         DEF AckLive, AckMoves, AckArmed, AckExempt, AckCurrent, AckSameData, Ack!IsIdle
    <2> QED
      BY <2>3, <2>4 DEF AckLive
  <1> HIDE DEF v
  <1>9. AckGood(y) /\ AckLive(y)
    <2>1. AckGood(y)
      BY <1>8, AckScheduleReconnect, AckFailPending DEF AckGood
    <2>2. AckLive(y)
      BY <1>8, <1>10, AckScheduleLive, AckIdleLive DEF AckGood
    <2> QED
      BY <2>1, <2>2
  <1> HIDE DEF y
  <1> QED
    BY <1>2, <1>5, <1>9, <1>11, AckFinishError, AckFinishErrorLive

LEMMA AckStep ==
    ASSUME AckGood(state), AckLive(state), faults \in 0..RaMaxFaults, Ack!RaNext
    PROVE  AckGood(state') /\ AckLive(state') /\ faults' \in 0..RaMaxFaults
  <1> DEFINE x == state
  <1>1. /\ x \in AckStates /\ AckData(x) /\ (x.opening # 0 <=> x.connectTask = "joining")
        /\ AckHolds(x, Pending(x)) /\ AckWaits(x)
        /\ AckLive(x) /\ AckSockets(x)
    BY DEF AckGood, AckData, AckLive
  <1>2. /\ x.ready \in [RaSockets -> {"connecting", "open", "closing", "closed"}]
        /\ x.join \in [RaSockets -> {"none", "sent", "accepted", "rejected"}]
        /\ x.flush \in [Ack!RaCalls -> {"idle", "waiting", "resolved", "rejected"}]
        /\ Ack!Range(x.inFlight) = Elements(x.inFlight)
        /\ x.outcome \in [RaRecords -> {"new", "pending", "acked", "dropped"}]
        /\ Elements(x.inFlight) \subseteq RaRecords /\ x.socket \in RaSockets \cup {0}
    BY <1>1, AckTypes
  <1>3. ASSUME NEW r \in RaRecords, Ack!Write(r) PROVE AckGood(x') /\ AckLive(x')
    BY <1>1, <1>3, AckWrite
  <1>4. ASSUME NEW r \in RaRecords, Ack!BroadcastAcked(r) PROVE AckGood(x') /\ AckLive(x')
    <2> DEFINE outcome == [x.outcome EXCEPT ![r] = "acked"]
               t == Ack!Taken(x, r)
               y == [t EXCEPT !.outcome = outcome]
    <2>1. r \in Elements(x.inFlight)
      BY <1>2, <1>4 DEF Ack!BroadcastAcked
    <2>2. t \in AckStates /\ t.outcome = x.outcome
      BY <2>1, AckTaken
    <2>3. x' = Ack!Pump(Ack!NotifyIdle(y))
      <3>1. [t EXCEPT !.outcome[r] = "acked"] = y
        BY <2>2 DEF AckStates
      <3> HIDE DEF y, t
      <3> QED
        BY <1>4, <3>1 DEF Ack!BroadcastAcked, t
    <2>4. outcome \in [RaRecords -> {"new", "pending", "acked", "dropped"}]
      BY <1>2
    <2>5. y \in AckStates
      <3> HIDE DEF outcome, t
      <3> QED
        BY <2>2, <2>4 DEF AckStates
    <2> DEFINE z == Ack!NotifyIdle(y)
    <2>6. AckGood(z) /\ AckSteady(x, z) /\ ~Ack!IsIdle(x)
      BY <2>1, <2>5, AckOver
    <2> HIDE DEF z
    <2>7. AckLive(Ack!Pump(z))
      BY <1>1, <2>6, AckLeft, AckPumpLive
    <2> QED
      BY <2>3, <2>6, <2>7, AckPump DEF z
  <1>5. ASSUME NEW r \in RaRecords, Ack!BroadcastRejected(r) \/ Ack!AckTimesOut(r)
        PROVE  AckGood(x') /\ AckLive(x')
    <2>1. r \in Elements(x.inFlight) /\ x' = Ack!Retry(Ack!Taken(x, r), r)
      BY <1>2, <1>5 DEF Ack!BroadcastRejected, Ack!AckTimesOut
    <2> QED
      BY <1>1, <2>1, AckRetry
  <1>6. ASSUME NEW c \in RaFlushes, Ack!Flush(c) PROVE AckGood(x') /\ AckLive(x')
    BY <1>1, <1>6, AckBeginFlush, AckBeginFlushLive DEF Ack!Flush
  <1>7. ASSUME NEW c \in RaFlushes, Ack!Resume(c) PROVE AckGood(x') /\ AckLive(x')
    <2> DEFINE y == [x EXCEPT !.tries = 0]
    <2>1. x' = Ack!BeginFlush(y, c)
      BY <1>7 DEF Ack!Resume
    <2>2. /\ y \in AckStates /\ AckSameData(x, y) /\ y.closed = x.closed /\ y.flush = x.flush
          /\ y.opening = x.opening /\ y.connectTask = x.connectTask /\ AckChannel(x, y)
      BY <1>1, AckNoTries DEF AckStates, AckSameData, AckChannel
    <2> HIDE DEF y
    <2>3. AckGood(y) /\ AckSockets(y)
      BY <1>1, <2>2, AckAside, AckChannelSockets
    <2> QED
      BY <2>1, <2>3, AckBeginFlush, AckBeginFlushLive
  <1>8. ASSUME NEW c \in Ack!RaCalls, Ack!FlushTimesOut(c) PROVE AckGood(x') /\ AckLive(x')
    <2> DEFINE flush == [x.flush EXCEPT ![c] = "rejected"]
    <2>1. x' = [x EXCEPT !.flush = flush]
      BY <1>1, <1>8 DEF Ack!FlushTimesOut, AckStates
    <2>2. /\ flush \in [Ack!RaCalls -> {"idle", "waiting", "resolved", "rejected"}]
          /\ \A d \in Ack!RaCalls : flush[d] = "waiting" => x.flush[d] = "waiting"
      BY <1>2
    <2> HIDE DEF flush
    <2>3. /\ x' \in AckStates /\ AckSameData(x, x') /\ x'.closed = x.closed /\ x'.flush = flush
          /\ x'.opening = x.opening /\ x'.connectTask = x.connectTask /\ AckSteady(x, x')
      BY <1>1, <2>1, <2>2 DEF AckStates, AckSameData, AckSteady, AckChannel
    <2>4. AckData(x') /\ (Ack!IsIdle(x') <=> Ack!IsIdle(x))
      BY <1>1, <2>3, AckSameDataKeeps
    <2>5. AckLive(x')
      BY <1>1, <2>3, AckLiveSteady DEF AckSameData
    <2> QED
      BY <2>2, <2>3, <2>4, <2>5 DEF AckGood, AckWaits
  <1>9. ASSUME NEW y, y = [x EXCEPT !.timer = FALSE] PROVE AckGood(y) /\ AckSockets(y)
    <2>1. /\ y \in AckStates /\ AckSameData(x, y) /\ y.closed = x.closed /\ y.flush = x.flush
          /\ y.opening = x.opening /\ y.connectTask = x.connectTask /\ AckChannel(x, y)
      BY <1>1, <1>9 DEF AckStates, AckSameData, AckChannel
    <2> QED
      BY <1>1, <2>1, AckAside, AckChannelSockets
  <1>10. ASSUME Ack!ReconnectTimerFires PROVE AckGood(x') /\ AckLive(x')
    BY <1>9, <1>10, AckKick, AckKickLive DEF Ack!ReconnectTimerFires
  <1>11. ASSUME Ack!RefreshAuth PROVE AckGood(x') /\ AckLive(x')
    <2>1. x' = Ack!CloseSocket(x, 4000) \/ x' = Ack!Kick(x)
      BY <1>11 DEF Ack!RefreshAuth
    <2> QED
      BY <1>1, <2>1, AckCloseLive, AckKick, AckKickLive
  <1>12. ASSUME Ack!CloseBegins PROVE AckGood(x') /\ AckLive(x')
    <2> DEFINE y == [x EXCEPT !.accepting = FALSE, !.timer = FALSE]
    <2>1. x' = Ack!BeginFlush(y, "close") /\ "close" \in Ack!RaCalls
      BY <1>12 DEF Ack!CloseBegins, Ack!Closer
    <2>2. /\ y \in AckStates /\ AckSameData(x, y) /\ y.closed = x.closed /\ y.flush = x.flush
          /\ y.opening = x.opening /\ y.connectTask = x.connectTask /\ AckChannel(x, y)
      BY <1>1, AckNoTries DEF AckStates, AckSameData, AckChannel
    <2> HIDE DEF y
    <2>3. AckGood(y) /\ AckSockets(y)
      BY <1>1, <2>2, AckAside, AckChannelSockets
    <2> QED
      BY <2>1, <2>3, AckBeginFlush, AckBeginFlushLive
  <1>13. ASSUME Ack!CloseEnds PROVE AckGood(x') /\ AckLive(x')
    BY <1>1, <1>13, AckCloseEnds
  <1>14. ASSUME Ack!TokenArrives PROVE AckGood(x') /\ AckLive(x')
    <2>1. PICK s \in RaSockets :
              x' = [x EXCEPT !.connectTask = "joining", !.opening = s, !.socket = s,
                             !.ready[s] = "connecting", !.join[s] = "none",
                             !.joined = FALSE, !.joinRef = 0]
      BY <1>14 DEF Ack!TokenArrives
    <2> DEFINE ready == [x.ready EXCEPT ![s] = "connecting"]
               join == [x.join EXCEPT ![s] = "none"]
    <2>2. /\ ready \in [RaSockets -> {"connecting", "open", "closing", "closed"}]
          /\ join \in [RaSockets -> {"none", "sent", "accepted", "rejected"}] /\ s # 0
          /\ \A k \in RaSockets : ready[k] = IF k = s THEN "connecting" ELSE x.ready[k]
          /\ \A k \in RaSockets : join[k] = IF k = s THEN "none" ELSE x.join[k]
      BY <1>2
    <2>3. x' = [x EXCEPT !.connectTask = "joining", !.opening = s, !.socket = s,
                         !.ready = ready, !.join = join, !.joined = FALSE, !.joinRef = 0]
      BY <1>1, <2>1 DEF AckStates
    <2> HIDE DEF ready, join
    <2>4. /\ x' \in AckStates /\ AckSameData(x, x') /\ x'.closed = x.closed /\ x'.flush = x.flush
          /\ x'.opening = s /\ x'.connectTask = "joining" /\ x'.socket = s
          /\ x'.ready = ready /\ x'.join = join
      BY <1>1, <2>2, <2>3 DEF AckStates, AckSameData
    <2>5. AckLive(x')
      BY <1>1, <2>2, <2>4 DEF AckLive, AckSockets, AckMoves, AckArmed
    <2> QED
      BY <2>2, <2>4, <2>5, AckAside
  <1>15. ASSUME Ack!TokenFails \/ Ack!JoinTimesOut PROVE AckGood(x') /\ AckLive(x')
    BY <1>1, <1>15, AckOpenFails, AckOpenFailsLive DEF Ack!TokenFails, Ack!JoinTimesOut
  <1>16. ASSUME NEW s \in RaSockets, Ack!SocketOpens(s) PROVE AckGood(x') /\ AckLive(x')
    <2> DEFINE ready == [x.ready EXCEPT ![s] = "open"]
               join == [x.join EXCEPT ![s] = "sent"]
    <2>1. /\ ready \in [RaSockets -> {"connecting", "open", "closing", "closed"}]
          /\ join \in [RaSockets -> {"none", "sent", "accepted", "rejected"}]
          /\ \A k \in RaSockets : ready[k] = IF k = s THEN "open" ELSE x.ready[k]
          /\ \A k \in RaSockets : join[k] = IF k = s THEN "sent" ELSE x.join[k]
          /\ x.ready[s] = "connecting"
      BY <1>2, <1>16 DEF Ack!SocketOpens
    <2>2. x' = [x EXCEPT !.ready = ready, !.joinRef = s, !.join = join]
      BY <1>1, <1>16 DEF Ack!SocketOpens, AckStates
    <2> HIDE DEF ready, join
    <2>3. /\ x' \in AckStates /\ AckSameData(x, x') /\ x'.closed = x.closed /\ x'.flush = x.flush
          /\ x'.opening = x.opening /\ x'.connectTask = x.connectTask
          /\ x'.timer = x.timer /\ x'.ready = ready /\ x'.socket = x.socket
          /\ x'.join = join /\ x'.joinRef = s /\ x'.joined = x.joined
          /\ x'.strict = x.strict /\ x'.reconnect = x.reconnect
      BY <1>1, <2>1, <2>2 DEF AckStates, AckSameData
    <2>4. AckSockets(x')
      BY <1>1, <1>2, <2>1, <2>3 DEF AckSockets
    <2>5. ~AckCurrent(x')
      BY <1>2, <2>1, <2>3 DEF AckCurrent
    <2>6. AckArmed(x) => AckArmed(x')
      BY <1>2, <2>1, <2>3 DEF AckArmed
    <2>7. AckMoves(x')
      BY <1>1, <2>3, <2>5, <2>6 DEF AckLive, AckMoves, AckExempt, AckSameData, Ack!IsIdle
    <2> QED
      BY <1>1, <2>3, <2>4, <2>7, AckAside DEF AckLive
  <1>17. ASSUME NEW s \in RaSockets, NEW how \in {"accepted", "rejected"}, NEW y,
                y = [x EXCEPT !.join[s] = how], x.ready[s] = "open", x.join[s] = "sent"
         PROVE  /\ AckGood(y) /\ AckSockets(y) /\ y.joinRef = x.joinRef
                /\ how = "rejected" \/ x.joinRef # s => AckLive(y)
                /\ y.socket = x.socket /\ y.join[s] = how
    <2> DEFINE join == [x.join EXCEPT ![s] = how]
    <2>1. /\ join \in [RaSockets -> {"none", "sent", "accepted", "rejected"}]
          /\ \A k \in RaSockets : join[k] = IF k = s THEN how ELSE x.join[k]
      BY <1>2
    <2>2. y = [x EXCEPT !.join = join]
      BY <1>1, <1>17 DEF AckStates
    <2> HIDE DEF join
    <2>3. /\ y \in AckStates /\ AckSameData(x, y) /\ y.closed = x.closed /\ y.flush = x.flush
          /\ y.opening = x.opening /\ y.connectTask = x.connectTask
          /\ y.timer = x.timer /\ y.ready = x.ready /\ y.socket = x.socket
          /\ y.join = join /\ y.joinRef = x.joinRef /\ y.joined = x.joined
          /\ y.strict = x.strict /\ y.reconnect = x.reconnect
      BY <1>1, <2>1, <2>2 DEF AckStates, AckSameData
    <2>4. AckSockets(y)
      BY <1>1, <1>17, <2>1, <2>3 DEF AckSockets
    <2>5. how = "rejected" \/ x.joinRef # s => (AckCurrent(y) => AckCurrent(x))
      BY <1>2, <2>1, <2>3 DEF AckCurrent
    <2>6. AckArmed(x) => AckArmed(y)
      BY <2>3 DEF AckArmed
    <2>7. how = "rejected" \/ x.joinRef # s => AckMoves(y)
      BY <1>1, <2>3, <2>5, <2>6 DEF AckLive, AckMoves, AckExempt, AckSameData, Ack!IsIdle
    <2> QED
      BY <1>1, <2>1, <2>3, <2>4, <2>7, AckAside DEF AckLive
  <1>18. ASSUME NEW s \in RaSockets, Ack!JoinAccepted(s) PROVE AckGood(x') /\ AckLive(x')
    <2> DEFINE u == [x EXCEPT !.join[s] = "accepted"]
               task == IF u.opening = s THEN "none" ELSE u.connectTask
               opening == IF u.opening = s THEN 0 ELSE u.opening
               y == [u EXCEPT !.joined = TRUE, !.tries = 0, !.timer = FALSE,
                              !.heartbeat = "idle", !.connectTask = task, !.opening = opening]
    <2>1. x' = IF x.joinRef = s THEN Ack!Pump(y) ELSE u
      BY <1>18 DEF Ack!JoinAccepted
    <2>2. /\ AckGood(u) /\ AckSockets(u) /\ (x.joinRef # s => AckLive(u))
      BY <1>17, <1>18 DEF Ack!JoinAccepted
    <2> HIDE DEF u
    <2>3. /\ u \in AckStates /\ (u.opening # 0 <=> u.connectTask = "joining")
          /\ u.connectTask \in {"none", "token", "joining"} /\ u.opening \in RaSockets \cup {0}
      BY <2>2 DEF AckGood, AckData, AckStates
    <2>4. /\ task \in {"none", "token", "joining"} /\ opening \in RaSockets \cup {0}
          /\ (opening # 0 <=> task = "joining")
      BY <2>3
    <2> HIDE DEF task, opening
    <2>5. /\ y \in AckStates /\ AckSameData(u, y) /\ y.closed = u.closed /\ y.flush = u.flush
          /\ y.opening = opening /\ y.connectTask = task
          /\ y.joined /\ y.socket = u.socket /\ y.ready = u.ready /\ y.join = u.join
      BY <2>3, <2>4, AckNoTries DEF AckStates, AckSameData
    <2> HIDE DEF y
    <2>6. AckGood(y) /\ AckSockets(y)
      <3>1. AckGood(y)
        BY <2>2, <2>4, <2>5, AckAside
      <3>2. AckSockets(y)
        BY <2>2, <2>5 DEF AckSockets
      <3> QED
        BY <3>1, <3>2
    <2>7. AckGood(Ack!Pump(y)) /\ AckLive(Ack!Pump(y))
      BY <2>5, <2>6, AckPump, AckPumpLive
    <2> QED
      BY <2>1, <2>2, <2>7
  <1>19. ASSUME NEW s \in RaSockets, Ack!JoinRejected(s) PROVE AckGood(x') /\ AckLive(x')
    <2> DEFINE u == [x EXCEPT !.join[s] = "rejected"]
    <2>1. x' = Ack!FinishError(Ack!CloseSocket(u, 1008), s) \/ x' = u
      BY <1>19 DEF Ack!JoinRejected
    <2>2. AckGood(u) /\ AckLive(u)
      BY <1>17, <1>19 DEF Ack!JoinRejected
    <2> HIDE DEF u
    <2> DEFINE v == Ack!CloseSocket(u, 1008)
    <2>3. AckGood(v) /\ AckLive(v)
      BY <2>2, AckCloseLive
    <2> HIDE DEF v
    <2> QED
      BY <2>1, <2>2, <2>3, AckFinishError, AckFinishErrorLive DEF v
  <1>20. ASSUME NEW s \in RaSockets, Ack!SocketFails(s) PROVE AckGood(x') /\ AckLive(x')
    <2> DEFINE ready == [x.ready EXCEPT ![s] = "closing"]
               u == [x EXCEPT !.ready = ready]
    <2>1. /\ ready \in [RaSockets -> {"connecting", "open", "closing", "closed"}]
          /\ \A k \in RaSockets : ready[k] = IF k = s THEN "closing" ELSE x.ready[k]
      BY <1>2
    <2>2. [x EXCEPT !.ready[s] = "closing"] = u
      BY <1>1 DEF AckStates
    <2>3. x' = Ack!CloseSocket(u, 1011) \/ x' = Ack!FinishError(Ack!CloseSocket(u, 1011), s)
      BY <1>20, <2>2 DEF Ack!SocketFails
    <2> HIDE DEF ready
    <2>4. /\ u \in AckStates /\ AckSameData(x, u) /\ u.closed = x.closed /\ u.flush = x.flush
          /\ u.opening = x.opening /\ u.connectTask = x.connectTask
          /\ u.timer = x.timer /\ u.ready = ready /\ u.socket = x.socket
          /\ u.join = x.join /\ u.joinRef = x.joinRef /\ u.joined = x.joined
          /\ u.strict = x.strict /\ u.reconnect = x.reconnect
      BY <1>1, <2>1 DEF AckStates, AckSameData
    <2> HIDE DEF u
    <2> DEFINE v == Ack!CloseSocket(u, 1011)
    <2>5. AckGood(v) /\ AckLive(v)
      <3>1. AckGood(u)
        BY <1>1, <2>4, AckAside
      <3>2. AckSockets(u) /\ (AckArmed(x) => AckArmed(u))
        BY <1>1, <1>2, <2>1, <2>4 DEF AckSockets, AckArmed
      <3>3. AckMoves(u)
        BY <1>1, <2>4, <3>2
           DEF AckLive, AckMoves, AckExempt, AckCurrent, AckSameData, Ack!IsIdle
      <3> QED
        BY <3>1, <3>2, <3>3, AckCloseLive DEF AckLive
    <2> HIDE DEF v
    <2> QED
      BY <2>3, <2>5, AckFinishError, AckFinishErrorLive DEF v
  <1>21. ASSUME NEW s \in RaSockets, Ack!ChannelFails(s) PROVE AckGood(x') /\ AckLive(x')
    BY <1>1, <1>21, AckCloseLive DEF Ack!ChannelFails
  <1>22. ASSUME NEW s \in RaSockets, Ack!SocketCloses(s) PROVE AckGood(x') /\ AckLive(x')
    BY <1>1, <1>22, AckSocketCloses
  <1>23. ASSUME NEW y, NEW beat \in {"idle", "awaited"}, y = [x EXCEPT !.heartbeat = beat]
         PROVE  AckGood(y) /\ AckLive(y)
    <2>1. /\ y \in AckStates /\ AckSameData(x, y) /\ y.closed = x.closed /\ y.flush = x.flush
          /\ y.opening = x.opening /\ y.connectTask = x.connectTask /\ AckSteady(x, y)
      BY <1>1, <1>23 DEF AckStates, AckSameData, AckSteady, AckChannel
    <2>2. AckLive(y)
      BY <1>1, <2>1, AckLiveSteady DEF AckSameData
    <2> QED
      BY <1>1, <2>1, <2>2, AckAside
  <1>24. ASSUME Ack!HeartbeatSent \/ Ack!HeartbeatAcked PROVE AckGood(x') /\ AckLive(x')
    BY <1>23, <1>24 DEF Ack!HeartbeatSent, Ack!HeartbeatAcked
  <1>25. ASSUME Ack!HeartbeatFails PROVE AckGood(x') /\ AckLive(x')
    <2> DEFINE u == [x EXCEPT !.heartbeat = "idle"]
    <2>1. x' = Ack!CloseSocket(u, 1011)
      BY <1>25 DEF Ack!HeartbeatFails
    <2>2. AckGood(u) /\ AckLive(u)
      BY <1>23
    <2> HIDE DEF u
    <2> QED
      BY <2>1, <2>2, AckCloseLive
  <1>26. faults' \in 0..RaMaxFaults
    <2> DEFINE bump == faults' = faults \/ (faults < RaMaxFaults /\ faults' = faults + 1)
    <2>1. ASSUME NEW r \in RaRecords,
                 Ack!Write(r) \/ Ack!BroadcastAcked(r) \/ Ack!BroadcastRejected(r)
                 \/ Ack!AckTimesOut(r)
          PROVE  bump
      BY <2>1 DEF Ack!Write, Ack!BroadcastAcked, Ack!BroadcastRejected, Ack!AckTimesOut, Ack!Fault
    <2>2. ASSUME NEW c, Ack!Flush(c) \/ Ack!Resume(c) \/ Ack!FlushTimesOut(c)
          PROVE  bump
      BY <2>2 DEF Ack!Flush, Ack!Resume, Ack!FlushTimesOut
    <2>3. ASSUME \/ Ack!ReconnectTimerFires \/ Ack!RefreshAuth \/ Ack!CloseBegins
                 \/ Ack!CloseEnds \/ Ack!TokenArrives \/ Ack!TokenFails \/ Ack!JoinTimesOut
          PROVE  bump
      BY <2>3 DEF Ack!ReconnectTimerFires, Ack!RefreshAuth, Ack!CloseBegins, Ack!CloseEnds,
             Ack!TokenArrives, Ack!TokenFails, Ack!JoinTimesOut, Ack!Fault
    <2>4. ASSUME NEW s \in RaSockets,
                 \/ Ack!SocketOpens(s) \/ Ack!JoinAccepted(s) \/ Ack!JoinRejected(s)
                 \/ Ack!SocketFails(s) \/ Ack!ChannelFails(s) \/ Ack!SocketCloses(s)
          PROVE  bump
      BY <2>4 DEF Ack!SocketOpens, Ack!JoinAccepted, Ack!JoinRejected, Ack!SocketFails,
             Ack!ChannelFails, Ack!SocketCloses, Ack!Fault
    <2>5. ASSUME Ack!HeartbeatSent \/ Ack!HeartbeatAcked \/ Ack!HeartbeatFails PROVE bump
      BY <2>5 DEF Ack!HeartbeatSent, Ack!HeartbeatAcked, Ack!HeartbeatFails, Ack!Fault
    <2>6. bump => faults' \in 0..RaMaxFaults
      BY AckConstants
    <2> HIDE DEF bump
    <2> QED
      BY <2>1, <2>2, <2>3, <2>4, <2>5, <2>6 DEF Ack!RaNext
  <1> HIDE DEF x
  <1> QED
    BY <1>3, <1>4, <1>5, <1>6, <1>7, <1>8, <1>10, <1>11, <1>12, <1>13, <1>14, <1>15, <1>16,
       <1>18, <1>19, <1>20, <1>21, <1>22, <1>24, <1>25, <1>26 DEF Ack!RaNext, x

(* What the runs check of the acknowledged transport.                       *)
LEMMA AckHoldsTrue ==
    ASSUME AckGood(state), AckLive(state), faults \in 0..RaMaxFaults
    PROVE  /\ Ack!RaTypeOK /\ Ack!HeldExactlyOnce /\ Ack!NobodyForgotten
           /\ Ack!QueuedIsUnderWay
  <1>1. /\ state \in AckStates /\ AckData(state) /\ AckHolds(state, Pending(state))
    BY DEF AckGood, AckData
  <1>2. /\ state.queue \in Seq(RaRecords) /\ state.inFlight \in Seq(RaRecords)
        /\ Len(state.queue) \in Nat /\ Len(state.inFlight) \in Nat
    BY <1>1, AckTypes
  <1>3. Ack!RaTypeOK
    <2>1. /\ Len(state.queue) <= RaMaxQueue + RaMaxInFlight
          /\ Len(state.inFlight) <= RaMaxInFlight
      <3>1. /\ Len(state.queue) + Len(state.inFlight) <= RaMaxQueue + RaMaxInFlight
            /\ Len(state.inFlight) <= RaMaxInFlight
        BY <1>1 DEF AckData
      <3> QED
        BY <1>2, <3>1, RaMaxQueue + RaMaxInFlight \in Nat, PartOfSum
    <2>2. (state.opening # 0) = (state.connectTask = "joining")
      BY <1>1 DEF AckData
    <2> QED
      BY <1>1, <2>1, <2>2 DEF Ack!RaTypeOK, AckStates
  <1>4. Ack!HeldExactlyOnce
    <2> DEFINE held == state.queue \o state.inFlight
    <2>1. /\ held \in Seq(RaRecords)
          /\ Elements(held) = Elements(state.queue) \cup Elements(state.inFlight) /\ Once(held)
      BY <1>1, <1>2, OnceConcat DEF AckHolds
    <2> HIDE DEF held
    <2>2. Elements(held) = Range(held) /\ IsInjective(held)
      BY <2>1, ElementsType
    <2>3. Elements(held) = {r \in RaRecords : state.outcome[r] = "pending"}
      BY <1>1, <2>1 DEF AckHolds, Pending
    <2> QED
      BY <2>2, <2>3 DEF Ack!HeldExactlyOnce, Ack!Range, Range, Ack!IsInjective, IsInjective, held
  <1>5. Ack!NobodyForgotten
    BY DEF Ack!NobodyForgotten, AckGood, AckWaits
  <1>6. Ack!QueuedIsUnderWay
    BY DEF Ack!QueuedIsUnderWay, Ack!UnderWay, Ack!JoinIsCurrent, Ack!IsIdle,
           AckLive, AckMoves, AckArmed, AckExempt, AckCurrent
  <1> QED
    BY <1>3, <1>4, <1>5, <1>6

HIDE AckConstants

(***************************************************************************)
(* Part 6: the legacy Realtime transport                                   *)
(***************************************************************************)

LegacyStates ==
    [queue : Seq(RlRecords),
     outcome : [RlRecords -> {"new", "waiting", "queued", "sent", "dropped"}],
     waits : [Legacy!RlCallers -> RlSockets \cup {0}],
     ready : [RlSockets -> {"unborn", "connecting", "open", "closing", "closed"}],
     settled : [RlSockets -> BOOLEAN], joinSent : [RlSockets -> BOOLEAN],
     acks : SUBSET (RlSockets \cup {0}),
     socket : RlSockets \cup {0}, connectPromise : RlSockets \cup {0},
     joined : BOOLEAN, joinRef : RlSockets \cup {0}, beating : BOOLEAN,
     timer : BOOLEAN, closed : BOOLEAN, reconnect : BOOLEAN, strict : BOOLEAN]

Queued(x) == {r \in RlRecords : x.outcome[r] = "queued"}

(* What is queued is queued once, and no more than fits.                    *)
LegacyQueue(x) ==
    Once(x.queue) /\ Elements(x.queue) = Queued(x) /\ Len(x.queue) <= RlMaxQueue

(* The callers of C are at hand: their promise has settled, or they have    *)
(* just called.  Another writer waits for a connection, one that can still  *)
(* settle unless close() throws.                                            *)
LegacyCallers(x, C) ==
    /\ \A r \in RlRecords \cap C : x.outcome[r] = "waiting"
    /\ \A r \in RlRecords \ C : x.outcome[r] = "waiting" <=> x.waits[r] # 0
    /\ \A c \in Legacy!RlCallers \ C : x.waits[c] # 0 => x.strict \/ ~x.settled[x.waits[c]]

LegacySockets(x) ==
    /\ x.connectPromise # 0 => ~x.settled[x.connectPromise]
    /\ \A s \in RlSockets : x.settled[s] => x.ready[s] # "unborn"

LegacyData(x, C) ==
    /\ x \in LegacyStates /\ LegacyQueue(x) /\ LegacyCallers(x, C) /\ LegacySockets(x)
    /\ x.joined => x.beating

LegacyClosed(x) == \A s \in RlSockets : x.ready[s] = "closed" => x.settled[s]

(* Something is left whose end will look at the queue.                      *)
LegacyBusy(x) ==
    \/ x.connectPromise # 0
    \/ \E s \in RlSockets : x.ready[s] \in {"connecting", "open", "closing"}
LegacyAwaited(x) ==
    x.queue # <<>> /\ ~x.closed /\ x.reconnect => x.timer \/ LegacyBusy(x)

LegacyGood(x) == LegacyData(x, {}) /\ LegacyClosed(x) /\ LegacyAwaited(x)

(* What sending, queueing and continuing leave alone.                       *)
LegacySame(x, y) ==
    /\ y.ready = x.ready /\ y.settled = x.settled /\ y.connectPromise = x.connectPromise
    /\ y.socket = x.socket /\ y.closed = x.closed /\ y.reconnect = x.reconnect
    /\ y.joined = x.joined /\ y.beating = x.beating /\ y.strict = x.strict

-----------------------------------------------------------------------------
(* The queue.                                                               *)
LEMMA LegacyRoom ==
    ASSUME NEW a \in Nat, NEW m \in Nat
    PROVE  LET n == IF a > m THEN a - m ELSE 0 IN n \in 0..a /\ a - n <= m
  OBVIOUS

LEMMA LegacyConstants ==
    /\ RlMaxQueue \in Nat /\ RlMaxFaults \in Nat
    /\ RlSockets \subseteq Nat /\ 0 \notin RlSockets
    /\ RlRecords \subseteq Legacy!RlCallers /\ IsFiniteSet(RlRecords)
    /\ "timer" \in Legacy!RlCallers /\ "flush" \in Legacy!RlCallers
    /\ "timer" \notin RlRecords /\ "flush" \notin RlRecords
  BY LegacyAssumption DEF Legacy!RlCallers

LEMMA LegacyTypes ==
    ASSUME NEW x \in LegacyStates
    PROVE  /\ x.queue \in Seq(RlRecords) /\ Len(x.queue) \in Nat
           /\ Elements(x.queue) \subseteq RlRecords
           /\ Elements(x.queue) = Legacy!Range(x.queue)
           /\ (x.queue = <<>> <=> Elements(x.queue) = {})
           /\ x.outcome \in [RlRecords -> {"new", "waiting", "queued", "sent", "dropped"}]
           /\ x.waits \in [Legacy!RlCallers -> RlSockets \cup {0}]
           /\ x.ready \in [RlSockets -> {"unborn", "connecting", "open", "closing", "closed"}]
           /\ x.settled \in [RlSockets -> BOOLEAN]
           /\ x.connectPromise \in RlSockets \cup {0} /\ x.socket \in RlSockets \cup {0}
  <1>1. /\ x.queue \in Seq(RlRecords)
        /\ x.outcome \in [RlRecords -> {"new", "waiting", "queued", "sent", "dropped"}]
        /\ x.waits \in [Legacy!RlCallers -> RlSockets \cup {0}]
        /\ x.ready \in [RlSockets -> {"unborn", "connecting", "open", "closing", "closed"}]
        /\ x.settled \in [RlSockets -> BOOLEAN]
        /\ x.connectPromise \in RlSockets \cup {0} /\ x.socket \in RlSockets \cup {0}
    BY DEF LegacyStates
  <1> DEFINE q == x.queue
  <1>2. q \in Seq(RlRecords)
    BY <1>1
  <1> HIDE DEF q
  <1>3. /\ Len(q) \in Nat /\ Elements(q) \subseteq RlRecords
        /\ Elements(q) = Legacy!Range(q) /\ (q = <<>> <=> Elements(q) = {})
    BY <1>2, LenProperties, ElementsType DEF Range, Legacy!Range
  <1> QED
    BY <1>1, <1>3 DEF q

LEMMA LegacySeq ==
    ASSUME NEW W \in SUBSET RlRecords
    PROVE  LET s == Legacy!InSomeOrder(W)
           IN  s \in Seq(RlRecords) /\ Once(s) /\ Elements(s) = W
  <1>1. IsFiniteSet(W)
    BY LegacyConstants, FS_Subset
  <1>2. InSomeOrder(W) = Legacy!InSomeOrder(W)
    BY DEF InSomeOrder, Legacy!InSomeOrder, Cardinality, Legacy!Cardinality
  <1> QED
    BY <1>1, <1>2, SeqOfSet

(* A message whose writer has come back takes its place in the queue.       *)
LEMMA LegacyEnqueue ==
    ASSUME NEW x, NEW C, LegacyData(x, C), C \subseteq Legacy!RlCallers,
           \A c \in C : x.waits[c] = 0,
           NEW s \in Seq(RlRecords), Once(s), Elements(s) = C \cap RlRecords
    PROVE  LET y == Legacy!RlEnqueue(x, s)
           IN  LegacyData(y, {}) /\ LegacySame(x, y) /\ y.timer = x.timer
  <1> DEFINE all == x.queue \o s
             over == IF Len(all) > RlMaxQueue THEN Len(all) - RlMaxQueue ELSE 0
             kept == SubSeq(all, over + 1, Len(all))
             outcome == [r \in RlRecords |->
                            IF r \in Legacy!Range(kept) THEN "queued"
                            ELSE IF r \in Legacy!Range(all) THEN "dropped" ELSE x.outcome[r]]
             y == [x EXCEPT !.queue = kept, !.outcome = outcome]
  <1>1. Legacy!RlEnqueue(x, s) = y
    BY DEF Legacy!RlEnqueue
  <1>2. /\ x \in LegacyStates /\ LegacyQueue(x) /\ LegacyCallers(x, C) /\ LegacySockets(x)
        /\ x.joined => x.beating
    BY DEF LegacyData
  <1>3. x.queue \in Seq(RlRecords)
    BY <1>2, LegacyTypes
  <1>4. Elements(x.queue) \cap Elements(s) = {}
    BY <1>2 DEF LegacyQueue, LegacyCallers, Queued
  <1>5. /\ all \in Seq(RlRecords) /\ Once(all)
        /\ Elements(all) = Queued(x) \cup (C \cap RlRecords)
    BY <1>2, <1>3, <1>4, OnceConcat DEF LegacyQueue
  <1> HIDE DEF all
  <1>6. Len(all) \in Nat
    BY <1>5, LenProperties
  <1>7. over \in 0..Len(all) /\ Len(all) - over <= RlMaxQueue
    BY <1>6, LegacyRoom, LegacyConstants
  <1> HIDE DEF over
  <1>8. /\ kept \in Seq(RlRecords) /\ Len(kept) = Len(all) - over /\ Once(kept)
        /\ Elements(kept) \subseteq Elements(all)
    BY <1>5, <1>7, OnceCut
  <1> HIDE DEF kept
  <1>9. /\ Legacy!Range(kept) = Elements(kept) /\ Legacy!Range(all) = Elements(all)
        /\ Elements(kept) \subseteq RlRecords
    BY <1>5, <1>8, ElementsType DEF Range, Legacy!Range
  <1>10. x.outcome \in [RlRecords -> {"new", "waiting", "queued", "sent", "dropped"}]
    BY <1>2, LegacyTypes
  <1>11. /\ outcome \in [RlRecords -> {"new", "waiting", "queued", "sent", "dropped"}]
         /\ \A r \in RlRecords : outcome[r] = "queued" <=> r \in Elements(kept)
         /\ \A r \in RlRecords :
               outcome[r] = "waiting" <=> x.outcome[r] = "waiting" /\ r \notin C
    BY <1>2, <1>5, <1>8, <1>9, <1>10 DEF Queued, LegacyCallers
  <1> HIDE DEF outcome
  <1>12. /\ y \in LegacyStates /\ LegacySame(x, y) /\ y.timer = x.timer
         /\ y.queue = kept /\ y.outcome = outcome /\ y.waits = x.waits
    BY <1>2, <1>8, <1>11 DEF LegacyStates, LegacySame
  <1> HIDE DEF y
  <1>13. LegacyQueue(y)
    BY <1>7, <1>8, <1>9, <1>11, <1>12 DEF LegacyQueue, Queued
  <1>14. LegacyCallers(y, {})
    <2>1. \A r \in RlRecords : y.outcome[r] = "waiting" <=> y.waits[r] # 0
      BY <1>2, <1>11, <1>12 DEF LegacyCallers
    <2>2. \A c \in Legacy!RlCallers : y.waits[c] # 0 =>
                 y.strict \/ ~y.settled[y.waits[c]]
      BY <1>2, <1>12 DEF LegacyCallers, LegacySame
    <2> QED
      BY <2>1, <2>2 DEF LegacyCallers
  <1>15. LegacySockets(y) /\ (y.joined => y.beating)
    BY <1>2, <1>12 DEF LegacySockets, LegacySame
  <1> QED
    BY <1>1, <1>12, <1>13, <1>14, <1>15 DEF LegacyData

LEMMA LegacySchedule ==
    ASSUME NEW x, LegacyData(x, {})
    PROVE  LET y == Legacy!ScheduleReconnect(x)
           IN  LegacyData(y, {}) /\ LegacySame(x, y) /\ y.queue = x.queue /\ LegacyAwaited(y)
  <1> DEFINE y == Legacy!ScheduleReconnect(x)
             z == [x EXCEPT !.timer = TRUE]
  <1>1. y = IF x.closed \/ ~x.reconnect \/ x.queue = <<>> THEN x ELSE z
    BY DEF Legacy!ScheduleReconnect
  <1>2. /\ x \in LegacyStates /\ LegacyQueue(x) /\ LegacyCallers(x, {}) /\ LegacySockets(x)
        /\ x.joined => x.beating
    BY DEF LegacyData
  <1>3. /\ z \in LegacyStates /\ LegacySame(x, z) /\ z.timer
        /\ z.queue = x.queue /\ z.outcome = x.outcome /\ z.waits = x.waits
    BY <1>2 DEF LegacyStates, LegacySame
  <1> HIDE DEF y, z
  <1>4. LegacyData(z, {}) /\ LegacyAwaited(z)
    BY <1>2, <1>3 DEF LegacyData, LegacyQueue, Queued, LegacyCallers, LegacySockets,
                      LegacySame, LegacyAwaited
  <1>5. LegacySame(x, x)
    BY DEF LegacySame
  <1>6. x.closed \/ ~x.reconnect \/ x.queue = <<>> => LegacyAwaited(x)
    BY DEF LegacyAwaited
  <1> QED
    BY <1>1, <1>3, <1>4, <1>5, <1>6 DEF y

(* What is sent leaves the queue, or the hands of the callers of C.         *)
LEMMA LegacyDrain ==
    ASSUME NEW x, NEW C, LegacyData(x, C), C \subseteq Legacy!RlCallers
    PROVE  LET y == Legacy!DrainQueue(x)
           IN  /\ LegacyData(y, C) /\ LegacySame(x, y) /\ y.timer = x.timer
               /\ y.waits = x.waits /\ (y.queue = x.queue \/ y.queue = <<>>)
  <1> DEFINE R == Legacy!Range(x.queue)
             outcome == [r \in RlRecords |-> IF r \in R THEN "sent" ELSE x.outcome[r]]
             acks == IF R = {} THEN x.acks ELSE x.acks \cup {x.socket}
             z == [x EXCEPT !.outcome = outcome, !.acks = acks, !.queue = <<>>]
  <1>1. Legacy!DrainQueue(x) = IF ~Legacy!RlOpen(x) \/ ~x.joined THEN x ELSE z
    BY DEF Legacy!DrainQueue, Legacy!SendRaw
  <1>2. /\ x \in LegacyStates /\ LegacyQueue(x) /\ LegacyCallers(x, C) /\ LegacySockets(x)
        /\ x.joined => x.beating
    BY DEF LegacyData
  <1>3. /\ R = Elements(x.queue) /\ R = Queued(x) /\ x.acks \in SUBSET (RlSockets \cup {0})
        /\ x.outcome \in [RlRecords -> {"new", "waiting", "queued", "sent", "dropped"}]
        /\ x.socket \in RlSockets \cup {0}
    BY <1>2, LegacyTypes DEF LegacyQueue, LegacyStates
  <1> HIDE DEF R
  <1>4. /\ outcome \in [RlRecords -> {"new", "waiting", "queued", "sent", "dropped"}]
        /\ \A r \in RlRecords : outcome[r] # "queued"
        /\ \A r \in RlRecords : outcome[r] = "waiting" <=> x.outcome[r] = "waiting"
        /\ acks \in SUBSET (RlSockets \cup {0}) /\ <<>> \in Seq(RlRecords)
    BY <1>3 DEF Queued
  <1> HIDE DEF outcome, acks
  <1>5. /\ z \in LegacyStates /\ LegacySame(x, z) /\ z.timer = x.timer /\ z.waits = x.waits
        /\ z.queue = <<>> /\ z.outcome = outcome
    BY <1>2, <1>4 DEF LegacyStates, LegacySame
  <1> HIDE DEF z
  <1>6. LegacyQueue(z)
    <2>1. Once(<<>>) /\ Elements(<<>>) = {} /\ Len(<<>>) = 0
      BY OnceEmpty
    <2>2. Queued(z) = {}
      BY <1>4, <1>5 DEF Queued
    <2> QED
      BY <1>5, <2>1, <2>2, LegacyConstants DEF LegacyQueue
  <1>7. LegacyCallers(z, C) /\ LegacySockets(z) /\ (z.joined => z.beating)
    BY <1>2, <1>4, <1>5 DEF LegacyCallers, LegacySockets, LegacySame
  <1>8. LegacyData(z, C)
    BY <1>5, <1>6, <1>7 DEF LegacyData
  <1>9. LegacySame(x, x)
    BY DEF LegacySame
  <1> QED
    BY <1>1, <1>5, <1>8, <1>9

LEMMA LegacySend ==
    ASSUME NEW x, NEW C, LegacyData(x, C), C \subseteq Legacy!RlCallers,
           \A c \in C : x.waits[c] = 0
    PROVE  LET y == Legacy!SendRaw(x, C \cap RlRecords)
           IN  /\ LegacyData(y, {}) /\ LegacySame(x, y) /\ y.timer = x.timer
               /\ y.queue = x.queue
  <1> DEFINE R == C \cap RlRecords
             outcome == [r \in RlRecords |-> IF r \in R THEN "sent" ELSE x.outcome[r]]
             acks == IF R = {} THEN x.acks ELSE x.acks \cup {x.socket}
             y == [x EXCEPT !.outcome = outcome, !.acks = acks]
  <1>1. Legacy!SendRaw(x, R) = y
    BY DEF Legacy!SendRaw
  <1>2. /\ x \in LegacyStates /\ LegacyQueue(x) /\ LegacyCallers(x, C) /\ LegacySockets(x)
        /\ x.joined => x.beating
    BY DEF LegacyData
  <1>3. /\ x.acks \in SUBSET (RlSockets \cup {0})
        /\ x.outcome \in [RlRecords -> {"new", "waiting", "queued", "sent", "dropped"}]
        /\ x.socket \in RlSockets \cup {0}
        /\ \A r \in R : x.outcome[r] = "waiting"
    BY <1>2, LegacyTypes DEF LegacyStates, LegacyCallers
  <1>4. /\ outcome \in [RlRecords -> {"new", "waiting", "queued", "sent", "dropped"}]
        /\ \A r \in RlRecords : outcome[r] = "queued" <=> x.outcome[r] = "queued"
        /\ \A r \in RlRecords :
               outcome[r] = "waiting" <=> x.outcome[r] = "waiting" /\ r \notin C
        /\ acks \in SUBSET (RlSockets \cup {0})
    BY <1>3
  <1> HIDE DEF outcome, acks
  <1>5. /\ y \in LegacyStates /\ LegacySame(x, y) /\ y.timer = x.timer /\ y.waits = x.waits
        /\ y.queue = x.queue /\ y.outcome = outcome
    BY <1>2, <1>4 DEF LegacyStates, LegacySame
  <1> HIDE DEF y
  <1>6. LegacyQueue(y) /\ LegacySockets(y) /\ (y.joined => y.beating)
    BY <1>2, <1>4, <1>5 DEF LegacyQueue, Queued, LegacySockets, LegacySame
  <1>7. LegacyCallers(y, {})
    <2>1. \A r \in RlRecords : y.outcome[r] = "waiting" <=> y.waits[r] # 0
      BY <1>2, <1>4, <1>5 DEF LegacyCallers
    <2>2. \A c \in Legacy!RlCallers : y.waits[c] # 0 =>
                 y.strict \/ ~y.settled[y.waits[c]]
      BY <1>2, <1>5 DEF LegacyCallers, LegacySame
    <2> QED
      BY <2>1, <2>2 DEF LegacyCallers
  <1> QED
    BY <1>1, <1>5, <1>6, <1>7 DEF LegacyData

-----------------------------------------------------------------------------
(* Those who await a connection go on.                                      *)
LEMMA LegacyContinue ==
    ASSUME NEW x, NEW C, LegacyData(x, C), C \subseteq Legacy!RlCallers
    PROVE  LET y == Legacy!Continue(x, C)
           IN  /\ LegacyData(y, C) /\ LegacySame(x, y) /\ y.timer = x.timer
               /\ y.queue = x.queue /\ \A c \in C : y.waits[c] = 0
               /\ C \cap RlRecords = {} => LegacyData(y, {})
  <1> DEFINE waits == [c \in Legacy!RlCallers |-> IF c \in C THEN 0 ELSE x.waits[c]]
             y == [x EXCEPT !.waits = waits]
  <1>1. Legacy!Continue(x, C) = y
    BY DEF Legacy!Continue
  <1>2. /\ x \in LegacyStates /\ LegacyQueue(x) /\ LegacyCallers(x, C) /\ LegacySockets(x)
        /\ x.joined => x.beating
    BY DEF LegacyData
  <1>3. x.waits \in [Legacy!RlCallers -> RlSockets \cup {0}]
    BY <1>2, LegacyTypes
  <1>4. /\ waits \in [Legacy!RlCallers -> RlSockets \cup {0}]
        /\ \A c \in C : waits[c] = 0
        /\ \A c \in Legacy!RlCallers \ C : waits[c] = x.waits[c]
    BY <1>3
  <1> HIDE DEF waits
  <1>5. /\ y \in LegacyStates /\ LegacySame(x, y) /\ y.timer = x.timer /\ y.waits = waits
        /\ y.queue = x.queue /\ y.outcome = x.outcome
    BY <1>2, <1>4 DEF LegacyStates, LegacySame
  <1> HIDE DEF y
  <1>6. LegacyQueue(y) /\ LegacySockets(y) /\ (y.joined => y.beating)
    BY <1>2, <1>5 DEF LegacyQueue, Queued, LegacySockets, LegacySame
  <1>7. LegacyCallers(y, C)
    BY <1>2, <1>4, <1>5, LegacyConstants DEF LegacyCallers, LegacySame
  <1>8. C \cap RlRecords = {} => LegacyCallers(y, {})
    BY <1>4, <1>5, <1>7, LegacyConstants DEF LegacyCallers
  <1> QED
    BY <1>1, <1>4, <1>5, <1>6, <1>7, <1>8 DEF LegacyData

LEMMA LegacySameAwaited ==
    ASSUME NEW x, NEW y, LegacySame(x, y), y.timer = x.timer, LegacyAwaited(x),
           y.queue = x.queue \/ y.queue = <<>>
    PROVE  LegacyAwaited(y)
  BY DEF LegacySame, LegacyAwaited, LegacyBusy

LEMMA LegacyQueueAndSchedule ==
    ASSUME NEW x, NEW C, LegacyData(x, C), C \subseteq Legacy!RlCallers,
           \A c \in C : x.waits[c] = 0
    PROVE  LET y == Legacy!ScheduleReconnect(
                        Legacy!RlEnqueue(x, Legacy!InSomeOrder(Legacy!Writers(C))))
           IN  LegacyData(y, {}) /\ LegacySame(x, y) /\ LegacyAwaited(y)
  <1> DEFINE s == Legacy!InSomeOrder(Legacy!Writers(C))
             z == Legacy!RlEnqueue(x, s)
             y == Legacy!ScheduleReconnect(z)
  <1>1. Legacy!Writers(C) = C \cap RlRecords /\ C \cap RlRecords \in SUBSET RlRecords
    BY DEF Legacy!Writers
  <1>2. s \in Seq(RlRecords) /\ Once(s) /\ Elements(s) = C \cap RlRecords
    BY <1>1, LegacySeq
  <1> HIDE DEF s
  <1>3. LegacyData(z, {}) /\ LegacySame(x, z)
    BY <1>2, LegacyEnqueue
  <1> HIDE DEF z
  <1>4. LegacyData(y, {}) /\ LegacySame(z, y) /\ LegacyAwaited(y)
    BY <1>3, LegacySchedule
  <1> HIDE DEF y
  <1>5. LegacySame(x, y)
    BY <1>3, <1>4 DEF LegacySame
  <1> QED
    BY <1>4, <1>5 DEF y, z, s

LEMMA LegacyRejects ==
    ASSUME NEW x, NEW C, LegacyData(x, C), C \subseteq Legacy!RlCallers
    PROVE  LET y == Legacy!ConnectRejects(x, C)
           IN  /\ LegacyData(y, {}) /\ LegacySame(x, y)
               /\ LegacyAwaited(x) \/ "timer" \in C => LegacyAwaited(y)
  <1> DEFINE u == Legacy!Continue(x, C)
             y == Legacy!ScheduleReconnect(
                      Legacy!RlEnqueue(u, Legacy!InSomeOrder(Legacy!Writers(C))))
  <1>1. Legacy!ConnectRejects(x, C) = IF C \subseteq {"flush"} THEN u ELSE y
    BY DEF Legacy!ConnectRejects
  <1>2. /\ LegacyData(u, C) /\ LegacySame(x, u) /\ u.timer = x.timer
        /\ u.queue = x.queue /\ \A c \in C : u.waits[c] = 0
        /\ C \cap RlRecords = {} => LegacyData(u, {})
    BY LegacyContinue
  <1> HIDE DEF u
  <1>3. CASE C \subseteq {"flush"}
    <2>1. C \cap RlRecords = {} /\ "timer" \notin C
      BY <1>3, LegacyConstants
    <2>2. LegacyAwaited(x) => LegacyAwaited(u)
      BY <1>2, LegacySameAwaited
    <2> QED
      BY <1>1, <1>2, <1>3, <2>1, <2>2
  <1>4. CASE ~(C \subseteq {"flush"})
    <2>1. LegacyData(y, {}) /\ LegacySame(u, y) /\ LegacyAwaited(y)
      BY <1>2, LegacyQueueAndSchedule
    <2> HIDE DEF y
    <2>2. LegacySame(x, y)
      BY <1>2, <2>1 DEF LegacySame
    <2> QED
      BY <1>1, <1>4, <2>1, <2>2
  <1> QED
    BY <1>3, <1>4

LEMMA LegacyResolves ==
    ASSUME NEW x, NEW C, LegacyData(x, C), C \subseteq Legacy!RlCallers, LegacyAwaited(x)
    PROVE  LET y == Legacy!ConnectResolves(x, C)
           IN  LegacyData(y, {}) /\ LegacySame(x, y) /\ LegacyAwaited(y)
  <1> DEFINE u == Legacy!Continue(x, C)
             z == IF "flush" \in C THEN Legacy!DrainQueue(u) ELSE u
             sent == Legacy!SendRaw(z, Legacy!Writers(C))
             back == Legacy!ScheduleReconnect(
                         Legacy!RlEnqueue(z, Legacy!InSomeOrder(Legacy!Writers(C))))
  <1>1. Legacy!ConnectResolves(x, C) = IF Legacy!RlOpen(u) /\ u.joined THEN sent
                                       ELSE IF Legacy!Writers(C) = {} THEN z ELSE back
    BY DEF Legacy!ConnectResolves
  <1>2. /\ LegacyData(u, C) /\ LegacySame(x, u) /\ u.timer = x.timer
        /\ u.queue = x.queue /\ \A c \in C : u.waits[c] = 0
    BY LegacyContinue
  <1>3. LegacyAwaited(u)
    BY <1>2, LegacySameAwaited
  <1> HIDE DEF u
  <1>4. /\ LegacyData(z, C) /\ LegacySame(u, z) /\ z.timer = u.timer
        /\ z.waits = u.waits /\ (z.queue = u.queue \/ z.queue = <<>>)
    <2>1. CASE "flush" \in C
      BY <1>2, <2>1, LegacyDrain
    <2>2. CASE "flush" \notin C
      <3>1. z = u
        BY <2>2
      <3>2. LegacySame(u, u)
        BY DEF LegacySame
      <3> QED
        BY <1>2, <3>1, <3>2
    <2> QED
      BY <2>1, <2>2
  <1> HIDE DEF z
  <1>5. LegacyAwaited(z) /\ LegacySame(x, z)
    <2>1. LegacyAwaited(z)
      BY <1>3, <1>4, LegacySameAwaited
    <2>2. LegacySame(x, z)
      BY <1>2, <1>4 DEF LegacySame
    <2> QED
      BY <2>1, <2>2
  <1>6. \A c \in C : z.waits[c] = 0
    BY <1>2, <1>4
  <1>7. LegacyData(sent, {}) /\ LegacySame(x, sent) /\ LegacyAwaited(sent)
    <2>1. LegacyData(sent, {}) /\ LegacySame(z, sent) /\ sent.timer = z.timer
          /\ sent.queue = z.queue
      BY <1>4, <1>6, LegacySend DEF Legacy!Writers
    <2> HIDE DEF sent
    <2>2. LegacyAwaited(sent)
      BY <1>5, <2>1, LegacySameAwaited
    <2>3. LegacySame(x, sent)
      BY <1>5, <2>1 DEF LegacySame
    <2> QED
      BY <2>1, <2>2, <2>3
  <1>8. LegacyData(back, {}) /\ LegacySame(x, back) /\ LegacyAwaited(back)
    <2>1. LegacyData(back, {}) /\ LegacySame(z, back) /\ LegacyAwaited(back)
      BY <1>4, <1>6, LegacyQueueAndSchedule
    <2> HIDE DEF back
    <2>2. LegacySame(x, back)
      BY <1>5, <2>1 DEF LegacySame
    <2> QED
      BY <2>1, <2>2
  <1>9. Legacy!Writers(C) = {} => LegacyData(z, {})
    <2>1. SUFFICES ASSUME C \cap RlRecords = {} PROVE LegacyData(z, {})
      BY DEF Legacy!Writers
    <2>2. LegacyCallers(z, {})
      BY <1>4, <1>6, <2>1, LegacyConstants DEF LegacyData, LegacyCallers
    <2> QED
      BY <1>4, <2>2 DEF LegacyData
  <1> HIDE DEF sent, back
  <1> QED
    BY <1>1, <1>5, <1>7, <1>8, <1>9

(* finish() of the connection s settles it; its socket is as it was or      *)
(* closing.  A closed socket may not have settled yet: its onclose settles  *)
(* it, and then looks at the queue itself.                                  *)
LEMMA LegacySettles ==
    ASSUME NEW x, LegacyData(x, {}), NEW s \in RlSockets, x.ready[s] # "unborn",
           ~x.settled[s], NEW to \in {x.ready[s], "closing"},
           x.ready[s] = "closed" => to = "closed",
           \A t \in RlSockets : x.ready[t] = "closed" => x.settled[t] \/ t = s
    PROVE  LET u == [x EXCEPT !.settled[s] = TRUE, !.connectPromise = 0, !.ready[s] = to]
               awaiting == {c \in Legacy!RlCallers : x.waits[c] = s}
           IN  /\ LegacyData(u, awaiting) /\ LegacyClosed(u)
               /\ x.strict => LegacyData(u, {})
               /\ x.ready[s] # "closed" => LegacyAwaited(u)
  <1> DEFINE u == [x EXCEPT !.settled[s] = TRUE, !.connectPromise = 0, !.ready[s] = to]
             awaiting == {c \in Legacy!RlCallers : x.waits[c] = s}
  <1>1. /\ x \in LegacyStates /\ LegacyQueue(x) /\ LegacyCallers(x, {}) /\ LegacySockets(x)
        /\ x.joined => x.beating
    BY DEF LegacyData
  <1>2. /\ x.ready \in [RlSockets -> {"unborn", "connecting", "open", "closing", "closed"}]
        /\ x.settled \in [RlSockets -> BOOLEAN] /\ 0 \in RlSockets \cup {0}
        /\ x.waits \in [Legacy!RlCallers -> RlSockets \cup {0}]
    BY <1>1, LegacyTypes
  <1>3. /\ to \in {"connecting", "open", "closing", "closed"}
        /\ x.ready[s] # "closed" => to \in {"connecting", "open", "closing"}
    BY <1>2
  <1>4. /\ u \in LegacyStates /\ u.connectPromise = 0 /\ u.strict = x.strict
        /\ u.settled = [x.settled EXCEPT ![s] = TRUE]
        /\ u.ready = [x.ready EXCEPT ![s] = to]
        /\ u.queue = x.queue /\ u.outcome = x.outcome /\ u.waits = x.waits
        /\ u.joined = x.joined /\ u.beating = x.beating /\ u.timer = x.timer
    BY <1>1, <1>2, <1>3 DEF LegacyStates
  <1> HIDE DEF u
  <1>5. \A t \in RlSockets :
           /\ u.settled[t] = (t = s \/ x.settled[t])
           /\ u.ready[t] = IF t = s THEN to ELSE x.ready[t]
    BY <1>2, <1>4
  <1>6. LegacyCallers(u, awaiting)
    <2>1. \A r \in RlRecords \cap awaiting : u.outcome[r] = "waiting"
      BY <1>1, <1>4, LegacyConstants DEF LegacyCallers
    <2>2. \A r \in RlRecords \ awaiting : u.outcome[r] = "waiting" <=> u.waits[r] # 0
      BY <1>1, <1>4 DEF LegacyCallers
    <2>3. \A c \in Legacy!RlCallers \ awaiting :
             u.waits[c] # 0 => u.strict \/ ~u.settled[u.waits[c]]
      <3>1. SUFFICES ASSUME NEW c \in Legacy!RlCallers, x.waits[c] # s, x.waits[c] # 0,
                            ~x.strict
                     PROVE  ~u.settled[x.waits[c]]
        BY <1>4
      <3>2. x.waits[c] \in RlSockets /\ ~x.settled[x.waits[c]]
        BY <1>1, <1>2, <3>1 DEF LegacyCallers
      <3> QED
        BY <1>5, <3>1, <3>2
    <2> HIDE DEF awaiting
    <2> QED
      BY <2>1, <2>2, <2>3 DEF LegacyCallers
  <1>7. x.strict => LegacyCallers(u, {})
    BY <1>1, <1>4 DEF LegacyCallers
  <1>8. LegacyQueue(u) /\ LegacySockets(u) /\ (u.joined => u.beating)
    <2>1. LegacyQueue(u) /\ (u.joined => u.beating)
      BY <1>1, <1>4 DEF LegacyQueue, Queued
    <2>2. LegacySockets(u)
      BY <1>1, <1>3, <1>4, <1>5 DEF LegacySockets
    <2> QED
      BY <2>1, <2>2
  <1>9. LegacyData(u, awaiting) /\ (x.strict => LegacyData(u, {}))
    BY <1>4, <1>6, <1>7, <1>8 DEF LegacyData
  <1>10. LegacyClosed(u)
    BY <1>5 DEF LegacyClosed
  <1>11. x.ready[s] # "closed" => LegacyAwaited(u)
    BY <1>3, <1>5 DEF LegacyAwaited, LegacyBusy
  <1> QED
    BY <1>9, <1>10, <1>11 DEF u

(* Whoever awaits it goes on, unless close() throws.                        *)
LEMMA LegacyFinish ==
    ASSUME NEW x, LegacyData(x, {}), NEW s \in RlSockets, x.ready[s] # "unborn",
           NEW ok \in BOOLEAN,
           \A t \in RlSockets : x.ready[t] = "closed" => x.settled[t] \/ t = s,
           ok => x.ready[s] \in {"open", "closing"}
    PROVE  LET y == Legacy!FinishRl(x, s, ok)
           IN  /\ LegacyData(y, {}) /\ LegacyClosed(y)
               /\ LegacyAwaited(x) /\ x.ready[s] # "closed" => LegacyAwaited(y)
  <1> DEFINE u(to) == [x EXCEPT !.settled[s] = TRUE, !.connectPromise = 0, !.ready[s] = to]
             as == u(x.ready[s])
             shut == u("closing")
             awaiting == {c \in Legacy!RlCallers : x.waits[c] = s}
             alive == x.ready[s] \in {"connecting", "open"}
             throws == ~Legacy!MayClose(x.strict, 1011)
             resolved == Legacy!ConnectResolves(as, awaiting)
             rejected == Legacy!ConnectRejects(as, awaiting)
             failed == Legacy!ConnectRejects(shut, awaiting)
  <1>1. Legacy!FinishRl(x, s, ok) =
           IF x.settled[s] THEN x
           ELSE IF ok THEN resolved
           ELSE IF ~alive THEN rejected
           ELSE IF throws THEN as
           ELSE failed
    <2> DEFINE v == [x EXCEPT !.settled[s] = TRUE, !.connectPromise = 0]
    <2>1. x \in LegacyStates
      BY DEF LegacyData
    <2>2. x.ready \in [RlSockets -> {"unborn", "connecting", "open", "closing", "closed"}]
      BY <2>1, LegacyTypes
    <2>3. as = v
      BY <2>1, <2>2 DEF LegacyStates
    <2>4. shut = [v EXCEPT !.ready[s] = "closing"]
      OBVIOUS
    <2> HIDE DEF u
    <2> QED
      BY <2>3, <2>4 DEF Legacy!FinishRl
  <1>2. CASE x.settled[s]
    BY <1>1, <1>2 DEF LegacyClosed
  <1>3. CASE ~x.settled[s]
    <2>1. awaiting \subseteq Legacy!RlCallers
      OBVIOUS
    <2>2. /\ LegacyData(as, awaiting) /\ LegacyClosed(as)
          /\ x.strict => LegacyData(as, {})
          /\ x.ready[s] # "closed" => LegacyAwaited(as)
      BY <1>3, LegacySettles
    <2>3. alive => /\ LegacyData(shut, awaiting) /\ LegacyClosed(shut)
                   /\ LegacyAwaited(shut)
      BY <1>3, LegacySettles
    <2>4. throws => x.strict
      BY DEF Legacy!MayClose
    <2> HIDE DEF u, awaiting
    <2>5. ok => LegacyData(resolved, {}) /\ LegacyClosed(resolved) /\ LegacyAwaited(resolved)
      <3>1. SUFFICES ASSUME ok
                     PROVE  /\ LegacyData(resolved, {}) /\ LegacyClosed(resolved)
                            /\ LegacyAwaited(resolved)
        OBVIOUS
      <3>2. LegacyAwaited(as)
        BY <2>2, <3>1
      <3>3. LegacyData(resolved, {}) /\ LegacySame(as, resolved) /\ LegacyAwaited(resolved)
        BY <2>1, <2>2, <3>2, LegacyResolves
      <3> HIDE DEF resolved, as
      <3> QED
        BY <2>2, <3>3 DEF LegacyClosed, LegacySame
    <2>6. /\ LegacyData(rejected, {}) /\ LegacyClosed(rejected)
          /\ x.ready[s] # "closed" => LegacyAwaited(rejected)
      <3>1. LegacyData(rejected, {}) /\ LegacySame(as, rejected)
            /\ (LegacyAwaited(as) => LegacyAwaited(rejected))
        BY <2>1, <2>2, LegacyRejects
      <3> HIDE DEF rejected, as
      <3> QED
        BY <2>2, <3>1 DEF LegacyClosed, LegacySame
    <2>7. alive => LegacyData(failed, {}) /\ LegacyClosed(failed) /\ LegacyAwaited(failed)
      <3>1. SUFFICES ASSUME alive
                     PROVE  LegacyData(failed, {}) /\ LegacyClosed(failed) /\ LegacyAwaited(failed)
        OBVIOUS
      <3>2. LegacyData(failed, {}) /\ LegacySame(shut, failed) /\ LegacyAwaited(failed)
        BY <2>1, <2>3, <3>1, LegacyRejects
      <3> HIDE DEF failed, shut
      <3> QED
        BY <2>3, <3>1, <3>2 DEF LegacyClosed, LegacySame
    <2> DEFINE y == Legacy!FinishRl(x, s, ok)
    <2> HIDE DEF as, resolved, rejected, failed, throws, y
    <2>8. \/ ok /\ y = resolved
          \/ ~alive /\ y = rejected
          \/ alive /\ throws /\ y = as
          \/ alive /\ y = failed
      BY <1>1, <1>3 DEF y
    <2>9. /\ LegacyData(y, {}) /\ LegacyClosed(y)
          /\ LegacyAwaited(x) /\ x.ready[s] # "closed" => LegacyAwaited(y)
      <3> HIDE DEF alive
      <3> QED
        BY <2>2, <2>4, <2>5, <2>6, <2>7, <2>8
    <2> QED
      BY <2>9 DEF y
  <1> QED
    BY <1>2, <1>3

(* connect(), called by c.                                                  *)
LEMMA LegacyConnect ==
    ASSUME NEW x, NEW c \in Legacy!RlCallers, LegacyData(x, {c}), LegacyClosed(x),
           NEW born \in BOOLEAN, born => Legacy!Unborn(x) # {},
           LegacyAwaited(x) \/ c = "timer"
    PROVE  LegacyGood(Legacy!ConnectRl(x, c, born))
  <1> DEFINE s == Legacy!Min(Legacy!Unborn(x))
             rejects == Legacy!ConnectRejects(x, {c})
             resolves == Legacy!ConnectResolves(x, {c})
             joins == [x EXCEPT !.waits[c] = x.connectPromise]
             makes == [x EXCEPT !.waits[c] = s, !.connectPromise = s, !.socket = s,
                                !.joined = FALSE, !.joinRef = 0, !.ready[s] = "connecting"]
  <1>1. Legacy!ConnectRl(x, c, born) =
           IF x.closed THEN rejects
           ELSE IF Legacy!RlOpen(x) /\ x.joined THEN resolves
           ELSE IF x.connectPromise # 0 THEN joins
           ELSE IF ~born THEN rejects ELSE makes
    BY DEF Legacy!ConnectRl
  <1>2. /\ x \in LegacyStates /\ LegacyQueue(x) /\ LegacyCallers(x, {c}) /\ LegacySockets(x)
        /\ x.joined => x.beating
    BY DEF LegacyData
  <1>3. /\ x.ready \in [RlSockets -> {"unborn", "connecting", "open", "closing", "closed"}]
        /\ x.settled \in [RlSockets -> BOOLEAN] /\ 0 \in RlSockets \cup {0}
        /\ x.waits \in [Legacy!RlCallers -> RlSockets \cup {0}]
        /\ x.connectPromise \in RlSockets \cup {0} /\ x.socket \in RlSockets \cup {0}
    BY <1>2, LegacyTypes
  <1>4. {c} \subseteq Legacy!RlCallers
    OBVIOUS
  <1>5. LegacyGood(rejects)
    <2>1. LegacyData(rejects, {}) /\ LegacySame(x, rejects) /\ LegacyAwaited(rejects)
      BY <1>4, LegacyRejects
    <2> HIDE DEF rejects
    <2> QED
      BY <2>1 DEF LegacyGood, LegacyClosed, LegacySame
  <1>6. Legacy!RlOpen(x) => LegacyGood(resolves)
    <2>1. SUFFICES ASSUME Legacy!RlOpen(x) PROVE LegacyGood(resolves)
      OBVIOUS
    <2>2. LegacyAwaited(x)
      BY <1>3, <2>1 DEF LegacyAwaited, LegacyBusy, Legacy!RlOpen
    <2>3. LegacyData(resolves, {}) /\ LegacySame(x, resolves) /\ LegacyAwaited(resolves)
      BY <1>4, <2>2, LegacyResolves
    <2> HIDE DEF resolves
    <2> QED
      BY <2>3 DEF LegacyGood, LegacyClosed, LegacySame
  <1>7. x.connectPromise # 0 => LegacyGood(joins)
    <2>1. SUFFICES ASSUME x.connectPromise # 0 PROVE LegacyGood(joins)
      OBVIOUS
    <2>2. /\ joins \in LegacyStates /\ LegacySame(x, joins) /\ joins.queue = x.queue
          /\ joins.outcome = x.outcome
          /\ joins.waits = [x.waits EXCEPT ![c] = x.connectPromise]
      BY <1>2, <1>3 DEF LegacyStates, LegacySame
    <2> HIDE DEF joins
    <2>3. \A d \in Legacy!RlCallers :
             joins.waits[d] = IF d = c THEN x.connectPromise ELSE x.waits[d]
      BY <1>3, <2>2
    <2>4. LegacyQueue(joins) /\ LegacySockets(joins) /\ (joins.joined => joins.beating)
      BY <1>2, <2>2 DEF LegacyQueue, Queued, LegacySockets, LegacySame
    <2>5. LegacyCallers(joins, {})
      <3>1. \A r \in RlRecords : joins.outcome[r] = "waiting" <=> joins.waits[r] # 0
        BY <1>2, <2>1, <2>2, <2>3, LegacyConstants DEF LegacyCallers
      <3>2. \A d \in Legacy!RlCallers : joins.waits[d] # 0 =>
                 joins.strict \/ ~joins.settled[joins.waits[d]]
        BY <1>2, <2>1, <2>2, <2>3 DEF LegacyCallers, LegacySockets, LegacySame
      <3> QED
        BY <3>1, <3>2 DEF LegacyCallers
    <2>6. LegacyClosed(joins) /\ LegacyAwaited(joins)
      BY <2>1, <2>2 DEF LegacyClosed, LegacyAwaited, LegacyBusy, LegacySame
    <2> QED
      BY <2>2, <2>4, <2>5, <2>6 DEF LegacyGood, LegacyData
  <1>8. born => LegacyGood(makes)
    <2>1. SUFFICES ASSUME born PROVE LegacyGood(makes)
      OBVIOUS
    <2>2. s \in RlSockets /\ x.ready[s] = "unborn" /\ s # 0
      <3> DEFINE S == Legacy!Unborn(x)
      <3>1. S # {} /\ S \in SUBSET Nat /\ S \subseteq RlSockets
        BY <2>1, LegacyConstants DEF Legacy!Unborn
      <3> HIDE DEF S
      <3>2. \E m \in S : \A n \in S : m <= n
        BY <3>1, Least
      <3>3. Legacy!Min(S) \in S
        BY <3>2 DEF Legacy!Min
      <3> QED
        BY <3>1, <3>3, LegacyConstants DEF S, Legacy!Unborn
    <2> HIDE DEF s
    <2>3. ~x.settled[s]
      BY <1>2, <2>2 DEF LegacySockets
    <2>4. /\ makes \in LegacyStates /\ makes.queue = x.queue /\ makes.outcome = x.outcome
          /\ makes.waits = [x.waits EXCEPT ![c] = s] /\ makes.connectPromise = s
          /\ makes.ready = [x.ready EXCEPT ![s] = "connecting"]
          /\ makes.settled = x.settled /\ ~makes.joined /\ makes.strict = x.strict
      BY <1>2, <1>3, <2>2 DEF LegacyStates
    <2> HIDE DEF makes
    <2>5. /\ \A d \in Legacy!RlCallers :
                 makes.waits[d] = IF d = c THEN s ELSE x.waits[d]
          /\ \A t \in RlSockets :
                 makes.ready[t] = IF t = s THEN "connecting" ELSE x.ready[t]
      BY <1>3, <2>2, <2>4
    <2>6. LegacyQueue(makes)
      BY <1>2, <2>4 DEF LegacyQueue, Queued
    <2>7. LegacySockets(makes) /\ LegacyClosed(makes)
      BY <1>2, <2>3, <2>4, <2>5 DEF LegacySockets, LegacyClosed
    <2>8. LegacyCallers(makes, {})
      <3>1. \A r \in RlRecords : makes.outcome[r] = "waiting" <=> makes.waits[r] # 0
        BY <1>2, <2>2, <2>4, <2>5, LegacyConstants DEF LegacyCallers
      <3>2. \A d \in Legacy!RlCallers : makes.waits[d] # 0 =>
                 makes.strict \/ ~makes.settled[makes.waits[d]]
        BY <1>2, <2>3, <2>4, <2>5 DEF LegacyCallers
      <3> QED
        BY <3>1, <3>2 DEF LegacyCallers
    <2>9. LegacyAwaited(makes)
      BY <2>2, <2>4 DEF LegacyAwaited, LegacyBusy
    <2> QED
      BY <2>4, <2>6, <2>7, <2>8, <2>9 DEF LegacyGood, LegacyData
  <1> HIDE DEF s, rejects, resolves, joins, makes
  <1> QED
    BY <1>1, <1>5, <1>6, <1>7, <1>8

-----------------------------------------------------------------------------
(* Steps beside the queue and the callers.                                  *)
LegacyAside(x, y) ==
    /\ y.queue = x.queue /\ y.outcome = x.outcome /\ y.waits = x.waits
    /\ y.settled = x.settled /\ y.connectPromise = x.connectPromise
    /\ y.strict = x.strict /\ (y.joined => y.beating)
    /\ \A s \in RlSockets : x.ready[s] # "unborn" => y.ready[s] # "unborn"

LEMMA LegacyAsideKeeps ==
    ASSUME NEW x, LegacyData(x, {}), NEW y \in LegacyStates, LegacyAside(x, y)
    PROVE  LegacyData(y, {})
  BY DEF LegacyAside, LegacyData, LegacyQueue, Queued, LegacyCallers, LegacySockets

LEMMA LegacyTakesOk ==
    ASSUME NEW x, LegacyData(x, {}), LegacyClosed(x), NEW s \in RlSockets, x.ready[s] = "open"
    PROVE  LegacyGood(Legacy!TakesOk(x, s))
  <1> DEFINE u == [x EXCEPT !.joined = TRUE, !.timer = FALSE, !.beating = TRUE]
             z == Legacy!DrainQueue(u)
             y == Legacy!FinishRl(z, s, TRUE)
  <1>1. Legacy!TakesOk(x, s) = y
    BY DEF Legacy!TakesOk
  <1>2. x \in LegacyStates
    BY DEF LegacyData
  <1>3. /\ u \in LegacyStates /\ LegacyAside(x, u) /\ u.ready = x.ready /\ u.settled = x.settled
    BY <1>2 DEF LegacyStates, LegacyAside
  <1> HIDE DEF u
  <1>4. LegacyData(u, {}) /\ LegacyClosed(u)
    BY <1>3, LegacyAsideKeeps DEF LegacyClosed
  <1>5. LegacyData(z, {}) /\ LegacySame(u, z)
    BY <1>4, LegacyDrain
  <1> HIDE DEF z
  <1>6. /\ LegacyClosed(z) /\ z.ready[s] = "open" /\ LegacyAwaited(z)
    BY <1>3, <1>4, <1>5 DEF LegacySame, LegacyClosed, LegacyAwaited, LegacyBusy
  <1>7. /\ z.ready[s] # "unborn" /\ TRUE \in BOOLEAN
        /\ \A t \in RlSockets : z.ready[t] = "closed" => z.settled[t] \/ t = s
        /\ z.ready[s] \in {"open", "closing"}
    BY <1>6 DEF LegacyClosed
  <1>8. /\ LegacyData(y, {}) /\ LegacyClosed(y)
        /\ LegacyAwaited(z) /\ z.ready[s] # "closed" => LegacyAwaited(y)
    BY <1>5, <1>7, LegacyFinish
  <1> HIDE DEF y
  <1> QED
    BY <1>1, <1>6, <1>8 DEF LegacyGood

LEMMA LegacyCalls ==
    ASSUME NEW x, NEW c \in Legacy!RlCallers, LegacyData(x, {c}), LegacyClosed(x),
           LegacyAwaited(x) \/ c = "timer", Legacy!Calls(x, c)
    PROVE  LegacyGood(state')
  <1>1. PICK born \in BOOLEAN :
           /\ born => Legacy!Unborn(x) # {}
           /\ state' = Legacy!ConnectRl(x, c, born)
    BY DEF Legacy!Calls
  <1> QED
    BY <1>1, LegacyConnect

LEMMA LegacyInit ==
    ASSUME Legacy!RlInit
    PROVE  LegacyGood(state) /\ faults \in 0..RlMaxFaults
  <1> DEFINE outcome == [r \in RlRecords |-> "new"]
             waits == [c \in Legacy!RlCallers |-> 0]
             ready == [s \in RlSockets |-> "unborn"]
             no == [s \in RlSockets |-> FALSE]
  <1>1. /\ outcome \in [RlRecords -> {"new", "waiting", "queued", "sent", "dropped"}]
        /\ \A r \in RlRecords : outcome[r] = "new"
        /\ waits \in [Legacy!RlCallers -> RlSockets \cup {0}]
        /\ \A c \in Legacy!RlCallers : waits[c] = 0
        /\ ready \in [RlSockets -> {"unborn", "connecting", "open", "closing", "closed"}]
        /\ \A s \in RlSockets : ready[s] = "unborn"
        /\ no \in [RlSockets -> BOOLEAN] /\ \A s \in RlSockets : ~no[s]
        /\ <<>> \in Seq(RlRecords)
    OBVIOUS
  <1>2. /\ state \in [queue : {<<>>}, outcome : {outcome}, waits : {waits}, ready : {ready},
                      settled : {no}, joinSent : {no}, acks : {{}}, socket : {0},
                      connectPromise : {0}, joined : {FALSE}, joinRef : {0},
                      beating : {FALSE}, timer : {FALSE}, closed : {FALSE},
                      reconnect : BOOLEAN, strict : BOOLEAN]
        /\ faults = 0
    BY DEF Legacy!RlInit
  <1> HIDE DEF outcome, waits, ready, no
  <1>3. state \in LegacyStates
    BY <1>1, <1>2 DEF LegacyStates
  <1>4. /\ state.queue = <<>> /\ state.outcome = outcome /\ state.waits = waits
        /\ state.ready = ready /\ state.settled = no /\ state.connectPromise = 0
        /\ ~state.joined
    BY <1>2
  <1>5. LegacyQueue(state)
    <2>1. Once(<<>>) /\ Elements(<<>>) = {} /\ Len(<<>>) = 0
      BY OnceEmpty
    <2>2. Queued(state) = {}
      BY <1>1, <1>4 DEF Queued
    <2> QED
      BY <1>4, <2>1, <2>2, LegacyConstants DEF LegacyQueue
  <1>6. LegacyCallers(state, {}) /\ LegacySockets(state)
    BY <1>1, <1>4, LegacyConstants DEF LegacyCallers, LegacySockets
  <1>7. LegacyClosed(state) /\ LegacyAwaited(state)
    BY <1>1, <1>4 DEF LegacyClosed, LegacyAwaited
  <1>8. faults \in 0..RlMaxFaults
    BY <1>2, LegacyConstants
  <1> QED
    BY <1>3, <1>4, <1>5, <1>6, <1>7, <1>8 DEF LegacyGood, LegacyData

LEMMA LegacyStep ==
    ASSUME LegacyGood(state), faults \in 0..RlMaxFaults, Legacy!RlNext
    PROVE  LegacyGood(state') /\ faults' \in 0..RlMaxFaults
  <1> DEFINE x == state
  <1>1. /\ x \in LegacyStates /\ LegacyData(x, {}) /\ LegacyClosed(x) /\ LegacyAwaited(x)
        /\ LegacyQueue(x) /\ LegacyCallers(x, {}) /\ LegacySockets(x)
        /\ x.joined => x.beating
    BY DEF LegacyGood, LegacyData
  <1>2. /\ x.outcome \in [RlRecords -> {"new", "waiting", "queued", "sent", "dropped"}]
        /\ x.ready \in [RlSockets -> {"unborn", "connecting", "open", "closing", "closed"}]
        /\ x.settled \in [RlSockets -> BOOLEAN] /\ 0 \in RlSockets \cup {0}
        /\ x.socket \in RlSockets \cup {0} /\ x.acks \in SUBSET (RlSockets \cup {0})
        /\ x.joinSent \in [RlSockets -> BOOLEAN]
    BY <1>1, LegacyTypes DEF LegacyStates
  <1>3. ASSUME NEW r \in RlRecords, Legacy!WriteRl(r) PROVE LegacyGood(state')
    <2> DEFINE y == [x EXCEPT !.outcome[r] = "waiting"]
    <2>1. x.outcome[r] = "new" /\ Legacy!Calls(y, r)
      BY <1>3 DEF Legacy!WriteRl
    <2>2. /\ y \in LegacyStates /\ LegacySame(x, y) /\ y.queue = x.queue /\ y.waits = x.waits
          /\ y.timer = x.timer /\ y.outcome = [x.outcome EXCEPT ![r] = "waiting"]
      BY <1>1, <1>2 DEF LegacyStates, LegacySame
    <2> HIDE DEF y
    <2>3. \A q \in RlRecords : y.outcome[q] = IF q = r THEN "waiting" ELSE x.outcome[q]
      BY <1>2, <2>2
    <2>4. LegacyQueue(y)
      BY <1>1, <2>1, <2>2, <2>3 DEF LegacyQueue, Queued
    <2>5. LegacyCallers(y, {r})
      <3>1. \A q \in RlRecords \cap {r} : y.outcome[q] = "waiting"
        BY <2>3
      <3>2. \A q \in RlRecords \ {r} : y.outcome[q] = "waiting" <=> y.waits[q] # 0
        BY <1>1, <2>2, <2>3 DEF LegacyCallers
      <3>3. \A c \in Legacy!RlCallers \ {r} : y.waits[c] # 0 =>
                 y.strict \/ ~y.settled[y.waits[c]]
        BY <1>1, <2>2 DEF LegacyCallers, LegacySame
      <3> QED
        BY <3>1, <3>2, <3>3 DEF LegacyCallers
    <2>6. LegacySockets(y) /\ (y.joined => y.beating) /\ LegacyClosed(y) /\ LegacyAwaited(y)
      <3>1. LegacySockets(y) /\ (y.joined => y.beating) /\ LegacyClosed(y)
        BY <1>1, <2>2 DEF LegacySockets, LegacyClosed, LegacySame
      <3>2. LegacyAwaited(y)
        BY <1>1, <2>2, LegacySameAwaited
      <3> QED
        BY <3>1, <3>2
    <2>7. LegacyData(y, {r}) /\ r \in Legacy!RlCallers
      BY <2>2, <2>4, <2>5, <2>6, LegacyConstants DEF LegacyData
    <2> QED
      BY <2>1, <2>6, <2>7, LegacyCalls
  <1>4. ASSUME NEW y, LegacyData(y, {}), NEW c \in {"timer", "flush"}
        PROVE  LegacyData(y, {c}) /\ c \in Legacy!RlCallers
    <2>1. c \notin RlRecords /\ c \in Legacy!RlCallers
      BY LegacyConstants
    <2>2. LegacyCallers(y, {}) => LegacyCallers(y, {c})
      BY <2>1 DEF LegacyCallers
    <2> QED
      BY <1>4, <2>1, <2>2 DEF LegacyData
  <1>5. ASSUME Legacy!FlushRl PROVE LegacyGood(state')
    <2>1. Legacy!Calls(x, "flush")
      BY <1>5 DEF Legacy!FlushRl
    <2>2. LegacyData(x, {"flush"}) /\ "flush" \in Legacy!RlCallers
      BY <1>1, <1>4
    <2> QED
      BY <1>1, <2>1, <2>2, LegacyCalls
  <1>6. ASSUME Legacy!ReconnectFires PROVE LegacyGood(state')
    <2> DEFINE y == [x EXCEPT !.timer = FALSE]
    <2>1. Legacy!Calls(y, "timer")
      BY <1>6 DEF Legacy!ReconnectFires
    <2>2. /\ y \in LegacyStates /\ LegacyAside(x, y) /\ y.ready = x.ready
          /\ y.settled = x.settled
      BY <1>1 DEF LegacyStates, LegacyAside
    <2> HIDE DEF y
    <2>3. LegacyData(y, {}) /\ LegacyClosed(y)
      BY <1>1, <2>2, LegacyAsideKeeps DEF LegacyClosed
    <2>4. LegacyData(y, {"timer"}) /\ "timer" \in Legacy!RlCallers
      BY <1>4, <2>3
    <2> QED
      BY <2>1, <2>3, <2>4, LegacyCalls
  <1>7. ASSUME Legacy!CloseRl PROVE LegacyGood(state')
    <2> DEFINE y == [x EXCEPT !.closed = TRUE, !.timer = FALSE, !.beating = FALSE,
                              !.joined = FALSE, !.joinRef = 0, !.socket = 0]
               z == [y EXCEPT !.ready[x.socket] = "closing"]
    <2>1. state' = IF x.socket = 0 \/ x.ready[x.socket] = "closed" THEN y ELSE z
      BY <1>7 DEF Legacy!CloseRl
    <2>2. /\ y \in LegacyStates /\ LegacyAside(x, y) /\ y.ready = x.ready
          /\ y.settled = x.settled /\ y.closed /\ ~y.joined
      BY <1>1, <1>2 DEF LegacyStates, LegacyAside
    <2> HIDE DEF y
    <2>3. LegacyData(y, {}) /\ LegacyClosed(y) /\ LegacyAwaited(y)
      BY <1>1, <2>2, LegacyAsideKeeps DEF LegacyClosed, LegacyAwaited
    <2>4. CASE x.socket = 0 \/ x.ready[x.socket] = "closed"
      BY <2>1, <2>3, <2>4 DEF LegacyGood
    <2>5. CASE x.socket # 0 /\ x.ready[x.socket] # "closed"
      <3> DEFINE s == x.socket
      <3>1. s \in RlSockets
        BY <1>2, <2>5
      <3> HIDE DEF s
      <3> DEFINE w == [y EXCEPT !.ready[s] = "closing"]
      <3>2. /\ w \in LegacyStates /\ w.ready = [y.ready EXCEPT ![s] = "closing"]
            /\ w.queue = y.queue /\ w.outcome = y.outcome /\ w.waits = y.waits
            /\ w.settled = y.settled /\ w.connectPromise = y.connectPromise
            /\ w.closed /\ ~w.joined /\ w.strict = y.strict
        BY <1>2, <2>2, <3>1 DEF LegacyStates
      <3>3. z = w
        BY DEF s
      <3> HIDE DEF w, z
      <3>4. \A t \in RlSockets : w.ready[t] = IF t = s THEN "closing" ELSE y.ready[t]
        BY <1>2, <2>2, <3>2
      <3>5. LegacyAside(y, w)
        BY <3>2, <3>4 DEF LegacyAside
      <3>6. LegacyData(w, {})
        BY <2>3, <3>2, <3>5, LegacyAsideKeeps
      <3>7. LegacyClosed(w) /\ LegacyAwaited(w)
        BY <2>3, <3>2, <3>4 DEF LegacyClosed, LegacyAwaited
      <3> QED
        BY <2>1, <2>5, <3>3, <3>6, <3>7 DEF LegacyGood
    <2> QED
      BY <2>4, <2>5
  <1>8. ASSUME NEW s \in RlSockets, Legacy!OpensRl(s) PROVE LegacyGood(state')
    <2> DEFINE y == [x EXCEPT !.ready[s] = "open", !.joinRef = s, !.joinSent[s] = TRUE]
    <2>1. state' = y
      BY <1>8 DEF Legacy!OpensRl
    <2>2. /\ y \in LegacyStates /\ y.ready = [x.ready EXCEPT ![s] = "open"]
          /\ y.queue = x.queue /\ y.outcome = x.outcome /\ y.waits = x.waits
          /\ y.settled = x.settled /\ y.connectPromise = x.connectPromise
          /\ y.joined = x.joined /\ y.beating = x.beating /\ y.strict = x.strict
      BY <1>1, <1>2 DEF LegacyStates
    <2> HIDE DEF y
    <2>3. \A t \in RlSockets : y.ready[t] = IF t = s THEN "open" ELSE x.ready[t]
      BY <1>2, <2>2
    <2>4. LegacyAside(x, y)
      BY <1>1, <2>2, <2>3 DEF LegacyAside
    <2>5. LegacyData(y, {})
      BY <1>1, <2>2, <2>4, LegacyAsideKeeps
    <2>6. LegacyClosed(y) /\ LegacyAwaited(y)
      BY <1>1, <2>2, <2>3 DEF LegacyClosed, LegacyAwaited, LegacyBusy
    <2> QED
      BY <2>1, <2>5, <2>6 DEF LegacyGood
  <1>9. ASSUME NEW y, y \in LegacyStates, LegacyAside(x, y), y.ready = x.ready
        PROVE  LegacyData(y, {}) /\ LegacyClosed(y)
    BY <1>1, <1>9, LegacyAsideKeeps DEF LegacyClosed, LegacyAside
  <1>10. ASSUME NEW s \in RlSockets, Legacy!JoinOk(s) \/ Legacy!BroadcastOk(s)
         PROVE  LegacyGood(state')
    <2> DEFINE y == [x EXCEPT !.joinSent[s] = FALSE]
               z == [x EXCEPT !.acks = @ \ {s}]
    <2>1. /\ x.ready[s] = "open"
          /\ state' = Legacy!TakesOk(y, s) \/ state' = Legacy!TakesOk(z, s)
      BY <1>10 DEF Legacy!JoinOk, Legacy!BroadcastOk
    <2>2. /\ y \in LegacyStates /\ LegacyAside(x, y) /\ y.ready = x.ready
          /\ z \in LegacyStates /\ LegacyAside(x, z) /\ z.ready = x.ready
      <3>1. x.acks \ {s} \in SUBSET (RlSockets \cup {0})
        BY <1>2
      <3> QED
        BY <1>1, <1>2, <3>1 DEF LegacyStates, LegacyAside
    <2> HIDE DEF y, z
    <2> QED
      BY <1>9, <2>1, <2>2, LegacyTakesOk
  <1>11. ASSUME NEW s \in RlSockets, Legacy!JoinError(s) PROVE LegacyGood(state')
    <2> DEFINE y == [x EXCEPT !.joinSent[s] = FALSE]
    <2>1. /\ x.ready[s] = "open"
          /\ state' = IF x.joined THEN y ELSE Legacy!FinishRl(y, s, FALSE)
      BY <1>11 DEF Legacy!JoinError
    <2>2. /\ y \in LegacyStates /\ LegacyAside(x, y) /\ y.ready = x.ready
          /\ y.timer = x.timer /\ y.closed = x.closed /\ y.reconnect = x.reconnect
      BY <1>1, <1>2 DEF LegacyStates, LegacyAside
    <2> HIDE DEF y
    <2>3. LegacyData(y, {}) /\ LegacyClosed(y)
      BY <1>9, <2>2
    <2>4. LegacyAwaited(y)
      BY <1>1, <2>2 DEF LegacyAwaited, LegacyBusy, LegacyAside
    <2>5. /\ y.ready[s] = "open" /\ FALSE \in BOOLEAN
          /\ \A t \in RlSockets : y.ready[t] = "closed" => y.settled[t] \/ t = s
      BY <2>1, <2>2, <2>3 DEF LegacyClosed
    <2> DEFINE z == Legacy!FinishRl(y, s, FALSE)
    <2>6. /\ LegacyData(z, {}) /\ LegacyClosed(z)
          /\ LegacyAwaited(y) /\ y.ready[s] # "closed" => LegacyAwaited(z)
      BY <2>3, <2>5, LegacyFinish
    <2> HIDE DEF z
    <2> QED
      BY <2>1, <2>3, <2>4, <2>5, <2>6 DEF LegacyGood, z
  <1>12. ASSUME NEW s \in RlSockets, x.ready[s] \in {"connecting", "open"}
         PROVE  LegacyGood([x EXCEPT !.ready[s] = "closing"])
    <2> DEFINE y == [x EXCEPT !.ready[s] = "closing"]
    <2>1. /\ y \in LegacyStates /\ y.ready = [x.ready EXCEPT ![s] = "closing"]
          /\ y.queue = x.queue /\ y.outcome = x.outcome /\ y.waits = x.waits
          /\ y.settled = x.settled /\ y.connectPromise = x.connectPromise
          /\ y.joined = x.joined /\ y.beating = x.beating /\ y.strict = x.strict
      BY <1>1, <1>2 DEF LegacyStates
    <2> HIDE DEF y
    <2>2. \A t \in RlSockets : y.ready[t] = IF t = s THEN "closing" ELSE x.ready[t]
      BY <1>2, <2>1
    <2>3. LegacyAside(x, y)
      BY <1>1, <2>1, <2>2 DEF LegacyAside
    <2>4. LegacyData(y, {})
      BY <1>1, <2>1, <2>3, LegacyAsideKeeps
    <2>5. LegacyClosed(y) /\ LegacyAwaited(y)
      BY <1>1, <2>1, <2>2 DEF LegacyClosed, LegacyAwaited, LegacyBusy
    <2> QED
      BY <2>4, <2>5 DEF LegacyGood, y
  <1>16. ASSUME NEW s \in RlSockets, Legacy!ChannelError(s) PROVE LegacyGood(state')
    <2>1. /\ x.ready[s] \in {"connecting", "open"}
          /\ state' = [x EXCEPT !.ready[s] = "closing"] \/ state' = x
      BY <1>16 DEF Legacy!ChannelError
    <2> QED
      BY <1>1, <1>12, <2>1 DEF LegacyGood
  <1>17. ASSUME NEW s \in RlSockets, Legacy!ErrsRl(s) PROVE LegacyGood(state')
    <2> DEFINE y == [x EXCEPT !.ready[s] = "closing"]
               z == Legacy!FinishRl(y, s, FALSE)
    <2>1. x.ready[s] \in {"connecting", "open"} /\ state' = z
      BY <1>17 DEF Legacy!ErrsRl
    <2>2. LegacyGood(y) /\ y.ready[s] = "closing"
      BY <1>2, <1>12, <2>1
    <2> HIDE DEF y
    <2>3. /\ LegacyData(y, {}) /\ LegacyAwaited(y) /\ FALSE \in BOOLEAN
          /\ y.ready[s] # "unborn" /\ y.ready[s] # "closed"
          /\ \A t \in RlSockets : y.ready[t] = "closed" => y.settled[t] \/ t = s
      BY <2>2 DEF LegacyGood, LegacyClosed
    <2>4. /\ LegacyData(z, {}) /\ LegacyClosed(z)
          /\ LegacyAwaited(y) /\ y.ready[s] # "closed" => LegacyAwaited(z)
      BY <2>3, LegacyFinish
    <2> HIDE DEF z
    <2> QED
      BY <2>1, <2>3, <2>4 DEF LegacyGood
  <1>13. ASSUME NEW s \in RlSockets, Legacy!TimesOutRl(s) PROVE LegacyGood(state')
    <2>1. /\ x.ready[s] # "unborn" /\ ~x.settled[s]
          /\ state' = Legacy!FinishRl(x, s, FALSE)
      BY <1>13 DEF Legacy!TimesOutRl
    <2>2. /\ x.ready[s] # "closed" /\ FALSE \in BOOLEAN
          /\ \A t \in RlSockets : x.ready[t] = "closed" => x.settled[t] \/ t = s
      BY <1>1, <2>1 DEF LegacyClosed
    <2> DEFINE z == Legacy!FinishRl(x, s, FALSE)
    <2>3. /\ LegacyData(z, {}) /\ LegacyClosed(z)
          /\ LegacyAwaited(x) /\ x.ready[s] # "closed" => LegacyAwaited(z)
      BY <1>1, <2>1, <2>2, LegacyFinish
    <2> HIDE DEF z
    <2> QED
      BY <1>1, <2>1, <2>2, <2>3 DEF LegacyGood, z
  <1>14. ASSUME NEW s \in RlSockets, Legacy!ClosesRl(s) PROVE LegacyGood(state')
    <2> DEFINE y == [x EXCEPT !.ready[s] = "closed", !.joined = FALSE, !.joinRef = 0,
                              !.beating = FALSE]
               z == Legacy!FinishRl(y, s, FALSE)
               w == Legacy!ScheduleReconnect(z)
    <2>1. x.ready[s] # "unborn" /\ state' = w
      BY <1>14 DEF Legacy!ClosesRl
    <2>2. /\ y \in LegacyStates /\ y.ready = [x.ready EXCEPT ![s] = "closed"]
          /\ y.queue = x.queue /\ y.outcome = x.outcome /\ y.waits = x.waits
          /\ y.settled = x.settled /\ y.connectPromise = x.connectPromise /\ ~y.joined
          /\ y.strict = x.strict
      BY <1>1, <1>2 DEF LegacyStates
    <2> HIDE DEF y
    <2>3. \A t \in RlSockets : y.ready[t] = IF t = s THEN "closed" ELSE x.ready[t]
      BY <1>2, <2>2
    <2>4. LegacyAside(x, y)
      BY <2>2, <2>3 DEF LegacyAside
    <2>5. LegacyData(y, {})
      BY <1>1, <2>2, <2>4, LegacyAsideKeeps
    <2>6. /\ y.ready[s] # "unborn" /\ FALSE \in BOOLEAN
          /\ \A t \in RlSockets : y.ready[t] = "closed" => y.settled[t] \/ t = s
      BY <1>1, <2>2, <2>3 DEF LegacyClosed
    <2>7. LegacyData(z, {}) /\ LegacyClosed(z)
      BY <2>5, <2>6, LegacyFinish
    <2> HIDE DEF z
    <2>8. LegacyData(w, {}) /\ LegacySame(z, w) /\ LegacyAwaited(w)
      BY <2>7, LegacySchedule
    <2> HIDE DEF w
    <2>9. LegacyClosed(w)
      BY <2>7, <2>8 DEF LegacyClosed, LegacySame
    <2> QED
      BY <2>1, <2>8, <2>9 DEF LegacyGood
  <1>15. faults' \in 0..RlMaxFaults
    <2>1. faults' = faults \/ (faults < RlMaxFaults /\ faults' = faults + 1)
      BY Zenon DEF Legacy!RlNext, Legacy!WriteRl, Legacy!FlushRl, Legacy!ReconnectFires,
             Legacy!CloseRl, Legacy!OpensRl, Legacy!JoinOk, Legacy!BroadcastOk,
             Legacy!JoinError, Legacy!ChannelError, Legacy!ErrsRl, Legacy!TimesOutRl,
             Legacy!ClosesRl, Legacy!Calls, Legacy!RlFault, Legacy!RlNoFault
    <2> QED
      BY <2>1, LegacyConstants
  <1> HIDE DEF x
  <1> QED
    BY <1>3, <1>5, <1>6, <1>7, <1>8, <1>10, <1>11, <1>13, <1>14, <1>15,
       <1>16, <1>17
       DEF Legacy!RlNext

(* What the runs check of the legacy transport.                             *)
LEMMA LegacyHolds ==
    ASSUME LegacyGood(state), faults \in 0..RlMaxFaults
    PROVE  /\ Legacy!RlTypeOK /\ Legacy!OnePlaceEach
           /\ Legacy!QueueIsAwaited /\ Legacy!JoinedBeats
  <1>1. /\ state \in LegacyStates /\ LegacyQueue(state) /\ LegacyCallers(state, {})
        /\ LegacySockets(state) /\ LegacyClosed(state) /\ LegacyAwaited(state)
        /\ state.joined => state.beating
    BY DEF LegacyGood, LegacyData
  <1>2. Legacy!RlTypeOK
    BY <1>1 DEF Legacy!RlTypeOK, LegacyStates, LegacyQueue
  <1>3. Legacy!OnePlaceEach
    <2>1. Legacy!IsInjective(state.queue)
      <3> DEFINE q == state.queue
      <3>1. q \in Seq(RlRecords)
        BY <1>1, LegacyTypes
      <3>2. Once(q)
        BY <1>1 DEF LegacyQueue
      <3> HIDE DEF q
      <3>3. IsInjective(q)
        BY <3>1, <3>2, ElementsType
      <3>4. Legacy!IsInjective(q)
        BY <3>3 DEF IsInjective, Legacy!IsInjective
      <3> QED
        BY <3>4 DEF q
    <2>2. Legacy!Range(state.queue) = {r \in RlRecords : state.outcome[r] = "queued"}
      BY <1>1, LegacyTypes DEF LegacyQueue, Queued
    <2>3. ASSUME NEW r \in RlRecords
          PROVE  /\ (state.outcome[r] = "waiting") = (state.waits[r] # 0)
                 /\ state.waits[r] # 0 =>
                       IF state.settled[state.waits[r]] THEN state.strict
                       ELSE state.ready[state.waits[r]] # "closed"
      <3>1. state.outcome[r] = "waiting" <=> state.waits[r] # 0
        BY <1>1 DEF LegacyCallers
      <3>2. state.waits[r] # 0 => state.strict \/ ~state.settled[state.waits[r]]
        BY <1>1, LegacyConstants DEF LegacyCallers
      <3>3. state.waits[r] \in RlSockets \cup {0}
        BY <1>1, LegacyTypes, LegacyConstants
      <3>4. (state.outcome[r] = "waiting") = (state.waits[r] # 0)
        BY <3>1
      <3> QED
        BY <1>1, <3>2, <3>3, <3>4 DEF LegacyClosed
    <2> QED
      BY <2>1, <2>2, <2>3 DEF Legacy!OnePlaceEach
  <1>4. Legacy!QueueIsAwaited /\ Legacy!JoinedBeats
    BY <1>1 DEF Legacy!QueueIsAwaited, Legacy!JoinedBeats, LegacyAwaited, LegacyBusy
  <1> QED
    BY <1>2, <1>3, <1>4

(***************************************************************************)
(* Part 7: the batching Realtime transport                                 *)
(***************************************************************************)

BatchReply ==
    [what : {"join"}, by : RbSockets, on : RbSockets]
    \cup [what : {"token", "batch", "leave", "beat"}, by : {0}, on : RbSockets]
BatchDrains == {"off", "connecting", "token", "refreshing", "awaiting", "fallback", "refused",
                "ending", "failing"}
BatchClosings == {"no", "draining", "sparing", "leave", "leaving", "finishing", "failed", "done"}

BatchStates ==
    [queue : Seq(RbItems), outcome : [RbItems -> {"new", "held", "delivered", "dropped"}],
     hasFallback : BOOLEAN, awaitDelivery : BOOLEAN,
     drain : BatchDrains, batch : Seq(RbItems), awaited : RbSockets \cup {0},
     spare : [Batch!Spare -> Seq(RbItems)],
     ready : [RbSockets -> {"connecting", "open", "closing", "closed"}],
     connect : [RbSockets -> {"settled", "pending"}], joining : [RbSockets -> BOOLEAN],
     pending : SUBSET BatchReply, socket : RbSockets \cup {0}, joined : BOOLEAN,
     connectPromise : RbSockets \cup {0}, beating : BOOLEAN, interval : BOOLEAN,
     retry : BOOLEAN, failures : 0..RbFallbackAfter, accepting : BOOLEAN, closed : BOOLEAN,
     strict : BOOLEAN, exiting : BOOLEAN, exitFailed : BOOLEAN, closing : BatchClosings]

(* The items of A are spread over five places, each in one of them.         *)
BatchApart(Q, B, E, C, H, A) ==
    /\ Q \cap B = {} /\ Q \cap E = {} /\ Q \cap C = {} /\ Q \cap H = {}
    /\ B \cap E = {} /\ B \cap C = {} /\ B \cap H = {}
    /\ E \cap C = {} /\ E \cap H = {} /\ C \cap H = {}
    /\ Q \cup B \cup E \cup C \cup H = A

Held(x) == {i \in RbItems : x.outcome[i] = "held"}

(* With b for the batch of the drain and the items H at hand, whoever holds *)
(* an item holds it alone, and once.                                        *)
BatchHeld(x, b, H) ==
    /\ Once(x.queue) /\ Once(b) /\ Once(x.spare["exit"]) /\ Once(x.spare["close"])
    /\ BatchApart(Elements(x.queue), Elements(b), Elements(x.spare["exit"]),
                  Elements(x.spare["close"]), H, Held(x))

(* The drain waits for the one reply of P to its batch or its token, and    *)
(* close() for the one to its leave.                                        *)
BatchAwaits(x, P) ==
    /\ x.drain = "awaiting" <=> \E p \in P : p.what = "batch"
    /\ x.drain = "refreshing" <=> \E p \in P : p.what = "token"
    /\ \A p, q \in P : p.what \in {"token", "batch"} /\ q.what \in {"token", "batch"} => p = q
    /\ \A p \in P : p.what = "leave" => x.closing = "leaving"
    /\ \A p, q \in P : p.what = "leave" /\ q.what = "leave" => p = q

(* Who has a batch, and on which channel a reply to one may come.           *)
BatchTies(x) ==
    /\ x.drain \in {"off", "ending", "failing"} => x.batch = <<>>
    /\ x.spare["exit"] # <<>> => x.exiting
    /\ x.spare["close"] # <<>> => x.closing = "sparing" /\ ~x.accepting
    /\ \A p \in x.pending : p.what \in {"token", "batch"} => x.joined /\ p.on = x.socket

BatchCore(x) ==
    x \in BatchStates /\ Len(x.queue) <= RbMaxQueue /\ IsFiniteSet(x.pending)

(* The whole, with the replies of R still to be rejected.                   *)
BatchBody(x, R) ==
    /\ BatchCore(x) /\ Len(x.batch) <= RbBatchSize
    /\ BatchHeld(x, x.batch, {}) /\ BatchTies(x) /\ BatchAwaits(x, x.pending \cup R)

BatchTimer(x) ==
    x.queue # <<>> /\ x.accepting /\ ~x.exitFailed =>
        x.drain # "off" \/ x.interval \/ x.retry \/ x.exiting

BatchGood(x) == BatchBody(x, {}) /\ BatchTimer(x)

(* What the operations on the queue and the batches leave alone.            *)
BatchSame(x, y) ==
    /\ y.hasFallback = x.hasFallback /\ y.awaitDelivery = x.awaitDelivery
    /\ y.ready = x.ready /\ y.connect = x.connect /\ y.joining = x.joining
    /\ y.pending = x.pending /\ y.socket = x.socket /\ y.joined = x.joined
    /\ y.connectPromise = x.connectPromise /\ y.accepting = x.accepting
    /\ y.closed = x.closed /\ y.exitFailed = x.exitFailed

BatchRest(x, y) ==
    /\ BatchSame(x, y) /\ y.drain = x.drain /\ y.awaited = x.awaited
    /\ y.failures = x.failures /\ y.closing = x.closing /\ y.exiting = x.exiting
    /\ y.interval = x.interval /\ y.retry = x.retry

-----------------------------------------------------------------------------
(* The queue.                                                               *)
LEMMA BatchConstants ==
    /\ RbBatchSize \in Nat /\ RbBatchSize >= 1 /\ RbMaxQueue \in Nat /\ RbMaxQueue >= 1
    /\ RbFallbackAfter \in Nat /\ RbMaxFaults \in Nat
    /\ RbSockets \subseteq Nat /\ 0 \notin RbSockets
    /\ Batch!Spare = {"exit", "close"} /\ "exit" # "close"
  BY BatchAssumption DEF Batch!Spare

LEMMA BatchTypes ==
    ASSUME NEW x \in BatchStates
    PROVE  /\ x.queue \in Seq(RbItems) /\ Len(x.queue) \in Nat
           /\ x.batch \in Seq(RbItems) /\ Len(x.batch) \in Nat
           /\ x.spare \in [Batch!Spare -> Seq(RbItems)]
           /\ x.spare["exit"] \in Seq(RbItems) /\ x.spare["close"] \in Seq(RbItems)
           /\ x.outcome \in [RbItems -> {"new", "held", "delivered", "dropped"}]
           /\ x.ready \in [RbSockets -> {"connecting", "open", "closing", "closed"}]
           /\ x.connect \in [RbSockets -> {"settled", "pending"}]
           /\ x.joining \in [RbSockets -> BOOLEAN]
           /\ x.pending \in SUBSET BatchReply
           /\ x.socket \in RbSockets \cup {0} /\ x.connectPromise \in RbSockets \cup {0}
           /\ x.failures \in 0..RbFallbackAfter
  <1>1. /\ x.queue \in Seq(RbItems) /\ x.batch \in Seq(RbItems)
        /\ x.spare \in [Batch!Spare -> Seq(RbItems)]
        /\ x.outcome \in [RbItems -> {"new", "held", "delivered", "dropped"}]
        /\ x.ready \in [RbSockets -> {"connecting", "open", "closing", "closed"}]
        /\ x.connect \in [RbSockets -> {"settled", "pending"}]
        /\ x.joining \in [RbSockets -> BOOLEAN]
        /\ x.pending \in SUBSET BatchReply
        /\ x.socket \in RbSockets \cup {0} /\ x.connectPromise \in RbSockets \cup {0}
        /\ x.failures \in 0..RbFallbackAfter
    BY DEF BatchStates
  <1>2. x.spare["exit"] \in Seq(RbItems) /\ x.spare["close"] \in Seq(RbItems)
    BY <1>1, BatchConstants
  <1> QED
    BY <1>1, <1>2, LenProperties

(* How much of a sequence is taken.                                         *)
LEMMA BatchTakes ==
    ASSUME NEW q \in Seq(RbItems)
    PROVE  Batch!BatchLength(q) \in 0..Len(q) /\ Batch!BatchLength(q) <= RbBatchSize
  <1> DEFINE fits(n) == n = 1 \/ \A k \in 1..n : q[k] \notin RbHeavy
             S == {0} \cup {n \in 1..Len(q) : n <= RbBatchSize /\ fits(n)}
  <1>1. Batch!BatchLength(q) = Batch!Max(S)
    BY DEF Batch!BatchLength
  <1>2. Len(q) \in Nat
    BY LenProperties
  <1>3. /\ S \in SUBSET (0..Len(q)) /\ S # {} /\ \A n \in S : n <= RbBatchSize
    <2> HIDE DEF fits
    <2> QED
      BY <1>2, BatchConstants
  <1> HIDE DEF S
  <1>4. \E m \in S : \A n \in S : m >= n
    BY <1>2, <1>3, Greatest
  <1>5. Batch!Max(S) \in S
    BY <1>4 DEF Batch!Max
  <1> QED
    BY <1>1, <1>3, <1>5

LEMMA BatchRoom ==
    ASSUME NEW a \in Nat, NEW m \in Nat
    PROVE  LET n == IF a < m THEN a ELSE m IN n \in 0..a /\ n <= m
  OBVIOUS

(* A batch comes back to the head of the queue.                             *)
LEMMA BatchRestored ==
    ASSUME NEW x \in BatchStates, NEW c \in Seq(RbItems), NEW b \in Seq(RbItems), Once(b),
           BatchHeld(x, c, Elements(b))
    PROVE  LET y == Batch!RestoreBatch(x, b)
           IN  /\ y \in BatchStates /\ BatchHeld(y, c, {}) /\ Len(y.queue) <= RbMaxQueue
               /\ BatchRest(x, y) /\ y.batch = x.batch /\ y.spare = x.spare
  <1> DEFINE q == b \o x.queue
             n == IF Len(q) < RbMaxQueue THEN Len(q) ELSE RbMaxQueue
             kept == SubSeq(q, 1, n)
             gone == Batch!Range(q) \ Batch!Range(kept)
             outcome == [i \in RbItems |-> IF i \in gone THEN "dropped" ELSE x.outcome[i]]
             y == [x EXCEPT !.outcome = outcome, !.queue = kept]
  <1>1. Batch!RestoreBatch(x, b) = y
    BY DEF Batch!RestoreBatch, Batch!DropItems
  <1>2. /\ x.queue \in Seq(RbItems)
        /\ x.outcome \in [RbItems -> {"new", "held", "delivered", "dropped"}]
    BY BatchTypes
  <1>3. /\ Once(x.queue) /\ Once(c) /\ Once(x.spare["exit"]) /\ Once(x.spare["close"])
        /\ BatchApart(Elements(x.queue), Elements(c), Elements(x.spare["exit"]),
                      Elements(x.spare["close"]), Elements(b), Held(x))
    BY DEF BatchHeld
  <1>4. Elements(b) \cap Elements(x.queue) = {}
    BY <1>3 DEF BatchApart
  <1>5. /\ q \in Seq(RbItems) /\ Once(q)
        /\ Elements(q) = Elements(b) \cup Elements(x.queue)
    BY <1>2, <1>3, <1>4, OnceConcat
  <1> HIDE DEF q
  <1>6. Len(q) \in Nat
    BY <1>5, LenProperties
  <1>7. n \in 0..Len(q) /\ n <= RbMaxQueue
    BY <1>6, BatchRoom, BatchConstants
  <1> HIDE DEF n
  <1>8. /\ kept \in Seq(RbItems) /\ Len(kept) = n /\ Once(kept)
        /\ Elements(kept) \subseteq Elements(q)
    BY <1>5, <1>7, OnceCut
  <1> HIDE DEF kept
  <1>9. /\ Batch!Range(kept) = Elements(kept) /\ Batch!Range(q) = Elements(q)
        /\ Elements(q) \subseteq RbItems
    BY <1>5, <1>8, ElementsType DEF Range, Batch!Range
  <1>10. gone = Elements(q) \ Elements(kept)
    BY <1>9
  <1> HIDE DEF gone
  <1>11. /\ outcome \in [RbItems -> {"new", "held", "delivered", "dropped"}]
         /\ \A i \in RbItems : outcome[i] = "held" <=> x.outcome[i] = "held" /\ i \notin gone
    BY <1>2
  <1> HIDE DEF outcome
  <1>12. /\ y \in BatchStates /\ BatchRest(x, y) /\ y.batch = x.batch /\ y.spare = x.spare
         /\ y.queue = kept /\ y.outcome = outcome
    BY <1>8, <1>11 DEF BatchStates, BatchRest, BatchSame
  <1> HIDE DEF y
  <1>13. Held(y) = Held(x) \ gone
    BY <1>11, <1>12 DEF Held
  <1>14. BatchHeld(y, c, {})
    <2>1. BatchApart(Elements(kept), Elements(c), Elements(x.spare["exit"]),
                     Elements(x.spare["close"]), {}, Held(y))
      BY <1>3, <1>5, <1>8, <1>10, <1>13 DEF BatchApart
    <2> QED
      BY <1>3, <1>8, <1>12, <2>1 DEF BatchHeld
  <1> QED
    BY <1>1, <1>7, <1>8, <1>12, <1>14

(* A new item takes its place in the queue, the oldest makes room.          *)
LEMMA BatchEnqueued ==
    ASSUME NEW x \in BatchStates, NEW c \in Seq(RbItems), BatchHeld(x, c, {}),
           Len(x.queue) <= RbMaxQueue, NEW i \in RbItems, x.outcome[i] = "new"
    PROVE  LET y == Batch!Enqueue(x, i)
           IN  /\ y \in BatchStates /\ BatchHeld(y, c, {}) /\ Len(y.queue) <= RbMaxQueue
               /\ BatchRest(x, y) /\ y.batch = x.batch /\ y.spare = x.spare
               /\ y.outcome[i] # "held" => y.queue = x.queue
  <1>1. /\ x.queue \in Seq(RbItems) /\ Len(x.queue) \in Nat
        /\ x.outcome \in [RbItems -> {"new", "held", "delivered", "dropped"}]
    BY BatchTypes
  <1>2. /\ Once(x.queue) /\ Once(c) /\ Once(x.spare["exit"]) /\ Once(x.spare["close"])
        /\ BatchApart(Elements(x.queue), Elements(c), Elements(x.spare["exit"]),
                      Elements(x.spare["close"]), {}, Held(x))
    BY DEF BatchHeld
  <1>3. i \notin Held(x)
    BY DEF Held
  <1>4. CASE ~x.accepting \/ i \in RbTooLarge
    <2> DEFINE outcome == [j \in RbItems |-> IF j \in {i} THEN "dropped" ELSE x.outcome[j]]
               y == [x EXCEPT !.outcome = outcome]
    <2>1. Batch!Enqueue(x, i) = y
      BY <1>4 DEF Batch!Enqueue, Batch!DropItems
    <2>2. /\ outcome \in [RbItems -> {"new", "held", "delivered", "dropped"}]
          /\ \A j \in RbItems : outcome[j] = "held" <=> x.outcome[j] = "held"
      BY <1>1
    <2> HIDE DEF outcome
    <2>3. /\ y \in BatchStates /\ BatchRest(x, y) /\ y.batch = x.batch /\ y.spare = x.spare
          /\ y.queue = x.queue /\ y.outcome = outcome
      BY <2>2 DEF BatchStates, BatchRest, BatchSame
    <2> HIDE DEF y
    <2>4. Held(y) = Held(x)
      BY <2>2, <2>3 DEF Held
    <2>5. BatchHeld(y, c, {})
      BY <1>2, <2>3, <2>4 DEF BatchHeld
    <2> QED
      BY <2>1, <2>3, <2>5
  <1>5. CASE ~(~x.accepting \/ i \in RbTooLarge)
    <2> DEFINE full == Len(x.queue) >= RbMaxQueue
               old == IF full THEN {Head(x.queue)} ELSE {}
               rest == IF full THEN Tail(x.queue) ELSE x.queue
               outcome == [j \in RbItems |-> IF j = i THEN "held"
                                             ELSE IF j \in old THEN "dropped" ELSE x.outcome[j]]
               y == [x EXCEPT !.outcome = outcome, !.queue = Append(rest, i)]
    <2>1. full => x.queue # <<>>
      BY <1>1, EmptySeq, BatchConstants
    <2>2. /\ rest \in Seq(RbItems) /\ Once(rest) /\ Len(rest) + 1 <= RbMaxQueue
          /\ Elements(x.queue) = old \cup Elements(rest) /\ old \cap Elements(rest) = {}
      <3>1. CASE full
        <4> DEFINE h == Head(x.queue)
                   t == Tail(x.queue)
        <4>1. /\ t \in Seq(RbItems) /\ Len(t) = Len(x.queue) - 1 /\ Once(t)
              /\ Elements(x.queue) = {h} \cup Elements(t) /\ h \notin Elements(t)
          BY <1>1, <1>2, <2>1, <3>1, OnceHeadTail
        <4>2. old = {h} /\ rest = t
          BY <3>1
        <4> HIDE DEF h, t, old, rest
        <4> QED
          BY <1>1, <4>1, <4>2, BatchConstants
      <3>2. CASE ~full
        <4>1. old = {} /\ rest = x.queue
          BY <3>2
        <4>2. Len(x.queue) + 1 <= RbMaxQueue
          BY <1>1, <3>2, BatchConstants
        <4> HIDE DEF old, rest
        <4> QED
          BY <1>1, <1>2, <4>1, <4>2
      <3> QED
        BY <3>1, <3>2
    <2>3. old \subseteq Elements(x.queue) /\ Elements(x.queue) \subseteq Held(x)
      BY <1>2, <2>2 DEF BatchApart
    <2>4. Batch!Enqueue(x, i) = y
      <3> DEFINE dropped == [j \in RbItems |-> IF j \in {Head(x.queue)} THEN "dropped"
                                               ELSE x.outcome[j]]
      <3>1. Batch!Enqueue(x, i) =
               [(IF full THEN [x EXCEPT !.outcome = dropped] ELSE x) EXCEPT
                   !.queue = Append(IF full THEN Tail(@) ELSE @, i), !.outcome[i] = "held"]
        BY <1>5 DEF Batch!Enqueue, Batch!DropItems
      <3>2. CASE full
        <4>1. Batch!Enqueue(x, i) =
               [[x EXCEPT !.outcome = dropped] EXCEPT
                   !.queue = Append(Tail(@), i), !.outcome[i] = "held"]
          BY <3>1, <3>2
        <4>2. outcome = [dropped EXCEPT ![i] = "held"]
          BY <3>2
        <4> HIDE DEF dropped, outcome, full
        <4>3. Append(rest, i) = Append(Tail(x.queue), i)
          BY <3>2
        <4> HIDE DEF rest
        <4> QED
          BY <4>1, <4>2, <4>3 DEF BatchStates
      <3>3. CASE ~full
        <4>1. Batch!Enqueue(x, i) = [x EXCEPT !.queue = Append(@, i), !.outcome[i] = "held"]
          BY <3>1, <3>3
        <4>2. outcome = [x.outcome EXCEPT ![i] = "held"]
          BY <1>1, <3>3
        <4> HIDE DEF dropped, outcome, full
        <4>3. Append(rest, i) = Append(x.queue, i)
          BY <3>3
        <4> HIDE DEF rest
        <4> QED
          BY <4>1, <4>2, <4>3 DEF BatchStates
      <3> QED
        BY <3>2, <3>3
    <2> HIDE DEF full, old, rest
    <2>5. /\ outcome \in [RbItems -> {"new", "held", "delivered", "dropped"}]
          /\ outcome[i] = "held"
          /\ \A j \in RbItems : outcome[j] = "held" <=>
                 j = i \/ (x.outcome[j] = "held" /\ j \notin old)
      BY <1>1
    <2> DEFINE q == Append(rest, i)
    <2>6. /\ q \in Seq(RbItems) /\ Len(q) = Len(rest) + 1 /\ Once(q)
          /\ Elements(q) = Elements(rest) \cup {i}
      BY <1>3, <2>2, <2>3, OnceAppend
    <2> HIDE DEF q, outcome
    <2>7. /\ y \in BatchStates /\ BatchRest(x, y) /\ y.batch = x.batch /\ y.spare = x.spare
          /\ y.queue = q /\ y.outcome = outcome
      BY <2>5, <2>6 DEF BatchStates, BatchRest, BatchSame, q
    <2> HIDE DEF y
    <2>8. Held(y) = (Held(x) \ old) \cup {i}
      BY <2>3, <2>5, <2>7 DEF Held
    <2>9. BatchApart(Elements(q), Elements(c), Elements(x.spare["exit"]),
                     Elements(x.spare["close"]), {}, Held(y))
      BY <1>2, <1>3, <2>2, <2>3, <2>6, <2>8 DEF BatchApart
    <2>10. BatchHeld(y, c, {})
      BY <1>2, <2>6, <2>7, <2>9 DEF BatchHeld
    <2>11. Len(y.queue) <= RbMaxQueue
      BY <2>2, <2>6, <2>7
    <2> QED
      BY <2>4, <2>5, <2>7, <2>10, <2>11
  <1> QED
    BY <1>4, <1>5

(* What is taken from the head of the queue.                                *)
LEMMA BatchCut ==
    ASSUME NEW q \in Seq(RbItems), Once(q)
    PROVE  LET n == Batch!BatchLength(q)
               a == SubSeq(q, 1, n)
               b == SubSeq(q, n + 1, Len(q))
           IN  /\ a \in Seq(RbItems) /\ Once(a) /\ Len(a) <= RbBatchSize
               /\ b \in Seq(RbItems) /\ Once(b) /\ Len(b) <= Len(q) /\ Len(b) \in Nat
               /\ Elements(q) = Elements(a) \cup Elements(b)
               /\ Elements(a) \cap Elements(b) = {}
  <1> DEFINE n == Batch!BatchLength(q)
             a == SubSeq(q, 1, n)
             b == SubSeq(q, n + 1, Len(q))
  <1>1. n \in 0..Len(q) /\ n <= RbBatchSize /\ Len(q) \in Nat
    BY BatchTakes, LenProperties
  <1> HIDE DEF n
  <1>2. /\ a \in Seq(RbItems) /\ b \in Seq(RbItems)
        /\ Len(a) = n /\ Len(b) = Len(q) - n
        /\ Elements(q) = Elements(a) \cup Elements(b)
        /\ Once(a) /\ Once(b) /\ Elements(a) \cap Elements(b) = {}
    BY <1>1, OnceCut
  <1>3. Len(q) - n <= Len(q) /\ Len(q) - n \in Nat
    BY <1>1
  <1> HIDE DEF a, b
  <1> QED
    BY <1>1, <1>2, <1>3 DEF a, b, n

-----------------------------------------------------------------------------
(* The drain.                                                               *)

(* No reply to a batch or to a token is outstanding.                        *)
BatchFree(x, R) ==
    \A p \in x.pending \cup R : p.what \notin {"token", "batch"}

(* close() waits for its leave, if a reply to one is outstanding.           *)
BatchLeaves(x, P) ==
    /\ \A p \in P : p.what = "leave" => x.closing = "leaving"
    /\ \A p, q \in P : p.what = "leave" /\ q.what = "leave" => p = q

(* What is known of a drain between two batches.                            *)
BatchBetween(x, R) ==
    /\ BatchCore(x) /\ BatchHeld(x, <<>>, {}) /\ BatchFree(x, R)
    /\ BatchLeaves(x, x.pending \cup R)
    /\ x.spare["exit"] # <<>> => x.exiting
    /\ x.spare["close"] # <<>> => x.closing = "sparing" /\ ~x.accepting

LEMMA BatchEmpty ==
    /\ <<>> \in Seq(RbItems) /\ Once(<<>>) /\ Elements(<<>>) = {} /\ Len(<<>>) <= RbBatchSize
  BY OnceEmpty, BatchConstants

(* A drain that starts to send a batch, or ends.                            *)
LEMMA BatchBegins ==
    ASSUME NEW x, NEW R, BatchBetween(x, R), NEW y, y \in BatchStates,
           y.queue = x.queue, y.outcome = x.outcome, y.spare = x.spare,
           y.pending = x.pending, y.exiting = x.exiting, y.closing = x.closing,
           y.accepting = x.accepting,
           y.batch = <<>>, y.drain \notin {"awaiting", "refreshing"}
    PROVE  BatchBody(y, R)
  <1>1. BatchCore(y) /\ Len(y.batch) <= RbBatchSize
    BY BatchEmpty DEF BatchBetween, BatchCore
  <1>2. Held(y) = Held(x)
    BY DEF Held
  <1>3. BatchHeld(y, y.batch, {})
    BY <1>2 DEF BatchBetween, BatchHeld
  <1>4. BatchTies(y)
    BY DEF BatchBetween, BatchTies, BatchFree
  <1>5. BatchAwaits(y, y.pending \cup R)
    BY DEF BatchBetween, BatchAwaits, BatchFree, BatchLeaves
  <1> QED
    BY <1>1, <1>3, <1>4, <1>5 DEF BatchBody

LEMMA BatchTaken ==
    ASSUME NEW x, NEW R, BatchBetween(x, R)
    PROVE  LET n == Batch!BatchLength(x.queue)
               y == [x EXCEPT !.batch = SubSeq(x.queue, 1, n),
                              !.queue = SubSeq(@, n + 1, Len(@))]
           IN  /\ y \in BatchStates /\ BatchRest(x, y) /\ y.spare = x.spare
               /\ \A z \in BatchStates :
                     /\ z.queue = y.queue /\ z.outcome = y.outcome /\ z.spare = y.spare
                     /\ z.pending = y.pending /\ z.exiting = y.exiting
                     /\ z.closing = y.closing /\ z.accepting = y.accepting
                     /\ z.batch = y.batch
                     /\ z.drain \in {"fallback", "refused", "token", "connecting"}
                     => BatchBody(z, R)
  <1> DEFINE n == Batch!BatchLength(x.queue)
             a == SubSeq(x.queue, 1, n)
             b == SubSeq(x.queue, n + 1, Len(x.queue))
             y == [x EXCEPT !.batch = a, !.queue = b]
  <1>1. x \in BatchStates /\ Len(x.queue) <= RbMaxQueue /\ BatchHeld(x, <<>>, {})
    BY DEF BatchBetween, BatchCore
  <1>2. x.queue \in Seq(RbItems) /\ Once(x.queue) /\ Len(x.queue) \in Nat
    BY <1>1, BatchTypes DEF BatchHeld
  <1>3. /\ a \in Seq(RbItems) /\ Once(a) /\ Len(a) <= RbBatchSize
        /\ b \in Seq(RbItems) /\ Once(b) /\ Len(b) <= Len(x.queue) /\ Len(b) \in Nat
        /\ Elements(x.queue) = Elements(a) \cup Elements(b)
        /\ Elements(a) \cap Elements(b) = {}
    BY <1>2, BatchCut
  <1> HIDE DEF a, b
  <1>4. /\ y \in BatchStates /\ BatchRest(x, y) /\ y.spare = x.spare
        /\ y.batch = a /\ y.queue = b /\ y.outcome = x.outcome
    BY <1>1, <1>3 DEF BatchStates, BatchRest, BatchSame
  <1> HIDE DEF y
  <1>5. ASSUME NEW z \in BatchStates,
               z.queue = y.queue, z.outcome = y.outcome, z.spare = y.spare,
               z.pending = y.pending, z.exiting = y.exiting,
               z.closing = y.closing, z.accepting = y.accepting, z.batch = y.batch,
               z.drain \in {"fallback", "refused", "token", "connecting"}
        PROVE  BatchBody(z, R)
    <2>1. /\ z.queue = b /\ z.batch = a /\ z.outcome = x.outcome /\ z.spare = x.spare
          /\ z.pending = x.pending /\ z.exiting = x.exiting /\ z.closing = x.closing
          /\ z.accepting = x.accepting
      BY <1>4, <1>5 DEF BatchRest, BatchSame
    <2>2. Len(b) <= RbMaxQueue
      BY <1>1, <1>2, <1>3, BatchConstants
    <2>3. BatchCore(z) /\ Len(z.batch) <= RbBatchSize
      BY <1>3, <1>5, <2>1, <2>2 DEF BatchBetween, BatchCore
    <2>4. BatchHeld(z, z.batch, {})
      <3>1. Held(z) = Held(x)
        BY <2>1 DEF Held
      <3>2. BatchApart(Elements(x.queue), {}, Elements(x.spare["exit"]),
                       Elements(x.spare["close"]), {}, Held(x))
        BY <1>1, BatchEmpty DEF BatchHeld
      <3>3. BatchApart(Elements(b), Elements(a), Elements(x.spare["exit"]),
                       Elements(x.spare["close"]), {}, Held(x))
        BY <1>3, <3>2 DEF BatchApart
      <3> QED
        BY <1>1, <1>3, <2>1, <3>1, <3>3 DEF BatchHeld
    <2>5. BatchTies(z)
      BY <1>5, <2>1 DEF BatchBetween, BatchTies, BatchFree
    <2>6. BatchAwaits(z, z.pending \cup R)
      BY <1>5, <2>1 DEF BatchBetween, BatchAwaits, BatchFree, BatchLeaves
    <2> QED
      BY <2>3, <2>4, <2>5, <2>6 DEF BatchBody
  <1> QED
    BY <1>4, <1>5 DEF y, a, b, n

(* The head of the drain's loop.                                            *)
LEMMA BatchNext ==
    ASSUME NEW x, NEW R, BatchBetween(x, R),
           Batch!UseFallback(x) \/ x.closed \/ Batch!Sure(x)
    PROVE  LET y == Batch!NextBatch(x)
           IN  BatchBody(y, R) /\ y.drain # "off" /\ y.pending = x.pending
  <1> DEFINE n == Batch!BatchLength(x.queue)
             u == [x EXCEPT !.batch = SubSeq(x.queue, 1, n),
                            !.queue = SubSeq(@, n + 1, Len(@))]
             ends == [x EXCEPT !.drain = "ending", !.batch = <<>>]
             spares == [u EXCEPT !.drain = "fallback"]
             refused == [u EXCEPT !.drain = "refused"]
  <1>1. Batch!NextBatch(x) = IF x.queue = <<>> THEN ends
                             ELSE IF Batch!UseFallback(x) THEN spares
                             ELSE IF x.closed THEN refused ELSE Batch!Connect(u)
    BY DEF Batch!NextBatch
  <1>2. x \in BatchStates
    BY DEF BatchBetween, BatchCore
  <1>3. /\ u \in BatchStates /\ BatchRest(x, u) /\ u.spare = x.spare
        /\ \A z \in BatchStates :
              /\ z.queue = u.queue /\ z.outcome = u.outcome /\ z.spare = u.spare
              /\ z.pending = u.pending /\ z.exiting = u.exiting
              /\ z.closing = u.closing /\ z.accepting = u.accepting
              /\ z.batch = u.batch
              /\ z.drain \in {"fallback", "refused", "token", "connecting"}
              => BatchBody(z, R)
    BY BatchTaken
  <1> HIDE DEF u
  <1>4. BatchBody(ends, R) /\ ends.drain # "off" /\ ends.pending = x.pending
    <2>1. /\ ends \in BatchStates /\ ends.queue = x.queue /\ ends.outcome = x.outcome
          /\ ends.spare = x.spare /\ ends.pending = x.pending /\ ends.exiting = x.exiting
          /\ ends.closing = x.closing /\ ends.accepting = x.accepting
          /\ ends.batch = <<>> /\ ends.drain = "ending"
      BY <1>2, BatchEmpty DEF BatchStates, BatchDrains
    <2> HIDE DEF ends
    <2>2. BatchBody(ends, R)
      BY <2>1, BatchBegins
    <2> QED
      BY <2>1, <2>2
  <1>5. /\ spares \in BatchStates /\ spares.drain = "fallback"
        /\ spares.queue = u.queue /\ spares.outcome = u.outcome /\ spares.spare = u.spare
        /\ spares.pending = u.pending /\ spares.exiting = u.exiting
        /\ spares.closing = u.closing /\ spares.accepting = u.accepting
        /\ spares.batch = u.batch
    BY <1>3 DEF BatchStates, BatchDrains
  <1>6. /\ refused \in BatchStates /\ refused.drain = "refused"
        /\ refused.queue = u.queue /\ refused.outcome = u.outcome /\ refused.spare = u.spare
        /\ refused.pending = u.pending /\ refused.exiting = u.exiting
        /\ refused.closing = u.closing /\ refused.accepting = u.accepting
        /\ refused.batch = u.batch
    BY <1>3 DEF BatchStates, BatchDrains
  <1> HIDE DEF spares, refused
  <1>7. /\ BatchBody(spares, R) /\ spares.pending = x.pending
        /\ BatchBody(refused, R) /\ refused.pending = x.pending
    BY <1>3, <1>5, <1>6 DEF BatchRest, BatchSame
  <1>8. ASSUME Batch!Sure(x)
        PROVE  /\ BatchBody(Batch!Connect(u), R) /\ Batch!Connect(u).drain # "off"
               /\ Batch!Connect(u).pending = x.pending
    <2> DEFINE S == {k \in RbSockets : u.ready[k] = "closed" /\ u.connect[k] = "settled"
                                       /\ ~u.joining[k]}
               s == Batch!Min(S)
               joined == [u EXCEPT !.drain = "token", !.awaited = 0]
               joins == [u EXCEPT !.drain = "connecting", !.awaited = u.connectPromise]
               makes == [u EXCEPT !.drain = "connecting", !.awaited = s, !.socket = s,
                                  !.joined = FALSE, !.connectPromise = s,
                                  !.ready[s] = "connecting", !.connect[s] = "pending"]
    <2>1. Batch!Connect(u) = IF Batch!Open(u) /\ u.joined THEN joined
                             ELSE IF u.connectPromise # 0 THEN joins ELSE makes
      BY DEF Batch!Connect
    <2>2. S # {} \/ u.connectPromise # 0 \/ (Batch!Open(u) /\ u.joined)
      BY <1>3, <1>8 DEF Batch!Sure, Batch!CanConnect, Batch!Open, BatchRest, BatchSame
    <2>3. /\ u.ready \in [RbSockets -> {"connecting", "open", "closing", "closed"}]
          /\ u.connect \in [RbSockets -> {"settled", "pending"}]
          /\ u.connectPromise \in RbSockets \cup {0} /\ 0 \in RbSockets \cup {0}
      BY <1>3, BatchTypes
    <2>4. S # {} => s \in RbSockets
      <3>1. S \subseteq RbSockets /\ S \in SUBSET Nat
        BY BatchConstants
      <3> HIDE DEF S
      <3>2. SUFFICES ASSUME S # {} PROVE s \in S
        BY <3>1
      <3>3. \E m \in S : \A k \in S : m <= k
        BY <3>1, <3>2, Least
      <3> QED
        BY <3>3 DEF Batch!Min
    <2> HIDE DEF S, s
    <2>5. /\ joined \in BatchStates /\ joined.drain = "token"
          /\ joined.queue = u.queue /\ joined.outcome = u.outcome /\ joined.spare = u.spare
          /\ joined.pending = u.pending /\ joined.exiting = u.exiting
          /\ joined.closing = u.closing /\ joined.accepting = u.accepting
          /\ joined.batch = u.batch
      BY <1>3, <2>3 DEF BatchStates, BatchDrains
    <2>6. /\ joins \in BatchStates /\ joins.drain = "connecting"
          /\ joins.queue = u.queue /\ joins.outcome = u.outcome /\ joins.spare = u.spare
          /\ joins.pending = u.pending /\ joins.exiting = u.exiting
          /\ joins.closing = u.closing /\ joins.accepting = u.accepting
          /\ joins.batch = u.batch
      BY <1>3, <2>3 DEF BatchStates, BatchDrains
    <2>7. s \in RbSockets =>
          /\ makes \in BatchStates /\ makes.drain = "connecting"
          /\ makes.queue = u.queue /\ makes.outcome = u.outcome /\ makes.spare = u.spare
          /\ makes.pending = u.pending /\ makes.exiting = u.exiting
          /\ makes.closing = u.closing /\ makes.accepting = u.accepting
          /\ makes.batch = u.batch
      BY <1>3, <2>3 DEF BatchStates, BatchDrains
    <2> HIDE DEF joined, joins, makes
    <2>8. u.pending = x.pending
      BY <1>3 DEF BatchRest, BatchSame
    <2>9. /\ BatchBody(joined, R) /\ BatchBody(joins, R)
          /\ s \in RbSockets => BatchBody(makes, R)
      BY <1>3, <2>5, <2>6, <2>7
    <2> QED
      BY <2>1, <2>2, <2>4, <2>5, <2>6, <2>7, <2>8, <2>9
  <1> HIDE DEF ends
  <1> QED
    BY <1>1, <1>4, <1>5, <1>6, <1>7, <1>8

(* flush(): one drain at a time.                                            *)
LEMMA BatchFlush ==
    ASSUME NEW x, NEW R, BatchBody(x, R), x.closed \/ Batch!Sure(x)
    PROVE  LET y == Batch!FlushRb(x)
           IN  BatchBody(y, R) /\ y.drain # "off" /\ y.pending = x.pending
  <1> DEFINE u == [x EXCEPT !.interval = FALSE]
             y == Batch!NextBatch(u)
  <1>1. Batch!FlushRb(x) = IF x.drain # "off" THEN x ELSE y
    BY DEF Batch!FlushRb
  <1>2. CASE x.drain # "off"
    BY <1>1, <1>2
  <1>3. CASE x.drain = "off"
    <2>1. /\ BatchCore(x) /\ BatchHeld(x, x.batch, {}) /\ BatchTies(x)
          /\ BatchAwaits(x, x.pending \cup R) /\ x \in BatchStates
      BY DEF BatchBody, BatchCore
    <2>2. /\ u \in BatchStates /\ BatchSame(x, u) /\ u.queue = x.queue
          /\ u.outcome = x.outcome /\ u.spare = x.spare /\ u.exiting = x.exiting
          /\ u.closing = x.closing
      BY <2>1 DEF BatchStates, BatchSame
    <2> HIDE DEF u
    <2>3. x.batch = <<>>
      BY <1>3, <2>1 DEF BatchTies
    <2>4. BatchFree(x, R)
      BY <1>3, <2>1 DEF BatchFree, BatchAwaits
    <2>5. BatchBetween(u, R)
      <3>1. BatchHeld(u, <<>>, {})
        <4>1. Held(u) = Held(x)
          BY <2>2 DEF Held
        <4> QED
          BY <2>1, <2>2, <2>3, <4>1 DEF BatchHeld
      <3>2. BatchCore(u) /\ BatchFree(u, R)
        BY <2>1, <2>2, <2>4 DEF BatchCore, BatchFree, BatchSame
      <3>3. BatchLeaves(u, u.pending \cup R)
        BY <2>1, <2>2 DEF BatchLeaves, BatchAwaits, BatchSame
      <3>4. /\ u.spare["exit"] # <<>> => u.exiting
            /\ u.spare["close"] # <<>> => u.closing = "sparing" /\ ~u.accepting
        BY <2>1, <2>2 DEF BatchTies, BatchSame
      <3> QED
        BY <3>1, <3>2, <3>3, <3>4 DEF BatchBetween
    <2>6. u.closed \/ Batch!Sure(u)
      BY <2>2 DEF BatchSame, Batch!Sure, Batch!CanConnect, Batch!Open
    <2>7. BatchBody(y, R) /\ y.drain # "off" /\ y.pending = u.pending
      BY <2>5, <2>6, BatchNext
    <2> HIDE DEF y
    <2> QED
      BY <1>1, <1>3, <2>2, <2>7 DEF BatchSame
  <1> QED
    BY <1>2, <1>3

(* What is known of a drain whose batch has just been answered.             *)
BatchLoose(x, R) ==
    /\ BatchCore(x) /\ BatchHeld(x, x.batch, {}) /\ BatchFree(x, R)
    /\ BatchLeaves(x, x.pending \cup R)
    /\ x.spare["exit"] # <<>> => x.exiting
    /\ x.spare["close"] # <<>> => x.closing = "sparing" /\ ~x.accepting

LEMMA BatchIsLoose ==
    ASSUME NEW x, NEW R, BatchBody(x, R), x.drain \notin {"awaiting", "refreshing"}
    PROVE  BatchLoose(x, R)
  BY DEF BatchBody, BatchTies, BatchAwaits, BatchLoose, BatchFree, BatchLeaves

LEMMA BatchAnswered ==
    ASSUME NEW x, NEW R, BatchBody(x, R), NEW p \in R, p \notin x.pending,
           p.what \in {"token", "batch"}
    PROVE  BatchLoose(x, R \ {p})
  BY DEF BatchBody, BatchTies, BatchAwaits, BatchLoose, BatchFree, BatchLeaves

(* A batch that fails comes back, and the drain goes on with the fallback   *)
(* or ends.                                                                 *)
LEMMA BatchFailed ==
    ASSUME NEW x, NEW R, BatchLoose(x, R)
    PROVE  LET y == Batch!BatchFails(x)
           IN  BatchBody(y, R) /\ y.drain # "off" /\ y.pending = x.pending
  <1> DEFINE failures == IF x.failures < RbFallbackAfter THEN x.failures + 1 ELSE x.failures
             u == [x EXCEPT !.failures = failures, !.batch = <<>>, !.awaited = 0]
             y == Batch!RestoreBatch(u, x.batch)
             next == Batch!NextBatch(y)
             ends == [y EXCEPT !.drain = "failing"]
  <1>1. Batch!BatchFails(x) =
           IF x.drain # "fallback" /\ Batch!UseFallback(y) THEN next ELSE ends
    BY DEF Batch!BatchFails
  <1>2. /\ BatchCore(x) /\ BatchHeld(x, x.batch, {}) /\ BatchFree(x, R)
        /\ BatchLeaves(x, x.pending \cup R) /\ x \in BatchStates
        /\ x.spare["exit"] # <<>> => x.exiting
        /\ x.spare["close"] # <<>> => x.closing = "sparing" /\ ~x.accepting
    BY DEF BatchLoose, BatchCore
  <1>3. x.batch \in Seq(RbItems) /\ Once(x.batch) /\ x.failures \in 0..RbFallbackAfter
    BY <1>2, BatchTypes DEF BatchHeld
  <1>4. failures \in 0..RbFallbackAfter
    BY <1>3, BatchConstants
  <1> HIDE DEF failures
  <1>5. /\ u \in BatchStates /\ BatchSame(x, u) /\ u.queue = x.queue /\ u.batch = <<>>
        /\ u.outcome = x.outcome /\ u.spare = x.spare /\ u.exiting = x.exiting
        /\ u.closing = x.closing
    BY <1>2, <1>4, BatchEmpty DEF BatchStates, BatchSame
  <1> HIDE DEF u
  <1>6. BatchHeld(u, <<>>, Elements(x.batch))
    <2>1. Held(u) = Held(x)
      BY <1>5 DEF Held
    <2>2. BatchApart(Elements(x.queue), {}, Elements(x.spare["exit"]),
                     Elements(x.spare["close"]), Elements(x.batch), Held(x))
      BY <1>2 DEF BatchHeld, BatchApart
    <2> QED
      BY <1>2, <1>5, <2>1, <2>2, BatchEmpty DEF BatchHeld
  <1>7. /\ y \in BatchStates /\ BatchHeld(y, <<>>, {}) /\ Len(y.queue) <= RbMaxQueue
        /\ BatchRest(u, y) /\ y.batch = <<>> /\ y.spare = u.spare
    BY <1>3, <1>5, <1>6, BatchEmpty, BatchRestored
  <1> HIDE DEF y
  <1>8. /\ y.pending = x.pending /\ y.exiting = x.exiting /\ y.closing = x.closing
        /\ y.accepting = x.accepting /\ y.spare = x.spare
    BY <1>5, <1>7 DEF BatchRest, BatchSame
  <1>9. BatchBetween(y, R)
    BY <1>2, <1>7, <1>8 DEF BatchBetween, BatchCore, BatchFree, BatchLeaves
  <1>10. Batch!UseFallback(y) =>
            BatchBody(next, R) /\ next.drain # "off" /\ next.pending = y.pending
    BY <1>9, BatchNext
  <1>11. /\ ends \in BatchStates /\ ends.queue = y.queue /\ ends.outcome = y.outcome
         /\ ends.spare = y.spare /\ ends.pending = y.pending /\ ends.exiting = y.exiting
         /\ ends.closing = y.closing /\ ends.accepting = y.accepting
         /\ ends.batch = <<>> /\ ends.drain = "failing"
    BY <1>7 DEF BatchStates, BatchDrains
  <1> HIDE DEF ends, next
  <1>12. BatchBody(ends, R)
    BY <1>9, <1>11, BatchBegins
  <1> QED
    BY <1>1, <1>8, <1>10, <1>11, <1>12

(* A batch that is delivered leaves the drain.                              *)
LEMMA BatchIsSent ==
    ASSUME NEW x, NEW R, BatchLoose(x, R), x.closed \/ Batch!Sure(x)
    PROVE  LET y == Batch!BatchSent(x)
           IN  BatchBody(y, R) /\ y.drain # "off" /\ y.pending = x.pending
  <1> DEFINE outcome == [i \in RbItems |->
                            IF i \in Batch!Range(x.batch) THEN "delivered" ELSE x.outcome[i]]
             u == [x EXCEPT !.outcome = outcome, !.failures = 0]
             y == Batch!NextBatch(u)
  <1>1. Batch!BatchSent(x) = y
    BY DEF Batch!BatchSent, Batch!Delivered
  <1>2. /\ BatchCore(x) /\ BatchHeld(x, x.batch, {}) /\ BatchFree(x, R)
        /\ BatchLeaves(x, x.pending \cup R) /\ x \in BatchStates
        /\ x.spare["exit"] # <<>> => x.exiting
        /\ x.spare["close"] # <<>> => x.closing = "sparing" /\ ~x.accepting
    BY DEF BatchLoose, BatchCore
  <1>3. /\ x.batch \in Seq(RbItems) /\ 0 \in 0..RbFallbackAfter
        /\ x.outcome \in [RbItems -> {"new", "held", "delivered", "dropped"}]
    BY <1>2, BatchTypes, BatchConstants
  <1>4. Batch!Range(x.batch) = Elements(x.batch)
    <2> DEFINE b == x.batch
    <2>1. b \in Seq(RbItems)
      BY <1>3
    <2> HIDE DEF b
    <2>2. Batch!Range(b) = Elements(b)
      BY <2>1, ElementsType DEF Range, Batch!Range
    <2> QED
      BY <2>2 DEF b
  <1>5. /\ outcome \in [RbItems -> {"new", "held", "delivered", "dropped"}]
        /\ \A i \in RbItems :
               outcome[i] = "held" <=> x.outcome[i] = "held" /\ i \notin Elements(x.batch)
    BY <1>3, <1>4
  <1> HIDE DEF outcome
  <1>6. /\ u \in BatchStates /\ BatchSame(x, u) /\ u.queue = x.queue
        /\ u.outcome = outcome /\ u.spare = x.spare /\ u.exiting = x.exiting
        /\ u.closing = x.closing
    BY <1>2, <1>3, <1>5 DEF BatchStates, BatchSame
  <1> HIDE DEF u
  <1>7. BatchHeld(u, <<>>, {})
    <2>1. Held(u) = Held(x) \ Elements(x.batch)
      BY <1>5, <1>6 DEF Held
    <2>2. BatchApart(Elements(x.queue), {}, Elements(x.spare["exit"]),
                     Elements(x.spare["close"]), {}, Held(u))
      BY <1>2, <2>1 DEF BatchHeld, BatchApart
    <2> QED
      BY <1>2, <1>6, <2>2, BatchEmpty DEF BatchHeld
  <1>8. BatchBetween(u, R)
    BY <1>2, <1>6, <1>7 DEF BatchBetween, BatchCore, BatchFree, BatchLeaves, BatchSame
  <1>9. u.closed \/ Batch!Sure(u)
    BY <1>6 DEF BatchSame, Batch!Sure, Batch!CanConnect, Batch!Open
  <1>10. BatchBody(y, R) /\ y.drain # "off" /\ y.pending = u.pending
    BY <1>8, <1>9, BatchNext
  <1> HIDE DEF y
  <1> QED
    BY <1>1, <1>6, <1>10 DEF BatchSame

-----------------------------------------------------------------------------
(* The channel and its replies.                                             *)

(* Steps beside the queue, the batches and the replies.                     *)
BatchAside(x, y) ==
    /\ y.queue = x.queue /\ y.outcome = x.outcome /\ y.batch = x.batch /\ y.spare = x.spare
    /\ y.drain = x.drain /\ y.pending = x.pending /\ y.socket = x.socket
    /\ y.exiting = x.exiting /\ y.closing = x.closing /\ y.accepting = x.accepting
    /\ x.joined => y.joined

LEMMA BatchAsideKeeps ==
    ASSUME NEW x, NEW R, BatchBody(x, R), NEW y \in BatchStates, BatchAside(x, y)
    PROVE  BatchBody(y, R)
  <1>1. Held(y) = Held(x)
    BY DEF BatchAside, Held
  <1> QED
    BY <1>1 DEF BatchBody, BatchAside, BatchCore, BatchHeld, BatchTies, BatchAwaits

LEMMA BatchFinishFails ==
    ASSUME NEW x, NEW R, BatchBody(x, R), NEW s \in RbSockets
    PROVE  LET y == Batch!FinishFails(x, s)
           IN  /\ BatchBody(y, R) /\ y.pending = x.pending
               /\ BatchTimer(x) => BatchTimer(y)
  <1> DEFINE u == [x EXCEPT !.connect[s] = "settled", !.connectPromise = 0]
             y == Batch!BatchFails(u)
  <1>1. Batch!FinishFails(x, s) =
           IF x.connect[s] = "settled" THEN x
           ELSE IF u.drain = "connecting" /\ u.awaited = s THEN y ELSE u
    BY DEF Batch!FinishFails
  <1>2. x \in BatchStates /\ x.connect \in [RbSockets -> {"settled", "pending"}]
    BY BatchTypes DEF BatchBody, BatchCore
  <1>3. /\ u \in BatchStates /\ BatchAside(x, u) /\ u.interval = x.interval
        /\ u.retry = x.retry /\ u.exitFailed = x.exitFailed
    BY <1>2 DEF BatchStates, BatchAside
  <1> HIDE DEF u
  <1>4. BatchBody(u, R) /\ (BatchTimer(x) => BatchTimer(u))
    BY <1>3, BatchAsideKeeps DEF BatchTimer, BatchAside
  <1>5. CASE u.drain = "connecting"
    <2>1. BatchLoose(u, R)
      BY <1>4, <1>5, BatchIsLoose
    <2>2. BatchBody(y, R) /\ y.drain # "off" /\ y.pending = u.pending
      BY <2>1, BatchFailed
    <2> HIDE DEF y
    <2>3. BatchTimer(y)
      BY <2>2 DEF BatchTimer
    <2> QED
      BY <1>1, <1>3, <1>4, <2>2, <2>3 DEF BatchAside
  <1>6. CASE u.drain # "connecting"
    BY <1>1, <1>3, <1>4, <1>6 DEF BatchAside
  <1> QED
    BY <1>5, <1>6

(* A closed socket stays closed.                                          *)
BatchShut(x, y) == \A k \in RbSockets : x.ready[k] = "closed" => y.ready[k] = "closed"

(* close() on the current socket leaves all but its state alone, if it      *)
(* does not throw.                                                          *)
LEMMA BatchCloseIt ==
    ASSUME NEW x, NEW R, NEW code, BatchBody(x, R)
    PROVE  LET y == Batch!CloseIt(x, code)
           IN  /\ BatchBody(y, R) /\ BatchAside(x, y) /\ y.interval = x.interval
               /\ y.retry = x.retry /\ y.exitFailed = x.exitFailed
               /\ y.closed = x.closed /\ y.connect = x.connect /\ y.joining = x.joining
               /\ BatchShut(x, y)
  <1> DEFINE s == x.socket
             to == IF x.ready[s] = "closed" THEN "closed" ELSE "closing"
             u == [x EXCEPT !.ready[s] = to]
  <1>1. Batch!CloseIt(x, code) =
           IF s = 0 \/ ~Batch!MayClose(x.strict, code) THEN x ELSE u
    <2>1. x \in BatchStates
      BY DEF BatchBody, BatchCore
    <2>2. x.ready[s] = "closed" => to = x.ready[s]
      OBVIOUS
    <2> QED
      BY <2>1, <2>2 DEF Batch!CloseIt
  <1>2. /\ x \in BatchStates /\ s \in RbSockets \cup {0}
        /\ x.ready \in [RbSockets -> {"connecting", "open", "closing", "closed"}]
    BY BatchTypes DEF BatchBody, BatchCore
  <1>3. to \in {"connecting", "open", "closing", "closed"} /\ (x.ready[s] = "closed" => to = "closed")
    OBVIOUS
  <1>4. CASE s = 0 \/ ~Batch!MayClose(x.strict, code)
    BY <1>1, <1>4 DEF BatchAside, BatchShut
  <1>5. CASE ~(s = 0 \/ ~Batch!MayClose(x.strict, code))
    <2>1. s \in RbSockets
      BY <1>2, <1>5
    <2> DEFINE t == s
    <2> HIDE DEF to, s
    <2>2. /\ u \in BatchStates /\ BatchAside(x, u) /\ u.interval = x.interval
          /\ u.retry = x.retry /\ u.exitFailed = x.exitFailed
          /\ u.closed = x.closed /\ u.connect = x.connect /\ u.joining = x.joining
          /\ u.ready = [x.ready EXCEPT ![s] = to]
      BY <1>2, <1>3, <2>1 DEF BatchStates, BatchAside
    <2> HIDE DEF u
    <2>3. BatchShut(x, u)
      BY <1>2, <1>3, <2>2 DEF BatchShut
    <2>4. BatchBody(u, R)
      BY <2>2, BatchAsideKeeps
    <2> QED
      BY <1>1, <1>5, <2>2, <2>3, <2>4
  <1> QED
    BY <1>4, <1>5

(* A reply is rejected, to whoever awaits it.                               *)
LEMMA BatchRejected ==
    ASSUME NEW x, NEW R, BatchBody(x, R), NEW p \in R, p \in BatchReply, p \notin x.pending
    PROVE  LET y == Batch!Rejected(x, p)
           IN  /\ BatchBody(y, R \ {p}) /\ y.pending = x.pending
               /\ BatchTimer(x) => BatchTimer(y)
  <1>1. p.what \in {"join", "token", "batch", "leave", "beat"}
    BY DEF BatchReply
  <1>2. CASE p.what \in {"token", "batch"}
    <2> DEFINE y == Batch!BatchFails(x)
    <2>1. Batch!Rejected(x, p) = y
      BY <1>2 DEF Batch!Rejected
    <2>2. BatchBody(y, R \ {p}) /\ y.drain # "off" /\ y.pending = x.pending
      BY <1>2, BatchAnswered, BatchFailed
    <2> HIDE DEF y
    <2> QED
      BY <2>1, <2>2 DEF BatchTimer
  <1>3. p.what \in {"join", "beat", "leave"} => BatchAwaits(x, x.pending \cup (R \ {p}))
    <2>1. BatchAwaits(x, x.pending \cup R)
      BY DEF BatchBody
    <2> QED
      BY <2>1 DEF BatchAwaits
  <1>4. p.what \in {"join", "beat", "leave"} => BatchBody(x, R \ {p})
    BY <1>3 DEF BatchBody
  <1>5. CASE p.what = "join"
    <2>1. p.by \in RbSockets
      BY <1>5 DEF BatchReply
    <2>2. Batch!Rejected(x, p) = Batch!FinishFails(x, p.by)
      BY <1>5 DEF Batch!Rejected
    <2> QED
      BY <1>4, <1>5, <2>1, <2>2, BatchFinishFails
  <1>6. CASE p.what = "beat"
    <2> DEFINE y == Batch!CloseIt(x, 1011)
    <2>1. Batch!Rejected(x, p) = y
      BY <1>6 DEF Batch!Rejected
    <2>2. /\ BatchBody(y, R \ {p}) /\ BatchAside(x, y) /\ y.interval = x.interval
          /\ y.retry = x.retry /\ y.exitFailed = x.exitFailed
      BY <1>4, <1>6, BatchCloseIt
    <2> HIDE DEF y
    <2> QED
      BY <2>1, <2>2 DEF BatchTimer, BatchAside
  <1>7. CASE p.what = "leave"
    <2> DEFINE y == [x EXCEPT !.closing = "finishing"]
               P == x.pending \cup (R \ {p})
    <2>1. Batch!Rejected(x, p) = y
      BY <1>7 DEF Batch!Rejected, Batch!AfterLeave
    <2>2. /\ BatchCore(x) /\ x \in BatchStates /\ BatchHeld(x, x.batch, {})
          /\ Len(x.batch) <= RbBatchSize /\ BatchTies(x) /\ BatchAwaits(x, x.pending \cup R)
      BY DEF BatchBody, BatchCore
    <2>3. /\ y \in BatchStates /\ y.queue = x.queue /\ y.outcome = x.outcome
          /\ y.batch = x.batch /\ y.spare = x.spare /\ y.drain = x.drain
          /\ y.pending = x.pending /\ y.socket = x.socket /\ y.exiting = x.exiting
          /\ y.accepting = x.accepting /\ y.joined = x.joined /\ y.interval = x.interval
          /\ y.retry = x.retry /\ y.exitFailed = x.exitFailed
      BY <2>2 DEF BatchStates, BatchClosings
    <2> HIDE DEF y
    <2>4. x.closing = "leaving" /\ \A q \in P : q.what # "leave"
      BY <1>7, <2>2 DEF BatchAwaits
    <2>5. BatchAwaits(y, y.pending \cup (R \ {p}))
      <3>1. BatchAwaits(x, P)
        BY <1>3, <1>7
      <3> QED
        BY <2>3, <2>4, <3>1 DEF BatchAwaits
    <2>6. x.spare["close"] = <<>>
      BY <2>2, <2>4 DEF BatchTies
    <2>7. BatchTies(y)
      BY <2>2, <2>3, <2>6 DEF BatchTies
    <2>8. BatchCore(y) /\ BatchHeld(y, y.batch, {}) /\ Len(y.batch) <= RbBatchSize
      <3>1. Held(y) = Held(x)
        BY <2>3 DEF Held
      <3> QED
        BY <2>2, <2>3, <3>1 DEF BatchCore, BatchHeld
    <2>9. BatchBody(y, R \ {p})
      BY <2>5, <2>7, <2>8 DEF BatchBody
    <2> QED
      BY <2>1, <2>3, <2>9 DEF BatchTimer
  <1> QED
    BY <1>1, <1>2, <1>5, <1>6, <1>7

(* The states a series of rejections goes through, and that there are such. *)
RejectsOf(x, order, f, n) ==
    \A i \in 0..n : f[i] = IF i = 0 THEN x ELSE Batch!Rejected(f[i - 1], order[i])

LEMMA RejectsExist ==
    ASSUME NEW x, NEW order, NEW m \in Nat
    PROVE  \E f : f = [i \in 0..m |-> f[i]] /\ RejectsOf(x, order, f, m)
  <1> DEFINE T == {n \in Nat : \E f : f = [i \in 0..n |-> f[i]] /\ RejectsOf(x, order, f, n)}
  <1>1. 0 \in T
    <2> DEFINE f == [i \in 0..0 |-> x]
    <2>1. f = [i \in 0..0 |-> f[i]] /\ RejectsOf(x, order, f, 0)
      BY DEF RejectsOf
    <2> QED
      BY <2>1
  <1>2. ASSUME NEW n \in Nat, n \in T PROVE n + 1 \in T
    <2>1. PICK f : f = [i \in 0..n |-> f[i]] /\ RejectsOf(x, order, f, n)
      BY <1>2
    <2> DEFINE last == Batch!Rejected(f[n], order[n + 1])
               g == [i \in 0..(n + 1) |-> IF i = n + 1 THEN last ELSE f[i]]
    <2>2. g = [i \in 0..(n + 1) |-> g[i]]
      OBVIOUS
    <2>3. ASSUME NEW i \in 0..(n + 1)
          PROVE  g[i] = IF i = 0 THEN x ELSE Batch!Rejected(g[i - 1], order[i])
      <3>1. CASE i = n + 1
        <4>1. g[i] = last /\ i # 0 /\ g[i - 1] = f[n]
          BY <3>1
        <4> QED
          BY <3>1, <4>1
      <3>2. CASE i \in 0..n
        <4>1. g[i] = f[i] /\ (i # 0 => g[i - 1] = f[i - 1])
          BY <3>2
        <4>2. f[i] = IF i = 0 THEN x ELSE Batch!Rejected(f[i - 1], order[i])
          BY <2>1, <3>2 DEF RejectsOf
        <4> HIDE DEF g
        <4> QED
          BY <4>1, <4>2
      <3> QED
        BY <3>1, <3>2
    <2>4. RejectsOf(x, order, g, n + 1)
      <3> HIDE DEF g
      <3> QED
        BY <2>3 DEF RejectsOf
    <2> HIDE DEF g
    <2> QED
      BY <2>2, <2>4
  <1>3. Nat \subseteq T
    <2> HIDE DEF T
    <2> QED
      BY <1>1, <1>2, SetInduction
  <1> QED
    BY <1>3

LEMMA RejectsAre ==
    ASSUME NEW x, NEW P, Len(Batch!InSomeOrder(P)) \in Nat
    PROVE  LET order == Batch!InSomeOrder(P)
           IN  \E f : /\ RejectsOf(x, order, f, Len(order))
                      /\ Batch!RejectAll(x, P) = f[Len(order)]
  <1> DEFINE order == Batch!InSomeOrder(P)
             m == Len(order)
             Step(f) == [n \in 0..m |-> IF n = 0 THEN x
                                        ELSE Batch!Rejected(f[n - 1], order[n])]
             after == CHOOSE f : f = Step(f)
  <1>1. PICK g : g = [i \in 0..m |-> g[i]] /\ RejectsOf(x, order, g, m)
    BY RejectsExist
  <1>2. g = Step(g)
    BY <1>1 DEF RejectsOf
  <1>3. after = Step(after)
    BY <1>2
  <1>4. RejectsOf(x, order, after, m)
    <2> HIDE DEF after
    <2> QED
      BY <1>3 DEF RejectsOf
  <1>5. Batch!RejectAll(x, P) = after[m]
    BY DEF Batch!RejectAll
  <1> HIDE DEF after
  <1> QED
    BY <1>4, <1>5

(* Every outstanding reply is rejected.                                     *)
LEMMA BatchRejectAll ==
    ASSUME NEW x, NEW P \in SUBSET BatchReply, IsFiniteSet(P), BatchBody(x, P),
           x.pending = {}
    PROVE  LET y == Batch!RejectAll(x, P)
           IN  /\ BatchBody(y, {}) /\ y.pending = {}
               /\ BatchTimer(x) => BatchTimer(y)
  <1> DEFINE order == Batch!InSomeOrder(P)
             m == Len(order)
             Rest(n) == {order[k] : k \in (n + 1)..m}
  <1>1. order \in Seq(BatchReply) /\ Once(order) /\ Elements(order) = P
    <2>1. InSomeOrder(P) = Batch!InSomeOrder(P)
      BY DEF InSomeOrder, Batch!InSomeOrder, Cardinality, Batch!Cardinality
    <2> QED
      BY <2>1, SeqOfSet
  <1> HIDE DEF order
  <1>2. m \in Nat
    BY <1>1, LenProperties
  <1>3. PICK f : RejectsOf(x, order, f, m) /\ Batch!RejectAll(x, P) = f[m]
    BY <1>2, RejectsAre DEF order
  <1>4. /\ f[0] = x
        /\ \A n \in 0..m : n < m => f[n + 1] = Batch!Rejected(f[n], order[n + 1])
    <2>1. f[0] = x
      BY <1>2, <1>3 DEF RejectsOf
    <2>2. ASSUME NEW n \in 0..m, n < m
          PROVE  f[n + 1] = Batch!Rejected(f[n], order[n + 1])
      <3>1. n + 1 \in 0..m /\ n + 1 # 0 /\ (n + 1) - 1 = n
        BY <1>2, <2>2
      <3>2. f[n + 1] = IF n + 1 = 0 THEN x ELSE Batch!Rejected(f[(n + 1) - 1], order[n + 1])
        BY <1>3, <3>1 DEF RejectsOf
      <3> QED
        BY <3>1, <3>2
    <2> QED
      BY <2>1, <2>2
  <1> DEFINE Good(n) == /\ BatchBody(f[n], Rest(n)) /\ f[n].pending = {}
                        /\ BatchTimer(x) => BatchTimer(f[n])
             T == {n \in Nat : n <= m => Good(n)}
  <1>5. 0 \in T
    <2>1. Rest(0) = P
      <3>1. Rest(0) = Elements(order)
        BY DEF Elements
      <3> QED
        BY <1>1, <3>1
    <2> QED
      BY <1>4, <2>1
  <1>6. ASSUME NEW n \in Nat, n \in T PROVE n + 1 \in T
    <2> SUFFICES ASSUME n + 1 <= m PROVE Good(n + 1)
      OBVIOUS
    <2> DEFINE p == order[n + 1]
    <2>1. n \in 0..m /\ n < m /\ n <= m /\ n + 1 \in 1..m
      BY <1>2
    <2>2. Good(n)
      BY <1>6, <2>1
    <2>3. p \in BatchReply
      BY <1>1, <2>1, ElementOfSeq
    <2>4. p \in Rest(n) /\ Rest(n + 1) = Rest(n) \ {p}
      <3>1. n + 1 \in (n + 1)..m
        BY <1>2, <2>1
      <3>2. \A k \in (n + 1)..m : k \in 1..m /\ (k = n + 1 \/ k \in ((n + 1) + 1)..m)
        BY <1>2, <2>1
      <3>3. \A k \in ((n + 1) + 1)..m : k \in (n + 1)..m /\ k # n + 1 /\ k \in 1..m
        BY <1>2, <2>1
      <3>4. \A k \in ((n + 1) + 1)..m : order[k] # p
        BY <1>1, <2>1, <3>3 DEF Once
      <3> HIDE DEF m
      <3> QED
        BY <3>1, <3>2, <3>3, <3>4
    <2>5. f[n + 1] = Batch!Rejected(f[n], p)
      BY <1>4, <2>1
    <2> HIDE DEF p, Rest
    <2>6. /\ BatchBody(f[n], Rest(n)) /\ f[n].pending = {}
          /\ BatchTimer(x) => BatchTimer(f[n])
      BY <2>2
    <2> DEFINE z == f[n]
    <2>7. BatchBody(z, Rest(n)) /\ p \notin z.pending
      BY <2>6
    <2> HIDE DEF z
    <2>8. LET y == Batch!Rejected(z, p)
          IN  /\ BatchBody(y, Rest(n) \ {p}) /\ y.pending = z.pending
              /\ BatchTimer(z) => BatchTimer(y)
      BY <2>3, <2>4, <2>7, BatchRejected
    <2>9. /\ BatchBody(f[n + 1], Rest(n + 1)) /\ f[n + 1].pending = {}
          /\ BatchTimer(x) => BatchTimer(f[n + 1])
      BY <2>4, <2>5, <2>6, <2>8 DEF z
    <2> QED
      BY <2>9
  <1>7. Nat \subseteq T
    <2> HIDE DEF T
    <2> QED
      BY <1>5, <1>6, SetInduction
  <1>8. Good(m)
    <2>1. m \in T
      <3> HIDE DEF T, m
      <3> QED
        BY <1>2, <1>7
    <2>2. m <= m => Good(m)
      <3> HIDE DEF Good, m
      <3> QED
        BY <2>1
    <2>3. m <= m
      BY <1>2
    <2> QED
      BY <2>2, <2>3
  <1>9. Rest(m) = {}
    BY <1>2
  <1> QED
    BY <1>3, <1>8, <1>9

(* disconnect(): the replies are left to be rejected.                       *)
LEMMA BatchDisconnect ==
    ASSUME NEW x, BatchBody(x, {})
    PROVE  LET y == Batch!Disconnect(x)
           IN  /\ BatchBody(y, x.pending) /\ y.pending = {}
               /\ x.pending \in SUBSET BatchReply /\ IsFiniteSet(x.pending)
               /\ BatchTimer(x) => BatchTimer(y)
               /\ Batch!CanConnect(x) => Batch!Sure(y)
  <1> DEFINE u == Batch!CloseIt(x, 1000)
             y == [u EXCEPT !.pending = {}, !.beating = FALSE, !.socket = 0,
                            !.joined = FALSE, !.connectPromise = 0]
  <1>1. Batch!Disconnect(x) = y
    BY DEF Batch!Disconnect
  <1>2. /\ BatchBody(u, {}) /\ BatchAside(x, u) /\ u.interval = x.interval
        /\ u.retry = x.retry /\ u.exitFailed = x.exitFailed
        /\ u.connect = x.connect /\ u.joining = x.joining
        /\ BatchShut(x, u)
    BY BatchCloseIt
  <1> HIDE DEF u
  <1>3. /\ BatchCore(u) /\ u \in BatchStates /\ BatchHeld(u, u.batch, {})
        /\ Len(u.batch) <= RbBatchSize /\ BatchTies(u) /\ BatchAwaits(u, u.pending \cup {})
    BY <1>2 DEF BatchBody, BatchCore
  <1>4. /\ y \in BatchStates /\ y.queue = u.queue /\ y.outcome = u.outcome
        /\ y.batch = u.batch /\ y.spare = u.spare /\ y.drain = u.drain /\ y.pending = {}
        /\ y.exiting = u.exiting /\ y.closing = u.closing /\ y.accepting = u.accepting
        /\ y.interval = u.interval /\ y.retry = u.retry /\ y.exitFailed = u.exitFailed
        /\ y.ready = u.ready /\ y.connect = u.connect /\ y.joining = u.joining
    BY <1>3 DEF BatchStates
  <1> HIDE DEF y
  <1>5. BatchBody(y, x.pending)
    <2>1. BatchCore(y) /\ BatchHeld(y, y.batch, {}) /\ Len(y.batch) <= RbBatchSize
      <3>1. Held(y) = Held(u) /\ IsFiniteSet({})
        BY <1>4, FS_EmptySet DEF Held
      <3> QED
        BY <1>3, <1>4, <3>1 DEF BatchCore, BatchHeld
    <2>2. BatchTies(y)
      BY <1>3, <1>4 DEF BatchTies
    <2>3. u.pending \cup {} = y.pending \cup x.pending
      BY <1>2, <1>4 DEF BatchAside
    <2>4. BatchAwaits(y, y.pending \cup x.pending)
      BY <1>3, <1>4, <2>3 DEF BatchAwaits
    <2> QED
      BY <2>1, <2>2, <2>4 DEF BatchBody
  <1>6. BatchTimer(x) => BatchTimer(y)
    BY <1>2, <1>4 DEF BatchTimer, BatchAside
  <1>7. x.pending \in SUBSET BatchReply /\ IsFiniteSet(x.pending)
    BY BatchTypes DEF BatchBody, BatchCore
  <1>8. Batch!CanConnect(x) => Batch!Sure(y)
    BY <1>2, <1>4 DEF Batch!CanConnect, Batch!Sure, BatchShut
  <1> QED
    BY <1>1, <1>4, <1>5, <1>6, <1>7, <1>8

(* The channel is given up and every reply is rejected.                     *)
LEMMA BatchGivesUp ==
    ASSUME NEW x, BatchGood(x)
    PROVE  BatchGood(Batch!RejectAll(Batch!Disconnect(x), x.pending))
  <1> DEFINE u == Batch!Disconnect(x)
             y == Batch!RejectAll(u, x.pending)
  <1>1. /\ BatchBody(u, x.pending) /\ u.pending = {}
        /\ x.pending \in SUBSET BatchReply /\ IsFiniteSet(x.pending) /\ BatchTimer(u)
    BY BatchDisconnect DEF BatchGood
  <1> HIDE DEF u
  <1> DEFINE P == x.pending
  <1>2. P \in SUBSET BatchReply /\ IsFiniteSet(P) /\ BatchBody(u, P)
    BY <1>1
  <1> HIDE DEF P
  <1>3. /\ BatchBody(Batch!RejectAll(u, P), {})
        /\ BatchTimer(u) => BatchTimer(Batch!RejectAll(u, P))
    BY <1>1, <1>2, BatchRejectAll
  <1> QED
    BY <1>1, <1>3 DEF BatchGood, u, P

-----------------------------------------------------------------------------
(* The parts of the steps.                                                  *)
LEMMA BatchParts ==
    ASSUME NEW x, NEW R, BatchBody(x, R)
    PROVE  /\ BatchCore(x) /\ x \in BatchStates /\ BatchHeld(x, x.batch, {})
           /\ Len(x.batch) <= RbBatchSize /\ Len(x.queue) <= RbMaxQueue
           /\ BatchTies(x) /\ BatchAwaits(x, x.pending \cup R)
           /\ x.batch \in Seq(RbItems) /\ Once(x.batch)
  BY BatchTypes DEF BatchBody, BatchCore, BatchHeld

(* A state that differs in the queue, what is held, and who runs what.      *)
LEMMA BatchSameKeeps ==
    ASSUME NEW x, BatchBody(x, {}), NEW y \in BatchStates, BatchRest(x, y),
           y.batch = x.batch, y.spare = x.spare, BatchHeld(y, y.batch, {}),
           Len(y.queue) <= RbMaxQueue
    PROVE  BatchBody(y, {})
  BY DEF BatchBody, BatchCore, BatchTies, BatchAwaits, BatchRest, BatchSame

LEMMA BatchSure ==
    ASSUME NEW x, NEW y, BatchSame(x, y), Batch!Sure(x)
    PROVE  Batch!Sure(y)
  BY DEF BatchSame, Batch!Sure, Batch!CanConnect, Batch!Open

LEMMA BatchSchedules ==
    ASSUME NEW x, NEW R, BatchBody(x, R),
           NEW y \in {Batch!ScheduleInterval(x), Batch!ScheduleRetry(x)}
    PROVE  /\ BatchBody(y, R) /\ BatchTimer(y) /\ BatchSame(x, y) /\ y.closing = x.closing
           /\ y.spare = x.spare /\ y.drain = x.drain
  <1>1. x \in BatchStates
    BY BatchParts
  <1>2. CASE y = Batch!ScheduleInterval(x)
    <2>1. PICK b \in BOOLEAN : b <=> x.interval \/ (x.accepting /\ ~x.retry /\ x.queue # <<>>)
      OBVIOUS
    <2>2. y = [x EXCEPT !.interval = b]
      BY <1>1, <1>2, <2>1 DEF Batch!ScheduleInterval, BatchStates
    <2>3. /\ y \in BatchStates /\ BatchAside(x, y) /\ BatchSame(x, y)
          /\ y.interval = b /\ y.retry = x.retry
      BY <1>1, <2>2 DEF BatchStates, BatchAside, BatchSame
    <2>4. BatchBody(y, R)
      BY <2>3, BatchAsideKeeps
    <2> QED
      BY <2>1, <2>3, <2>4 DEF BatchTimer, BatchAside
  <1>3. CASE y = Batch!ScheduleRetry(x)
    <2> DEFINE z == [x EXCEPT !.retry = TRUE, !.interval = FALSE]
    <2>1. y = IF ~x.accepting \/ x.retry \/ x.queue = <<>> THEN x ELSE z
      BY <1>3 DEF Batch!ScheduleRetry
    <2>2. z \in BatchStates /\ BatchAside(x, z) /\ BatchSame(x, z) /\ z.retry
      <3>1. z \in BatchStates
        BY <1>1 DEF BatchStates
      <3>2. BatchAside(x, z) /\ BatchSame(x, z) /\ z.retry
        BY <1>1 DEF BatchStates, BatchAside, BatchSame
      <3> QED
        BY <3>1, <3>2
    <2> HIDE DEF z
    <2>3. BatchBody(z, R)
      BY <2>2, BatchAsideKeeps
    <2>4. BatchSame(x, x)
      BY DEF BatchSame
    <2> QED
      BY <2>1, <2>2, <2>3, <2>4 DEF BatchTimer, BatchAside
  <1> QED
    BY <1>2, <1>3

(* close() goes on to its next stage, with no reply to a leave outstanding. *)
LEMMA BatchClosesOn ==
    ASSUME NEW x, BatchBody(x, {}), x.closing # "leaving", x.spare["close"] = <<>>,
           NEW v \in BatchClosings
    PROVE  LET y == [x EXCEPT !.closing = v]
           IN  /\ BatchBody(y, {}) /\ BatchSame(x, y) /\ y.queue = x.queue /\ y.spare = x.spare
               /\ y.closing = v /\ BatchTimer(x) => BatchTimer(y)
  <1> DEFINE y == [x EXCEPT !.closing = v]
  <1>1. /\ BatchCore(x) /\ x \in BatchStates /\ BatchHeld(x, x.batch, {})
        /\ Len(x.batch) <= RbBatchSize /\ BatchTies(x) /\ BatchAwaits(x, x.pending \cup {})
    BY BatchParts
  <1>2. /\ y \in BatchStates /\ y.queue = x.queue /\ y.outcome = x.outcome
        /\ y.batch = x.batch /\ y.spare = x.spare /\ y.drain = x.drain
        /\ y.pending = x.pending /\ y.socket = x.socket /\ y.exiting = x.exiting
        /\ y.accepting = x.accepting /\ y.joined = x.joined /\ y.interval = x.interval
        /\ y.retry = x.retry /\ y.exitFailed = x.exitFailed /\ y.closing = v
        /\ BatchSame(x, y)
    BY <1>1 DEF BatchStates, BatchSame
  <1> HIDE DEF y
  <1>3. BatchAwaits(y, y.pending \cup {})
    BY <1>1, <1>2 DEF BatchAwaits
  <1>4. BatchTies(y)
    BY <1>1, <1>2 DEF BatchTies
  <1>5. BatchCore(y) /\ BatchHeld(y, y.batch, {}) /\ Len(y.batch) <= RbBatchSize
    <2>1. Held(y) = Held(x)
      BY <1>2 DEF Held
    <2> QED
      BY <1>1, <1>2, <2>1 DEF BatchCore, BatchHeld
  <1> QED
    BY <1>2, <1>3, <1>4, <1>5 DEF BatchBody, BatchTimer, y

(* The next batch for the fallback, beside the drain.                       *)
LEMMA BatchSpareNext ==
    ASSUME NEW x, BatchGood(x), NEW c \in Batch!Spare, x.spare[c] = <<>>,
           c = "exit" => x.exiting, c = "close" => x.closing = "sparing" /\ ~x.accepting,
           NEW done, x.queue = <<>> => BatchGood(done)
    PROVE  BatchGood(Batch!SpareNext(x, c, done))
  <1> DEFINE n == Batch!BatchLength(x.queue)
             a == SubSeq(x.queue, 1, n)
             b == SubSeq(x.queue, n + 1, Len(x.queue))
             y == [x EXCEPT !.spare[c] = a, !.queue = b]
  <1>1. Batch!SpareNext(x, c, done) = IF x.queue = <<>> THEN done ELSE y
    BY DEF Batch!SpareNext
  <1>2. /\ BatchCore(x) /\ x \in BatchStates /\ BatchHeld(x, x.batch, {})
        /\ Len(x.batch) <= RbBatchSize /\ Len(x.queue) <= RbMaxQueue
        /\ BatchTies(x) /\ BatchAwaits(x, x.pending \cup {}) /\ BatchTimer(x)
    BY BatchParts DEF BatchGood
  <1>3. /\ x.queue \in Seq(RbItems) /\ Once(x.queue) /\ Len(x.queue) \in Nat
        /\ x.spare \in [Batch!Spare -> Seq(RbItems)]
    BY <1>2, BatchTypes DEF BatchHeld
  <1>4. /\ a \in Seq(RbItems) /\ Once(a)
        /\ b \in Seq(RbItems) /\ Once(b) /\ Len(b) <= Len(x.queue) /\ Len(b) \in Nat
        /\ Elements(x.queue) = Elements(a) \cup Elements(b)
        /\ Elements(a) \cap Elements(b) = {}
    BY <1>3, BatchCut
  <1> HIDE DEF a, b
  <1>5. /\ y \in BatchStates /\ BatchRest(x, y) /\ y.batch = x.batch
        /\ y.outcome = x.outcome /\ y.queue = b /\ y.spare = [x.spare EXCEPT ![c] = a]
    BY <1>2, <1>3, <1>4 DEF BatchStates, BatchRest, BatchSame
  <1> HIDE DEF y
  <1>6. /\ y.spare["exit"] = IF c = "exit" THEN a ELSE x.spare["exit"]
        /\ y.spare["close"] = IF c = "close" THEN a ELSE x.spare["close"]
        /\ c \in {"exit", "close"}
    BY <1>3, <1>5, BatchConstants
  <1>7. BatchHeld(y, y.batch, {})
    <2>1. Held(y) = Held(x)
      BY <1>5 DEF Held
    <2>2. /\ BatchApart(Elements(x.queue), Elements(x.batch), Elements(x.spare["exit"]),
                        Elements(x.spare["close"]), {}, Held(x))
          /\ Once(x.batch) /\ Once(x.spare["exit"]) /\ Once(x.spare["close"])
      BY <1>2 DEF BatchHeld
    <2>3. CASE c = "exit"
      <3>1. Elements(x.spare["exit"]) = {}
        BY <2>3, BatchEmpty
      <3>2. BatchApart(Elements(b), Elements(x.batch), Elements(a),
                       Elements(x.spare["close"]), {}, Held(x))
        BY <1>4, <2>2, <3>1 DEF BatchApart
      <3> QED
        BY <1>4, <1>5, <1>6, <2>1, <2>2, <2>3, <3>2 DEF BatchHeld
    <2>4. CASE c = "close"
      <3>1. Elements(x.spare["close"]) = {}
        BY <2>4, BatchEmpty
      <3>2. BatchApart(Elements(b), Elements(x.batch), Elements(x.spare["exit"]),
                       Elements(a), {}, Held(x))
        BY <1>4, <2>2, <3>1 DEF BatchApart
      <3> QED
        BY <1>4, <1>5, <1>6, <2>1, <2>2, <2>4, <3>2 DEF BatchHeld
    <2> QED
      BY <1>6, <2>3, <2>4
  <1>8. BatchTies(y)
    BY <1>2, <1>5, <1>6 DEF BatchTies, BatchRest, BatchSame
  <1>9. Len(b) <= RbMaxQueue
    BY <1>2, <1>3, <1>4, BatchConstants
  <1>10. BatchBody(y, {})
    BY <1>2, <1>5, <1>7, <1>8, <1>9 DEF BatchBody, BatchCore, BatchAwaits, BatchRest, BatchSame
  <1>11. x.queue # <<>> => BatchTimer(y)
    BY <1>2, <1>5 DEF BatchTimer, BatchRest, BatchSame
  <1> QED
    BY <1>1, <1>10, <1>11 DEF BatchGood

(* A message is sent, a join or a heartbeat.                                *)
LEMMA BatchSends ==
    ASSUME NEW x, BatchGood(x), Batch!Open(x), NEW what \in {"join", "beat"}, NEW s,
           IF what = "join" THEN s \in RbSockets ELSE s = 0
    PROVE  BatchGood(Batch!SendIt(x, what, s))
  <1> DEFINE p == [what |-> what, by |-> s, on |-> x.socket]
             pending == x.pending \cup {p}
             y == [x EXCEPT !.pending = pending]
  <1>1. Batch!SendIt(x, what, s) = y
    BY DEF Batch!SendIt
  <1>2. /\ BatchCore(x) /\ x \in BatchStates /\ BatchHeld(x, x.batch, {})
        /\ Len(x.batch) <= RbBatchSize /\ BatchTies(x) /\ BatchAwaits(x, x.pending \cup {})
        /\ BatchTimer(x) /\ x.pending \in SUBSET BatchReply /\ IsFiniteSet(x.pending)
    BY BatchParts, BatchTypes DEF BatchGood, BatchCore
  <1>3. x.socket \in RbSockets
    BY <1>2, BatchTypes DEF Batch!Open
  <1>4. p \in BatchReply /\ p.what = what
    BY <1>3 DEF BatchReply
  <1> HIDE DEF p
  <1>5. /\ pending \in SUBSET BatchReply /\ IsFiniteSet(pending)
        /\ \A q \in pending : q.what \in {"token", "batch", "leave"} => q \in x.pending
    BY <1>2, <1>4, FS_AddElement
  <1>6. x.pending \subseteq pending
    OBVIOUS
  <1> HIDE DEF pending
  <1>7. /\ y \in BatchStates /\ y.queue = x.queue /\ y.outcome = x.outcome
        /\ y.batch = x.batch /\ y.spare = x.spare /\ y.drain = x.drain
        /\ y.pending = pending /\ y.socket = x.socket /\ y.exiting = x.exiting
        /\ y.accepting = x.accepting /\ y.joined = x.joined /\ y.interval = x.interval
        /\ y.retry = x.retry /\ y.exitFailed = x.exitFailed /\ y.closing = x.closing
    BY <1>2, <1>5 DEF BatchStates
  <1> HIDE DEF y
  <1>8. BatchAwaits(y, y.pending \cup {})
    BY <1>2, <1>5, <1>6, <1>7 DEF BatchAwaits
  <1>9. BatchTies(y)
    BY <1>2, <1>5, <1>7 DEF BatchTies
  <1>10. BatchCore(y) /\ BatchHeld(y, y.batch, {}) /\ Len(y.batch) <= RbBatchSize
    <2>1. Held(y) = Held(x)
      BY <1>7 DEF Held
    <2> QED
      BY <1>2, <1>5, <1>7, <2>1 DEF BatchCore, BatchHeld
  <1> QED
    BY <1>1, <1>2, <1>7, <1>8, <1>9, <1>10 DEF BatchGood, BatchBody, BatchTimer

(* The drain sends its token or its batch, and awaits the reply.            *)
LEMMA BatchGoesOut ==
    ASSUME NEW x, BatchLoose(x, {}), Len(x.batch) <= RbBatchSize,
           NEW what, NEW next, <<what, next>> \in {<<"token", "refreshing">>, <<"batch", "awaiting">>}
    PROVE  BatchGood(Batch!Out(x, what, next))
  <1> DEFINE p == [what |-> what, by |-> 0, on |-> x.socket]
             pending == x.pending \cup {p}
             y == [x EXCEPT !.drain = next, !.pending = pending]
             z == Batch!BatchFails(x)
  <1>1. what \in {"token", "batch"} /\ next \in {"refreshing", "awaiting"}
        /\ (what = "token" <=> next = "refreshing") /\ (what = "batch" <=> next = "awaiting")
    OBVIOUS
  <1>2. /\ BatchCore(x) /\ BatchHeld(x, x.batch, {}) /\ BatchFree(x, {})
        /\ BatchLeaves(x, x.pending \cup {}) /\ x \in BatchStates
        /\ x.spare["exit"] # <<>> => x.exiting
        /\ x.spare["close"] # <<>> => x.closing = "sparing" /\ ~x.accepting
        /\ x.pending \in SUBSET BatchReply /\ IsFiniteSet(x.pending)
    BY BatchTypes DEF BatchLoose, BatchCore
  <1>3. Batch!Out(x, what, next) = IF Batch!CanSend(x, what) THEN y ELSE z
    BY <1>2 DEF Batch!Out, Batch!SendIt, BatchStates
  <1>4. BatchGood(z)
    <2>1. BatchBody(z, {}) /\ z.drain # "off"
      BY BatchFailed
    <2> HIDE DEF z
    <2> QED
      BY <2>1 DEF BatchGood, BatchTimer
  <1>5. ASSUME Batch!CanSend(x, what) PROVE BatchGood(y)
    <2>1. x.joined /\ x.socket \in RbSockets
      BY <1>1, <1>2, <1>5, BatchTypes DEF Batch!CanSend, Batch!Open
    <2>2. p \in BatchReply /\ p.what = what /\ p.on = x.socket
      BY <1>1, <2>1 DEF BatchReply
    <2> HIDE DEF p
    <2>3. /\ pending \in SUBSET BatchReply /\ IsFiniteSet(pending) /\ p \in pending
          /\ \A q \in pending : q \in x.pending \/ q = p
      BY <1>2, <2>2, FS_AddElement
    <2> HIDE DEF pending
    <2>4. /\ y \in BatchStates /\ y.queue = x.queue /\ y.outcome = x.outcome
          /\ y.batch = x.batch /\ y.spare = x.spare /\ y.drain = next
          /\ y.pending = pending /\ y.socket = x.socket /\ y.exiting = x.exiting
          /\ y.accepting = x.accepting /\ y.joined = x.joined /\ y.closing = x.closing
      BY <1>1, <1>2, <2>3 DEF BatchStates, BatchDrains
    <2> HIDE DEF y
    <2>5. \A q \in pending : (q.what \in {"token", "batch"} => q = p)
                             /\ (q.what = "leave" => q \in x.pending)
      BY <1>1, <1>2, <2>2, <2>3 DEF BatchFree
    <2>6. BatchAwaits(y, y.pending \cup {})
      <3>1. y.drain = "awaiting" <=> \E q \in pending : q.what = "batch"
        BY <1>1, <2>2, <2>3, <2>4, <2>5
      <3>2. y.drain = "refreshing" <=> \E q \in pending : q.what = "token"
        BY <1>1, <2>2, <2>3, <2>4, <2>5
      <3>3. /\ \A q \in pending : q.what = "leave" => y.closing = "leaving"
            /\ \A q, r \in pending : q.what = "leave" /\ r.what = "leave" => q = r
        BY <1>2, <2>4, <2>5 DEF BatchLeaves
      <3> QED
        BY <2>4, <2>5, <3>1, <3>2, <3>3 DEF BatchAwaits
    <2>7. BatchTies(y)
      <3>1. y.drain \notin {"off", "ending", "failing"}
        BY <1>1, <2>4
      <3>2. \A q \in y.pending : q.what \in {"token", "batch"} => y.joined /\ q.on = y.socket
        BY <2>1, <2>2, <2>4, <2>5
      <3> QED
        BY <1>2, <2>4, <3>1, <3>2 DEF BatchTies
    <2>8. BatchCore(y) /\ BatchHeld(y, y.batch, {}) /\ Len(y.batch) <= RbBatchSize
      <3>1. Held(y) = Held(x)
        BY <2>4 DEF Held
      <3> QED
        BY <1>2, <2>3, <2>4, <3>1 DEF BatchCore, BatchHeld
    <2>9. BatchTimer(y)
      BY <1>1, <2>4 DEF BatchTimer
    <2> QED
      BY <2>6, <2>7, <2>8, <2>9 DEF BatchGood, BatchBody
  <1> QED
    BY <1>3, <1>4, <1>5

(* A reply is taken from those awaited.                                     *)
LEMMA BatchPops ==
    ASSUME NEW x, BatchGood(x), NEW p \in x.pending
    PROVE  LET y == [x EXCEPT !.pending = @ \ {p}]
           IN  /\ BatchBody(y, {p}) /\ BatchTimer(y) /\ p \in BatchReply /\ p \notin y.pending
               /\ y \in BatchStates /\ y.joined = x.joined /\ y.socket = x.socket
               /\ y.ready = x.ready /\ y.connect = x.connect /\ y.drain = x.drain
               /\ p.what \in {"token", "batch"} => x.joined /\ p.on = x.socket
               /\ p.what \notin {"token", "batch"} => BatchBody(y, {})
  <1> DEFINE pending == x.pending \ {p}
             y == [x EXCEPT !.pending = pending]
  <1>1. /\ BatchCore(x) /\ x \in BatchStates /\ BatchHeld(x, x.batch, {})
        /\ Len(x.batch) <= RbBatchSize /\ BatchTies(x) /\ BatchAwaits(x, x.pending \cup {})
        /\ BatchTimer(x) /\ x.pending \in SUBSET BatchReply /\ IsFiniteSet(x.pending)
    BY BatchParts, BatchTypes DEF BatchGood, BatchCore
  <1>2. /\ pending \in SUBSET BatchReply /\ IsFiniteSet(pending)
        /\ pending \cup {p} = x.pending \cup {} /\ pending \subseteq x.pending
        /\ p \in BatchReply /\ p \notin pending
    BY <1>1, FS_RemoveElement
  <1>3. \A q \in x.pending : q \in pending \/ q = p
    OBVIOUS
  <1> HIDE DEF pending
  <1>4. /\ y \in BatchStates /\ y.queue = x.queue /\ y.outcome = x.outcome
        /\ y.batch = x.batch /\ y.spare = x.spare /\ y.drain = x.drain
        /\ y.pending = pending /\ y.socket = x.socket /\ y.exiting = x.exiting
        /\ y.accepting = x.accepting /\ y.joined = x.joined /\ y.interval = x.interval
        /\ y.retry = x.retry /\ y.exitFailed = x.exitFailed /\ y.closing = x.closing
        /\ y.ready = x.ready /\ y.connect = x.connect
    BY <1>1, <1>2 DEF BatchStates
  <1> HIDE DEF y
  <1>5. BatchAwaits(y, y.pending \cup {p})
    BY <1>1, <1>2, <1>4 DEF BatchAwaits
  <1>6. p.what \notin {"token", "batch"} => BatchAwaits(y, y.pending \cup {})
    BY <1>1, <1>2, <1>3, <1>4 DEF BatchAwaits
  <1>7. BatchTies(y)
    BY <1>1, <1>2, <1>4 DEF BatchTies
  <1>8. BatchCore(y) /\ BatchHeld(y, y.batch, {}) /\ Len(y.batch) <= RbBatchSize
    <2>1. Held(y) = Held(x)
      BY <1>4 DEF Held
    <2> QED
      BY <1>1, <1>2, <1>4, <2>1 DEF BatchCore, BatchHeld
  <1>9. p.what \in {"token", "batch"} => x.joined /\ p.on = x.socket
    BY <1>1 DEF BatchTies
  <1>10. BatchTimer(y)
    BY <1>1, <1>4 DEF BatchTimer
  <1>11. y = [x EXCEPT !.pending = x.pending \ {p}]
    BY DEF y, pending
  <1> QED
    BY <1>2, <1>4, <1>5, <1>6, <1>7, <1>8, <1>9, <1>10, <1>11 DEF BatchBody

(* A batch of the fallback beside the drain settles.                        *)
LEMMA BatchSpareSettles ==
    ASSUME BatchGood(state), NEW c \in Batch!Spare, NEW ok \in BOOLEAN,
           Batch!SpareSettles(c, ok)
    PROVE  BatchGood(state')
  <1> DEFINE w == state
             b == w.spare[c]
             x == [w EXCEPT !.spare[c] = <<>>]
             y == Batch!Delivered(x, b)
             z == Batch!RestoreBatch(x, b)
  <1>1. /\ b # <<>>
        /\ state' = IF ok THEN Batch!SpareNext(y, c, IF c = "exit" THEN [y EXCEPT !.exiting = FALSE]
                                                     ELSE Batch!CloseDrained(y))
                    ELSE IF c = "exit" THEN [z EXCEPT !.exiting = FALSE, !.exitFailed = TRUE]
                    ELSE Batch!RejectAll(Batch!Disconnect([z EXCEPT !.closing = "failed"]),
                                         z.pending)
    BY DEF Batch!SpareSettles
  <1>2. /\ BatchCore(w) /\ w \in BatchStates /\ BatchHeld(w, w.batch, {})
        /\ Len(w.batch) <= RbBatchSize /\ Len(w.queue) <= RbMaxQueue
        /\ BatchTies(w) /\ BatchAwaits(w, w.pending \cup {}) /\ BatchTimer(w)
        /\ BatchBody(w, {}) /\ w.batch \in Seq(RbItems)
    BY BatchParts DEF BatchGood
  <1>3. /\ w.spare \in [Batch!Spare -> Seq(RbItems)] /\ b \in Seq(RbItems)
        /\ w.outcome \in [RbItems -> {"new", "held", "delivered", "dropped"}]
        /\ c \in {"exit", "close"}
    BY <1>2, BatchTypes, BatchConstants
  <1>4. /\ x \in BatchStates /\ BatchRest(w, x) /\ x.queue = w.queue
        /\ x.outcome = w.outcome /\ x.batch = w.batch
        /\ x.spare = [w.spare EXCEPT ![c] = <<>>]
    BY <1>2, <1>3, BatchEmpty DEF BatchStates, BatchRest, BatchSame
  <1>5. /\ b = IF c = "exit" THEN w.spare["exit"] ELSE w.spare["close"]
        /\ x.spare[c] = <<>>
        /\ x.spare["exit"] = IF c = "exit" THEN <<>> ELSE w.spare["exit"]
        /\ x.spare["close"] = IF c = "close" THEN <<>> ELSE w.spare["close"]
    BY <1>3, <1>4, BatchConstants
  <1>6. /\ c = "exit" => w.exiting
        /\ c = "close" => w.closing = "sparing" /\ ~w.accepting
    BY <1>1, <1>2, <1>3, <1>5 DEF BatchTies
  <1> HIDE DEF w, x, b
  <1>7. Once(b) /\ BatchHeld(x, x.batch, Elements(b))
    <2>1. Held(x) = Held(w)
      BY <1>4 DEF Held
    <2>2. /\ BatchApart(Elements(w.queue), Elements(w.batch), Elements(w.spare["exit"]),
                        Elements(w.spare["close"]), {}, Held(w))
          /\ Once(w.queue) /\ Once(w.batch) /\ Once(w.spare["exit"]) /\ Once(w.spare["close"])
      BY <1>2 DEF BatchHeld
    <2>3. CASE c = "exit"
      <3>1. BatchApart(Elements(w.queue), Elements(w.batch), {},
                       Elements(w.spare["close"]), Elements(b), Held(w))
        BY <1>5, <2>2, <2>3 DEF BatchApart
      <3> QED
        BY <1>4, <1>5, <2>1, <2>2, <2>3, <3>1, BatchEmpty DEF BatchHeld
    <2>4. CASE c = "close"
      <3>1. BatchApart(Elements(w.queue), Elements(w.batch), Elements(w.spare["exit"]),
                       {}, Elements(b), Held(w))
        BY <1>5, <2>2, <2>4 DEF BatchApart
      <3> QED
        BY <1>4, <1>5, <2>1, <2>2, <2>4, <3>1, BatchEmpty DEF BatchHeld
    <2> QED
      BY <1>3, <2>3, <2>4
  <1>8. ASSUME NEW v \in BatchStates, BatchRest(x, v), v.batch = x.batch, v.spare = x.spare,
               BatchHeld(v, v.batch, {}), Len(v.queue) <= RbMaxQueue
        PROVE  BatchBody(v, {})
    <2>1. BatchTies(v)
      BY <1>2, <1>4, <1>5, <1>6, <1>8 DEF BatchTies, BatchRest, BatchSame
    <2>2. BatchAwaits(v, v.pending \cup {})
      BY <1>2, <1>4, <1>8 DEF BatchAwaits, BatchRest, BatchSame
    <2>3. BatchCore(v) /\ Len(v.batch) <= RbBatchSize
      BY <1>2, <1>4, <1>8 DEF BatchCore, BatchRest, BatchSame
    <2> QED
      BY <1>8, <2>1, <2>2, <2>3 DEF BatchBody
  <1>9. CASE ok
    <2> DEFINE outcome == [i \in RbItems |->
                              IF i \in Batch!Range(b) THEN "delivered" ELSE x.outcome[i]]
    <2>1. y = [x EXCEPT !.outcome = outcome]
      BY DEF Batch!Delivered
    <2>2. Batch!Range(b) = Elements(b)
      BY <1>3, ElementsType DEF Range, Batch!Range
    <2>3. /\ outcome \in [RbItems -> {"new", "held", "delivered", "dropped"}]
          /\ \A i \in RbItems :
                 outcome[i] = "held" <=> x.outcome[i] = "held" /\ i \notin Elements(b)
      BY <1>3, <1>4, <2>2
    <2> HIDE DEF outcome
    <2> HIDE DEF y
    <2>4. /\ y \in BatchStates /\ BatchRest(x, y) /\ y.queue = x.queue
          /\ y.outcome = outcome /\ y.batch = x.batch /\ y.spare = x.spare
      <3>1. y \in BatchStates
        BY <1>4, <2>1, <2>3 DEF BatchStates
      <3>2. /\ BatchRest(x, y) /\ y.queue = x.queue /\ y.outcome = outcome
            /\ y.batch = x.batch /\ y.spare = x.spare
        BY <1>4, <2>1 DEF BatchStates, BatchRest, BatchSame
      <3> QED
        BY <3>1, <3>2
    <2>5. BatchHeld(y, y.batch, {})
      <3>1. Held(y) = Held(x) \ Elements(b)
        BY <2>3, <2>4 DEF Held
      <3>2. BatchApart(Elements(x.queue), Elements(x.batch), Elements(x.spare["exit"]),
                       Elements(x.spare["close"]), {}, Held(y))
        BY <1>7, <3>1 DEF BatchHeld, BatchApart
      <3> QED
        BY <1>7, <2>4, <3>2 DEF BatchHeld
    <2>6. BatchBody(y, {})
      BY <1>2, <1>4, <1>8, <2>4, <2>5
    <2>7. BatchTimer(y)
      BY <1>2, <1>4, <2>4 DEF BatchTimer, BatchRest, BatchSame
    <2>8. /\ y.exiting = w.exiting /\ y.closing = w.closing /\ y.accepting = w.accepting
          /\ y.spare[c] = <<>>
      BY <1>4, <1>5, <2>4 DEF BatchRest, BatchSame
    <2> DEFINE exits == [y EXCEPT !.exiting = FALSE]
               done == IF c = "exit" THEN exits ELSE Batch!CloseDrained(y)
    <2>9. c = "exit" /\ y.queue = <<>> => BatchGood(exits)
      <3>1. SUFFICES ASSUME c = "exit", y.queue = <<>> PROVE BatchGood(exits)
        OBVIOUS
      <3>2. /\ BatchCore(y) /\ y \in BatchStates /\ BatchHeld(y, y.batch, {})
            /\ Len(y.batch) <= RbBatchSize /\ BatchTies(y) /\ BatchAwaits(y, y.pending \cup {})
        BY <2>6, BatchParts
      <3>3. /\ exits \in BatchStates /\ exits.queue = y.queue /\ exits.outcome = y.outcome
            /\ exits.batch = y.batch /\ exits.spare = y.spare /\ exits.drain = y.drain
            /\ exits.pending = y.pending /\ exits.socket = y.socket
            /\ exits.accepting = y.accepting /\ exits.joined = y.joined
            /\ exits.closing = y.closing
        BY <3>2 DEF BatchStates
      <3> HIDE DEF exits
      <3>4. exits.spare["exit"] = <<>>
        BY <2>8, <3>1, <3>3
      <3>5. BatchTies(exits)
        BY <3>2, <3>3, <3>4 DEF BatchTies
      <3>6. BatchAwaits(exits, exits.pending \cup {})
        BY <3>2, <3>3 DEF BatchAwaits
      <3>7. BatchCore(exits) /\ BatchHeld(exits, exits.batch, {})
            /\ Len(exits.batch) <= RbBatchSize
        <4>1. Held(exits) = Held(y)
          BY <3>3 DEF Held
        <4> QED
          BY <3>2, <3>3, <4>1 DEF BatchCore, BatchHeld
      <3> QED
        BY <3>1, <3>3, <3>5, <3>6, <3>7 DEF BatchGood, BatchBody, BatchTimer
    <2>10. c = "close" => BatchGood(Batch!CloseDrained(y))
      <3>1. SUFFICES ASSUME c = "close" PROVE BatchGood(Batch!CloseDrained(y))
        OBVIOUS
      <3>2. y.closing # "leaving" /\ y.spare["close"] = <<>> /\ "leave" \in BatchClosings
        BY <1>6, <2>8, <3>1 DEF BatchClosings
      <3> QED
        BY <2>6, <2>7, <3>2, BatchClosesOn DEF BatchGood, Batch!CloseDrained
    <2> HIDE DEF exits
    <2>11. y.queue = <<>> => BatchGood(done)
      BY <1>3, <2>9, <2>10
    <2>12. state' = Batch!SpareNext(y, c, done)
      BY <1>1, <1>9 DEF exits
    <2> HIDE DEF done
    <2> QED
      BY <1>6, <2>6, <2>7, <2>8, <2>11, <2>12, BatchSpareNext DEF BatchGood
  <1>10. CASE ~ok
    <2>1. /\ z \in BatchStates /\ BatchHeld(z, z.batch, {}) /\ Len(z.queue) <= RbMaxQueue
          /\ BatchRest(x, z) /\ z.batch = x.batch /\ z.spare = x.spare
      BY <1>2, <1>3, <1>4, <1>7, BatchRestored
    <2> HIDE DEF z
    <2>2. BatchBody(z, {})
      BY <1>8, <2>1
    <2>3. /\ z.exiting = w.exiting /\ z.closing = w.closing /\ z.accepting = w.accepting
          /\ z.spare[c] = <<>>
      BY <1>4, <1>5, <2>1 DEF BatchRest, BatchSame
    <2>4. CASE c = "exit"
      <3> DEFINE exits == [z EXCEPT !.exiting = FALSE, !.exitFailed = TRUE]
      <3>1. state' = exits
        BY <1>1, <1>10, <2>4
      <3>2. /\ BatchCore(z) /\ z \in BatchStates /\ BatchHeld(z, z.batch, {})
            /\ Len(z.batch) <= RbBatchSize /\ BatchTies(z) /\ BatchAwaits(z, z.pending \cup {})
        BY <2>2, BatchParts
      <3>3. /\ exits \in BatchStates /\ exits.queue = z.queue /\ exits.outcome = z.outcome
            /\ exits.batch = z.batch /\ exits.spare = z.spare /\ exits.drain = z.drain
            /\ exits.pending = z.pending /\ exits.socket = z.socket
            /\ exits.accepting = z.accepting /\ exits.joined = z.joined
            /\ exits.closing = z.closing /\ exits.exitFailed
        <4>1. exits \in BatchStates
          BY <3>2 DEF BatchStates
        <4>2. /\ exits.queue = z.queue /\ exits.outcome = z.outcome
              /\ exits.batch = z.batch /\ exits.spare = z.spare /\ exits.drain = z.drain
              /\ exits.pending = z.pending /\ exits.socket = z.socket
          BY <3>2 DEF BatchStates
        <4>3. /\ exits.accepting = z.accepting /\ exits.joined = z.joined
              /\ exits.closing = z.closing /\ exits.exitFailed
          BY <3>2 DEF BatchStates
        <4> QED
          BY <4>1, <4>2, <4>3
      <3> HIDE DEF exits
      <3>4. exits.spare["exit"] = <<>>
        BY <2>3, <2>4, <3>3
      <3>5. BatchTies(exits)
        BY <3>2, <3>3, <3>4 DEF BatchTies
      <3>6. BatchAwaits(exits, exits.pending \cup {})
        BY <3>2, <3>3 DEF BatchAwaits
      <3>7. BatchCore(exits) /\ BatchHeld(exits, exits.batch, {})
            /\ Len(exits.batch) <= RbBatchSize
        <4>1. Held(exits) = Held(z)
          BY <3>3 DEF Held
        <4> QED
          BY <3>2, <3>3, <4>1 DEF BatchCore, BatchHeld
      <3> QED
        BY <3>1, <3>3, <3>5, <3>6, <3>7 DEF BatchGood, BatchBody, BatchTimer
    <2>5. CASE c = "close"
      <3> DEFINE u == [z EXCEPT !.closing = "failed"]
      <3>1. z.closing # "leaving" /\ z.spare["close"] = <<>> /\ "failed" \in BatchClosings
        BY <1>6, <2>3, <2>5 DEF BatchClosings
      <3>2. BatchBody(u, {}) /\ BatchSame(z, u)
        BY <2>2, <3>1, BatchClosesOn
      <3> HIDE DEF u
      <3>3. ~u.accepting /\ u.pending = z.pending
        BY <1>6, <2>3, <2>5, <3>2 DEF BatchSame
      <3>4. BatchGood(u)
        BY <3>2, <3>3 DEF BatchGood, BatchTimer
      <3>5. state' = Batch!RejectAll(Batch!Disconnect(u), u.pending)
        BY <1>1, <1>10, <2>5, <3>3 DEF u
      <3> QED
        BY <3>4, <3>5, BatchGivesUp
    <2> QED
      BY <1>3, <2>4, <2>5
  <1> QED
    BY <1>9, <1>10

LEMMA BatchWrites ==
    ASSUME BatchGood(state), NEW i \in RbItems, Batch!RbWrite(i) \/ Batch!Exit(i)
    PROVE  BatchGood(state')
  <1> DEFINE w == state
             x == Batch!Enqueue(w, i)
  <1>1. /\ w.outcome[i] = "new" /\ Batch!Sure(w)
        /\ \/ state' = IF x.outcome[i] # "held" THEN x
                       ELSE IF Len(x.queue) >= RbBatchSize \/ x.awaitDelivery
                       THEN Batch!FlushRb(x) ELSE Batch!ScheduleInterval(x)
           \/ /\ ~w.exiting
              /\ state' = IF ~x.hasFallback THEN Batch!FlushRb(x)
                          ELSE Batch!SpareNext([x EXCEPT !.exiting = TRUE], "exit", x)
    BY DEF Batch!RbWrite, Batch!Exit
  <1>2. /\ BatchCore(w) /\ w \in BatchStates /\ BatchHeld(w, w.batch, {})
        /\ Len(w.queue) <= RbMaxQueue /\ w.batch \in Seq(RbItems)
        /\ BatchBody(w, {}) /\ BatchTimer(w) /\ BatchTies(w)
    BY BatchParts DEF BatchGood
  <1>3. /\ x \in BatchStates /\ BatchHeld(x, w.batch, {}) /\ Len(x.queue) <= RbMaxQueue
        /\ BatchRest(w, x) /\ x.batch = w.batch /\ x.spare = w.spare
        /\ x.outcome[i] # "held" => x.queue = w.queue
    BY <1>1, <1>2, BatchEnqueued
  <1> HIDE DEF w, x
  <1>4. BatchBody(x, {})
    BY <1>2, <1>3, BatchSameKeeps
  <1>5. Batch!Sure(x) /\ BatchSame(w, x)
    BY <1>1, <1>3, BatchSure DEF BatchRest
  <1> DEFINE flushed == Batch!FlushRb(x)
  <1>6. BatchGood(flushed)
    <2>1. BatchBody(flushed, {}) /\ flushed.drain # "off"
      BY <1>4, <1>5, BatchFlush
    <2> HIDE DEF flushed
    <2> QED
      BY <2>1 DEF BatchGood, BatchTimer
  <1>7. BatchGood(Batch!ScheduleInterval(x))
    BY <1>4, BatchSchedules DEF BatchGood
  <1>8. x.outcome[i] # "held" => BatchGood(x)
    BY <1>2, <1>3, <1>4 DEF BatchGood, BatchTimer, BatchRest, BatchSame
  <1>9. ASSUME ~w.exiting
        PROVE  BatchGood(Batch!SpareNext([x EXCEPT !.exiting = TRUE], "exit", x))
    <2> DEFINE u == [x EXCEPT !.exiting = TRUE]
    <2>1. /\ BatchCore(x) /\ BatchHeld(x, x.batch, {}) /\ Len(x.batch) <= RbBatchSize
          /\ BatchTies(x) /\ BatchAwaits(x, x.pending \cup {})
      BY <1>4, BatchParts
    <2>2. /\ u \in BatchStates /\ u.queue = x.queue /\ u.outcome = x.outcome
          /\ u.batch = x.batch /\ u.spare = x.spare /\ u.drain = x.drain
          /\ u.pending = x.pending /\ u.socket = x.socket
          /\ u.accepting = x.accepting /\ u.joined = x.joined
          /\ u.closing = x.closing /\ u.exiting
      BY <1>3 DEF BatchStates
    <2> HIDE DEF u
    <2>3. BatchTies(u)
      BY <2>1, <2>2 DEF BatchTies
    <2>4. BatchAwaits(u, u.pending \cup {})
      BY <2>1, <2>2 DEF BatchAwaits
    <2>5. BatchCore(u) /\ BatchHeld(u, u.batch, {}) /\ Len(u.batch) <= RbBatchSize
      <3>1. Held(u) = Held(x)
        BY <2>2 DEF Held
      <3> QED
        BY <2>1, <2>2, <3>1 DEF BatchCore, BatchHeld
    <2>6. BatchGood(u)
      BY <2>2, <2>3, <2>4, <2>5 DEF BatchGood, BatchBody, BatchTimer
    <2>7. u.spare["exit"] = <<>>
      BY <1>2, <1>3, <1>9, <2>2 DEF BatchTies
    <2>8. u.queue = <<>> => BatchGood(x)
      BY <1>4, <2>2 DEF BatchGood, BatchTimer
    <2>9. "exit" \in Batch!Spare /\ "exit" # "close"
      BY BatchConstants
    <2>10. BatchGood(Batch!SpareNext(u, "exit", x))
      BY <2>2, <2>6, <2>7, <2>8, <2>9, BatchSpareNext
    <2> QED
      BY <2>10 DEF u
  <1> QED
    BY <1>1, <1>6, <1>7, <1>8, <1>9 DEF w, x

-----------------------------------------------------------------------------
(* The steps.                                                               *)

(* A drain that runs looks after the queue.                                 *)
LEMMA BatchRuns ==
    ASSUME NEW x, BatchBody(x, {}), x.drain # "off"
    PROVE  BatchGood(x)
  BY DEF BatchGood, BatchTimer

LEMMA BatchAsideGood ==
    ASSUME NEW x, BatchGood(x), NEW y \in BatchStates, BatchAside(x, y),
           y.interval = x.interval, y.retry = x.retry, y.exitFailed = x.exitFailed
    PROVE  BatchGood(y)
  BY BatchAsideKeeps DEF BatchGood, BatchTimer, BatchAside

LEMMA BatchFlushGood ==
    ASSUME NEW x, BatchBody(x, {}), x.closed \/ Batch!Sure(x)
    PROVE  BatchGood(Batch!FlushRb(x))
  <1> DEFINE y == Batch!FlushRb(x)
  <1>1. BatchBody(y, {}) /\ y.drain # "off"
    BY BatchFlush
  <1> HIDE DEF y
  <1>2. BatchGood(y)
    BY <1>1, BatchRuns
  <1> QED
    BY <1>2 DEF y

LEMMA BatchFailedGood ==
    ASSUME NEW x, BatchLoose(x, {})
    PROVE  BatchGood(Batch!BatchFails(x))
  <1> DEFINE y == Batch!BatchFails(x)
  <1>1. BatchBody(y, {}) /\ y.drain # "off"
    BY BatchFailed
  <1> HIDE DEF y
  <1>2. BatchGood(y)
    BY <1>1, BatchRuns
  <1> QED
    BY <1>2 DEF y

LEMMA BatchSentGood ==
    ASSUME NEW x, BatchLoose(x, {}), x.closed \/ Batch!Sure(x)
    PROVE  BatchGood(Batch!BatchSent(x))
  <1> DEFINE y == Batch!BatchSent(x)
  <1>1. BatchBody(y, {}) /\ y.drain # "off"
    BY BatchIsSent
  <1> HIDE DEF y
  <1>2. BatchGood(y)
    BY <1>1, BatchRuns
  <1> QED
    BY <1>2 DEF y

LEMMA BatchFinishGood ==
    ASSUME NEW x, BatchGood(x), NEW s \in RbSockets
    PROVE  BatchGood(Batch!FinishFails(x, s))
  <1> DEFINE y == Batch!FinishFails(x, s)
  <1>1. BatchBody(y, {}) /\ BatchTimer(y)
    BY BatchFinishFails DEF BatchGood
  <1> HIDE DEF y
  <1> QED
    BY <1>1 DEF BatchGood, y

(* A drain that is over lets go; it has no batch.                           *)
LEMMA BatchStops ==
    ASSUME NEW x, BatchBody(x, {}), x.drain \in {"ending", "failing"}
    PROVE  LET y == [x EXCEPT !.drain = "off"]
           IN  BatchBody(y, {}) /\ BatchSame(x, y) /\ y.closing = x.closing /\ y.spare = x.spare
  <1> DEFINE y == [x EXCEPT !.drain = "off"]
  <1>1. /\ BatchCore(x) /\ x \in BatchStates /\ BatchHeld(x, x.batch, {})
        /\ Len(x.batch) <= RbBatchSize /\ BatchTies(x) /\ BatchAwaits(x, x.pending \cup {})
    BY BatchParts
  <1>2. /\ y \in BatchStates /\ y.queue = x.queue /\ y.outcome = x.outcome
        /\ y.batch = x.batch /\ y.spare = x.spare /\ y.drain = "off"
        /\ y.pending = x.pending /\ y.socket = x.socket /\ y.exiting = x.exiting
        /\ y.accepting = x.accepting /\ y.joined = x.joined /\ y.closing = x.closing
        /\ BatchSame(x, y)
    BY <1>1 DEF BatchStates, BatchDrains, BatchSame
  <1> HIDE DEF y
  <1>3. BatchAwaits(y, y.pending \cup {})
    BY <1>1, <1>2 DEF BatchAwaits
  <1>4. BatchTies(y)
    BY <1>1, <1>2 DEF BatchTies
  <1>5. BatchCore(y) /\ BatchHeld(y, y.batch, {}) /\ Len(y.batch) <= RbBatchSize
    <2>1. Held(y) = Held(x)
      BY <1>2 DEF Held
    <2> QED
      BY <1>1, <1>2, <2>1 DEF BatchCore, BatchHeld
  <1> QED
    BY <1>2, <1>3, <1>4, <1>5 DEF BatchBody, y

(* close() waits for neither a leave nor the fallback at this stage.        *)
LEMMA BatchStage ==
    ASSUME NEW x, BatchBody(x, {}), x.closing # "sparing"
    PROVE  x.spare["close"] = <<>>
  BY DEF BatchBody, BatchTies

LEMMA BatchEnds ==
    ASSUME BatchGood(state), Batch!DrainEnds \/ Batch!DrainFails
    PROVE  BatchGood(state')
  <1> DEFINE w == state
             u == [w EXCEPT !.drain = "off"]
  <1>1. /\ w.drain \in {"ending", "failing"}
        /\ \E x \in {Batch!ScheduleInterval(u), Batch!ScheduleRetry(u)} :
              \/ w.closing # "draining" /\ state' = x
              \/ w.closing = "draining" /\ state' = [x EXCEPT !.closing = "leave"]
              \/ /\ w.closing = "draining"
                 /\ state' = Batch!RejectAll(Batch!Disconnect([x EXCEPT !.closing = "failed"]),
                                             x.pending)
    BY DEF Batch!DrainEnds, Batch!DrainFails
  <1>2. BatchBody(w, {}) /\ BatchBody(u, {}) /\ u.closing = w.closing /\ u.spare = w.spare
    BY <1>1, BatchStops DEF BatchGood
  <1> HIDE DEF w, u
  <1>3. PICK x \in {Batch!ScheduleInterval(u), Batch!ScheduleRetry(u)} :
              \/ w.closing # "draining" /\ state' = x
              \/ w.closing = "draining" /\ state' = [x EXCEPT !.closing = "leave"]
              \/ /\ w.closing = "draining"
                 /\ state' = Batch!RejectAll(Batch!Disconnect([x EXCEPT !.closing = "failed"]),
                                             x.pending)
    BY <1>1
  <1>4. BatchBody(x, {}) /\ BatchTimer(x) /\ x.closing = w.closing
    BY <1>2, BatchSchedules
  <1>5. CASE w.closing # "draining"
    BY <1>3, <1>4, <1>5 DEF BatchGood
  <1>6. CASE w.closing = "draining"
    <2>1. x.closing # "leaving" /\ x.spare["close"] = <<>>
      BY <1>4, <1>6, BatchStage
    <2>2. ASSUME NEW v \in BatchClosings
          PROVE  /\ BatchGood([x EXCEPT !.closing = v])
                 /\ [x EXCEPT !.closing = v].pending = x.pending
      BY <1>4, <2>1, BatchClosesOn DEF BatchGood, BatchSame
    <2>3. "leave" \in BatchClosings /\ "failed" \in BatchClosings
      BY DEF BatchClosings
    <2> DEFINE v == [x EXCEPT !.closing = "leave"]
               z == [x EXCEPT !.closing = "failed"]
    <2>4. BatchGood(v) /\ BatchGood(z) /\ z.pending = x.pending
      BY <2>2, <2>3
    <2>5. state' = v \/ state' = Batch!RejectAll(Batch!Disconnect(z), x.pending)
      BY <1>3, <1>6
    <2> HIDE DEF v, z
    <2> QED
      BY <2>4, <2>5, BatchGivesUp
  <1> QED
    BY <1>5, <1>6

(* The timers.                                                              *)
LEMMA BatchTimers ==
    ASSUME BatchGood(state), Batch!RbFlush \/ Batch!IntervalFires \/ Batch!RetryFires
    PROVE  BatchGood(state')
  <1> DEFINE w == state
             u == [w EXCEPT !.interval = FALSE]
             v == [w EXCEPT !.retry = FALSE]
             d == Batch!Disconnect(v)
             f == Batch!FlushRb(d)
             P == w.pending
  <1>1. \/ Batch!Sure(w) /\ state' = Batch!FlushRb(w)
        \/ Batch!Sure(w) /\ state' = Batch!FlushRb(u)
        \/ Batch!CanConnect(w) /\ state' = Batch!RejectAll(f, P)
    BY DEF Batch!RbFlush, Batch!IntervalFires, Batch!RetryFires
  <1>2. BatchBody(w, {}) /\ w \in BatchStates
    BY BatchParts DEF BatchGood
  <1> HIDE DEF w
  <1>3. /\ u \in BatchStates /\ BatchAside(w, u) /\ BatchSame(w, u)
        /\ v \in BatchStates /\ BatchAside(w, v) /\ BatchSame(w, v) /\ v.pending = P
    <2>1. u \in BatchStates /\ BatchAside(w, u) /\ BatchSame(w, u)
      BY <1>2 DEF BatchStates, BatchAside, BatchSame
    <2>2. v \in BatchStates /\ BatchAside(w, v) /\ BatchSame(w, v) /\ v.pending = P
      BY <1>2 DEF BatchStates, BatchAside, BatchSame
    <2> QED
      BY <2>1, <2>2
  <1> HIDE DEF u, v
  <1>4. BatchBody(u, {}) /\ BatchBody(v, {})
    BY <1>2, <1>3, BatchAsideKeeps
  <1>5. CASE Batch!Sure(w) /\ state' = Batch!FlushRb(w)
    BY <1>2, <1>5, BatchFlushGood
  <1>6. CASE Batch!Sure(w) /\ state' = Batch!FlushRb(u)
    BY <1>3, <1>4, <1>6, BatchSure, BatchFlushGood
  <1>7. CASE Batch!CanConnect(w) /\ state' = Batch!RejectAll(f, P)
    <2>1. Batch!CanConnect(v)
      BY <1>3, <1>7 DEF BatchSame, Batch!CanConnect
    <2>2. /\ BatchBody(d, v.pending) /\ d.pending = {} /\ Batch!Sure(d)
          /\ v.pending \in SUBSET BatchReply /\ IsFiniteSet(v.pending)
      BY <1>4, <2>1, BatchDisconnect
    <2> HIDE DEF d
    <2>3. BatchBody(d, P) /\ P \in SUBSET BatchReply /\ IsFiniteSet(P)
      BY <1>3, <2>2
    <2> HIDE DEF P
    <2>4. BatchBody(f, P) /\ f.drain # "off" /\ f.pending = {}
      BY <2>2, <2>3, BatchFlush
    <2> HIDE DEF f
    <2>5. BatchTimer(f)
      BY <2>4 DEF BatchTimer
    <2> DEFINE y == Batch!RejectAll(f, P)
    <2>6. BatchBody(y, {}) /\ BatchTimer(y)
      BY <2>3, <2>4, <2>5, BatchRejectAll
    <2> HIDE DEF y
    <2> QED
      BY <1>7, <2>6 DEF BatchGood, y
  <1> QED
    BY <1>1, <1>5, <1>6, <1>7

(* The drain's own steps.                                                   *)
LEMMA BatchDrainSteps ==
    ASSUME BatchGood(state), NEW ok \in BOOLEAN,
           \/ Batch!DrainRefused \/ Batch!DrainTokenFails
           \/ Batch!FallbackSettles(ok) \/ Batch!DrainSends(ok)
    PROVE  BatchGood(state')
  <1> DEFINE w == state
  <1>1. /\ w.drain \in {"refused", "token", "fallback"}
        /\ \/ state' = Batch!BatchFails(w)
           \/ Batch!Sure(w) /\ state' = Batch!BatchSent(w)
           \/ state' = Batch!Out(w, "token", "refreshing")
           \/ state' = Batch!Out(w, "batch", "awaiting")
    BY DEF Batch!DrainRefused, Batch!DrainTokenFails, Batch!FallbackSettles, Batch!DrainSends,
           Batch!BatchOut
  <1>2. BatchBody(w, {}) /\ Len(w.batch) <= RbBatchSize
    BY DEF BatchGood, BatchBody
  <1> HIDE DEF w
  <1>3. BatchLoose(w, {})
    BY <1>1, <1>2, BatchIsLoose
  <1>4. BatchGood(Batch!BatchFails(w))
    BY <1>3, BatchFailedGood
  <1>5. Batch!Sure(w) => BatchGood(Batch!BatchSent(w))
    BY <1>3, BatchSentGood
  <1>6. /\ BatchGood(Batch!Out(w, "token", "refreshing"))
        /\ BatchGood(Batch!Out(w, "batch", "awaiting"))
    BY <1>2, <1>3, BatchGoesOut
  <1> QED
    BY <1>1, <1>4, <1>5, <1>6

(* close() and its stages.                                                  *)
LEMMA BatchCloseStarts ==
    ASSUME BatchGood(state), Batch!CloseStarts
    PROVE  BatchGood(state')
  <1> DEFINE w == state
             x == [w EXCEPT !.accepting = FALSE, !.interval = FALSE, !.retry = FALSE,
                            !.beating = FALSE]
             u == [x EXCEPT !.closing = "sparing"]
             v == [x EXCEPT !.closing = "draining"]
  <1>1. /\ w.closing \in {"no", "failed"} /\ Batch!Sure(w)
        /\ \/ state' = Batch!CloseDrained(x)
           \/ state' = Batch!SpareNext(u, "close", x)
           \/ state' = Batch!FlushRb(v)
    BY DEF Batch!CloseStarts
  <1>2. /\ BatchCore(w) /\ w \in BatchStates /\ BatchHeld(w, w.batch, {})
        /\ Len(w.batch) <= RbBatchSize /\ BatchTies(w) /\ BatchAwaits(w, w.pending \cup {})
    BY BatchParts DEF BatchGood
  <1> HIDE DEF w
  <1>3. /\ x \in BatchStates /\ x.queue = w.queue /\ x.outcome = w.outcome
        /\ x.batch = w.batch /\ x.spare = w.spare /\ x.drain = w.drain
        /\ x.pending = w.pending /\ x.socket = w.socket /\ x.exiting = w.exiting
        /\ ~x.accepting /\ x.joined = w.joined /\ x.closing = w.closing
        /\ x.ready = w.ready /\ x.connect = w.connect /\ x.joining = w.joining
        /\ x.connectPromise = w.connectPromise
    BY <1>2 DEF BatchStates
  <1> HIDE DEF x
  <1>4. BatchAwaits(x, x.pending \cup {})
    BY <1>2, <1>3 DEF BatchAwaits
  <1>5. BatchTies(x)
    BY <1>1, <1>2, <1>3 DEF BatchTies
  <1>6. BatchCore(x) /\ BatchHeld(x, x.batch, {}) /\ Len(x.batch) <= RbBatchSize
    <2>1. Held(x) = Held(w)
      BY <1>3 DEF Held
    <2> QED
      BY <1>2, <1>3, <2>1 DEF BatchCore, BatchHeld
  <1>7. BatchBody(x, {}) /\ BatchTimer(x)
    BY <1>3, <1>4, <1>5, <1>6 DEF BatchBody, BatchTimer
  <1>8. Batch!Sure(x)
    BY <1>1, <1>3 DEF Batch!Sure, Batch!CanConnect, Batch!Open
  <1>9. x.closing # "leaving" /\ x.spare["close"] = <<>>
    BY <1>1, <1>3, <1>7, BatchStage
  <1>10. ASSUME NEW c \in BatchClosings
         PROVE  LET y == [x EXCEPT !.closing = c]
                IN  /\ BatchBody(y, {}) /\ BatchTimer(y) /\ BatchSame(x, y)
                    /\ y.queue = x.queue /\ y.spare = x.spare /\ y.closing = c
    BY <1>7, <1>9, BatchClosesOn
  <1>11. "leave" \in BatchClosings /\ "sparing" \in BatchClosings /\ "draining" \in BatchClosings
    BY DEF BatchClosings
  <1>12. BatchGood(Batch!CloseDrained(x))
    BY <1>10, <1>11 DEF BatchGood, Batch!CloseDrained
  <1>13. BatchGood(Batch!SpareNext(u, "close", x))
    <2>1. BatchGood(u) /\ u.spare["close"] = <<>> /\ u.closing = "sparing" /\ ~u.accepting
      BY <1>3, <1>9, <1>10, <1>11 DEF BatchGood, BatchSame
    <2>2. BatchGood(x) /\ "close" \in Batch!Spare /\ "exit" # "close"
      BY <1>7, BatchConstants DEF BatchGood
    <2> HIDE DEF u
    <2> QED
      BY <2>1, <2>2, BatchSpareNext
  <1>14. BatchGood(Batch!FlushRb(v))
    <2>1. BatchBody(v, {}) /\ BatchSame(x, v)
      BY <1>10, <1>11
    <2> HIDE DEF v
    <2> QED
      BY <1>8, <2>1, BatchSure, BatchFlushGood
  <1> QED
    BY <1>1, <1>12, <1>13, <1>14

LEMMA BatchCloseLeaves ==
    ASSUME BatchGood(state), Batch!CloseLeaves
    PROVE  BatchGood(state')
  <1> DEFINE w == state
             p == [what |-> "leave", by |-> 0, on |-> w.socket]
             pending == w.pending \cup {p}
             y == [w EXCEPT !.closing = "leaving", !.pending = pending]
  <1>1. /\ w.closing = "leave"
        /\ \/ Batch!CanSend(w, "leave") /\ state' = y
           \/ state' = [w EXCEPT !.closing = "finishing"]
    BY DEF Batch!CloseLeaves, Batch!SendIt, Batch!AfterLeave
  <1>2. /\ BatchCore(w) /\ w \in BatchStates /\ BatchHeld(w, w.batch, {})
        /\ Len(w.batch) <= RbBatchSize /\ BatchTies(w) /\ BatchAwaits(w, w.pending \cup {})
        /\ BatchTimer(w) /\ w.pending \in SUBSET BatchReply /\ IsFiniteSet(w.pending)
        /\ w.socket \in RbSockets \cup {0}
    BY BatchParts, BatchTypes DEF BatchGood, BatchCore
  <1>3. w.closing # "leaving" /\ w.spare["close"] = <<>>
    BY <1>1, BatchStage DEF BatchGood
  <1>4. CASE state' = [w EXCEPT !.closing = "finishing"]
    <2>1. "finishing" \in BatchClosings
      BY DEF BatchClosings
    <2> DEFINE z == [w EXCEPT !.closing = "finishing"]
    <2>2. BatchBody(z, {}) /\ BatchTimer(z)
      BY <1>2, <1>3, <2>1, BatchClosesOn DEF BatchGood
    <2> QED
      BY <1>4, <2>2 DEF BatchGood
  <1>5. CASE Batch!CanSend(w, "leave") /\ state' = y
    <2>1. w.socket \in RbSockets
      BY <1>2, <1>5 DEF Batch!CanSend, Batch!Open
    <2> HIDE DEF w
    <2>2. p \in BatchReply /\ p.what = "leave"
      BY <2>1 DEF BatchReply
    <2> HIDE DEF p
    <2>3. /\ pending \in SUBSET BatchReply /\ IsFiniteSet(pending)
          /\ \A q \in pending : q \in w.pending \/ q = p
          /\ w.pending \subseteq pending /\ p \in pending
      BY <1>2, <2>2, FS_AddElement
    <2> HIDE DEF pending
    <2>4. /\ y \in BatchStates /\ y.queue = w.queue /\ y.outcome = w.outcome
          /\ y.batch = w.batch /\ y.spare = w.spare /\ y.drain = w.drain
          /\ y.pending = pending /\ y.socket = w.socket /\ y.exiting = w.exiting
          /\ y.accepting = w.accepting /\ y.joined = w.joined /\ y.interval = w.interval
          /\ y.retry = w.retry /\ y.exitFailed = w.exitFailed /\ y.closing = "leaving"
      BY <1>2, <2>3 DEF BatchStates, BatchClosings
    <2> HIDE DEF y
    <2>5. \A q \in w.pending : q.what # "leave"
      BY <1>2, <1>3 DEF BatchAwaits
    <2>6. BatchAwaits(y, y.pending \cup {})
      BY <1>2, <2>2, <2>3, <2>4, <2>5 DEF BatchAwaits
    <2>7. BatchTies(y)
      BY <1>2, <1>3, <2>2, <2>3, <2>4 DEF BatchTies
    <2>8. BatchCore(y) /\ BatchHeld(y, y.batch, {}) /\ Len(y.batch) <= RbBatchSize
      <3>1. Held(y) = Held(w)
        BY <2>4 DEF Held
      <3> QED
        BY <1>2, <2>3, <2>4, <3>1 DEF BatchCore, BatchHeld
    <2>9. BatchTimer(y)
      BY <1>2, <2>4 DEF BatchTimer
    <2> QED
      BY <1>5, <2>6, <2>7, <2>8, <2>9 DEF BatchGood, BatchBody
  <1> QED
    BY <1>1, <1>4, <1>5

LEMMA BatchCloseFinishes ==
    ASSUME BatchGood(state), NEW ok \in BOOLEAN, Batch!CloseFinishes(ok)
    PROVE  BatchGood(state')
  <1> DEFINE w == state
             c == IF ok THEN "done" ELSE "failed"
             u == [w EXCEPT !.closing = c]
             x == [u EXCEPT !.closed = ok]
  <1>1. /\ w.closing = "finishing"
        /\ state' = Batch!RejectAll(Batch!Disconnect([w EXCEPT !.closed = ok, !.closing = c]),
                                    w.pending)
    BY DEF Batch!CloseFinishes
  <1>2. BatchBody(w, {}) /\ BatchTimer(w) /\ w \in BatchStates
    BY BatchParts DEF BatchGood
  <1>3. [w EXCEPT !.closed = ok, !.closing = c] = x
    OBVIOUS
  <1>4. w.closing # "leaving" /\ w.spare["close"] = <<>> /\ c \in BatchClosings
    BY <1>1, <1>2, BatchStage DEF BatchClosings
  <1> HIDE DEF w, c
  <1>5. BatchBody(u, {}) /\ BatchTimer(u) /\ u \in BatchStates /\ u.pending = w.pending
    BY <1>2, <1>4, BatchClosesOn DEF BatchSame, BatchBody, BatchCore
  <1> HIDE DEF u
  <1>6. /\ x \in BatchStates /\ BatchAside(u, x) /\ x.interval = u.interval
        /\ x.retry = u.retry /\ x.exitFailed = u.exitFailed /\ x.pending = w.pending
    BY <1>5 DEF BatchStates, BatchAside
  <1> HIDE DEF x
  <1>7. BatchGood(x)
    BY <1>5, <1>6, BatchAsideGood DEF BatchGood
  <1> QED
    BY <1>1, <1>3, <1>6, <1>7, BatchGivesUp

(* The sockets and the joins.                                               *)
LEMMA BatchSocketSteps ==
    ASSUME BatchGood(state), NEW s \in RbSockets,
           \/ Batch!SocketOpensRb(s) \/ Batch!JoinSent(s) \/ Batch!JoinTokenFails(s)
           \/ Batch!ConnectTimesOut(s) \/ Batch!SocketErrs(s)
    PROVE  BatchGood(state')
  <1> DEFINE w == state
             a == [w EXCEPT !.ready[s] = "open", !.joining[s] = TRUE]
             b == [w EXCEPT !.joining[s] = FALSE]
             c == [w EXCEPT !.ready[s] = "closing"]
  <1>1. \/ state' = a
        \/ Batch!CanSend(b, "join") /\ state' = Batch!SendIt(b, "join", s)
        \/ state' = Batch!FinishFails(b, s)
        \/ state' = Batch!FinishFails(w, s)
        \/ state' = Batch!FinishFails(c, s)
    BY DEF Batch!SocketOpensRb, Batch!JoinSent, Batch!JoinTokenFails, Batch!ConnectTimesOut,
           Batch!SocketErrs
  <1>2. w \in BatchStates /\ BatchGood(w)
    BY BatchParts DEF BatchGood
  <1>3. /\ w.ready \in [RbSockets -> {"connecting", "open", "closing", "closed"}]
        /\ w.joining \in [RbSockets -> BOOLEAN]
    BY <1>2, BatchTypes
  <1> HIDE DEF w
  <1>4. /\ a \in BatchStates /\ BatchAside(w, a) /\ a.interval = w.interval
        /\ a.retry = w.retry /\ a.exitFailed = w.exitFailed
    BY <1>2, <1>3 DEF BatchStates, BatchAside
  <1>5. /\ b \in BatchStates /\ BatchAside(w, b) /\ b.interval = w.interval
        /\ b.retry = w.retry /\ b.exitFailed = w.exitFailed
    BY <1>2, <1>3 DEF BatchStates, BatchAside
  <1>6. /\ c \in BatchStates /\ BatchAside(w, c) /\ c.interval = w.interval
        /\ c.retry = w.retry /\ c.exitFailed = w.exitFailed
    BY <1>2, <1>3 DEF BatchStates, BatchAside
  <1> HIDE DEF a, b, c
  <1>7. BatchGood(a) /\ BatchGood(b) /\ BatchGood(c)
    BY <1>2, <1>4, <1>5, <1>6, BatchAsideGood
  <1>8. /\ BatchGood(Batch!FinishFails(w, s)) /\ BatchGood(Batch!FinishFails(b, s))
        /\ BatchGood(Batch!FinishFails(c, s))
    BY <1>2, <1>7, BatchFinishGood
  <1>9. Batch!CanSend(b, "join") => BatchGood(Batch!SendIt(b, "join", s))
    BY <1>7, BatchSends DEF Batch!CanSend
  <1> QED
    BY <1>1, <1>7, <1>8, <1>9

LEMMA BatchChannelSteps ==
    ASSUME BatchGood(state), Batch!Beat \/ Batch!ChannelErrs
    PROVE  BatchGood(state')
  <1> DEFINE w == state
  <1>1. \/ Batch!Open(w) /\ state' = Batch!SendIt(w, "beat", 0)
        \/ state' = Batch!CloseIt(w, 1011)
    BY DEF Batch!Beat, Batch!ChannelErrs
  <1> HIDE DEF w
  <1>2. BatchGood(w)
    BY DEF w
  <1>3. Batch!Open(w) => BatchGood(Batch!SendIt(w, "beat", 0))
    BY <1>2, BatchSends
  <1>4. BatchGood(Batch!CloseIt(w, 1011))
    <2> DEFINE y == Batch!CloseIt(w, 1011)
    <2>1. /\ BatchBody(y, {}) /\ BatchAside(w, y) /\ y.interval = w.interval
          /\ y.retry = w.retry /\ y.exitFailed = w.exitFailed
      BY <1>2, BatchCloseIt DEF BatchGood
    <2> HIDE DEF y
    <2>2. BatchGood(y)
      BY <1>2, <2>1 DEF BatchGood, BatchTimer, BatchAside
    <2> QED
      BY <2>2 DEF y
  <1> QED
    BY <1>1, <1>3, <1>4

LEMMA BatchSocketCloses ==
    ASSUME BatchGood(state), NEW s \in RbSockets, Batch!SocketClosesRb(s)
    PROVE  BatchGood(state')
  <1> DEFINE w == state
             P == w.pending
             x == [w EXCEPT !.ready[s] = "closed", !.pending = {}, !.joined = FALSE,
                            !.beating = FALSE]
             y == Batch!ScheduleRetry(x)
             z == Batch!RejectAll(y, P)
  <1>1. state' = Batch!FinishFails(z, s)
    BY DEF Batch!SocketClosesRb
  <1>2. /\ BatchCore(w) /\ w \in BatchStates /\ BatchHeld(w, w.batch, {})
        /\ Len(w.batch) <= RbBatchSize /\ BatchTies(w) /\ BatchAwaits(w, w.pending \cup {})
        /\ P \in SUBSET BatchReply /\ IsFiniteSet(P)
        /\ w.ready \in [RbSockets -> {"connecting", "open", "closing", "closed"}]
    BY BatchParts, BatchTypes DEF BatchGood, BatchCore
  <1>3. P \cup {} = {} \cup P /\ w.pending = P
    OBVIOUS
  <1> HIDE DEF w, P
  <1>4. /\ x \in BatchStates /\ x.queue = w.queue /\ x.outcome = w.outcome
        /\ x.batch = w.batch /\ x.spare = w.spare /\ x.drain = w.drain
        /\ x.pending = {} /\ x.exiting = w.exiting /\ x.closing = w.closing
        /\ x.accepting = w.accepting
    BY <1>2 DEF BatchStates
  <1> HIDE DEF x
  <1>5. BatchAwaits(x, x.pending \cup P)
    BY <1>2, <1>3, <1>4 DEF BatchAwaits
  <1>6. BatchTies(x)
    BY <1>2, <1>4 DEF BatchTies
  <1>7. BatchCore(x) /\ BatchHeld(x, x.batch, {}) /\ Len(x.batch) <= RbBatchSize
    <2>1. Held(x) = Held(w)
      BY <1>4 DEF Held
    <2>2. IsFiniteSet({})
      BY FS_EmptySet
    <2> QED
      BY <1>2, <1>4, <2>1, <2>2 DEF BatchCore, BatchHeld
  <1>8. BatchBody(x, P)
    BY <1>5, <1>6, <1>7 DEF BatchBody
  <1>9. BatchBody(y, P) /\ BatchTimer(y) /\ y.pending = {}
    BY <1>4, <1>8, BatchSchedules DEF BatchSame
  <1> HIDE DEF y
  <1>10. BatchBody(z, {}) /\ BatchTimer(z)
    BY <1>2, <1>9, BatchRejectAll
  <1> HIDE DEF z
  <1> QED
    BY <1>1, <1>10, BatchFinishGood DEF BatchGood

(* The join of a socket was granted.                                        *)
LEMMA BatchJoins ==
    ASSUME NEW x, BatchGood(x), NEW s \in RbSockets
    PROVE  BatchGood(Batch!FinishOk(x, s))
  <1> DEFINE u == [x EXCEPT !.connect[s] = "settled", !.connectPromise = 0]
             y == [u EXCEPT !.drain = "token", !.awaited = 0]
  <1>1. Batch!FinishOk(x, s) =
           IF x.connect[s] = "settled" THEN x
           ELSE IF u.drain = "connecting" /\ u.awaited = s THEN y ELSE u
    BY DEF Batch!FinishOk
  <1>2. x \in BatchStates /\ x.connect \in [RbSockets -> {"settled", "pending"}]
    BY BatchTypes DEF BatchGood, BatchBody, BatchCore
  <1>3. /\ u \in BatchStates /\ BatchAside(x, u) /\ u.interval = x.interval
        /\ u.retry = x.retry /\ u.exitFailed = x.exitFailed
    BY <1>2 DEF BatchStates, BatchAside
  <1> HIDE DEF u
  <1>4. BatchGood(u)
    BY <1>3, BatchAsideGood
  <1>5. ASSUME u.drain = "connecting" PROVE BatchGood(y)
    <2>1. /\ BatchCore(u) /\ BatchHeld(u, u.batch, {})
          /\ Len(u.batch) <= RbBatchSize /\ BatchTies(u) /\ BatchAwaits(u, u.pending \cup {})
      BY <1>4, BatchParts DEF BatchGood
    <2>2. /\ y \in BatchStates /\ y.queue = u.queue /\ y.outcome = u.outcome
          /\ y.batch = u.batch /\ y.spare = u.spare /\ y.drain = "token"
          /\ y.pending = u.pending /\ y.socket = u.socket /\ y.exiting = u.exiting
          /\ y.accepting = u.accepting /\ y.joined = u.joined /\ y.closing = u.closing
      BY <1>3 DEF BatchStates, BatchDrains
    <2> HIDE DEF y
    <2>3. BatchAwaits(y, y.pending \cup {})
      BY <1>5, <2>1, <2>2 DEF BatchAwaits
    <2>4. BatchTies(y)
      BY <2>1, <2>2 DEF BatchTies
    <2>5. BatchCore(y) /\ BatchHeld(y, y.batch, {}) /\ Len(y.batch) <= RbBatchSize
      <3>1. Held(y) = Held(u)
        BY <2>2 DEF Held
      <3> QED
        BY <2>1, <2>2, <3>1 DEF BatchCore, BatchHeld
    <2> QED
      BY <2>2, <2>3, <2>4, <2>5, BatchRuns DEF BatchBody
  <1> QED
    BY <1>1, <1>4, <1>5

LEMMA BatchReplies ==
    ASSUME BatchGood(state), NEW p \in state.pending, Batch!ReplyOk(p) \/ Batch!ReplyFails(p)
    PROVE  BatchGood(state')
  <1> DEFINE w == state
             x == [w EXCEPT !.pending = @ \ {p}]
             j == [x EXCEPT !.joined = TRUE, !.beating = TRUE]
  <1>1. /\ BatchBody(x, {p}) /\ BatchTimer(x) /\ p \in BatchReply /\ p \notin x.pending
        /\ x \in BatchStates /\ x.joined = w.joined /\ x.socket = w.socket
        /\ x.ready = w.ready
        /\ p.what \in {"token", "batch"} => w.joined /\ p.on = w.socket
        /\ p.what \notin {"token", "batch"} => BatchBody(x, {})
    BY BatchPops
  <1>2. \/ state' = Batch!Rejected(x, p)
        \/ /\ w.ready[p.on] = "open"
           /\ \/ p.what = "join" /\ state' = Batch!FinishOk(j, p.by)
              \/ p.what = "token" /\ state' = Batch!Out(x, "batch", "awaiting")
              \/ p.what = "batch" /\ state' = Batch!BatchSent(x)
              \/ p.what = "beat" /\ state' = x
    <2>1. p.what \in {"join", "token", "batch", "leave", "beat"}
      BY <1>1 DEF BatchReply
    <2>2. CASE Batch!ReplyFails(p)
      BY <2>2 DEF Batch!ReplyFails
    <2>3. CASE Batch!ReplyOk(p)
      <3> HIDE DEF w
      <3>1. /\ w.ready[p.on] = "open"
            /\ state' = CASE p.what = "join"  -> Batch!FinishOk(j, p.by)
                          [] p.what = "token" -> Batch!BatchOut(x)
                          [] p.what = "batch" -> Batch!BatchSent(x)
                          [] p.what = "leave" -> Batch!AfterLeave(x)
                          [] OTHER            -> x
        BY <2>3 DEF Batch!ReplyOk, w
      <3> HIDE DEF x, j
      <3>2. CASE p.what = "leave"
        BY <3>1, <3>2 DEF Batch!Rejected
      <3>3. CASE p.what # "leave"
        BY <2>1, <3>1, <3>3 DEF Batch!BatchOut
      <3> QED
        BY <3>2, <3>3
    <2> QED
      BY <2>2, <2>3
  <1>3. BatchGood(Batch!Rejected(x, p))
    <2> HIDE DEF x
    <2> DEFINE y == Batch!Rejected(x, p)
    <2>1. BatchBody(y, {p} \ {p}) /\ BatchTimer(y)
      BY <1>1, BatchRejected
    <2>2. {p} \ {p} = {}
      OBVIOUS
    <2> HIDE DEF y
    <2>3. BatchGood(y)
      BY <2>1, <2>2 DEF BatchGood
    <2> QED
      BY <2>3 DEF y
  <1> HIDE DEF w
  <1>4. j \in BatchStates /\ BatchAside(x, j) /\ j.interval = x.interval /\ j.retry = x.retry
        /\ j.exitFailed = x.exitFailed
    <2> HIDE DEF x
    <2> QED
      BY <1>1 DEF BatchStates, BatchAside
  <1> HIDE DEF x, j
  <1>5. ASSUME p.what = "join" PROVE BatchGood(Batch!FinishOk(j, p.by))
    <2>1. BatchGood(x)
      BY <1>1, <1>5 DEF BatchGood
    <2>2. BatchGood(j)
      BY <1>4, <2>1, BatchAsideGood
    <2>3. p.by \in RbSockets
      BY <1>1, <1>5 DEF BatchReply
    <2> QED
      BY <2>2, <2>3, BatchJoins
  <1>6. ASSUME p.what \in {"token", "batch"} PROVE BatchLoose(x, {}) /\ Len(x.batch) <= RbBatchSize
    <2>1. BatchLoose(x, {p} \ {p})
      BY <1>1, <1>6, BatchAnswered
    <2>2. {p} \ {p} = {}
      OBVIOUS
    <2> QED
      BY <1>1, <2>1, <2>2 DEF BatchBody
  <1>7. ASSUME p.what = "token" PROVE BatchGood(Batch!Out(x, "batch", "awaiting"))
    BY <1>6, <1>7, BatchGoesOut
  <1>8. ASSUME p.what = "batch", w.ready[p.on] = "open" PROVE BatchGood(Batch!BatchSent(x))
    <2>1. p.on \in RbSockets
      BY <1>1, <1>8 DEF BatchReply
    <2>2. Batch!Sure(x)
      BY <1>1, <1>8, <2>1, BatchConstants DEF Batch!Sure, Batch!Open
    <2> QED
      BY <1>6, <1>8, <2>2, BatchSentGood
  <1>9. ASSUME p.what = "beat" PROVE BatchGood(x)
    BY <1>1, <1>9 DEF BatchGood
  <1> QED
    BY <1>2, <1>3, <1>5, <1>7, <1>8, <1>9

LEMMA BatchInit ==
    ASSUME Batch!RbInit
    PROVE  BatchGood(state) /\ faults \in 0..RbMaxFaults
  <1> DEFINE outcome == [i \in RbItems |-> "new"]
             spare == [c \in Batch!Spare |-> <<>>]
             ready == [s \in RbSockets |-> "closed"]
             connect == [s \in RbSockets |-> "settled"]
             joining == [s \in RbSockets |-> FALSE]
  <1>1. /\ outcome \in [RbItems -> {"new", "held", "delivered", "dropped"}]
        /\ \A i \in RbItems : outcome[i] # "held"
        /\ spare \in [Batch!Spare -> Seq(RbItems)]
        /\ ready \in [RbSockets -> {"connecting", "open", "closing", "closed"}]
        /\ connect \in [RbSockets -> {"settled", "pending"}]
        /\ joining \in [RbSockets -> BOOLEAN]
    BY BatchEmpty
  <1>2. spare["exit"] = <<>> /\ spare["close"] = <<>>
    BY BatchConstants
  <1>3. /\ state \in [queue : {<<>>}, outcome : {outcome},
               hasFallback : BOOLEAN, awaitDelivery : {FALSE, TRUE},
               drain : {"off"}, batch : {<<>>}, awaited : {0},
               spare : {spare}, ready : {ready}, connect : {connect}, joining : {joining},
               pending : {{}}, socket : {0}, joined : {FALSE}, connectPromise : {0},
               beating : {FALSE}, interval : {FALSE}, retry : {FALSE}, failures : {0},
               accepting : {TRUE}, closed : {FALSE}, strict : BOOLEAN,
               exiting : {FALSE}, exitFailed : {FALSE}, closing : {"no"}]
        /\ faults = 0
    BY DEF Batch!RbInit
  <1> HIDE DEF outcome, spare, ready, connect, joining
  <1>4. state \in BatchStates
    <2>1. 0 \in 0..RbFallbackAfter
      BY BatchConstants
    <2>2. <<>> \in Seq(RbItems) /\ {} \in SUBSET BatchReply /\ 0 \in RbSockets \cup {0}
      BY BatchEmpty
    <2>3. "off" \in BatchDrains /\ "no" \in BatchClosings
      BY DEF BatchDrains, BatchClosings
    <2> DEFINE e == <<>>
               none == {}
               zero == 0
    <2>4. /\ e \in Seq(RbItems) /\ none \in SUBSET BatchReply /\ zero \in RbSockets \cup {0}
          /\ zero \in 0..RbFallbackAfter
      BY <2>1, <2>2
    <2>5. \E h, a, strict \in BOOLEAN : state =
             [queue |-> e, outcome |-> outcome, hasFallback |-> h, awaitDelivery |-> a,
              drain |-> "off", batch |-> e, awaited |-> zero, spare |-> spare,
              ready |-> ready, connect |-> connect, joining |-> joining,
              pending |-> none, socket |-> zero, joined |-> FALSE, connectPromise |-> zero,
              beating |-> FALSE, interval |-> FALSE, retry |-> FALSE, failures |-> zero,
              accepting |-> TRUE, closed |-> FALSE, strict |-> strict, exiting |-> FALSE,
              exitFailed |-> FALSE, closing |-> "no"]
      BY <1>3
    <2> HIDE DEF e, none, zero
    <2> QED
      BY <1>1, <2>3, <2>4, <2>5 DEF BatchStates
  <1>5. /\ state.queue = <<>> /\ state.batch = <<>> /\ state.spare = spare
        /\ state.outcome = outcome /\ state.pending = {} /\ state.drain = "off"
    BY <1>3
  <1>6. BatchHeld(state, state.batch, {})
    <2>1. Held(state) = {}
      BY <1>1, <1>5 DEF Held
    <2>2. BatchApart({}, {}, {}, {}, {}, {})
      BY DEF BatchApart
    <2> QED
      BY <1>2, <1>5, <2>1, <2>2, BatchEmpty DEF BatchHeld
  <1>7. BatchCore(state) /\ Len(state.batch) <= RbBatchSize
    <2>1. IsFiniteSet({})
      BY FS_EmptySet
    <2>2. Len(<<>>) <= RbMaxQueue
      BY BatchConstants
    <2> QED
      BY <1>4, <1>5, <2>1, <2>2, BatchEmpty DEF BatchCore
  <1>8. BatchTies(state) /\ BatchAwaits(state, state.pending \cup {}) /\ BatchTimer(state)
    BY <1>2, <1>5 DEF BatchTies, BatchAwaits, BatchTimer
  <1>9. faults \in 0..RbMaxFaults
    BY <1>3, BatchConstants
  <1> QED
    BY <1>6, <1>7, <1>8, <1>9 DEF BatchGood, BatchBody

LEMMA BatchStep ==
    ASSUME BatchGood(state), faults \in 0..RbMaxFaults, Batch!RbNext
    PROVE  BatchGood(state') /\ faults' \in 0..RbMaxFaults
  <1>1. faults' \in 0..RbMaxFaults
    <2>1. faults' = faults \/ (faults < RbMaxFaults /\ faults' = faults + 1)
      BY DEF Batch!RbNext, Batch!RbWrite, Batch!Exit, Batch!RbFlush, Batch!IntervalFires,
             Batch!RetryFires, Batch!DrainEnds, Batch!DrainFails, Batch!DrainRefused,
             Batch!DrainTokenFails, Batch!FallbackSettles, Batch!CloseFinishes,
             Batch!DrainSends, Batch!SpareSettles, Batch!CloseStarts, Batch!CloseLeaves,
             Batch!SocketOpensRb, Batch!JoinSent, Batch!JoinTokenFails,
             Batch!ConnectTimesOut, Batch!SocketErrs, Batch!SocketClosesRb, Batch!ReplyOk,
             Batch!ReplyFails, Batch!Beat, Batch!ChannelErrs, Batch!Fault, Batch!NoFault
    <2> QED
      BY <2>1, BatchConstants
  <1>2. BatchGood(state')
    BY BatchWrites, BatchTimers, BatchEnds, BatchDrainSteps, BatchCloseFinishes,
       BatchSpareSettles, BatchCloseStarts, BatchCloseLeaves, BatchSocketSteps,
       BatchSocketCloses, BatchReplies, BatchChannelSteps
       DEF Batch!RbNext
  <1> QED
    BY <1>1, <1>2

(* What the runs check of the batching transport.                           *)
LEMMA BatchHolds ==
    ASSUME BatchGood(state), faults \in 0..RbMaxFaults
    PROVE  Batch!RbTypeOK /\ Batch!BatchInOnePlace /\ Batch!QueueIsOnATimer
  <1> DEFINE x == state
  <1>1. /\ BatchCore(x) /\ x \in BatchStates /\ BatchHeld(x, x.batch, {})
        /\ Len(x.batch) <= RbBatchSize /\ Len(x.queue) <= RbMaxQueue
        /\ BatchTies(x) /\ BatchAwaits(x, x.pending \cup {})
        /\ x.batch \in Seq(RbItems) /\ BatchTimer(x)
    BY BatchParts DEF BatchGood
  <1>2. /\ x.queue \in Seq(RbItems) /\ x.spare["exit"] \in Seq(RbItems)
        /\ x.spare["close"] \in Seq(RbItems)
    BY <1>1, BatchTypes
  <1>3. Batch!RbTypeOK
    <2>1. x.drain = "awaiting" <=> \E p \in x.pending : p.what = "batch"
      BY <1>1 DEF BatchAwaits
    <2>2. (x.drain = "awaiting") = (\E p \in x.pending : p.what = "batch")
      BY <2>1
    <2> QED
      BY <1>1, <2>2 DEF Batch!RbTypeOK, BatchStates, BatchDrains, BatchClosings
  <1>4. Batch!BatchInOnePlace
    <2> DEFINE q == x.queue
               b == x.batch
               e == x.spare["exit"]
               c == x.spare["close"]
               s == q \o b
               t == s \o e
               all == t \o c
    <2>1. /\ Once(q) /\ Once(b) /\ Once(e) /\ Once(c)
          /\ BatchApart(Elements(q), Elements(b), Elements(e), Elements(c), {}, Held(x))
      BY <1>1 DEF BatchHeld
    <2>2. q \in Seq(RbItems) /\ b \in Seq(RbItems) /\ e \in Seq(RbItems) /\ c \in Seq(RbItems)
      BY <1>1, <1>2
    <2> HIDE DEF q, b, e, c, x
    <2>3. s \in Seq(RbItems) /\ Once(s) /\ Elements(s) = Elements(q) \cup Elements(b)
      BY <2>1, <2>2, OnceConcat DEF BatchApart
    <2> HIDE DEF s
    <2>4. t \in Seq(RbItems) /\ Once(t) /\ Elements(t) = Elements(s) \cup Elements(e)
      <3>1. Elements(s) \cap Elements(e) = {}
        BY <2>1, <2>3 DEF BatchApart
      <3> QED
        BY <2>1, <2>2, <2>3, <3>1, OnceConcat
    <2> HIDE DEF t
    <2>5. all \in Seq(RbItems) /\ Once(all) /\ Elements(all) = Elements(t) \cup Elements(c)
      <3>1. Elements(t) \cap Elements(c) = {}
        BY <2>1, <2>3, <2>4 DEF BatchApart
      <3> QED
        BY <2>1, <2>2, <2>4, <3>1, OnceConcat
    <2>6. all = q \o b \o e \o c
      BY DEF t, s
    <2> HIDE DEF all
    <2>7. Elements(all) = Held(x)
      BY <2>1, <2>3, <2>4, <2>5 DEF BatchApart
    <2>8. IsInjective(all) /\ Range(all) = Held(x)
      BY <2>5, <2>7, ElementsType
    <2>9. Batch!IsInjective(all) /\ Batch!Range(all) = Held(x)
      BY <2>8 DEF IsInjective, Batch!IsInjective, Range, Batch!Range
    <2> QED
      BY <2>6, <2>9 DEF Batch!BatchInOnePlace, q, b, e, c, x, Held
  <1>5. Batch!QueueIsOnATimer
    BY <1>1 DEF Batch!QueueIsOnATimer, BatchTimer
  <1> QED
    BY <1>3, <1>4, <1>5

(***************************************************************************)
(* Part 8: the subjects together                                           *)
(***************************************************************************)

Subjects == {"ack", "batch", "legacy", "http", "session", "tracking", "journal"}

(* The invariant of the transport the run is about.                         *)
AllInv ==
    /\ subject \in Subjects
    /\ subject = "ack" => AckGood(state) /\ AckLive(state) /\ faults \in 0..RaMaxFaults
    /\ subject = "batch" => BatchGood(state) /\ faults \in 0..RbMaxFaults
    /\ subject = "legacy" => LegacyGood(state) /\ faults \in 0..RlMaxFaults
    /\ subject = "http" => HttpGood(state) /\ faults \in 0..HiMaxFaults
    /\ subject = "session" => SmInv
    /\ subject = "tracking" => EtGood(state)
    /\ subject = "journal" => JournalGood(state)

LEMMA AllStarts == AllInit => AllInv
  BY AckInit, BatchInit, LegacyInit, HttpInit, SessionInit, TrackingInit, JournalInit
     DEF AllInit, AllInv, Subjects

LEMMA AllSteps == AllInv /\ [AllNext]_<<subject, state, faults>> => AllInv'
  <1> SUFFICES ASSUME AllInv, [AllNext]_<<subject, state, faults>> PROVE AllInv'
    OBVIOUS
  <1>1. CASE UNCHANGED <<subject, state, faults>>
    BY <1>1 DEF AllInv, SmInv, SmType, CallInOrder
  <1>2. CASE AllNext
    <2>1. subject' = subject /\ subject \in Subjects
      BY <1>2 DEF AllNext, AllInv
    <2>2. CASE subject = "ack"
      <3>1. AckGood(state') /\ AckLive(state') /\ faults' \in 0..RaMaxFaults
        BY <1>2, <2>2, AckStep DEF AllNext, AllInv
      <3> QED
        BY <2>1, <2>2, <3>1 DEF AllInv
    <2>3. CASE subject = "batch"
      <3>1. BatchGood(state') /\ faults' \in 0..RbMaxFaults
        BY <1>2, <2>3, BatchStep DEF AllNext, AllInv
      <3> QED
        BY <2>1, <2>3, <3>1 DEF AllInv
    <2>4. CASE subject = "legacy"
      <3>1. LegacyGood(state') /\ faults' \in 0..RlMaxFaults
        BY <1>2, <2>4, LegacyStep DEF AllNext, AllInv
      <3> QED
        BY <2>1, <2>4, <3>1 DEF AllInv
    <2>5. CASE subject = "http"
      <3>1. HttpGood(state') /\ faults' \in 0..HiMaxFaults
        BY <1>2, <2>5, HttpStep DEF AllNext, AllInv
      <3> QED
        BY <2>1, <2>5, <3>1 DEF AllInv
    <2>6. CASE subject = "session"
      <3>1. SmInv'
        BY <1>2, <2>6, SessionStep DEF AllNext, AllInv
      <3> QED
        BY <2>1, <2>6, <3>1 DEF AllInv
    <2>7. CASE subject = "tracking"
      <3>1. EtGood(state')
        BY <1>2, <2>7, TrackingStep DEF AllNext, AllInv
      <3> QED
        BY <2>1, <2>7, <3>1 DEF AllInv
    <2>8. CASE subject = "journal"
      <3>1. JournalGood(state')
        BY <1>2, <2>8, JournalStep DEF AllNext, AllInv
      <3> QED
        BY <2>1, <2>8, <3>1 DEF AllInv
    <2> QED
      BY <2>1, <2>2, <2>3, <2>4, <2>5, <2>6, <2>7, <2>8 DEF Subjects
  <1> QED
    BY <1>1, <1>2

LEMMA AllAlways == AllSpec => []AllInv
  BY AllStarts, AllSteps, PTL DEF AllSpec

LEMMA AllHeld == AllInv => HeldInOnePlace
  BY AckHoldsTrue, BatchHolds, LegacyHolds, HttpHolds, JournalHolds DEF AllInv, HeldInOnePlace

LEMMA AllAwaited == AllInv => HeldIsAwaited
  BY AckHoldsTrue, BatchHolds, LegacyHolds, HttpHolds DEF AllInv, HeldIsAwaited

LEMMA AllAnswers == AllInv => AnswersAreTrue
  BY HttpHolds, SessionSettled, TrackingTold, JournalHolds DEF AllInv, AnswersAreTrue

(* A record one of the transports has taken and not settled is in one of   *)
(* its places, once, and a settled one in none: however the sends, the     *)
(* replies, lost sockets, retries, the overflow of a queue, the drains of  *)
(* an exit and close() of supabase-realtime.ts, -realtime-batch.ts, the    *)
(* realtime transport of base-logger.ts and supabase-ingest/transport.ts   *)
(* interleave.  A socket is one whose close(1011) works or one that throws, *)
(* as the WebSocket standard has it.  With the latter a write of the        *)
(* realtime transport may wait for good: it keeps its record, in one place, *)
(* but that place does not settle.                                         *)
THEOREM NothingIsHeldTwice == AllSpec => []HeldInOnePlace
  BY AllAlways, AllHeld, PTL

(* What they hold does not lie there unwatched.  supabase-realtime.ts: what *)
(* is queued before close() has a timer, a connection, a closing socket or *)
(* a broadcast in flight, unless a socket given up has joined late or its   *)
(* close(1011) throws and reconnect is off; no flush waits for an empty     *)
(* queue.  supabase-realtime-batch.ts and supabase-ingest/transport.ts:    *)
(* what is queued has a timer, a drain or a post, until close() or a failed *)
(* exit.  The realtime transport of base-logger.ts: what is queued before   *)
(* close() has a reconnect, or a socket whose end sets one.                 *)
THEOREM NothingHeldIsForgotten == AllSpec => []HeldIsAwaited
  BY AllAlways, AllAwaited, PTL

(* What the HTTP transport acknowledged is committed, a call of the        *)
(* session transport settles as its durable leg did, error tracking skips  *)
(* a duplicate only of an error that was delivered or is being posted, and *)
(* the journal keeps what it wrote for the retention, through rotations    *)
(* and prunes of several processes.                                        *)
THEOREM TransportsTellTheTruth == AllSpec => []AnswersAreTrue
  BY AllAlways, AllAnswers, PTL
=============================================================================
