---------------------------- MODULE RecordProofs ----------------------------
(***************************************************************************)
(* What TLAPS proves of the computations of a record, for every value of   *)
(* the constants of MCRecords: telemetry is believed only when it is       *)
(* whole, the configuration is the one its sources ask for, the numbers    *)
(* are exact, and what leaves the process is redacted, bounded and signed. *)
(* The parts of a section are the operators, the inductive invariant of    *)
(* the subject, a lemma for each of its actions, and three facts: it holds *)
(* at first, every step keeps it, and it implies the properties.           *)
(***************************************************************************)
EXTENDS MCRecords, ListTheorems, TLAPS

(***************************************************************************)
(* The attributes of a record, and the waves of flush()                    *)
(***************************************************************************)

(* What AttributeBuilder holds: names of N, each with a value of V.         *)
Built(N, V) == UNION {[D -> V] : D \in SUBSET N}

(* An attribute set leaves the attributes well formed. *)
LEMMA SetAttributeType ==
    ASSUME NEW N, NEW V, NEW values \in Built(N, V), NEW name \in N, NEW value \in V
    PROVE  Telemetry!SetAttribute(values, <<name, value>>) \in Built(N, V)
  <1>1. PICK D \in SUBSET N : values \in [D -> V]
    BY DEF Built
  <1> DEFINE more == [k \in D \cup {name} |-> IF k = name THEN value ELSE values[k]]
  <1>2. more \in [D \cup {name} -> V] /\ D \cup {name} \in SUBSET N
    BY <1>1
  <1>3. Telemetry!SetAttribute(values, <<name, value>>) \in {values, more}
    BY <1>1 DEF Telemetry!SetAttribute
  <1> HIDE DEF more
  <1> QED
    BY <1>2, <1>3 DEF Built

(* What is set under a name, when values has it at all.                     *)
Says(values, name, value) == name \in DOMAIN values => values[name] = value

(* An attribute that was set is there. *)
LEMMA SetAttributeSays ==
    ASSUME NEW N, NEW V, NEW values \in Built(N, V), NEW name \in N, NEW value \in V,
           value # "none"
    PROVE  Says(Telemetry!SetAttribute(values, <<name, value>>), name, value)
  BY DEF Telemetry!SetAttribute, Telemetry!None, Says

(* Setting one attribute leaves the others as they were. *)
LEMMA SetAttributeKeeps ==
    ASSUME NEW N, NEW V, NEW values \in Built(N, V), NEW name \in N, NEW value \in V,
           NEW other, other # name, NEW v, Says(values, other, v)
    PROVE  Says(Telemetry!SetAttribute(values, <<name, value>>), other, v)
  BY DEF Telemetry!SetAttribute, Says, Built

(* Built by setting the pairs one after the other.                          *)
LEMMA BuiltSteps ==
    ASSUME NEW N, NEW V, NEW pairs \in Seq(N \X V)
    PROVE  \E b \in [0..Len(pairs) -> Built(N, V)] :
              /\ b[0] = << >> /\ Telemetry!Built(pairs) = b[Len(pairs)]
              /\ \A i \in 1..Len(pairs) : b[i] = Telemetry!SetAttribute(b[i - 1], pairs[i])
  <1> DEFINE n == Len(pairs)
             step == [p \in Built(N, V) \X (1..n) |-> Telemetry!SetAttribute(p[1], pairs[p[2]])]
             Step(f) == [i \in 0..n |-> IF i = 0 THEN << >>
                                        ELSE Telemetry!SetAttribute(f[i - 1], pairs[i])]
             b == CHOOSE f : f = Step(f)
  <1>1. n \in Nat /\ \A i \in 1..n : pairs[i] \in N \X V
    OBVIOUS
  <1>2. << >> \in Built(N, V)
    <2>1. << >> \in [{} -> V]
      OBVIOUS
    <2> QED
      BY <2>1 DEF Built
  <1> HIDE DEF n
  <1>3. \A x \in Built(N, V), i \in 1..n : step[<<x, i>>] \in Built(N, V)
    <2> SUFFICES ASSUME NEW x \in Built(N, V), NEW i \in 1..n
                 PROVE  Telemetry!SetAttribute(x, pairs[i]) \in Built(N, V)
      OBVIOUS
    <2>1. pairs[i][1] \in N /\ pairs[i][2] \in V /\ pairs[i] = <<pairs[i][1], pairs[i][2]>>
      BY <1>1
    <2>2. Telemetry!SetAttribute(x, <<pairs[i][1], pairs[i][2]>>) \in Built(N, V)
      BY <2>1, SetAttributeType
    <2> QED
      BY <2>1, <2>2
  <1>4. PICK g \in [0..n -> Built(N, V)] : Recurs(g, n, << >>, step)
    <2> HIDE DEF step
    <2> QED
      BY <1>1, <1>2, <1>3, RecursionExists
  <1>5. \A i \in 1..n : i - 1 \in 0..n
    BY <1>1
  <1>6. g = Step(g)
    <2>1. ASSUME NEW i \in 1..n PROVE g[i] = Telemetry!SetAttribute(g[i - 1], pairs[i])
      <3>1. g[i - 1] \in Built(N, V)
        BY <1>4, <1>5
      <3>2. g[i] = step[<<g[i - 1], i>>]
        BY <1>4 DEF Recurs
      <3> QED
        BY <3>1, <3>2
    <2>2. g[0] = << >> /\ \A i \in 0..n : i # 0 => i \in 1..n
      BY <1>1, <1>4 DEF Recurs
    <2> QED
      BY <1>4, <2>1, <2>2
  <1>7. b = Step(b)
    BY <1>6, Zenon
  <1>8. Telemetry!Built(pairs) = b[Len(pairs)]
    BY DEF Telemetry!Built, n
  <1> HIDE DEF b
  <1>9. b[0] = << >> /\ \A i \in 1..n : b[i] = Telemetry!SetAttribute(b[i - 1], pairs[i])
    <2>1. 0 \in 0..n /\ \A i \in 1..n : i \in 0..n /\ i # 0
      BY <1>1
    <2> QED
      BY <1>7, <2>1
  <1>10. b \in [0..n -> Built(N, V)]
    <2> DEFINE T == {i \in Nat : i <= n => b[i] \in Built(N, V)}
    <2>1. 0 \in T
      BY <1>2, <1>9
    <2>2. ASSUME NEW i \in Nat, i \in T PROVE i + 1 \in T
      <3>1. CASE i + 1 <= n
        <4>1. b[i] \in Built(N, V) /\ i + 1 \in 1..n /\ (i + 1) - 1 = i
          BY <1>1, <2>2, <3>1
        <4>2. b[i + 1] = step[<<b[i], i + 1>>]
          BY <1>9, <4>1
        <4>3. step[<<b[i], i + 1>>] \in Built(N, V)
          <5> HIDE DEF step
          <5> QED
            BY <1>3, <4>1
        <4> HIDE DEF step
        <4> QED
          BY <4>2, <4>3
      <3> QED
        BY <3>1
    <2>3. Nat \subseteq T
      <3> HIDE DEF T
      <3> QED
        BY <2>1, <2>2, SetInduction
    <2>4. \A i \in 0..n : b[i] \in Built(N, V)
      BY <1>1, <2>3
    <2>5. b = [i \in 0..n |-> b[i]]
      BY <1>7
    <2> QED
      BY <2>4, <2>5
  <1> QED
    BY <1>8, <1>9, <1>10 DEF n

(* The fields of a record, each once.                                       *)
LEMMA FieldsInOrder ==
    /\ Cardinality(OtFields) \in Nat
    /\ Telemetry!InSomeOrder(OtFields) \in [1..Cardinality(OtFields) -> OtFields]
  <1> DEFINE n == Cardinality(OtFields)
             f == Telemetry!InSomeOrder(OtFields)
             Orders(s) == \A i, j \in DOMAIN s : s[i] = s[j] => i = j
  <1>1. IsFiniteSet(OtFields)
    BY TelemetryAssumption
  <1>2. n \in Nat /\ ExistsBijection(1..n, OtFields)
    BY <1>1, FS_CardinalityType
  <1>3. PICK g \in Bijection(1..n, OtFields) : TRUE
    BY <1>2 DEF ExistsBijection
  <1>4. g \in [1..n -> OtFields] /\ Orders(g)
    BY <1>3 DEF Bijection, Injection, Surjection, IsInjective
  <1>5. f = CHOOSE s \in [1..n -> OtFields] : Orders(s)
    BY DEF Telemetry!InSomeOrder, Cardinality, Telemetry!Cardinality
  <1> HIDE DEF n, f, Orders
  <1>6. f \in [1..n -> OtFields]
    BY <1>4, <1>5
  <1> QED
    BY <1>2, <1>6 DEF n, f

(* The pairs set for a record of an active span: the record's own first,     *)
(* none of them of the span, and the span's three last.                    *)
LEMMA SpanWins ==
    ASSUME NEW record, NEW span, span.ok, span.trace \in OtTraces, span.state \in BOOLEAN
    PROVE  LET values == Telemetry!Attributes(record, span)
           IN  \A name \in {"trace.id", "span.id", "trace_state"} : Says(values, name, span.trace)
  <1> DEFINE t == span.trace
             N == OtFields \cup {"log.record.uid", "trace.id", "span.id", "trace_state"}
             V == OtTraces \cup {"id", "v", "none"}
             n == Cardinality(OtFields)
             fields == [i \in 1..n |-> <<Telemetry!InSomeOrder(OtFields)[i], "v">>]
             first == << <<"log.record.uid", "id">>,
                         <<"trace.id", IF record.trace \in OtTraces THEN record.trace ELSE "none">> >>
             last == << <<"trace.id", t>>, <<"span.id", t>>,
                        <<"trace_state", IF span.state THEN t ELSE "none">> >>
             pairs == (first \o fields) \o last
  <1>1. Telemetry!Attributes(record, span) = Telemetry!Built(pairs)
    <2>1. Telemetry!RecordAttributes(record) = first \o fields
      BY DEF Telemetry!RecordAttributes, Telemetry!ValidTraceId, Telemetry!None,
             Cardinality, Telemetry!Cardinality
    <2>2. Telemetry!Correlation(record, span) = last
      BY DEF Telemetry!Correlation, Telemetry!None
    <2> QED
      BY <2>1, <2>2 DEF Telemetry!Attributes
  <1>2. /\ "id" \in V /\ "v" \in V /\ "none" \in V /\ t \in V /\ t # "none"
        /\ (IF record.trace \in OtTraces THEN record.trace ELSE "none") \in V
        /\ (IF span.state THEN t ELSE "none") \in V
        /\ OtFields \subseteq N /\ {"log.record.uid", "trace.id", "span.id", "trace_state"} \subseteq N
        /\ \A field \in OtFields : field \notin {"span.id", "trace_state"}
    BY TelemetryAssumption
  <1> HIDE DEF N, V
  <1>3. /\ n \in Nat /\ fields \in Seq(N \X V) /\ Len(fields) = n
        /\ \A i \in 1..n : /\ fields[i] = <<fields[i][1], fields[i][2]>>
                            /\ fields[i][1] \in N \ {"span.id", "trace_state"} /\ fields[i][2] \in V
    <2>1. n \in Nat /\ \A i \in 1..n : Telemetry!InSomeOrder(OtFields)[i] \in OtFields
      BY FieldsInOrder
    <2>2. \A i \in 1..n : fields[i] = <<Telemetry!InSomeOrder(OtFields)[i], "v">>
      OBVIOUS
    <2>3. \A i \in 1..n : Telemetry!InSomeOrder(OtFields)[i] \in N \ {"span.id", "trace_state"}
      BY <1>2, <2>1
    <2>4. \A i \in 1..n : fields[i] \in N \X V
      BY <1>2, <2>2, <2>3
    <2>5. fields \in Seq(N \X V) /\ Len(fields) = n
      BY <2>1, <2>4
    <2> QED
      BY <1>2, <2>1, <2>2, <2>3, <2>5
  <1>4. /\ first \in Seq(N \X V) /\ Len(first) = 2
        /\ \A i \in 1..2 : /\ first[i] = <<first[i][1], first[i][2]>>
                            /\ first[i][1] \in N \ {"span.id", "trace_state"} /\ first[i][2] \in V
    BY <1>2
  <1>5. /\ last \in Seq(N \X V) /\ Len(last) = 3
        /\ last[1] = <<"trace.id", t>> /\ last[2] = <<"span.id", t>>
        /\ last[3] = <<"trace_state", IF span.state THEN t ELSE "none">>
    BY <1>2
  <1> HIDE DEF fields, first, last
  <1>6. /\ first \o fields \in Seq(N \X V) /\ Len(first \o fields) = n + 2
        /\ \A i \in 1..n + 2 : (first \o fields)[i] = IF i <= 2 THEN first[i] ELSE fields[i - 2]
    <2> DEFINE Z == N \X V
    <2>1. n \in Nat /\ first \in Seq(Z) /\ fields \in Seq(Z) /\ Len(first) = 2 /\ Len(fields) = n
      BY <1>3, <1>4
    <2> HIDE DEF Z, n
    <2>9. 2 \in Nat /\ n \in Nat
      BY <2>1
    <2>2. /\ first \o fields \in Seq(Z) /\ Len(first \o fields) = 2 + n
          /\ \A i \in 1..2 + n : (first \o fields)[i] = IF i <= 2 THEN first[i] ELSE fields[i - 2]
      <3>1. Joint(first, fields, Z, 2, n)
        BY <2>1, <2>9, Together
      <3> QED
        BY <3>1 DEF Joint
    <2>3. 2 + n = n + 2
      BY <2>1
    <2> QED
      BY <2>2, <2>3 DEF Z
  <1>7. /\ pairs \in Seq(N \X V) /\ Len(pairs) = n + 5
        /\ \A i \in 1..n + 2 : pairs[i] = (first \o fields)[i]
        /\ pairs[n + 3] = last[1] /\ pairs[n + 4] = last[2] /\ pairs[n + 5] = last[3]
    <2> DEFINE own == first \o fields
             Z == N \X V
    <2>1. own \in Seq(Z) /\ Len(own) = n + 2 /\ pairs = own \o last /\ last \in Seq(Z) /\ Len(last) = 3
      BY <1>5, <1>6
    <2> HIDE DEF own, pairs, Z, n
    <2>9. 3 \in Nat /\ n + 2 \in Nat
      BY <1>3
    <2>2. /\ pairs \in Seq(Z) /\ Len(pairs) = n + 2 + 3
          /\ \A i \in 1..n + 2 + 3 : pairs[i] = IF i <= n + 2 THEN own[i] ELSE last[i - (n + 2)]
      <3>1. Joint(own, last, Z, n + 2, 3)
        BY <2>1, <2>9, Together
      <3> QED
        BY <2>1, <3>1 DEF Joint
    <2>3. /\ n + 2 + 3 = n + 5 /\ n \in Nat
          /\ \A i \in 1..n + 2 : i \in 1..n + 5 /\ i <= n + 2
          /\ n + 3 \in 1..n + 5 /\ n + 4 \in 1..n + 5 /\ n + 5 \in 1..n + 5
          /\ n + 3 - (n + 2) = 1 /\ n + 4 - (n + 2) = 2 /\ n + 5 - (n + 2) = 3
          /\ ~(n + 3 <= n + 2) /\ ~(n + 4 <= n + 2) /\ ~(n + 5 <= n + 2)
      BY <1>3
    <2>4. /\ Len(pairs) = n + 5 /\ \A i \in 1..n + 2 : pairs[i] = own[i]
      BY <2>2, <2>3
    <2>5. /\ pairs[n + 3] = last[1] /\ pairs[n + 4] = last[2] /\ pairs[n + 5] = last[3]
      BY <2>2, <2>3
    <2> QED
      BY <2>2, <2>4, <2>5 DEF own, Z
  <1> HIDE DEF pairs
  <1>8. \A i \in 1..n + 2 : /\ pairs[i] = <<pairs[i][1], pairs[i][2]>> /\ pairs[i][2] \in V
                            /\ pairs[i][1] \in N \ {"span.id", "trace_state"}
    <2> SUFFICES ASSUME NEW i \in 1..n + 2
                 PROVE  /\ pairs[i] = <<pairs[i][1], pairs[i][2]>> /\ pairs[i][2] \in V
                        /\ pairs[i][1] \in N \ {"span.id", "trace_state"}
      OBVIOUS
    <2>1. pairs[i] = IF i <= 2 THEN first[i] ELSE fields[i - 2]
      BY <1>6, <1>7
    <2>2. CASE i <= 2
      BY <1>3, <1>4, <2>1, <2>2
    <2>3. CASE i > 2
      <3>1. i - 2 \in 1..n /\ pairs[i] = fields[i - 2]
        BY <1>3, <2>1, <2>3
      <3> QED
        BY <1>3, <3>1
    <2> QED
      BY <1>3, <2>2, <2>3
  <1> HIDE DEF pairs, n
  <1>9. t \in V /\ t # "none" /\ "none" \in V
    BY <1>2
  <1>10. {"trace.id", "span.id", "trace_state"} \subseteq N /\ n \in Nat
    BY <1>2, <1>3
  <1> HIDE DEF t
  <1>11. PICK b \in [0..Len(pairs) -> Built(N, V)] :
            /\ b[0] = << >> /\ Telemetry!Built(pairs) = b[Len(pairs)]
            /\ \A i \in 1..Len(pairs) : b[i] = Telemetry!SetAttribute(b[i - 1], pairs[i])
    BY <1>7, BuiltSteps
  <1> DEFINE Mute(i) == Says(b[i], "span.id", t) /\ Says(b[i], "trace_state", t)
             T == {i \in Nat : i <= n + 2 => Mute(i)}
  <1>12. Nat \subseteq T
    <2>1. 0 \in T
      BY <1>11 DEF Says
    <2>2. ASSUME NEW i \in Nat, i \in T PROVE i + 1 \in T
      <3> SUFFICES ASSUME i + 1 <= n + 2 PROVE Mute(i + 1)
        OBVIOUS
      <3>1. i + 1 \in 1..n + 2 /\ i + 1 \in 1..Len(pairs) /\ i \in 0..Len(pairs) /\ (i + 1) - 1 = i
        BY <1>3, <1>7
      <3>2. b[i] \in Built(N, V) /\ b[i + 1] = Telemetry!SetAttribute(b[i], pairs[i + 1])
        BY <1>11, <3>1
      <3>3. /\ pairs[i + 1] = <<pairs[i + 1][1], pairs[i + 1][2]>> /\ pairs[i + 1][2] \in V
            /\ pairs[i + 1][1] \in N /\ pairs[i + 1][1] # "span.id" /\ pairs[i + 1][1] # "trace_state"
        BY <1>8, <3>1
      <3>4. Mute(i)
        BY <1>3, <2>2
      <3> QED
        BY <3>2, <3>3, <3>4, SetAttributeKeeps
    <2> HIDE DEF T
    <2> QED
      BY <2>1, <2>2, SetInduction
  <1>13. Mute(n + 2)
    BY <1>3, <1>12
  <1>14. /\ b[n + 2] \in Built(N, V) /\ b[n + 3] \in Built(N, V) /\ b[n + 4] \in Built(N, V)
         /\ b[n + 3] = Telemetry!SetAttribute(b[n + 2], <<"trace.id", t>>)
         /\ b[n + 4] = Telemetry!SetAttribute(b[n + 3], <<"span.id", t>>)
         /\ b[n + 5] = Telemetry!SetAttribute(b[n + 4], pairs[n + 5])
    <2>1. /\ n + 3 \in 1..Len(pairs) /\ n + 4 \in 1..Len(pairs) /\ n + 5 \in 1..Len(pairs)
          /\ n + 2 \in 0..Len(pairs) /\ (n + 3) - 1 = n + 2 /\ (n + 4) - 1 = n + 3
          /\ (n + 5) - 1 = n + 4 /\ n + 3 \in 0..Len(pairs) /\ n + 4 \in 0..Len(pairs)
      BY <1>3, <1>7
    <2>2. pairs[n + 3] = <<"trace.id", t>> /\ pairs[n + 4] = <<"span.id", t>>
      BY <1>5, <1>7 DEF t
    <2>3. /\ b[n + 3] = Telemetry!SetAttribute(b[n + 2], pairs[n + 3])
          /\ b[n + 4] = Telemetry!SetAttribute(b[n + 3], pairs[n + 4])
          /\ b[n + 5] = Telemetry!SetAttribute(b[n + 4], pairs[n + 5])
      BY <1>11, <2>1
    <2> QED
      BY <1>11, <2>1, <2>2, <2>3
  <1> DEFINE All(i) == \A name \in {"trace.id", "span.id", "trace_state"} : Says(b[i], name, t)
  <1>15. All(n + 3)
    <2>1. Says(b[n + 3], "trace.id", t)
      BY <1>9, <1>10, <1>14, SetAttributeSays
    <2>2. Says(b[n + 3], "span.id", t) /\ Says(b[n + 3], "trace_state", t)
      BY <1>9, <1>10, <1>13, <1>14, SetAttributeKeeps
    <2> QED
      BY <2>1, <2>2
  <1>16. All(n + 4)
    <2>1. Says(b[n + 4], "span.id", t)
      BY <1>9, <1>10, <1>14, SetAttributeSays
    <2>2. Says(b[n + 4], "trace.id", t) /\ Says(b[n + 4], "trace_state", t)
      BY <1>9, <1>10, <1>14, <1>15, SetAttributeKeeps
    <2> QED
      BY <2>1, <2>2
  <1>17. All(n + 5)
    <2>1. CASE span.state
      <3>1. b[n + 5] = Telemetry!SetAttribute(b[n + 4], <<"trace_state", t>>)
        BY <1>5, <1>7, <1>14, <2>1 DEF t
      <3>2. Says(b[n + 5], "trace_state", t)
        BY <1>9, <1>10, <1>14, <3>1, SetAttributeSays
      <3>3. Says(b[n + 5], "trace.id", t) /\ Says(b[n + 5], "span.id", t)
        BY <1>9, <1>10, <1>14, <1>16, <3>1, SetAttributeKeeps
      <3> QED
        BY <3>2, <3>3
    <2>2. CASE ~span.state
      <3>1. b[n + 5] = Telemetry!SetAttribute(b[n + 4], <<"trace_state", "none">>)
        BY <1>5, <1>7, <1>14, <2>2
      <3>2. b[n + 5] = b[n + 4]
        BY <3>1 DEF Telemetry!SetAttribute, Telemetry!None
      <3> QED
        BY <1>16, <3>2
    <2> QED
      BY <2>1, <2>2
  <1>18. Telemetry!Attributes(record, span) = b[n + 5]
    BY <1>1, <1>7, <1>11
  <1> QED
    BY <1>17, <1>18 DEF t

(* An action of write() or of flush(), one behaviour having only one part;   *)
(* all but the last wave are settled, and the last one is unless it is the *)
(* one to join; a wave that a callback started is apart from nothing.  What *)
(* a caller has seen is settled and over.                                  *)
Waves == Seq([OtCallbacks -> {"running", "ok", "failed"}])
WaveOver(x, w) == \A k \in OtCallbacks : x.waves[w][k] # "running"

TelStates(wrote) ==
    [part : {"write", "flush"}, failOpen : BOOLEAN, mode : {"plain", "options", "logger"},
     ambient : Telemetry!Contexts, span : Telemetry!Spans, wrote : {wrote},
     op : Nat, waves : Waves, nested : SUBSET Nat,
     callers : [OtCallers -> [wave : Nat, seen : SUBSET Nat]]]

TelWaves(x) ==
    /\ x.op # 0 => x.op = Len(x.waves)
    /\ \A w \in 1..Len(x.waves) : w # x.op /\ w \notin x.nested => WaveOver(x, w)
    /\ \A c \in OtCallers :
          /\ x.callers[c].wave \in 0..Len(x.waves) /\ x.callers[c].wave \notin x.callers[c].seen
          /\ x.callers[c].seen \subseteq 1..Len(x.waves) \ {x.op}
TelWrote(x) ==
    x.wrote.done /\ x.wrote.read.ok =>
        \A name \in {"trace.id", "span.id", "trace_state"} :
            Says(x.wrote.attributes, name, x.wrote.read.trace)

TelGood(x) == x \in TelStates(x.wrote) /\ TelWaves(x) /\ TelWrote(x)

(* The invariant of the OTEL transport holds at first. *)
LEMMA TelInit == Telemetry!OtInit => TelGood(state)
  <1> SUFFICES ASSUME Telemetry!OtInit PROVE TelGood(state)
    OBVIOUS
  <1>1. PICK part \in {"write", "flush"} :
          state \in [part : {part}, failOpen : IF part = "write" THEN BOOLEAN ELSE {TRUE},
                mode : IF part = "write" THEN {"plain", "options", "logger"} ELSE {"plain"},
                ambient : IF part = "write" THEN Telemetry!Contexts ELSE {Telemetry!NoContext},
                span : IF part = "write" THEN Telemetry!Spans ELSE {Telemetry!NoSpan},
                wrote : {[done |-> FALSE, record |-> Telemetry!NoContext, attributes |-> << >>,
                          read |-> Telemetry!NoSpan, failing |-> {}, threw |-> FALSE]},
                op : {0}, waves : {<<>>}, nested : {{}},
                callers : {[c \in OtCallers |-> [wave |-> 0, seen |-> {}]]}]
    BY DEF Telemetry!OtInit
  <1>2. /\ state.op = 0 /\ state.waves = <<>> /\ state.nested = {} /\ ~state.wrote.done
        /\ state.callers = [c \in OtCallers |-> [wave |-> 0, seen |-> {}]]
    BY <1>1
  <1>3. state \in TelStates(state.wrote)
    <2>1. <<>> \in Waves
      BY DEF Waves
    <2>2. Telemetry!NoContext \in Telemetry!Contexts /\ Telemetry!NoSpan \in Telemetry!Spans
      BY DEF Telemetry!Contexts, Telemetry!Spans
    <2>3. [c \in OtCallers |-> [wave |-> 0, seen |-> {}]] \in [OtCallers -> [wave : Nat, seen : SUBSET Nat]]
      OBVIOUS
    <2>4. /\ state.failOpen \in BOOLEAN /\ state.mode \in {"plain", "options", "logger"}
          /\ state.ambient \in Telemetry!Contexts /\ state.span \in Telemetry!Spans
      <3>1. CASE part = "write"
        BY <1>1, <3>1
      <3>2. CASE part = "flush"
        BY <1>1, <2>2, <3>2
      <3> QED
        BY <3>1, <3>2
    <2>7. /\ state.waves \in Waves /\ state.op \in Nat /\ state.nested \in SUBSET Nat
          /\ state.callers \in [OtCallers -> [wave : Nat, seen : SUBSET Nat]]
      BY <1>2, <2>1, <2>3
    <2>5. state = [part |-> state.part, failOpen |-> state.failOpen, mode |-> state.mode,
                   ambient |-> state.ambient, span |-> state.span, wrote |-> state.wrote,
                   op |-> state.op, waves |-> state.waves, nested |-> state.nested,
                   callers |-> state.callers]
      BY <1>1
    <2>6. state.part \in {"write", "flush"}
      BY <1>1
    <2> QED
      BY <2>4, <2>5, <2>6, <2>7 DEF TelStates
  <1>4. TelWaves(state)
    BY <1>2 DEF TelWaves
  <1> QED
    BY <1>2, <1>3, <1>4 DEF TelGood, TelWrote

(* A record written keeps it. *)
LEMMA TelWrites ==
    ASSUME TelGood(state), NEW said, NEW isError, NEW reads \in BOOLEAN, NEW failing,
           Telemetry!Write(said, isError, reads, failing)
    PROVE  TelGood(state')
  <1> DEFINE record == Telemetry!RecordOf(Telemetry!ContextOf(state.mode, state.ambient, reads, state.span), said)
             active == IF reads THEN state.span ELSE Telemetry!NoSpan
             read == Telemetry!SpanRead(active, failing)
             wrote == [done |-> TRUE, record |-> record, read |-> read,
                       attributes |-> Telemetry!Attributes(record, read),
                       failing |-> failing \cap Telemetry!Attempted(active, isError, failing),
                       threw |-> "logger.emit" \in failing /\ ~state.failOpen]
  <1>1. state' = [state EXCEPT !.wrote = wrote]
    BY DEF Telemetry!Write
  <1>2. read \in Telemetry!Spans
    <2>1. state.span \in Telemetry!Spans /\ Telemetry!NoSpan \in Telemetry!Spans
      BY DEF TelGood, TelStates, Telemetry!Spans
    <2> QED
      BY <2>1 DEF Telemetry!SpanRead
  <1>3. wrote.done /\ wrote.read = read /\ wrote.attributes = Telemetry!Attributes(record, read)
    OBVIOUS
  <1> HIDE DEF wrote, read, record, active
  <1>4. /\ state' \in TelStates(wrote) /\ state'.wrote = wrote /\ state'.op = state.op
        /\ state'.waves = state.waves /\ state'.callers = state.callers
        /\ state'.nested = state.nested
    BY <1>1 DEF TelGood, TelStates
  <1>5. read.ok => read.trace \in OtTraces /\ read.state \in BOOLEAN
    BY <1>2 DEF Telemetry!Spans, Telemetry!NoSpan
  <1>6. TelWrote(state')
    BY <1>3, <1>4, <1>5, SpanWins DEF TelWrote
  <1>7. TelWaves(state')
    BY <1>4 DEF TelGood, TelWaves, WaveOver
  <1> QED
    BY <1>4, <1>6, <1>7 DEF TelGood

(* The fields of a state whose waves move on.                               *)
TelTo(x, op, waves, nested, callers) ==
    [x EXCEPT !.op = op, !.waves = waves, !.nested = nested, !.callers = callers]

(* What a move of the flush machinery leaves alone. *)
LEMMA TelMoves ==
    ASSUME NEW x, x \in TelStates(x.wrote), NEW op \in Nat, NEW waves \in Waves,
           NEW nested \in SUBSET Nat, NEW callers \in [OtCallers -> [wave : Nat, seen : SUBSET Nat]]
    PROVE  LET y == TelTo(x, op, waves, nested, callers)
           IN  /\ y \in TelStates(x.wrote) /\ y.wrote = x.wrote
               /\ y.op = op /\ y.waves = waves /\ y.nested = nested /\ y.callers = callers
  BY DEF TelStates, TelTo

(* A flush that opens a wave, or joins one, keeps the invariant. *)
LEMMA TelFlushes ==
    ASSUME TelGood(state), NEW c \in OtCallers, Telemetry!Flush(c)
    PROVE  TelGood(state')
  <1>1. /\ state \in TelStates(state.wrote) /\ state.op \in Nat /\ state.waves \in Waves
        /\ state.callers \in [OtCallers -> [wave : Nat, seen : SUBSET Nat]]
        /\ Len(state.waves) \in Nat /\ state.nested \in SUBSET Nat
    BY DEF TelGood, TelStates, Waves
  <1>2. CASE state.op # 0
    <2> DEFINE callers == [state.callers EXCEPT ![c].wave = state.op]
    <2>1. state' = TelTo(state, state.op, state.waves, state.nested, callers)
      BY <1>1, <1>2 DEF Telemetry!Flush, Telemetry!Joined, TelStates, TelTo
    <2>2. /\ callers \in [OtCallers -> [wave : Nat, seen : SUBSET Nat]]
          /\ callers[c].wave = state.op /\ callers[c].seen = state.callers[c].seen
          /\ \A d \in OtCallers \ {c} : callers[d] = state.callers[d]
      BY <1>1
    <2> HIDE DEF callers
    <2>3. /\ state' \in TelStates(state.wrote) /\ state'.wrote = state.wrote
          /\ state'.op = state.op /\ state'.waves = state.waves /\ state'.callers = callers
          /\ state'.nested = state.nested
      BY <1>1, <2>1, <2>2, TelMoves
    <2>4. TelWaves(state')
      <3>1. \A w \in 1..Len(state.waves) :
                w # state.op /\ w \notin state.nested => WaveOver(state', w)
        BY <2>3 DEF TelGood, TelWaves, WaveOver
      <3>2. state.op \in 0..Len(state.waves) /\ state.op \notin state.callers[c].seen
        BY <1>1, <1>2 DEF TelGood, TelWaves
      <3>3. ASSUME NEW d \in OtCallers
            PROVE  /\ callers[d].wave \in 0..Len(state.waves) /\ callers[d].wave \notin callers[d].seen
                   /\ callers[d].seen \subseteq 1..Len(state.waves) \ {state.op}
        BY <2>2, <3>2 DEF TelGood, TelWaves
      <3> QED
        BY <2>3, <3>1, <3>3 DEF TelGood, TelWaves
    <2> QED
      BY <2>3, <2>4 DEF TelGood, TelWrote
  <1>3. CASE state.op = 0
    <2> DEFINE n == Len(state.waves)
               new == [k \in OtCallbacks |-> "running"]
               waves == Append(state.waves, new)
               callers == [state.callers EXCEPT ![c].wave = n + 1]
    <2>1. state' = TelTo(state, n + 1, waves, state.nested, callers)
      BY <1>1, <1>3 DEF Telemetry!Flush, Telemetry!Joined, TelStates, TelTo
    <2>2. /\ callers \in [OtCallers -> [wave : Nat, seen : SUBSET Nat]]
          /\ callers[c].wave = n + 1 /\ callers[c].seen = state.callers[c].seen
          /\ \A d \in OtCallers \ {c} : callers[d] = state.callers[d]
      BY <1>1
    <2>3. waves \in Waves /\ Len(waves) = n + 1 /\ \A w \in 1..n : waves[w] = state.waves[w]
      <3>1. new \in [OtCallbacks -> {"running", "ok", "failed"}]
        OBVIOUS
      <3> HIDE DEF new
      <3> QED
        BY <1>1, <3>1 DEF Waves
    <2> HIDE DEF callers, waves, new
    <2>4. /\ state' \in TelStates(state.wrote) /\ state'.wrote = state.wrote
          /\ state'.op = n + 1 /\ state'.waves = waves /\ state'.callers = callers
          /\ state'.nested = state.nested
      BY <1>1, <2>1, <2>2, <2>3, TelMoves
    <2>5. TelWaves(state')
      <3>1. \A w \in 1..n : w \notin state.nested => WaveOver(state', w)
        BY <1>1, <1>3, <2>3, <2>4 DEF TelGood, TelWaves, WaveOver
      <3>2. ASSUME NEW d \in OtCallers
            PROVE  /\ callers[d].wave \in 0..n + 1 /\ callers[d].wave \notin callers[d].seen
                   /\ callers[d].seen \subseteq 1..n + 1 \ {n + 1}
        <4>1. /\ state.callers[d].wave \in 0..n /\ state.callers[d].wave \notin state.callers[d].seen
              /\ state.callers[d].seen \subseteq 1..n
          BY DEF TelGood, TelWaves
        <4>2. state.callers[d].seen \subseteq 1..n + 1 \ {n + 1} /\ 0..n \subseteq 0..n + 1
          BY <1>1, <4>1
        <4> QED
          BY <1>1, <2>2, <4>1, <4>2
      <3>3. \A w \in 1..n + 1 : w # n + 1 => w \in 1..n
        BY <1>1
      <3> QED
        BY <2>3, <2>4, <3>1, <3>2, <3>3 DEF TelWaves
    <2> QED
      BY <2>4, <2>5 DEF TelGood, TelWrote
  <1> QED
    BY <1>2, <1>3

(* A flush whose callback flushes keeps it: two waves, the second to join. *)
LEMMA TelNests ==
    ASSUME TelGood(state), NEW c \in OtCallers, NEW d \in OtCallers, Telemetry!FlushNested(c, d)
    PROVE  TelGood(state')
  <1> DEFINE n == Len(state.waves)
             new == [k \in OtCallbacks |-> "running"]
             waves == state.waves \o <<new, new>>
             nested == state.nested \cup {n + 1}
             one == [state.callers EXCEPT ![d].wave = n + 1]
             callers == [one EXCEPT ![c].wave = n + 2]
  <1>1. /\ state \in TelStates(state.wrote) /\ state.op \in Nat /\ state.waves \in Waves
        /\ state.callers \in [OtCallers -> [wave : Nat, seen : SUBSET Nat]]
        /\ n \in Nat /\ state.nested \in SUBSET Nat
    BY DEF TelGood, TelStates, Waves
  <1>2. state' = TelTo(state, n + 2, waves, nested, callers) /\ c # d /\ state.op = 0
    BY <1>1 DEF Telemetry!FlushNested, Telemetry!Joined, TelStates, TelTo
  <1>3. /\ callers \in [OtCallers -> [wave : Nat, seen : SUBSET Nat]]
        /\ \A e \in OtCallers :
              /\ callers[e].seen = state.callers[e].seen
              /\ callers[e].wave \in {state.callers[e].wave, n + 1, n + 2}
    <2>1. /\ one \in [OtCallers -> [wave : Nat, seen : SUBSET Nat]]
          /\ \A e \in OtCallers : /\ one[e].seen = state.callers[e].seen
                                 /\ one[e].wave \in {state.callers[e].wave, n + 1}
      BY <1>1
    <2> HIDE DEF one
    <2>2. n + 2 \in Nat
      BY <1>1
    <2> QED
      BY <2>1, <2>2
  <1>4. waves \in Waves /\ Len(waves) = n + 2 /\ \A w \in 1..n : waves[w] = state.waves[w]
    <2>1. new \in [OtCallbacks -> {"running", "ok", "failed"}]
      OBVIOUS
    <2> DEFINE pair == <<new, new>>
    <2> HIDE DEF new
    <2>2. pair \in Waves /\ Len(pair) = 2
      BY <2>1 DEF Waves
    <2> HIDE DEF pair
    <2>3. state.waves \o pair \in Waves /\ Len(state.waves \o pair) = n + 2
      <3>1. n + 2 \in Nat /\ state.waves \o pair \in Waves
        BY <1>1, <2>2 DEF Waves
      <3>2. Len(state.waves \o pair) = Len(state.waves) + Len(pair)
        <4> DEFINE D == [OtCallbacks -> {"running", "ok", "failed"}]
        <4>1. state.waves \in Seq(D) /\ pair \in Seq(D)
          BY <1>1, <2>2 DEF Waves
        <4> HIDE DEF D
        <4> QED
          BY <4>1
      <3> QED
        BY <2>2, <3>1, <3>2
    <2>4. \A w \in 1..n : (state.waves \o pair)[w] = state.waves[w]
      BY <1>1, <2>2 DEF Waves
    <2> QED
      BY <2>3, <2>4 DEF pair
  <1>5. n + 2 \in Nat /\ nested \in SUBSET Nat /\ n + 1 \in nested /\ state.nested \subseteq nested
    BY <1>1
  <1> HIDE DEF callers, waves, new, nested
  <1> HIDE DEF one
  <1>6. /\ state' \in TelStates(state.wrote) /\ state'.wrote = state.wrote
        /\ state'.op = n + 2 /\ state'.waves = waves /\ state'.nested = nested
        /\ state'.callers = callers
    <2>1. /\ state \in TelStates(state.wrote) /\ n + 2 \in Nat /\ waves \in Waves
          /\ nested \in SUBSET Nat /\ callers \in [OtCallers -> [wave : Nat, seen : SUBSET Nat]]
      BY <1>1, <1>3, <1>4, <1>5
    <2>2. state' = TelTo(state, n + 2, waves, nested, callers)
      BY <1>2
    <2> DEFINE m == n + 2
    <2> HIDE DEF m
    <2>3. LET y == TelTo(state, m, waves, nested, callers)
          IN  /\ y \in TelStates(state.wrote) /\ y.wrote = state.wrote
              /\ y.op = m /\ y.waves = waves /\ y.nested = nested /\ y.callers = callers
      BY <2>1, TelMoves DEF m
    <2> QED
      BY <2>2, <2>3 DEF m
  <1>7. ASSUME NEW w \in 1..n + 2, w # n + 2, w \notin nested PROVE WaveOver(state', w)
    <2> HIDE DEF n
    <2>1. w \notin state.nested /\ w # n + 1
      BY <1>5, <1>7
    <2>2. w \in 1..n /\ w # 0
      BY <1>1, <1>7, <2>1
    <2>3. w # state.op
      BY <1>2, <2>2
    <2> USE DEF n
    <2> QED
      BY <1>4, <1>6, <2>1, <2>2, <2>3 DEF TelGood, TelWaves, WaveOver
  <1>8. ASSUME NEW e \in OtCallers
        PROVE  /\ callers[e].wave \in 0..n + 2 /\ callers[e].wave \notin callers[e].seen
               /\ callers[e].seen \subseteq 1..n + 2 \ {n + 2}
    <2>1. /\ state.callers[e].wave \in 0..n /\ state.callers[e].wave \notin state.callers[e].seen
          /\ state.callers[e].seen \subseteq 1..n
      BY DEF TelGood, TelWaves
    <2>2. 0..n \subseteq 0..n + 2 /\ n + 1 \in 0..n + 2 /\ n + 2 \in 0..n + 2
      BY <1>1
    <2>3. n + 1 \notin 1..n /\ n + 2 \notin 1..n
      BY <1>1
    <2>4. 1..n \subseteq 1..n + 2 \ {n + 2}
      BY <1>1
    <2> QED
      BY <1>3, <2>1, <2>2, <2>3, <2>4
  <1>9. TelWaves(state')
    BY <1>4, <1>6, <1>7, <1>8 DEF TelWaves
  <1> QED
    BY <1>6, <1>9 DEF TelGood, TelWrote

(* An export callback that settles keeps it. *)
LEMMA TelSettles ==
    ASSUME TelGood(state), NEW w \in DOMAIN state.waves, NEW k \in OtCallbacks, NEW ok \in BOOLEAN,
           Telemetry!CallbackSettles(w, k, ok)
    PROVE  TelGood(state')
  <1> DEFINE end == IF ok THEN "ok" ELSE "failed"
             waves == [state.waves EXCEPT ![w][k] = end]
  <1>1. /\ state \in TelStates(state.wrote) /\ state.op \in Nat /\ state.waves \in Waves
        /\ state.callers \in [OtCallers -> [wave : Nat, seen : SUBSET Nat]]
        /\ Len(state.waves) \in Nat /\ state.nested \in SUBSET Nat
    BY DEF TelGood, TelStates, Waves
  <1>2. state' = TelTo(state, state.op, waves, state.nested, state.callers)
    BY <1>1 DEF Telemetry!CallbackSettles, TelStates, TelTo
  <1>3. end \in {"ok", "failed"}
    OBVIOUS
  <1> HIDE DEF end
  <1>4. /\ waves \in Waves /\ Len(waves) = Len(state.waves)
        /\ \A v \in 1..Len(waves), j \in OtCallbacks : waves[v][j] \in {state.waves[v][j], end}
    <2>1. \A v \in 1..Len(state.waves) : state.waves[v] \in [OtCallbacks -> {"running", "ok", "failed"}]
      BY <1>1 DEF Waves
    <2>2. DOMAIN state.waves = 1..Len(state.waves)
      BY <1>1 DEF Waves
    <2>3. waves = [v \in 1..Len(state.waves) |-> IF v = w THEN [state.waves[w] EXCEPT ![k] = end] ELSE state.waves[v]]
      BY <2>2
    <2>4. [state.waves[w] EXCEPT ![k] = end] \in [OtCallbacks -> {"running", "ok", "failed"}]
      BY <1>3, <2>1, <2>2
    <2> HIDE DEF waves
    <2>5. /\ \A v \in 1..Len(state.waves) : waves[v] \in [OtCallbacks -> {"running", "ok", "failed"}]
          /\ waves = [v \in 1..Len(state.waves) |-> waves[v]]
      BY <2>1, <2>3, <2>4
    <2>6. waves \in Waves /\ Len(waves) = Len(state.waves)
      <3> DEFINE n == Len(state.waves)
                 D == [OtCallbacks -> {"running", "ok", "failed"}]
      <3>1. n \in Nat /\ waves = [v \in 1..n |-> waves[v]] /\ \A v \in 1..n : waves[v] \in D
        BY <1>1, <2>5
      <3> HIDE DEF n, D
      <3>2. waves \in Seq(D) /\ Len(waves) = n
        BY <3>1
      <3> QED
        BY <3>2 DEF Waves, n, D
    <2>7. ASSUME NEW v \in 1..Len(state.waves), NEW j \in OtCallbacks
          PROVE  waves[v][j] \in {state.waves[v][j], end}
      BY <2>1, <2>2, <2>3
    <2> QED
      BY <2>6, <2>7
  <1> HIDE DEF waves
  <1>5. /\ state' \in TelStates(state.wrote) /\ state'.wrote = state.wrote
        /\ state'.op = state.op /\ state'.waves = waves /\ state'.callers = state.callers
        /\ state'.nested = state.nested
    BY <1>1, <1>2, <1>4, TelMoves
  <1>6. \A v \in 1..Len(waves) : WaveOver(state, v) => WaveOver(state', v)
    BY <1>3, <1>4, <1>5 DEF WaveOver
  <1>7. TelWaves(state')
    BY <1>4, <1>5, <1>6 DEF TelGood, TelWaves
  <1> QED
    BY <1>5, <1>7 DEF TelGood, TelWrote

(* A wave that is cleared keeps it. *)
LEMMA TelClears ==
    ASSUME TelGood(state), NEW w, Telemetry!ClearOperation(w)
    PROVE  TelGood(state')
  <1>1. /\ state \in TelStates(state.wrote) /\ state.op \in Nat /\ state.waves \in Waves
        /\ state.callers \in [OtCallers -> [wave : Nat, seen : SUBSET Nat]]
        /\ Len(state.waves) \in Nat /\ state.nested \in SUBSET Nat
    BY DEF TelGood, TelStates, Waves
  <1>2. state' = TelTo(state, 0, state.waves, state.nested, state.callers)
    BY <1>1 DEF Telemetry!ClearOperation, TelStates, TelTo
  <1>3. /\ state' \in TelStates(state.wrote) /\ state'.wrote = state.wrote
        /\ state'.op = 0 /\ state'.waves = state.waves /\ state'.callers = state.callers
        /\ state'.nested = state.nested
    BY <1>1, <1>2, 0 \in Nat, TelMoves
  <1>4. \A v \in 1..Len(state.waves) : v \notin state.nested => WaveOver(state', v)
    BY <1>3 DEF TelGood, TelWaves, WaveOver, Telemetry!ClearOperation, Telemetry!Settled
  <1>5. \A c \in OtCallers : state.callers[c].seen \subseteq 1..Len(state.waves) \ {0}
    BY <1>1 DEF TelGood, TelWaves
  <1>6. TelWaves(state')
    BY <1>3, <1>4, <1>5 DEF TelGood, TelWaves
  <1> QED
    BY <1>3, <1>6 DEF TelGood, TelWrote

(* A caller that resumes keeps it. *)
LEMMA TelResumes ==
    ASSUME TelGood(state), NEW c \in OtCallers, Telemetry!CallerResumes(c)
    PROVE  TelGood(state')
  <1> DEFINE wave == state.callers[c].wave
             seen == state.callers[c].seen \cup {wave}
             callers == [state.callers EXCEPT ![c] = [wave |-> 0, seen |-> seen]]
  <1>1. /\ state \in TelStates(state.wrote) /\ state.op \in Nat /\ state.waves \in Waves
        /\ state.callers \in [OtCallers -> [wave : Nat, seen : SUBSET Nat]]
        /\ Len(state.waves) \in Nat /\ state.nested \in SUBSET Nat
    BY DEF TelGood, TelStates, Waves
  <1>2. /\ state' = TelTo(state, state.op, state.waves, state.nested, callers)
        /\ wave # 0 /\ wave # state.op
    BY <1>1 DEF Telemetry!CallerResumes, TelStates, TelTo
  <1>3. /\ wave \in 1..Len(state.waves) \ {state.op} /\ seen \subseteq 1..Len(state.waves) \ {state.op}
        /\ seen \in SUBSET Nat
    BY <1>1, <1>2 DEF TelGood, TelWaves
  <1> HIDE DEF wave, seen
  <1>4. /\ callers \in [OtCallers -> [wave : Nat, seen : SUBSET Nat]]
        /\ callers[c] = [wave |-> 0, seen |-> seen]
        /\ \A d \in OtCallers \ {c} : callers[d] = state.callers[d]
    BY <1>1, <1>3
  <1> HIDE DEF callers
  <1>5. /\ state' \in TelStates(state.wrote) /\ state'.wrote = state.wrote
        /\ state'.op = state.op /\ state'.waves = state.waves /\ state'.callers = callers
        /\ state'.nested = state.nested
    BY <1>1, <1>2, <1>4, TelMoves
  <1>6. ASSUME NEW d \in OtCallers
        PROVE  /\ callers[d].wave \in 0..Len(state.waves) /\ callers[d].wave \notin callers[d].seen
               /\ callers[d].seen \subseteq 1..Len(state.waves) \ {state.op}
    <2>1. CASE d = c
      BY <1>1, <1>3, <1>4, <2>1
    <2>2. CASE d # c
      BY <1>4, <2>2 DEF TelGood, TelWaves
    <2> QED
      BY <2>1, <2>2
  <1>7. TelWaves(state')
    BY <1>5, <1>6 DEF TelGood, TelWaves, WaveOver
  <1> QED
    BY <1>5, <1>7 DEF TelGood, TelWrote

(* Every step of the transport keeps it. *)
LEMMA TelStep == TelGood(state) /\ Telemetry!OtNext => TelGood(state')
  BY TelWrites, TelFlushes, TelNests, TelSettles, TelClears, TelResumes DEF Telemetry!OtNext

(* The invariant says what the transport promises. *)
LEMMA TelHolds == TelGood(state) => Telemetry!SpanIsBelieved /\ Telemetry!WavesAreApart
  <1> SUFFICES ASSUME TelGood(state) PROVE Telemetry!SpanIsBelieved /\ Telemetry!WavesAreApart
    OBVIOUS
  <1>1. Telemetry!SpanIsBelieved
    BY DEF Telemetry!SpanIsBelieved, Telemetry!Tuple, Telemetry!Exported, TelGood, TelWrote, Says
  <1>2. Telemetry!WavesAreApart
    <2>1. /\ Len(state.waves) \in Nat /\ DOMAIN state.waves = 1..Len(state.waves)
      BY DEF TelGood, TelStates, Waves
    <2>2. ASSUME NEW v \in 1..Len(state.waves), NEW w \in 1..Len(state.waves), v < w,
                 v \notin state.nested
          PROVE  Telemetry!Settled(v)
      <3>1. v # state.op
        BY <2>1, <2>2 DEF TelGood, TelWaves
      <3> QED
        BY <2>2, <3>1 DEF TelGood, TelWaves, WaveOver, Telemetry!Settled
    <2> QED
      BY <2>1, <2>2 DEF Telemetry!WavesAreApart, TelGood, TelWaves
  <1> QED
    BY <1>1, <1>2

(***************************************************************************)
(* The span around a callback                                              *)
(***************************************************************************)

BeforeApp == {"start", "log-start", "log-refused"}
AfterApp == {"log-completed", "log-failed", "exception", "status", "end"}

SpanPcs == BeforeApp \cup AfterApp \cup {"run", "run-noop", "done"}
SpanOuters == {"pending", "ok", "threw", "tracer-error"}

SpanStates ==
    [tracer : Spans!Tracers, lifecycle : BOOLEAN, failOnStartError : BOOLEAN,
     recording : BOOLEAN, pc : SpanPcs,
     app : {"no", "running", "ok", "threw"}, runs : {0, 1}, calls : Seq(AfterApp),
     failures : Nat, outer : SpanOuters]

(* What has been called on the span by the time its status is set and its   *)
(* record written.                                                         *)
Closing(x) ==
    IF ~x.recording THEN <<>>
    ELSE IF x.app = "threw" THEN <<"exception", "status">> ELSE <<"status">>

(* Where the callback is tells whether the application has run, what of the *)
(* span was called, and whether there is a span.                           *)
SpanRuns(x) ==
    /\ x.runs = IF x.app = "no" THEN 0 ELSE 1
    /\ x.pc \in BeforeApp => x.app = "no"
    /\ x.app = "running" => x.pc \in {"run", "run-noop"}
    /\ x.pc \in {"run", "run-noop"} => x.app \in {"no", "running"}
    /\ x.pc \in AfterApp => x.app \in {"ok", "threw"}
    /\ x.pc = "exception" => x.recording /\ x.app = "threw"
    /\ x.pc = "status" => x.recording
SpanCalled(x) ==
    /\ x.pc \in BeforeApp \cup {"run", "run-noop", "exception"} => x.calls = <<>>
    /\ x.pc = "status" => x.calls = IF x.app = "threw" THEN <<"exception">> ELSE <<>>
    /\ x.pc \in {"log-completed", "log-failed", "end"} => x.calls = Closing(x)
    /\ x.pc \in AfterApp \cup {"log-start", "run"} => x.tracer # "refuses"
    /\ x.pc \in {"log-refused", "run-noop"} => x.tracer = "refuses"
SpanTold(x) ==
    /\ x.outer = "tracer-error" => x.tracer # "faithful"
    /\ x.outer \in {"ok", "threw"} =>
          /\ x.pc = "done" /\ x.outer = x.app
          /\ x.tracer # "refuses" => x.calls = Append(Closing(x), "end")

SpanGood(x) == x \in SpanStates /\ SpanRuns(x) /\ SpanCalled(x) /\ SpanTold(x)

(* The invariant of a traced operation holds at first. *)
LEMMA SpanInit == Spans!OsInit => SpanGood(state)
  <1> SUFFICES ASSUME Spans!OsInit PROVE SpanGood(state)
    OBVIOUS
  <1>1. state \in SpanStates
    <2>1. /\ <<>> \in Seq(AfterApp) /\ 0 \in Nat /\ 0 \in {0, 1}
          /\ "start" \in SpanPcs
      BY DEF BeforeApp, SpanPcs
    <2> QED
      BY <2>1 DEF Spans!OsInit, SpanStates, SpanOuters
  <1>2. /\ state.pc = "start" /\ state.app = "no" /\ state.runs = 0 /\ state.calls = <<>>
        /\ state.outer = "pending"
    BY DEF Spans!OsInit
  <1> QED
    BY <1>1, <1>2 DEF SpanGood, SpanRuns, SpanCalled, SpanTold, BeforeApp, AfterApp

(* A step that moves on, and may tell the caller.                           *)
SpanTo(x, pc, o) == [[x EXCEPT !.pc = pc] EXCEPT !.outer = o]

(* What a step of the traced operation leaves alone. *)
LEMMA SpanMoves ==
    ASSUME NEW x \in SpanStates, NEW pc \in SpanPcs,
           NEW o \in SpanOuters
    PROVE  /\ SpanTo(x, pc, o) \in SpanStates
           /\ SpanTo(x, pc, o).pc = pc /\ SpanTo(x, pc, o).outer = o
           /\ SpanTo(x, pc, o).tracer = x.tracer /\ SpanTo(x, pc, o).lifecycle = x.lifecycle
           /\ SpanTo(x, pc, o).recording = x.recording
           /\ SpanTo(x, pc, o).app = x.app /\ SpanTo(x, pc, o).runs = x.runs
           /\ SpanTo(x, pc, o).calls = x.calls
  BY DEF SpanStates, SpanTo

(* Starting the span keeps the invariant. *)
LEMMA SpanStarts == SpanGood(state) /\ Spans!StartActiveSpan => SpanGood(state')
  <1> SUFFICES ASSUME SpanGood(state), Spans!StartActiveSpan PROVE SpanGood(state')
    OBVIOUS
  <1>1. /\ state \in SpanStates /\ state.pc = "start" /\ state.app = "no" /\ state.runs = 0
        /\ state.calls = <<>> /\ state.outer \in {"pending", "tracer-error"}
        /\ state.tracer \in {"faithful", "refuses", "calls-and-throws"}
        /\ state.outer = "tracer-error" => state.tracer # "faithful"
    BY DEF SpanGood, SpanRuns, SpanCalled, SpanTold, SpanStates, SpanOuters, BeforeApp, Spans!StartActiveSpan,
           Spans!Tracers
  <1>2. PICK pc \in {"log-start", "run", "log-refused"}, o \in {state.outer, "tracer-error"} :
          /\ state' = SpanTo(state, pc, o)
          /\ pc = "log-refused" <=> state.tracer = "refuses"
          /\ o # state.outer => state.tracer # "faithful"
    <2>1. state.outer = state.outer /\ [state EXCEPT !.pc = "log-start"] = SpanTo(state, "log-start", state.outer)
      BY <1>1 DEF SpanStates, SpanTo
    <2>2. [state EXCEPT !.pc = "run"] = SpanTo(state, "run", state.outer)
      BY <1>1 DEF SpanStates, SpanTo
    <2>3. [state EXCEPT !.pc = "log-refused"] = SpanTo(state, "log-refused", state.outer)
      BY <1>1 DEF SpanStates, SpanTo
    <2> QED
      BY <1>1, <2>1, <2>2, <2>3 DEF Spans!StartActiveSpan, Spans!Goto, SpanTo
  <1>3. /\ state' \in SpanStates /\ state'.pc = pc /\ state'.outer = o
        /\ state'.tracer = state.tracer /\ state'.app = "no" /\ state'.runs = 0
        /\ state'.calls = <<>>
    <2>1. pc \in SpanPcs
      BY DEF SpanPcs, BeforeApp
    <2>2. o \in SpanOuters
      BY <1>1 DEF SpanOuters
    <2> QED
      BY <1>1, <1>2, <2>1, <2>2, SpanMoves
  <1> QED
    BY <1>1, <1>2, <1>3 DEF SpanGood, SpanRuns, SpanCalled, SpanTold, BeforeApp, AfterApp

(* A tracer that refuses keeps it. *)
LEMMA SpanRefused == SpanGood(state) /\ Spans!Refused => SpanGood(state')
  <1> SUFFICES ASSUME SpanGood(state), Spans!Refused PROVE SpanGood(state')
    OBVIOUS
  <1>1. /\ state \in SpanStates /\ state.pc = "log-refused" /\ state.app = "no" /\ state.runs = 0
        /\ state.calls = <<>> /\ state.outer \in {"pending", "tracer-error"}
        /\ state.tracer = "refuses"
    BY DEF SpanGood, SpanRuns, SpanCalled, SpanTold, SpanStates, SpanOuters, BeforeApp, Spans!Refused
  <1>2. PICK pc \in {"done", "run-noop"}, o \in {state.outer, "tracer-error"} :
          /\ state' = SpanTo(state, pc, o)
          /\ pc = "done" => o = "tracer-error"
    <2>1. [state EXCEPT !.pc = "run-noop"] = SpanTo(state, "run-noop", state.outer)
      BY <1>1 DEF SpanStates, SpanTo
    <2> QED
      BY <1>1, <2>1 DEF Spans!Refused, Spans!Goto, SpanTo
  <1>3. /\ state' \in SpanStates /\ state'.pc = pc /\ state'.outer = o
        /\ state'.tracer = state.tracer /\ state'.app = "no" /\ state'.runs = 0
        /\ state'.calls = <<>>
    <2>1. pc \in SpanPcs
      BY DEF SpanPcs, BeforeApp
    <2>2. o \in SpanOuters
      BY <1>1 DEF SpanOuters
    <2> QED
      BY <1>1, <1>2, <2>1, <2>2, SpanMoves
  <1> QED
    BY <1>1, <1>2, <1>3 DEF SpanGood, SpanRuns, SpanCalled, SpanTold, BeforeApp, AfterApp

(* The records before and after the callback.                               *)
LEMMA SpanLogs ==
    ASSUME SpanGood(state), NEW at, NEW next, Spans!LogSettles(at, next),
           \/ at = "log-start" /\ next = "run"
           \/ at \in {"log-completed", "log-failed"} /\ next = "end"
    PROVE  SpanGood(state')
  <1>1. state \in SpanStates /\ state.pc = at /\ state.outer \in {"pending", "tracer-error"}
    BY DEF SpanGood, SpanTold, SpanStates, SpanOuters, Spans!LogSettles
  <1>2. state' = SpanTo(state, next, state.outer)
    BY <1>1 DEF SpanStates, SpanTo, Spans!LogSettles, Spans!Goto
  <1>3. /\ state' \in SpanStates /\ state'.pc = next /\ state'.outer = state.outer
        /\ state'.tracer = state.tracer /\ state'.recording = state.recording
        /\ state'.app = state.app /\ state'.runs = state.runs /\ state'.calls = state.calls
    <2>1. next \in SpanPcs
      BY DEF BeforeApp, AfterApp, SpanPcs
    <2>2. state.outer \in SpanOuters
      BY <1>1 DEF SpanOuters
    <2> QED
      BY <1>1, <1>2, <2>1, <2>2, SpanMoves
  <1>4. Closing(state') = Closing(state)
    BY <1>3 DEF Closing
  <1>5. CASE at = "log-start" /\ next = "run"
    <2>1. state.app = "no" /\ state.calls = <<>> /\ state.runs = 0 /\ state.tracer # "refuses"
      BY <1>1, <1>5 DEF SpanGood, SpanRuns, SpanCalled, BeforeApp
    <2> QED
      BY <1>1, <1>3, <1>5, <2>1 DEF SpanGood, SpanRuns, SpanCalled, SpanTold, BeforeApp, AfterApp
  <1>6. CASE at \in {"log-completed", "log-failed"} /\ next = "end"
    BY <1>1, <1>3, <1>4, <1>6 DEF SpanGood, SpanRuns, SpanCalled, SpanTold, BeforeApp, AfterApp
  <1> QED
    BY <1>5, <1>6

(* Running the application keeps it. *)
LEMMA SpanApp == SpanGood(state) /\ Spans!Run => SpanGood(state')
  <1> SUFFICES ASSUME SpanGood(state), Spans!Run PROVE SpanGood(state')
    OBVIOUS
  <1>1. /\ state \in SpanStates /\ state.pc \in {"run", "run-noop"} /\ state.app = "no"
        /\ state.runs = 0 /\ state.outer \in {"pending", "tracer-error"}
    BY DEF SpanGood, SpanRuns, SpanTold, SpanStates, SpanOuters, Spans!Run
  <1>2. /\ state' \in SpanStates /\ state'.pc = state.pc /\ state'.outer = state.outer
        /\ state'.tracer = state.tracer /\ state'.recording = state.recording
        /\ state'.app = "running" /\ state'.runs = 1 /\ state'.calls = state.calls
    <2>1. state' = [state EXCEPT !.app = "running", !.runs = 1]
      BY <1>1 DEF Spans!Run, SpanStates
    <2> QED
      BY <1>1, <2>1 DEF SpanStates
  <1> QED
    BY <1>1, <1>2 DEF SpanGood, SpanRuns, SpanCalled, SpanTold, BeforeApp, AfterApp

(* The application that settles keeps it. *)
LEMMA SpanAppSettles ==
    ASSUME SpanGood(state), NEW outcome \in {"ok", "threw"}, Spans!AppSettles(outcome)
    PROVE  SpanGood(state')
  <1> DEFINE x == [state EXCEPT !.app = outcome]
  <1>1. /\ state \in SpanStates /\ state.app = "running" /\ state.pc \in {"run", "run-noop"}
        /\ state.runs = 1 /\ state.calls = <<>> /\ state.outer \in {"pending", "tracer-error"}
        /\ state.pc = "run" <=> state.tracer # "refuses"
        /\ state.outer = "tracer-error" => state.tracer # "faithful"
        /\ state.recording \in BOOLEAN
    BY DEF SpanGood, SpanRuns, SpanCalled, SpanTold, SpanStates, SpanOuters, Spans!AppSettles
  <1>2. /\ x \in SpanStates /\ x.app = outcome /\ x.tracer = state.tracer
        /\ x.recording = state.recording /\ x.runs = 1 /\ x.calls = <<>>
        /\ x.outer = state.outer /\ x.lifecycle = state.lifecycle /\ x.pc = state.pc
    BY <1>1 DEF SpanStates
  <1>3. state' = IF state.pc = "run-noop" THEN Spans!Settle(x, "done")
                 ELSE Spans!Goto(x, Spans!AfterCallback(outcome))
    BY DEF Spans!AppSettles
  <1> HIDE DEF x
  <1>4. CASE state.pc = "run-noop"
    <2>1. state' = SpanTo(x, "done", IF x.outer = "pending" THEN outcome ELSE x.outer)
      <3>1. state' = Spans!Settle(x, "done")
        BY <1>3, <1>4
      <3>2. Spans!Settle(x, "done") = SpanTo(x, "done", IF x.outer = "pending" THEN x.app ELSE x.outer)
        BY <1>2 DEF Spans!Settle, Spans!Goto, SpanTo, SpanStates
      <3> QED
        BY <1>2, <3>1, <3>2
    <2>2. (IF x.outer = "pending" THEN outcome ELSE x.outer) \in SpanOuters /\ "done" \in SpanPcs
      BY <1>1, <1>2 DEF SpanOuters, SpanPcs
    <2>3. /\ state' \in SpanStates /\ state'.pc = "done"
          /\ state'.outer = IF x.outer = "pending" THEN outcome ELSE x.outer
          /\ state'.tracer = "refuses" /\ state'.app = outcome /\ state'.runs = 1
      BY <1>1, <1>2, <1>4, <2>1, <2>2, SpanMoves
    <2> QED
      BY <1>1, <1>2, <2>3 DEF SpanGood, SpanRuns, SpanCalled, SpanTold, BeforeApp, AfterApp
  <1>5. CASE state.pc = "run"
    <2>1. PICK pc \in {"log-failed", "log-completed", "end", "exception", "status"} :
            /\ state' = [x EXCEPT !.pc = pc]
            /\ pc = "exception" => state.recording /\ outcome = "threw"
            /\ pc = "status" => state.recording /\ outcome = "ok"
            /\ pc \notin {"exception", "status"} => ~state.recording
      <3>1. state' = [x EXCEPT !.pc = Spans!AfterCallback(outcome)]
        BY <1>3, <1>5 DEF Spans!Goto
      <3>2. CASE state.recording
        BY <3>1, <3>2 DEF Spans!AfterCallback
      <3>3. CASE ~state.recording
        BY <3>1, <3>3 DEF Spans!AfterCallback
      <3> QED
        BY <3>2, <3>3
    <2>2. state' = SpanTo(x, pc, x.outer)
      BY <1>2, <2>1 DEF SpanStates, SpanTo
    <2>3. /\ state' \in SpanStates /\ state'.pc = pc /\ state'.outer = state.outer
          /\ state'.tracer = state.tracer /\ state'.recording = state.recording
          /\ state'.app = outcome /\ state'.runs = 1 /\ state'.calls = <<>>
      <3>1. pc \in SpanPcs
        BY DEF AfterApp, SpanPcs
      <3>2. state.outer \in SpanOuters
        BY <1>1 DEF SpanOuters
      <3> QED
        BY <1>1, <1>2, <2>2, <3>1, <3>2, SpanMoves
    <2> QED
      BY <1>1, <1>5, <2>1, <2>3
         DEF SpanGood, SpanRuns, SpanCalled, SpanTold, BeforeApp, AfterApp, Closing
  <1> QED
    BY <1>1, <1>4, <1>5

(* A method of the span, whether it fails or not, keeps it. *)
LEMMA SpanMethod ==
    ASSUME SpanGood(state), NEW fails \in BOOLEAN, Spans!Method(fails)
    PROVE  SpanGood(state')
  <1> DEFINE x == [Spans!Calls(state, state.pc) EXCEPT !.failures = IF fails THEN @ + 1 ELSE @]
             next == Spans!AfterMethod(state.pc, fails)
  <1>1. /\ state \in SpanStates /\ state.pc \in {"exception", "status", "end"}
        /\ state.app \in {"ok", "threw"} /\ state.runs = 1
        /\ state.outer \in {"pending", "tracer-error"} /\ state.tracer # "refuses"
        /\ state.outer = "tracer-error" => state.tracer # "faithful"
    BY DEF SpanGood, SpanRuns, SpanCalled, SpanTold, SpanStates, SpanOuters, Spans!Method, AfterApp
  <1>2. /\ state.pc = "exception" => state.recording /\ state.app = "threw" /\ state.calls = <<>>
        /\ state.pc = "status" => /\ state.recording
                                  /\ state.calls = IF state.app = "threw" THEN <<"exception">> ELSE <<>>
        /\ state.pc = "end" => state.calls = Closing(state)
    BY DEF SpanGood, SpanRuns, SpanCalled
  <1>3. /\ x \in SpanStates /\ x.app = state.app /\ x.tracer = state.tracer
        /\ x.recording = state.recording /\ x.runs = 1 /\ x.calls = Append(state.calls, state.pc)
        /\ x.outer = state.outer
    <2>1. Append(state.calls, state.pc) \in Seq(AfterApp)
      <3>1. state.calls \in Seq(AfterApp)
        BY <1>1 DEF SpanStates
      <3>2. state.pc \in AfterApp
        BY <1>1 DEF AfterApp
      <3> QED
        BY <3>1, <3>2
    <2>2. state.failures \in Nat /\ (IF fails THEN state.failures + 1 ELSE state.failures) \in Nat
      BY <1>1 DEF SpanStates
    <2>3. x = [state EXCEPT !.calls = Append(state.calls, state.pc),
                            !.failures = IF fails THEN state.failures + 1 ELSE state.failures]
      BY <1>1 DEF SpanStates, Spans!Calls
    <2> HIDE DEF x
    <2> QED
      BY <1>1, <2>1, <2>2, <2>3 DEF SpanStates
  <1>4. /\ state' = IF next = "done" THEN Spans!Settle(x, next) ELSE Spans!Goto(x, next)
        /\ state.pc = "end" => next = "done"
        /\ state.pc = "exception" => next = "status"
        /\ state.pc = "status" => next \in {"log-failed", "log-completed", "end"}
    BY <1>1 DEF Spans!Method, Spans!AfterMethod
  <1> HIDE DEF x, next
  <1>5. Closing(x) = Closing(state)
    BY <1>3 DEF Closing
  <1>6. CASE next = "done"
    <2>1. state' = SpanTo(x, "done", IF x.outer = "pending" THEN x.app ELSE x.outer)
      BY <1>3, <1>4, <1>6 DEF Spans!Settle, Spans!Goto, SpanTo
    <2>2. (IF x.outer = "pending" THEN x.app ELSE x.outer) \in SpanOuters /\ "done" \in SpanPcs
      BY <1>1, <1>3 DEF SpanOuters, SpanPcs
    <2>3. /\ state' \in SpanStates /\ state'.pc = "done"
          /\ state'.outer = IF x.outer = "pending" THEN x.app ELSE x.outer
          /\ state'.tracer = state.tracer /\ state'.app = state.app /\ state'.runs = 1
          /\ state'.calls = Append(state.calls, state.pc) /\ state'.recording = state.recording
      BY <1>3, <2>1, <2>2, SpanMoves
    <2>4. Closing(state') = Closing(state)
      BY <2>3 DEF Closing
    <2>5. state.pc = "end"
      BY <1>1, <1>4, <1>6
    <2> QED
      BY <1>1, <1>2, <1>3, <2>3, <2>4, <2>5 DEF SpanGood, SpanRuns, SpanCalled, SpanTold, BeforeApp, AfterApp
  <1>7. CASE next # "done"
    <2>1. next \in AfterApp /\ next \in SpanPcs /\ state.outer \in SpanOuters
      BY <1>1, <1>4, <1>7 DEF AfterApp, SpanPcs, SpanOuters
    <2>2. state' = SpanTo(x, next, x.outer)
      BY <1>3, <1>4, <1>7 DEF Spans!Goto, SpanStates, SpanTo
    <2>3. /\ state' \in SpanStates /\ state'.pc = next /\ state'.outer = state.outer
          /\ state'.tracer = state.tracer /\ state'.app = state.app /\ state'.runs = 1
          /\ state'.calls = Append(state.calls, state.pc) /\ state'.recording = state.recording
      BY <1>1, <1>3, <2>1, <2>2, SpanMoves
    <2>4. Closing(state') = Closing(state)
      BY <2>3 DEF Closing
    <2>5. state.pc = "status" => state'.calls = Closing(state)
      BY <1>1, <1>2, <2>3 DEF Closing
    <2>6. state.pc = "exception" => state'.calls = <<"exception">>
      <3>1. Append(<<>>, "exception") = <<"exception">>
        OBVIOUS
      <3> QED
        BY <1>2, <2>3, <3>1
    <2> QED
      BY <1>1, <1>2, <1>4, <1>7, <2>1, <2>3, <2>4, <2>5, <2>6
         DEF SpanGood, SpanRuns, SpanCalled, SpanTold, BeforeApp, AfterApp
  <1> QED
    BY <1>6, <1>7

(* Every step of a traced operation keeps the invariant. *)
LEMMA SpanStep == SpanGood(state) /\ Spans!OsNext => SpanGood(state')
  BY SpanStarts, SpanRefused, SpanLogs, SpanApp, SpanAppSettles, SpanMethod DEF Spans!OsNext

(* The invariant says that the result is the application's. *)
LEMMA SpanHolds == SpanGood(state) => Spans!ResultIsTheApplications
  <1> SUFFICES ASSUME SpanGood(state) PROVE Spans!ResultIsTheApplications
    OBVIOUS
  <1>1. state.runs <= 1
    BY DEF SpanGood, SpanStates
  <1>2. ASSUME state.outer \in {"ok", "threw"}, state.tracer # "refuses"
        PROVE  state.calls = IF ~state.recording THEN <<"end">>
                        ELSE IF state.app = "threw" THEN <<"exception", "status", "end">>
                        ELSE <<"status", "end">>
    BY <1>2 DEF SpanGood, SpanTold, Closing
  <1> QED
    BY <1>1, <1>2 DEF Spans!ResultIsTheApplications, SpanGood, SpanTold

(***************************************************************************)
(* The configuration                                                       *)
(***************************************************************************)
Keys == DOMAIN CfWords
AnyWord == {Configuration!Absent} \cup UNION {CfWords[k] : k \in Keys}

(* The word the environment has after the flags, and the place it is from.  *)
EnvPlace(x) == IF x.says["flags"] # Configuration!Absent THEN "flags" ELSE "env"
Has(x, p) == x.says[p] # Configuration!Absent

(* Who has the last word when r is the role.                                *)
Winner(x, r) ==
    IF Has(x, "overrides") THEN "overrides"
    ELSE IF Has(x, EnvPlace(x)) THEN EnvPlace(x)
    ELSE IF r \in {"client", "server"} /\ Has(x, r) THEN r
    ELSE IF Has(x, "common") THEN "common" ELSE "default"

(* The greatest of a set of the first four numbers.                         *)
LEMMA GreatestOfFew ==
    ASSUME NEW S \in SUBSET (1..4), NEW m \in S, \A y \in S : m >= y
    PROVE  Configuration!Max(S) = m
  <1>1. Configuration!Max(S) \in S /\ \A y \in S : Configuration!Max(S) >= y
    BY DEF Configuration!Max
  <1>2. Configuration!Max(S) >= m /\ m >= Configuration!Max(S)
    BY <1>1
  <1>3. Configuration!Max(S) \in 1..4 /\ m \in 1..4
    BY <1>1
  <1> QED
    BY <1>2, <1>3

(* A set of some of four ranks has its least. *)
LEMMA LeastOfFew ==
    ASSUME NEW S \in SUBSET (1..4), S # {}
    PROVE  Configuration!Min(S) \in S
  <1>1. \E m \in S : \A y \in S : m <= y
    <2>1. CASE 1 \in S
      BY <2>1
    <2>2. CASE 1 \notin S /\ 2 \in S
      BY <2>2
    <2>3. CASE 1 \notin S /\ 2 \notin S /\ 3 \in S
      BY <2>3
    <2>4. CASE 1 \notin S /\ 2 \notin S /\ 3 \notin S
      <3>1. \A y \in S : y = 4
        BY <2>4
      <3>2. PICK y \in S : TRUE
        OBVIOUS
      <3> QED
        BY <3>1, <3>2
    <2> QED
      BY <2>1, <2>2, <2>3, <2>4
  <1> QED
    BY <1>1 DEF Configuration!Min

(* Layers of sources put together, with and without the one of a role. *)
LEMMA LayersTogether ==
    ASSUME NEW a, NEW b, NEW c, NEW d
    PROVE  /\ <<a>> \o <<>> \o <<c, d>> = <<a, c, d>>
           /\ <<a>> \o <<b>> \o <<c, d>> = <<a, b, c, d>>
  <1> DEFINE S == {a, b, c, d}
             s == <<a>>
             r == <<b>>
             q == <<c, d>>
  <1>1. /\ s \in Seq(S) /\ Len(s) = 1 /\ s[1] = a /\ r \in Seq(S) /\ Len(r) = 1 /\ r[1] = b
        /\ q \in Seq(S) /\ Len(q) = 2 /\ q[1] = c /\ q[2] = d
    OBVIOUS
  <1>2. s \o <<>> = s
    BY <1>1, ConcatEmptySeq
  <1> HIDE DEF s, r, q, S
  <1>3. s \o q = <<a, c, d>>
    <2> DEFINE t == s \o q
    <2>1. t \in Seq(S) /\ Len(t) = 3 /\ t[1] = a /\ t[2] = c /\ t[3] = d
      <3>1. Joint(s, q, S, 1, 2)
        BY <1>1, Together
      <3> QED
        BY <1>1, <3>1 DEF Joint
    <2> HIDE DEF t
    <2>2. t = <<a, c, d>>
      BY <2>1
    <2> QED
      BY <2>2 DEF t
  <1>4. s \o r \o q = <<a, b, c, d>>
    <2> DEFINE u == s \o r
               t == u \o q
    <2>1. u \in Seq(S) /\ Len(u) = 2 /\ u[1] = a /\ u[2] = b
      <3>1. Joint(s, r, S, 1, 1)
        BY <1>1, Together
      <3> QED
        BY <1>1, <3>1 DEF Joint
    <2> HIDE DEF u
    <2>2. t \in Seq(S) /\ Len(t) = 4 /\ t[1] = a /\ t[2] = b /\ t[3] = c /\ t[4] = d
      <3>1. Joint(u, q, S, 2, 2)
        BY <1>1, <2>1, Together
      <3> QED
        BY <1>1, <2>1, <3>1 DEF Joint
    <2> HIDE DEF t
    <2>3. t = <<a, b, c, d>>
      BY <2>2
    <2> QED
      BY <2>3 DEF t, u
  <1> QED
    BY <1>2, <1>3, <1>4 DEF s, r, q

(* merge, reduced over the layers, gives the last one that says something.  *)
LEMMA LastWord ==
    ASSUME NEW x, NEW r \in {"shared", "client", "server"}
    PROVE  Configuration!ResolvedJson(Configuration!Merged(Configuration!Layers(x, r))) = Winner(x, r)
  <1> DEFINE layers == Configuration!Layers(x, r)
             none == Configuration!Absent
             says == {i \in DOMAIN layers : layers[i][2] # none}
             first == <<"common", x.says["common"]>>
             env == <<EnvPlace(x), x.says[EnvPlace(x)]>>
             last == <<"overrides", x.says["overrides"]>>
  <1> SUFFICES Configuration!ResolvedJson(Configuration!Merged(layers)) = Winner(x, r)
    OBVIOUS
  <1>1. Configuration!EffectiveEnv(x).word = [place |-> EnvPlace(x), word |-> x.says[EnvPlace(x)]]
    BY DEF Configuration!EffectiveEnv, EnvPlace
  <1>2. Configuration!Merged(layers) = IF says = {} THEN "none" ELSE layers[Configuration!Max(says)][1]
    BY DEF Configuration!Merged
  <1>3. CASE r = "shared"
    <2>1. layers = <<first, env, last>>
      BY <1>1, <1>3, LayersTogether DEF Configuration!Layers, Configuration!Runtimes
    <2>2. DOMAIN layers = 1..3 /\ layers[1] = first /\ layers[2] = env /\ layers[3] = last
      BY <2>1
    <2> HIDE DEF layers
    <2>3. /\ says \subseteq 1..4 /\ (1 \in says <=> Has(x, "common"))
          /\ (2 \in says <=> Has(x, EnvPlace(x))) /\ (3 \in says <=> Has(x, "overrides"))
          /\ \A i \in says : i \in 1..3
      BY <2>2 DEF Has
    <2> HIDE DEF says
    <2>4. CASE Has(x, "overrides")
      <3>1. Configuration!Max(says) = 3 /\ says # {}
        BY <2>3, <2>4, GreatestOfFew
      <3> QED
        BY <1>2, <2>2, <2>4, <3>1 DEF Winner, Configuration!ResolvedJson
    <2>5. CASE ~Has(x, "overrides") /\ Has(x, EnvPlace(x))
      <3>1. Configuration!Max(says) = 2 /\ says # {}
        BY <2>3, <2>5, GreatestOfFew
      <3> QED
        BY <1>2, <2>2, <2>5, <3>1 DEF Winner, EnvPlace, Configuration!ResolvedJson
    <2>6. CASE ~Has(x, "overrides") /\ ~Has(x, EnvPlace(x)) /\ Has(x, "common")
      <3>1. Configuration!Max(says) = 1 /\ says # {}
        BY <2>3, <2>6, GreatestOfFew
      <3> QED
        BY <1>2, <1>3, <2>2, <2>6, <3>1 DEF Winner, Configuration!ResolvedJson
    <2>7. CASE ~Has(x, "overrides") /\ ~Has(x, EnvPlace(x)) /\ ~Has(x, "common")
      <3>1. says = {}
        BY <2>3, <2>7
      <3> QED
        BY <1>2, <1>3, <2>7, <3>1 DEF Winner, Configuration!ResolvedJson
    <2> QED
      BY <2>4, <2>5, <2>6, <2>7
  <1>4. CASE r \in {"client", "server"}
    <2> DEFINE own == <<r, x.says[r]>>
    <2>1. layers = <<first, own, env, last>>
      BY <1>1, <1>4, LayersTogether DEF Configuration!Layers, Configuration!Runtimes
    <2>2. /\ DOMAIN layers = 1..4 /\ layers[1] = first /\ layers[2] = own /\ layers[3] = env
          /\ layers[4] = last
      BY <2>1
    <2> HIDE DEF layers
    <2>3. /\ says \subseteq 1..4 /\ (1 \in says <=> Has(x, "common")) /\ (2 \in says <=> Has(x, r))
          /\ (3 \in says <=> Has(x, EnvPlace(x))) /\ (4 \in says <=> Has(x, "overrides"))
          /\ \A i \in says : i \in 1..4
      BY <2>2 DEF Has
    <2> HIDE DEF says
    <2>4. CASE Has(x, "overrides")
      <3>1. Configuration!Max(says) = 4 /\ says # {}
        BY <2>3, <2>4, GreatestOfFew
      <3> QED
        BY <1>2, <2>2, <2>4, <3>1 DEF Winner, Configuration!ResolvedJson
    <2>5. CASE ~Has(x, "overrides") /\ Has(x, EnvPlace(x))
      <3>1. Configuration!Max(says) = 3 /\ says # {}
        BY <2>3, <2>5, GreatestOfFew
      <3> QED
        BY <1>2, <2>2, <2>5, <3>1 DEF Winner, EnvPlace, Configuration!ResolvedJson
    <2>6. CASE ~Has(x, "overrides") /\ ~Has(x, EnvPlace(x)) /\ Has(x, r)
      <3>1. Configuration!Max(says) = 2 /\ says # {}
        BY <2>3, <2>6, GreatestOfFew
      <3> QED
        BY <1>2, <1>4, <2>2, <2>6, <3>1 DEF Winner, Configuration!ResolvedJson
    <2>7. CASE ~Has(x, "overrides") /\ ~Has(x, EnvPlace(x)) /\ ~Has(x, r) /\ Has(x, "common")
      <3>1. Configuration!Max(says) = 1 /\ says # {}
        BY <2>3, <2>7, GreatestOfFew
      <3> QED
        BY <1>2, <1>4, <2>2, <2>7, <3>1 DEF Winner, Configuration!ResolvedJson
    <2>8. CASE ~Has(x, "overrides") /\ ~Has(x, EnvPlace(x)) /\ ~Has(x, r) /\ ~Has(x, "common")
      <3>1. says = {}
        BY <2>3, <2>8
      <3> QED
        BY <1>2, <1>4, <2>8, <3>1 DEF Winner, Configuration!ResolvedJson
    <2> QED
      BY <2>4, <2>5, <2>6, <2>7, <2>8
  <1> QED
    BY <1>3, <1>4

(* A role: the one asked for, that of the only section, or none.            *)
LEMMA RoleIsChosen ==
    ASSUME NEW x, x.role \in {"none", "server"}, x.envRole \in {"none", "client", "bogus"},
           x.flagRole \in {"none", "server"}, x.sections \in SUBSET {"client", "server"},
           Configuration!SelectRole(x) # "fails"
    PROVE  LET r == Configuration!SelectRole(x)
           IN  /\ r \in {"shared", "client", "server"}
               /\ r \in {"client", "server"} /\ r \notin {x.role, x.envRole, x.flagRole} => x.sections = {r}
  <1> DEFINE asked == Configuration!RequestedRole(x)
             r == Configuration!SelectRole(x)
  <1>1. asked \in {x.role, x.envRole, x.flagRole} /\ asked \in {"none", "client", "server", "bogus"}
    BY DEF Configuration!RequestedRole, Configuration!EffectiveEnv
  <1>2. CASE asked = "bogus"
    <2>1. r = "fails"
      BY <1>2 DEF Configuration!SelectRole, Configuration!Runtimes
    <2> QED
      BY <2>1
  <1>3. CASE asked \in {"client", "server"}
    <2>1. r \in {"fails", asked}
      BY <1>3 DEF Configuration!SelectRole, Configuration!Runtimes
    <2> QED
      BY <1>1, <1>3, <2>1
  <1>4. CASE asked = "none"
    <2>1. r = IF x.sections = {"client", "server"} THEN "fails" ELSE IF x.sections = {} THEN "shared"
              ELSE CHOOSE s \in x.sections : TRUE
      BY <1>4 DEF Configuration!SelectRole, Configuration!Runtimes
    <2>2. x.sections \in {{}, {"client"}, {"server"}, {"client", "server"}}
      OBVIOUS
    <2>3. CASE x.sections = {}
      BY <2>1, <2>3
    <2>4. CASE x.sections = {"client"}
      <3>1. r = "client"
        BY <2>1, <2>4
      <3> QED
        BY <2>4, <3>1
    <2>5. CASE x.sections = {"server"}
      <3>1. r = "server"
        BY <2>1, <2>5
      <3> QED
        BY <2>5, <3>1
    <2>6. CASE x.sections = {"client", "server"}
      BY <2>1, <2>6
    <2> QED
      BY <2>2, <2>3, <2>4, <2>5, <2>6
  <1> QED
    BY <1>1, <1>2, <1>3, <1>4

(* A list with as many elements as places repeats none.                     *)
LEMMA Unrepeated ==
    ASSUME NEW s \in Seq(Int), Configuration!Distinct(s)
    PROVE  \A i, j \in DOMAIN s : i < j => s[i] # s[j]
  <1> DEFINE S == 1..Len(s)
             T == {s[i] : i \in DOMAIN s}
  <1>1. Cardinality(T) = Len(s)
    BY DEF Configuration!Distinct, Configuration!Range, Cardinality, Configuration!Cardinality
  <1>2. Len(s) \in Nat /\ DOMAIN s = S /\ s \in [S -> Int]
    BY LenProperties
  <1>3. IsFiniteSet(S) /\ Cardinality(S) = Len(s)
    <2>1. /\ IsFiniteSet(1..Len(s))
          /\ Cardinality(1..Len(s)) = IF 1 > Len(s) THEN 0 ELSE Len(s) - 1 + 1
      BY <1>2, FS_Interval
    <2> QED
      BY <1>2, <2>1
  <1> HIDE DEF S
  <1>4. s \in Surjection(S, T)
    <2>1. s \in [S -> T]
      BY <1>2
    <2>2. \A t \in T : \E i \in S : s[i] = t
      BY <1>2
    <2> QED
      BY <2>1, <2>2 DEF Surjection
  <1> HIDE DEF T
  <1>5. s \in Injection(S, T)
    BY <1>1, <1>3, <1>4, FS_Surjection
  <1>6. \A i, j \in S : s[i] = s[j] => i = j
    BY <1>5 DEF Injection, IsInjective
  <1>7. \A i, j \in S : i < j => i # j
    BY <1>2 DEF S
  <1> QED
    BY <1>2, <1>6, <1>7

(* A list that ascends from each place to the next ascends.                 *)
LEMMA Ascends ==
    ASSUME NEW s \in Seq(Int), \A i \in 2..Len(s) : s[i - 1] < s[i]
    PROVE  \A i, j \in DOMAIN s : i < j => s[i] < s[j]
  <1> DEFINE n == Len(s)
             T == {k \in Nat : \A i \in 1..n : k >= 1 /\ i + k <= n => s[i] < s[i + k]}
  <1>1. n \in Nat /\ DOMAIN s = 1..n /\ \A i \in 1..n : s[i] \in Int
    BY LenProperties, ElementOfSeq
  <1> HIDE DEF n
  <1>2. 0 \in T
    OBVIOUS
  <1>3. ASSUME NEW k \in Nat, k \in T PROVE k + 1 \in T
    <2> SUFFICES ASSUME NEW i \in 1..n, i + (k + 1) <= n PROVE s[i] < s[i + (k + 1)]
      OBVIOUS
    <2>1. /\ i + k \in 1..n /\ i + (k + 1) \in 2..n /\ i + (k + 1) \in 1..n
          /\ (i + (k + 1)) - 1 = i + k
      BY <1>1
    <2>2. s[i + k] < s[i + (k + 1)]
      BY <2>1 DEF n
    <2>3. k = 0 \/ s[i] < s[i + k]
      BY <1>1, <1>3, <2>1
    <2>4. s[i] \in Int /\ s[i + k] \in Int /\ s[i + (k + 1)] \in Int
      BY <1>1, <2>1
    <2>5. CASE k = 0
      BY <1>1, <2>2, <2>5
    <2>6. CASE s[i] < s[i + k]
      BY <2>2, <2>4, <2>6
    <2> QED
      BY <2>3, <2>5, <2>6
  <1>4. Nat \subseteq T
    <2> HIDE DEF T
    <2> QED
      BY <1>2, <1>3, SetInduction
  <1>5. ASSUME NEW i \in 1..n, NEW j \in 1..n, i < j PROVE s[i] < s[j]
    <2>1. j - i \in Nat /\ j - i >= 1 /\ i + (j - i) = j
      BY <1>1, <1>5
    <2>2. j - i \in T
      BY <1>4, <2>1
    <2> QED
      BY <1>1, <2>1, <2>2
  <1> QED
    BY <1>1, <1>5

(* What a word is to its validation: without the blank propagators of a      *)
(* variable, and without the spelling of a number that is a value.          *)
Entries(k, w, p) ==
    IF p \in {"env", "flags"} /\ k = "tracing.propagators" THEN Configuration!Without(w.items, {0})
    ELSE w.items
Validated(k, w, p, u) ==
    /\ Configuration!Admits(k, u) /\ u.type = w.type /\ u.n = w.n /\ u.items = Entries(k, w, p)
    /\ p # "overrides" => u.float = w.float
    /\ k = "tracing.propagators" /\ p \in {"env", "flags"} => u.items # <<>>

(* Every word that is let through is validated, and a list of numbers.      *)
LEMMA WordsAreValidated ==
    ASSUME NEW k \in Keys, NEW w \in CfWords[k], NEW p \in Configuration!Places,
           \/ p \in Configuration!InFile /\ Configuration!Admits(k, w)
           \/ p \in {"env", "flags"} /\ Configuration!EnvAdmits(k, w)
           \/ p = "overrides" /\ Configuration!OverridesAdmit(k, w)
    PROVE  /\ \E u : Validated(k, w, p, u)
           /\ Entries(k, w, p) \in Seq(Int) /\ w.n \in Int /\ w.float \in BOOLEAN
  <1> DEFINE entries == Entries(k, w, p)
  <1>1. w \in [type : {"bool", "number", "string", "array"}, n : Int, float : BOOLEAN, items : Seq(Int)]
    BY ConfigurationAssumption, Zenon DEF Keys
  <1>2. w.items \in Seq(Int) /\ w.n \in Int /\ w.float \in BOOLEAN
    BY <1>1
  <1>3. entries \in Seq(Int)
    <2>1. Configuration!Without(w.items, {0}) = Without(w.items, {0})
      BY DEF Configuration!Without, Without
    <2>2. Without(w.items, {0}) \in Seq(Int)
      BY <1>2, WithoutProperties
    <2> QED
      BY <1>2, <2>1, <2>2 DEF Entries
  <1> HIDE DEF entries
  <1>4. CASE p \in Configuration!InFile
    <2>1. p \notin {"env", "flags", "overrides"}
      BY <1>4 DEF Configuration!InFile
    <2>2. Validated(k, w, p, w)
      BY <2>1 DEF Validated, Entries
    <2> QED
      BY <1>2, <1>3, <2>2 DEF entries
  <1>5. CASE p \in {"env", "flags"}
    <2> DEFINE u == Configuration!EnvSays(k, w)
    <2>1. p \notin Configuration!InFile /\ p # "overrides"
      BY <1>5 DEF Configuration!InFile
    <2>2. Configuration!Admits(k, u) /\ (k = "tracing.propagators" => u.items # <<>>)
      BY <2>1 DEF Configuration!EnvAdmits
    <2>3. CASE k = "tracing.propagators" /\ w.type = "array"
      <3>1. u = [w EXCEPT !.items = Configuration!Without(w.items, {0})]
        BY <2>3 DEF Configuration!EnvSays
      <3> HIDE DEF u
      <3>2. u.type = w.type /\ u.n = w.n /\ u.float = w.float /\ u.items = Entries(k, w, p)
        BY <1>1, <1>5, <2>3, <3>1 DEF Entries
      <3>3. Validated(k, w, p, u)
        BY <2>2, <3>2 DEF Validated
      <3> QED
        BY <1>2, <1>3, <3>3 DEF entries
    <2>4. CASE k = "tracing.propagators" /\ w.type # "array"
      <3>1. u = w
        BY <2>4 DEF Configuration!EnvSays
      <3>2. Configuration!Admits(k, w)
        BY <2>2, <3>1
      <3>3. w.type = "array"
        BY <2>4, <3>2 DEF Configuration!Admits, Configuration!List
      <3> QED
        BY <2>4, <3>3
    <2>5. CASE k # "tracing.propagators"
      <3>1. u = w
        BY <2>5 DEF Configuration!EnvSays
      <3>2. Validated(k, w, p, w)
        BY <2>2, <2>5, <3>1 DEF Validated, Entries
      <3> QED
        BY <1>2, <1>3, <3>2 DEF entries
    <2> QED
      BY <2>3, <2>4, <2>5
  <1>6. CASE p = "overrides"
    <2> DEFINE u == [w EXCEPT !.float = FALSE]
    <2>1. p \notin Configuration!InFile /\ p \notin {"env", "flags"}
      BY <1>6 DEF Configuration!InFile
    <2>2. Configuration!Admits(k, u)
      BY <2>1 DEF Configuration!OverridesAdmit
    <2>3. u.type = w.type /\ u.n = w.n /\ u.items = w.items
      BY <1>1
    <2> HIDE DEF u
    <2>4. Validated(k, w, p, u)
      BY <1>6, <2>1, <2>2, <2>3 DEF Validated, Entries
    <2> QED
      BY <1>2, <1>3, <2>4 DEF entries
  <1> QED
    BY <1>4, <1>5, <1>6

(* What validation lets through is what the contract lets through, for each  *)
(* key of the contract, and there is no other key.                          *)
LEMMA WordsAreChecked ==
    ASSUME NEW k \in Keys, NEW w \in CfWords[k], NEW p \in Configuration!Places,
           \/ p \in Configuration!InFile /\ Configuration!Admits(k, w)
           \/ p \in {"env", "flags"} /\ Configuration!EnvAdmits(k, w)
           \/ p = "overrides" /\ Configuration!OverridesAdmit(k, w)
    PROVE  Configuration!Contract(k, w, p)
  <1> DEFINE entries == Entries(k, w, p)
             variable == p \in {"env", "flags"}
             unrepeated == \A i, j \in DOMAIN entries : i < j => entries[i] # entries[j]
  <1>1. PICK u : Validated(k, w, p, u)
    BY WordsAreValidated
  <1>2. /\ Configuration!Admits(k, u) /\ u.type = w.type /\ u.n = w.n /\ u.items = entries
        /\ p # "overrides" => u.float = w.float
        /\ k = "tracing.propagators" /\ variable => entries # <<>>
    BY <1>1 DEF Validated
  <1>3. entries \in Seq(Int) /\ w.n \in Int /\ w.float \in BOOLEAN
    BY WordsAreValidated
  <1>4. \A q \in DOMAIN entries : entries[q] \in Configuration!Range(entries)
    BY DEF Configuration!Range
  <1>5. Len(entries) \in Nat /\ (entries = <<>> <=> Len(entries) = 0)
    <2> HIDE DEF entries
    <2> QED
      BY <1>3, EmptySeq, LenProperties
  <1> DEFINE count == Len(entries)
  <1>5a. count \in 1..32 => entries # <<>> /\ Len(entries) <= 32
    <2>1. count \in Nat /\ (entries = <<>> => count = 0)
      BY <1>5
    <2> HIDE DEF count
    <2>2. count \in 1..32 => count # 0 /\ count <= 32
      BY <2>1
    <2> QED
      BY <2>1, <2>2 DEF count
  <1>6. Configuration!Distinct(entries) => unrepeated
    <2> HIDE DEF entries
    <2> QED
      BY <1>3, Unrepeated
  <1>7. CASE k = "logging.console"
    <2>1. u.type = "bool"
      BY <1>2, <1>7 DEF Configuration!Admits, Configuration!Bool
    <2> QED
      BY <1>2, <1>7, <2>1 DEF Configuration!Contract
  <1>8. CASE k = "service_name"
    <2>1. u.type = "string" /\ u.n \in 1..256
      BY <1>2, <1>8 DEF Configuration!Admits, Configuration!Text
    <2>2. w.n \in 1..256
      BY <1>2, <2>1
    <2>3. w.n >= 1 /\ w.n <= 256
      BY <2>2
    <2> QED
      BY <1>2, <1>8, <2>1, <2>3 DEF Configuration!Contract
  <1>9. CASE k = "logging.level"
    <2>1. u.type = "string" /\ u.n \in 1..6
      BY <1>2, <1>9 DEF Configuration!Admits, Configuration!Text
    <2>2. w.n \in {1, 2, 3, 4, 5, 6}
      BY <1>2, <2>1
    <2> QED
      BY <1>2, <1>9, <2>1, <2>2 DEF Configuration!Contract
  <1>10. CASE k = "tracing.sample_ratio"
    <2>1. u.type = "number" /\ u.n \in 0..1
      BY <1>2, <1>10 DEF Configuration!Admits, Configuration!Number
    <2>2. w.n \in {0, 1}
      BY <1>2, <2>1
    <2> QED
      BY <1>2, <1>10, <2>1, <2>2 DEF Configuration!Contract
  <1>11. CASE k = "process.sample_interval_ms"
    <2>1. u.type = "number" /\ u.n \in 100..Configuration!Hour /\ ~u.float
      BY <1>2, <1>11 DEF Configuration!Admits, Configuration!Number
    <2>2. w.n >= 100 /\ w.n <= Configuration!Hour
      BY <1>2, <2>1, SMT
    <2>3. w.float => p = "overrides"
      BY <1>2, <2>1
    <2> QED
      BY <1>2, <1>11, <2>1, <2>2, <2>3 DEF Configuration!Contract
  <1>12. CASE k = "tracing.propagators"
    <2>1. u.type = "array" /\ Configuration!Range(entries) \subseteq {1, 2} /\ Configuration!Distinct(entries)
      BY <1>2, <1>12 DEF Configuration!Admits, Configuration!List
    <2>2. unrepeated /\ \A i \in DOMAIN entries : entries[i] \in {1, 2}
      BY <1>4, <1>6, <2>1
    <2>3. entries = IF variable /\ k = "tracing.propagators" THEN Configuration!Without(w.items, {0})
                    ELSE w.items
      BY DEF Entries
    <2>4. w.type = "array" /\ (variable => entries # <<>>)
      BY <1>2, <1>12, <2>1
    <2> HIDE DEF entries
    <2> QED
      BY <1>12, <2>2, <2>3, <2>4 DEF Configuration!Contract
  <1>13. CASE k = "filesystem.paths"
    <2>1. /\ u.type = "array" /\ Len(entries) \in 1..32 /\ 0 \notin Configuration!Range(entries)
          /\ Configuration!Distinct(entries)
      BY <1>2, <1>13 DEF Configuration!Admits, Configuration!List
    <2>2. unrepeated /\ \A i \in DOMAIN entries : entries[i] # 0
      BY <1>4, <1>6, <2>1
    <2>3. entries = w.items
      BY <1>13 DEF Entries
    <2>4. w.type = "array" /\ entries # <<>> /\ Len(entries) <= 32
      BY <1>2, <1>5a, <2>1
    <2> HIDE DEF entries
    <2> QED
      BY <1>13, <2>2, <2>3, <2>4 DEF Configuration!Contract
  <1>14. CASE k = "latency.histogram_boundaries_ms"
    <2>1. u.type = "array" /\ Configuration!ValidateHistogramBoundaries(entries)
      BY <1>2, <1>14 DEF Configuration!Admits, Configuration!List
    <2>2. /\ \A i \in DOMAIN entries : entries[i] > 0
          /\ Len(entries) \in 1..32
          /\ \A i \in 2..Len(entries) : entries[i - 1] < entries[i]
      BY <2>1 DEF Configuration!ValidateHistogramBoundaries
    <2>3. \A i, j \in DOMAIN entries : i < j => entries[i] < entries[j]
      <3> HIDE DEF entries
      <3> QED
        BY <1>3, <2>2, Ascends
    <2>4. entries = w.items
      BY <1>14 DEF Entries
    <2>5. w.type = "array" /\ entries # <<>> /\ Len(entries) <= 32
      BY <1>2, <1>5a, <2>1, <2>2
    <2> HIDE DEF entries
    <2> QED
      BY <1>14, <2>2, <2>3, <2>4, <2>5 DEF Configuration!Contract
  <1>15. k \in {"logging.console", "service_name", "logging.level", "tracing.sample_ratio",
                "process.sample_interval_ms", "tracing.propagators", "filesystem.paths",
                "latency.histogram_boundaries_ms"}
    <2> SUFFICES ASSUME k \notin {"logging.console", "service_name", "logging.level",
                                  "tracing.sample_ratio", "process.sample_interval_ms",
                                  "tracing.propagators", "filesystem.paths",
                                  "latency.histogram_boundaries_ms"}
                 PROVE  FALSE
      OBVIOUS
    <2> QED
      BY <1>2 DEF Configuration!Admits
  <1> QED
    BY <1>7, <1>8, <1>9, <1>10, <1>11, <1>12, <1>13, <1>14, <1>15

Roles == {"shared", "client", "server"}
FileStates == {"there", "missing", "unreadable"}
CfStates ==
    [key : Keys, sections : SUBSET {"client", "server"}, says : [Configuration!Places -> AnyWord],
     role : {"none", "server"}, envRole : {"none", "client", "bogus"}, flagRole : {"none", "server"},
     given : [Configuration!Range(Configuration!Lookups) -> {"none", "blank", "given"}],
     files : [Configuration!AllPaths -> FileStates],
     path : Configuration!AllPaths \cup {"none"},
     logger : {"none", "options", "default"} \cup Configuration!Places,
     result : [role : Roles \cup {"pending", "fails"},
               from : Configuration!Places \cup {"pending", "fails", "default"}]]

(* Every layer says a word of the key, or nothing, and only a section that  *)
(* is there says anything.                                                 *)
CfSays(x) ==
    /\ \A p \in Configuration!Places : Has(x, p) => x.says[p] \in CfWords[x.key]
    /\ \A r \in {"client", "server"} \ x.sections : ~Has(x, r)
CfGood(x) == x \in CfStates /\ CfSays(x)

(* What no layer that counts may be stronger than.                          *)
Weaker(p, w) ==
    \E i, j \in DOMAIN Configuration!Strength :
        Configuration!Strength[i] = p /\ Configuration!Strength[j] = w /\ i <= j

(* Which source yields to which. *)
LEMMA Ranks ==
    /\ Weaker("overrides", "overrides") /\ Weaker("flags", "overrides") /\ Weaker("env", "overrides")
    /\ Weaker("server", "overrides") /\ Weaker("client", "overrides") /\ Weaker("common", "overrides")
    /\ Weaker("flags", "flags") /\ Weaker("env", "flags") /\ Weaker("server", "flags")
    /\ Weaker("client", "flags") /\ Weaker("common", "flags")
    /\ Weaker("env", "env") /\ Weaker("server", "env") /\ Weaker("client", "env")
    /\ Weaker("common", "env") /\ Weaker("server", "server") /\ Weaker("common", "server")
    /\ Weaker("client", "client") /\ Weaker("common", "client") /\ Weaker("common", "common")
  <1> DEFINE s == Configuration!Strength
  <1>1. /\ DOMAIN s = 1..7 /\ s[2] = "common" /\ s[3] = "client" /\ s[4] = "server" /\ s[5] = "env"
        /\ s[6] = "flags" /\ s[7] = "overrides"
    BY DEF Configuration!Strength
  <1>2. \A i, j \in 1..7 : i <= j => Weaker(s[i], s[j])
    BY <1>1 DEF Weaker
  <1> HIDE DEF s
  <1>3. /\ Weaker(s[7], s[7]) /\ Weaker(s[6], s[7]) /\ Weaker(s[5], s[7])
        /\ Weaker(s[4], s[7]) /\ Weaker(s[3], s[7]) /\ Weaker(s[2], s[7])
        /\ Weaker(s[6], s[6]) /\ Weaker(s[5], s[6]) /\ Weaker(s[4], s[6])
        /\ Weaker(s[3], s[6]) /\ Weaker(s[2], s[6])
    BY <1>2
  <1>4. /\ Weaker(s[5], s[5]) /\ Weaker(s[4], s[5]) /\ Weaker(s[3], s[5])
        /\ Weaker(s[2], s[5]) /\ Weaker(s[4], s[4]) /\ Weaker(s[2], s[4])
        /\ Weaker(s[3], s[3]) /\ Weaker(s[2], s[3]) /\ Weaker(s[2], s[2])
    BY <1>2
  <1> QED
    BY <1>1, <1>3, <1>4, Zenon

(* The winner says something, and no layer of the role is stronger.         *)
LEMMA WinnerIsStrongest ==
    ASSUME NEW x, NEW r \in Roles
    PROVE  /\ Winner(x, r) \in {"overrides", "flags", "env", "common", "default"} \cup ({r} \ {"shared"})
           /\ Winner(x, r) # "default" => Has(x, Winner(x, r))
           /\ \A p \in Configuration!Places :
                 Has(x, p) /\ (p \in {"client", "server"} => p = r) => Weaker(p, Winner(x, r))
  <1> DEFINE w == Winner(x, r)
  <1>1. \/ w = "overrides" /\ Has(x, "overrides")
        \/ w = EnvPlace(x) /\ Has(x, EnvPlace(x)) /\ ~Has(x, "overrides")
        \/ w = r /\ r # "shared" /\ Has(x, r) /\ ~Has(x, "overrides") /\ ~Has(x, EnvPlace(x))
        \/ /\ w = "common" /\ Has(x, "common") /\ ~Has(x, "overrides") /\ ~Has(x, EnvPlace(x))
           /\ r \in {"client", "server"} => ~Has(x, r)
        \/ /\ w = "default" /\ ~Has(x, "overrides") /\ ~Has(x, EnvPlace(x)) /\ ~Has(x, "common")
           /\ r \in {"client", "server"} => ~Has(x, r)
    BY DEF Winner, Roles
  <1>2. EnvPlace(x) = IF Has(x, "flags") THEN "flags" ELSE "env"
    BY DEF EnvPlace, Has
  <1> HIDE DEF w
  <1>3. w \in {"overrides", "flags", "env", "common", "default"} \cup ({r} \ {"shared"})
    BY <1>1, <1>2
  <1>4. w # "default" => Has(x, w)
    BY <1>1
  <1>5. ASSUME NEW p \in Configuration!Places, Has(x, p), p \in {"client", "server"} => p = r
        PROVE  Weaker(p, w)
    <2>1. p \in {"common", "client", "server", "env", "flags", "overrides"}
      BY DEF Configuration!Places
    <2>2. CASE w = "overrides"
      BY <2>1, <2>2, Ranks
    <2>3. CASE w \in {"env", "flags"}
      <3>1. p # "overrides"
        BY <1>1, <1>5, <2>3 DEF Roles
      <3>2. w = "env" => p # "flags"
        BY <1>1, <1>2, <1>5 DEF Roles
      <3> QED
        BY <2>1, <2>3, <3>1, <3>2, Ranks
    <2>4. CASE w = r
      <3>1. p \in {r, "common"} /\ r \in {"client", "server"}
        BY <1>1, <1>2, <1>5, <2>1, <2>4 DEF Roles
      <3> QED
        BY <2>4, <3>1, Ranks
    <2>5. CASE w = "common"
      <3>1. p = "common"
        BY <1>1, <1>2, <1>5, <2>1, <2>5 DEF Roles
      <3> QED
        BY <2>5, <3>1, Ranks
    <2>6. CASE w = "default"
      BY <1>1, <1>2, <1>5, <2>1, <2>6 DEF Roles
    <2> QED
      BY <1>3, <2>2, <2>3, <2>4, <2>5, <2>6
  <1> QED
    BY <1>3, <1>4, <1>5 DEF w

(* What a configuration that loads is: its role, its last word, and that    *)
(* every word in it is one of the contract.                                *)
LEMMA Resolves ==
    ASSUME NEW x \in CfStates, CfSays(x), NEW res, res = Configuration!Resolve(x)
    PROVE  /\ res = [role |-> "fails", from |-> "fails"] \/ res = [role |-> res.role, from |-> res.from]
           /\ res.role \in Roles \cup {"fails"}
           /\ res.from \in Configuration!Places \cup {"fails", "default"}
           /\ res.role # "fails" =>
                /\ res.from = Winner(x, res.role)
                /\ res.role \in {"client", "server"} /\ res.role \notin {x.role, x.envRole, x.flagRole}
                      => x.sections = {res.role}
                /\ \A p \in Configuration!Places :
                      Has(x, p) /\ ~(p = "env" /\ Has(x, "flags")) => Configuration!Contract(x.key, x.says[p], p)
  <1> DEFINE role == Configuration!SelectRole(x)
             env == x.says[EnvPlace(x)]
             accepted ==
                /\ \A p \in Configuration!InFile : Has(x, p) => Configuration!Admits(x.key, x.says[p])
                /\ role # "fails"
                /\ Has(x, EnvPlace(x)) => Configuration!EnvAdmits(x.key, env)
                /\ Has(x, "overrides") => Configuration!OverridesAdmit(x.key, x.says["overrides"])
             last == Configuration!ResolvedJson(Configuration!Merged(Configuration!Layers(x, role)))
  <1>1. Configuration!EffectiveEnv(x).word.word = env
    BY DEF Configuration!EffectiveEnv, EnvPlace
  <1>2. res = IF accepted THEN [role |-> role, from |-> last] ELSE [role |-> "fails", from |-> "fails"]
    BY <1>1 DEF Configuration!Resolve, Has
  <1>3. /\ x.key \in Keys /\ x.role \in {"none", "server"} /\ x.envRole \in {"none", "client", "bogus"}
        /\ x.flagRole \in {"none", "server"} /\ x.sections \in SUBSET {"client", "server"}
    BY DEF CfStates
  <1> HIDE DEF role, last
  <1>4. CASE ~accepted
    <2>1. res = [role |-> "fails", from |-> "fails"]
      BY <1>2, <1>4
    <2> QED
      BY <2>1
  <1>5. CASE accepted
    <2>1. res = [role |-> role, from |-> last] /\ res.role = role /\ res.from = last /\ role # "fails"
      BY <1>2, <1>5
    <2>2. /\ role \in Roles
          /\ role \in {"client", "server"} /\ role \notin {x.role, x.envRole, x.flagRole}
                => x.sections = {role}
      BY <1>3, <2>1, RoleIsChosen DEF role, Roles
    <2>3. last = Winner(x, role)
      BY <2>2, LastWord DEF last, Roles
    <2>4. last \in Configuration!Places \cup {"default"}
      <3>1. last \in {"overrides", "flags", "env", "common", "default"} \cup ({role} \ {"shared"})
        BY <2>2, <2>3, WinnerIsStrongest
      <3> QED
        BY <2>2, <3>1 DEF Configuration!Places, Roles
    <2>5. ASSUME NEW p \in Configuration!Places, Has(x, p), ~(p = "env" /\ Has(x, "flags"))
          PROVE  Configuration!Contract(x.key, x.says[p], p)
      <3>1. x.says[p] \in CfWords[x.key]
        BY <2>5 DEF CfSays
      <3>2. p \in Configuration!InFile \/ p = EnvPlace(x) \/ p = "overrides"
        BY <2>5 DEF Configuration!Places, Configuration!InFile, EnvPlace, Has
      <3>3. EnvPlace(x) \in {"env", "flags"}
        BY DEF EnvPlace
      <3>4. \/ p \in Configuration!InFile /\ Configuration!Admits(x.key, x.says[p])
            \/ p \in {"env", "flags"} /\ Configuration!EnvAdmits(x.key, x.says[p])
            \/ p = "overrides" /\ Configuration!OverridesAdmit(x.key, x.says[p])
        BY <1>5, <2>5, <3>2, <3>3
      <3> QED
        BY <1>3, <3>1, <3>4, WordsAreChecked
    <2> QED
      BY <2>1, <2>2, <2>3, <2>4, <2>5
  <1> QED
    BY <1>4, <1>5

(* The path of the configuration file is one of the paths there are. *)
LEMMA PathIsThere == \A given : Configuration!ConfigFilePath(given) \in Configuration!AllPaths
  <1> TAKE given
  <1> DEFINE s == Configuration!Lookups
             says == {i \in DOMAIN s : given[s[i]] \notin Configuration!Blank}
  <1>1. DOMAIN s = 1..4
    BY DEF Configuration!Lookups
  <1>2. CASE says = {}
    BY <1>2 DEF Configuration!ConfigFilePath, Configuration!AllPaths
  <1>3. CASE says # {}
    <2>1. Configuration!Min(says) \in DOMAIN s
      <3>1. says \in SUBSET (1..4)
        BY <1>1
      <3>2. Configuration!Min(says) \in says
        BY <1>3, <3>1, LeastOfFew
      <3> QED
        BY <1>1, <3>1, <3>2
    <2>2. Configuration!ConfigFilePath(given) = s[Configuration!Min(says)]
      BY <1>3 DEF Configuration!ConfigFilePath
    <2>3. \A i \in DOMAIN s : s[i] \in Configuration!Range(s)
      BY DEF Configuration!Range
    <2> QED
      BY <2>1, <2>2, <2>3 DEF Configuration!AllPaths
  <1> QED
    BY <1>2, <1>3

(* Nothing is loaded before the file is looked for.                         *)
CfRight == CfGood(state) /\ Configuration!PrecedenceHolds /\ Configuration!MistakesAreFatal

(* What a key may say, and that it may say nothing. *)
LEMMA WordsThereAre ==
    Configuration!Absent \in AnyWord /\ \A k \in Keys : CfWords[k] \subseteq AnyWord
  <1>1. Configuration!Absent \in AnyWord
    BY DEF AnyWord
  <1>2. ASSUME NEW k \in Keys, NEW w \in CfWords[k] PROVE w \in AnyWord
    <2>1. CfWords[k] \in {CfWords[j] : j \in Keys}
      OBVIOUS
    <2> QED
      BY <2>1, Zenon DEF AnyWord
  <1> QED
    BY <1>1, <1>2

(* The invariant of the configuration holds at first. *)
LEMMA CfStarts == Configuration!CfInit => CfRight
  <1> SUFFICES ASSUME Configuration!CfInit PROVE CfRight
    OBVIOUS
  <1> DEFINE given == [Configuration!Range(Configuration!Lookups) -> {"none", "blank", "given"}]
             pending == [role |-> "pending", from |-> "pending"]
  <1>1. DOMAIN CfWords = Keys
    BY DEF Keys
  <1>2. \A k \in Keys : CfWords[k] \cup {Configuration!Absent} \subseteq AnyWord
    BY WordsThereAre
  <1>3. pending \in [role : Roles \cup {"pending", "fails"},
                     from : Configuration!Places \cup {"pending", "fails", "default"}]
    OBVIOUS
  <1>4. Configuration!Runtimes = {"client", "server"}
    BY DEF Configuration!Runtimes
  <1>5. CASE \E key \in DOMAIN CfWords, sections \in SUBSET Configuration!Runtimes :
                state \in [key : {key}, sections : {sections},
                    says : {s \in [Configuration!Places -> CfWords[key] \cup {Configuration!Absent}] :
                                \A r \in Configuration!Runtimes \ sections : s[r] = Configuration!Absent},
                    role : {"none", "server"}, envRole : {"none", "client", "bogus"},
                    flagRole : {"none", "server"},
                    given : {[l \in Configuration!Range(Configuration!Lookups) |-> "none"]},
                    files : {[p \in Configuration!AllPaths |-> "there"]},
                    path : {"none"}, logger : {"none"}, result : {pending}]
    <2>1. PICK key \in Keys, sections \in SUBSET {"client", "server"} :
                state \in [key : {key}, sections : {sections},
                    says : {s \in [Configuration!Places -> CfWords[key] \cup {Configuration!Absent}] :
                                \A r \in {"client", "server"} \ sections : s[r] = Configuration!Absent},
                    role : {"none", "server"}, envRole : {"none", "client", "bogus"},
                    flagRole : {"none", "server"},
                    given : {[l \in Configuration!Range(Configuration!Lookups) |-> "none"]},
                    files : {[p \in Configuration!AllPaths |-> "there"]},
                    path : {"none"}, logger : {"none"}, result : {pending}]
      BY <1>1, <1>4, <1>5
    <2>2. /\ state.says \in [Configuration!Places -> AnyWord] /\ state.key = key /\ state.sections = sections
          /\ \A r \in {"client", "server"} \ sections : state.says[r] = Configuration!Absent
          /\ \A p \in Configuration!Places : state.says[p] \in CfWords[key] \cup {Configuration!Absent}
          /\ state.result = pending
      BY <1>2, <2>1
    <2>3. CfSays(state)
      BY <2>2 DEF CfSays, Has
    <2>4. state \in CfStates
      <3>1. [l \in Configuration!Range(Configuration!Lookups) |-> "none"] \in given
        OBVIOUS
      <3>2. [p \in Configuration!AllPaths |-> "there"] \in [Configuration!AllPaths -> FileStates]
        BY DEF FileStates
      <3> HIDE DEF given, pending
      <3> QED
        BY <1>3, <2>1, <2>2, <3>1, <3>2 DEF CfStates, given
    <2> QED
      BY <2>2, <2>3, <2>4 DEF CfRight, CfGood, Configuration!PrecedenceHolds,
         Configuration!MistakesAreFatal, Configuration!Loaded
  <1>6. CASE LET key == CHOOSE k \in DOMAIN CfWords : TRUE IN
                \E word \in CfWords[key] :
                state \in [key : {key}, sections : {{}},
                    says : {[p \in Configuration!Places |-> IF p = "common" THEN word ELSE Configuration!Absent]},
                    role : {"none"}, envRole : {"none"}, flagRole : {"none"},
                    given : given, files : [Configuration!AllPaths -> FileStates],
                    path : {"none"}, logger : {"none"}, result : {pending}]
    <2> DEFINE key == CHOOSE k \in DOMAIN CfWords : TRUE
    <2>1. key \in Keys
      BY <1>1, ConfigurationAssumption DEF Keys
    <2>2. PICK word \in CfWords[key] :
            state \in [key : {key}, sections : {{}},
                says : {[p \in Configuration!Places |-> IF p = "common" THEN word ELSE Configuration!Absent]},
                role : {"none"}, envRole : {"none"}, flagRole : {"none"},
                given : given, files : [Configuration!AllPaths -> FileStates],
                path : {"none"}, logger : {"none"}, result : {pending}]
      BY <1>6
    <2> HIDE DEF key, given, pending
    <2>3. /\ state.says = [p \in Configuration!Places |-> IF p = "common" THEN word ELSE Configuration!Absent]
          /\ state.key = key /\ state.sections = {} /\ state.result = pending
      BY <2>2
    <2>4. state.says \in [Configuration!Places -> AnyWord]
      BY <1>2, <2>1, <2>3
    <2>5. CfSays(state)
      <3>1. \A p \in Configuration!Places : state.says[p] = IF p = "common" THEN word ELSE Configuration!Absent
        BY <2>3
      <3>2. {"client", "server"} \subseteq Configuration!Places
        BY DEF Configuration!Places
      <3> QED
        BY <2>3, <3>1, <3>2 DEF CfSays, Has
    <2>6. state \in CfStates
      BY <1>3, <2>1, <2>2, <2>4 DEF CfStates, given
    <2> QED
      BY <2>3, <2>5, <2>6 DEF CfRight, CfGood, Configuration!PrecedenceHolds,
         Configuration!MistakesAreFatal, Configuration!Loaded, pending
  <1> QED
    BY <1>5, <1>6, Zenon DEF Configuration!CfInit, FileStates

(* A file is looked for, and it is unreadable, missing or there.            *)
CfTo(x, path, res) == [x EXCEPT !.path = path, !.result = res]

(* What a load leaves alone of the configuration. *)
LEMMA CfMoves ==
    ASSUME NEW x \in CfStates, NEW path \in Configuration!AllPaths, NEW res,
           res = [role |-> res.role, from |-> res.from], res.role \in Roles \cup {"fails"},
           res.from \in Configuration!Places \cup {"fails", "default"}
    PROVE  /\ CfTo(x, path, res) \in CfStates
           /\ CfTo(x, path, res).path = path /\ CfTo(x, path, res).result = res
           /\ CfTo(x, path, res).key = x.key /\ CfTo(x, path, res).says = x.says
           /\ CfTo(x, path, res).sections = x.sections /\ CfTo(x, path, res).files = x.files
           /\ CfTo(x, path, res).role = x.role /\ CfTo(x, path, res).envRole = x.envRole
           /\ CfTo(x, path, res).flagRole = x.flagRole
  <1>1. res \in [role : Roles \cup {"pending", "fails"},
                 from : Configuration!Places \cup {"pending", "fails", "default"}]
    OBVIOUS
  <1> QED
    BY <1>1 DEF CfStates, CfTo

CfEmpty(x) ==
    [x EXCEPT !.says = [p \in Configuration!Places |->
                           IF p \in Configuration!InFile THEN Configuration!Absent ELSE x.says[p]],
              !.sections = {}]

(* A file that is missing says nothing, and leaves the other sources alone. *)
LEMMA CfMissing ==
    ASSUME NEW x \in CfStates, CfSays(x)
    PROVE  /\ CfEmpty(x) \in CfStates /\ CfSays(CfEmpty(x))
           /\ CfEmpty(x).sections = {} /\ CfEmpty(x).role = x.role /\ CfEmpty(x).envRole = x.envRole
           /\ CfEmpty(x).flagRole = x.flagRole
           /\ \A p \in {"env", "flags", "overrides"} : CfEmpty(x).says[p] = x.says[p]
           /\ \A p \in {"common", "client", "server"} : ~Has(CfEmpty(x), p)
  <1> DEFINE says == [p \in Configuration!Places |->
                         IF p \in Configuration!InFile THEN Configuration!Absent ELSE x.says[p]]
             y == CfEmpty(x)
  <1>1. says \in [Configuration!Places -> AnyWord]
    BY WordsThereAre DEF CfStates
  <1>2. y = [x EXCEPT !.says = says, !.sections = {}]
    BY DEF CfEmpty
  <1>3. /\ \A p \in {"env", "flags", "overrides"} : says[p] = x.says[p]
        /\ \A p \in {"common", "client", "server"} : says[p] = Configuration!Absent
    BY DEF Configuration!Places, Configuration!InFile
  <1> HIDE DEF says, y
  <1>4. /\ y \in CfStates /\ y.says = says /\ y.sections = {} /\ y.role = x.role
        /\ y.envRole = x.envRole /\ y.flagRole = x.flagRole /\ y.key = x.key
    BY <1>1, <1>2 DEF CfStates
  <1>5. CfSays(y)
    BY <1>3, <1>4 DEF CfSays, Has, Configuration!Places
  <1> QED
    BY <1>3, <1>4, <1>5 DEF y, Has

(* A load keeps the invariant. *)
LEMMA CfLoads == CfRight /\ Configuration!Load => CfRight'
  <1> SUFFICES ASSUME CfRight, Configuration!Load PROVE CfRight'
    OBVIOUS
  <1> DEFINE path == Configuration!ConfigFilePath(state.given)
             failed == [role |-> "fails", from |-> "fails"]
             file == state.files[path]
             res == CASE file = "unreadable" -> failed
                      [] file = "missing" -> Configuration!Resolve(CfEmpty(state))
                      [] OTHER -> Configuration!Resolve(state)
  <1>1. state \in CfStates /\ CfSays(state) /\ path \in Configuration!AllPaths
    BY PathIsThere DEF CfRight, CfGood
  <1>2. file \in FileStates
    BY <1>1 DEF CfStates
  <1>3. state' = CfTo(state, path, res)
    BY DEF Configuration!Load, CfTo, CfEmpty
  <1> HIDE DEF path, res, file
  <1>4. /\ CfEmpty(state) \in CfStates /\ CfSays(CfEmpty(state)) /\ CfEmpty(state).sections = {}
        /\ \A p \in {"env", "flags", "overrides"} : CfEmpty(state).says[p] = state.says[p]
        /\ \A p \in {"common", "client", "server"} : ~Has(CfEmpty(state), p)
        /\ CfEmpty(state).role = state.role /\ CfEmpty(state).envRole = state.envRole
        /\ CfEmpty(state).flagRole = state.flagRole
    BY <1>1, CfMissing
  <1>5. /\ res = [role |-> res.role, from |-> res.from] /\ res.role \in Roles \cup {"fails"}
        /\ res.from \in Configuration!Places \cup {"fails", "default"}
        /\ file = "unreadable" => res.role = "fails"
    <2>1. CASE file = "unreadable"
      BY <2>1 DEF res
    <2>2. CASE file = "missing"
      <3>1. res = Configuration!Resolve(CfEmpty(state))
        BY <2>2 DEF res
      <3>2. res = failed \/ res = [role |-> res.role, from |-> res.from]
        BY <1>4, <3>1, Resolves
      <3> QED
        BY <1>4, <2>2, <3>1, <3>2, Resolves
    <2>3. CASE file = "there"
      <3>1. res = Configuration!Resolve(state)
        BY <2>3 DEF res
      <3>2. res = failed \/ res = [role |-> res.role, from |-> res.from]
        BY <1>1, <3>1, Resolves
      <3> QED
        BY <1>1, <2>3, <3>1, <3>2, Resolves
    <2> QED
      BY <1>2, <2>1, <2>2, <2>3 DEF FileStates
  <1>6. /\ state' \in CfStates /\ state'.path = path /\ state'.result = res /\ state'.key = state.key
        /\ state'.says = state.says /\ state'.sections = state.sections /\ state'.files = state.files
        /\ state'.role = state.role /\ state'.envRole = state.envRole /\ state'.flagRole = state.flagRole
    BY <1>1, <1>3, <1>5, CfMoves
  <1>7. CfSays(state')
    BY <1>1, <1>6 DEF CfSays, Has
  <1>8. state'.files[state'.path] = file /\ (Configuration!Loaded' => res.role \in Roles)
    BY <1>5, <1>6 DEF Configuration!Loaded, file
  <1>9. CASE file = "unreadable" \/ res.role = "fails"
    <2>1. ~Configuration!Loaded'
      BY <1>5, <1>6, <1>9 DEF Configuration!Loaded
    <2> QED
      BY <1>6, <1>7, <2>1 DEF CfRight, CfGood, Configuration!PrecedenceHolds, Configuration!MistakesAreFatal
  <1>10. CASE file = "missing" /\ res.role # "fails"
    <2> DEFINE y == CfEmpty(state)
    <2>1. res = Configuration!Resolve(y)
      BY <1>10 DEF res
    <2>2. /\ res.role \in Roles /\ res.from = Winner(y, res.role)
          /\ res.role \in {"client", "server"} /\ res.role \notin {y.role, y.envRole, y.flagRole}
                => y.sections = {res.role}
      BY <1>4, <1>5, <1>10, <2>1, Resolves
    <2>3. /\ res.from \in {"overrides", "flags", "env", "common", "default"} \cup ({res.role} \ {"shared"})
          /\ res.from # "default" => Has(y, res.from)
          /\ \A p \in Configuration!Places :
                Has(y, p) /\ (p \in {"client", "server"} => p = res.role) => Weaker(p, res.from)
      BY <2>2, WinnerIsStrongest
    <2>4. res.from \in {"overrides", "flags", "env", "default"}
      BY <1>4, <2>2, <2>3 DEF Roles
    <2>5. /\ res.from # "default" => Has(state, res.from)
          /\ \A p \in {"env", "flags", "overrides"} : Has(state, p) => Weaker(p, res.from)
      BY <1>4, <2>3, <2>4 DEF Has, Configuration!Places
    <2>6. ~(res.role \in {"client", "server"} /\ res.role \notin {state.role, state.envRole, state.flagRole})
      BY <1>4, <2>2
    <2>7. Configuration!PrecedenceHolds'
      <3>1. Configuration!Runtimes = {"client", "server"}
        BY DEF Configuration!Runtimes
      <3> QED
        BY <1>6, <1>8, <1>10, <2>4, <2>5, <2>6, <3>1, Zenon
           DEF Configuration!PrecedenceHolds, Has, Weaker
    <2>8. Configuration!MistakesAreFatal'
      BY <1>8, <1>10 DEF Configuration!MistakesAreFatal
    <2> QED
      BY <1>6, <1>7, <2>7, <2>8 DEF CfRight, CfGood
  <1>11. CASE file = "there" /\ res.role # "fails"
    <2>1. res = Configuration!Resolve(state)
      BY <1>11 DEF res
    <2>2. /\ res.role \in Roles /\ res.from = Winner(state, res.role)
          /\ res.role \in {"client", "server"} /\ res.role \notin {state.role, state.envRole, state.flagRole}
                => state.sections = {res.role}
          /\ \A p \in Configuration!Places :
                Has(state, p) /\ ~(p = "env" /\ Has(state, "flags"))
                    => Configuration!Contract(state.key, state.says[p], p)
      BY <1>1, <1>5, <1>11, <2>1, Resolves
    <2>3. /\ res.from \in {"overrides", "flags", "env", "common", "default"} \cup ({res.role} \ {"shared"})
          /\ res.from # "default" => Has(state, res.from)
          /\ \A p \in Configuration!Places :
                Has(state, p) /\ (p \in {"client", "server"} => p = res.role) => Weaker(p, res.from)
      BY <2>2, WinnerIsStrongest
    <2>4. res.from \in {p \in Configuration!Places : p \in {"client", "server"} => p = res.role} \cup {"default"}
      BY <2>2, <2>3 DEF Roles, Configuration!Places
    <2>7. Configuration!PrecedenceHolds'
      <3>1. Configuration!Runtimes = {"client", "server"}
        BY DEF Configuration!Runtimes
      <3>2. file # "missing"
        BY <1>11
      <3> QED
        BY <1>6, <1>8, <2>2, <2>3, <2>4, <3>1, <3>2, Zenon
           DEF Configuration!PrecedenceHolds, Has, Weaker
    <2>8. Configuration!MistakesAreFatal'
      BY <1>6, <2>2, Zenon DEF Configuration!MistakesAreFatal, Has
    <2> QED
      BY <1>6, <1>7, <2>7, <2>8 DEF CfRight, CfGood
  <1> QED
    BY <1>2, <1>9, <1>10, <1>11 DEF FileStates

(* A logger made of a configuration leaves it alone.                        *)
LEMMA CfLogger ==
    ASSUME CfRight, NEW overridden \in BOOLEAN, Configuration!CreateLogger(overridden)
    PROVE  CfRight'
  <1> DEFINE logger == IF overridden THEN "options" ELSE state.result.from
  <1>1. state \in CfStates /\ CfSays(state) /\ state.result.role \in Roles
    BY DEF CfRight, CfGood, CfStates, Configuration!CreateLogger
  <1>2. state' = [state EXCEPT !.logger = logger]
    BY DEF Configuration!CreateLogger
  <1>3. logger \in {"none", "options", "default"} \cup Configuration!Places
    <2>1. state.result.from \in Configuration!Places \cup {"default"}
      <3>1. Configuration!PrecedenceHolds /\ Configuration!Loaded
        BY DEF CfRight, Configuration!CreateLogger, Configuration!Loaded
      <3>2. state.result.from \in {"env", "flags", "overrides", "default"} \cup Configuration!Places
        BY <3>1 DEF Configuration!PrecedenceHolds
      <3> QED
        BY <3>2 DEF Configuration!Places
    <2> QED
      BY <2>1
  <1> HIDE DEF logger
  <1>4. /\ state' \in CfStates /\ state'.path = state.path /\ state'.result = state.result
        /\ state'.key = state.key /\ state'.says = state.says /\ state'.sections = state.sections
        /\ state'.files = state.files /\ state'.role = state.role /\ state'.envRole = state.envRole
        /\ state'.flagRole = state.flagRole
    BY <1>1, <1>2, <1>3 DEF CfStates
  <1>5. CfSays(state')
    BY <1>1, <1>4 DEF CfSays, Has
  <1>6. Configuration!PrecedenceHolds' /\ Configuration!MistakesAreFatal'
    BY <1>4 DEF CfRight, Configuration!PrecedenceHolds, Configuration!MistakesAreFatal, Configuration!Loaded
  <1> QED
    BY <1>4, <1>5, <1>6 DEF CfRight, CfGood

(* Every step of the configuration keeps it. *)
LEMMA CfStep == CfRight /\ Configuration!CfNext => CfRight'
  BY CfLoads, CfLogger DEF Configuration!CfNext

(***************************************************************************)
(* The configuration is the one its sources ask for                        *)
(***************************************************************************)

(* For every table of words (CfWords: any key, any word of it): the source   *)
(* with the highest precedence decides, and a word that the documented      *)
(* contract of its key refuses, or of a key the contract does not have, is  *)
(* an error wherever it stands, unless it is a variable that a flag         *)
(* overrides.                                                               *)
THEOREM ConfigurationCannotMislead == AllSpec => []ConfigurationIsChecked
  <1> DEFINE Inv == subject = "configuration" => CfRight
  <1>1. AllInit => Inv
    BY CfStarts DEF AllInit
  <1>2. Inv /\ [AllNext]_<<subject, state, clock>> => Inv'
    <2> SUFFICES ASSUME Inv, [AllNext]_<<subject, state, clock>> PROVE Inv'
      OBVIOUS
    <2>1. CASE AllNext
      <3>1. subject' = subject /\ (subject = "configuration" => Configuration!CfNext)
        BY <2>1 DEF AllNext
      <3> QED
        BY <3>1, CfStep
    <2>2. CASE UNCHANGED <<subject, state, clock>>
      BY <2>2 DEF CfRight, CfGood, Configuration!PrecedenceHolds, Configuration!MistakesAreFatal,
         Configuration!Loaded
    <2> QED
      BY <2>1, <2>2
  <1>3. Inv => ConfigurationIsChecked
    BY DEF CfRight, ConfigurationIsChecked
  <1> QED
    BY <1>1, <1>2, <1>3, PTL DEF AllSpec

(***************************************************************************)
(* The reporter of diagnostics                                             *)
(***************************************************************************)
RepResults == {"none", "closed", "suppressed", "threw", "open", "delivered", "failed"}
RepStates(x) ==
    [state : {"idle", "reporting", "closing", "closed"}, suppressed : Nat, saturated : BOOLEAN,
     flight : [sink : 0..DgBackends + 1, carries : Nat, who : DgReports \cup {"none"}],
     waiters : Seq(DgCloses \cup {"report"}), result : [DgReports -> RepResults],
     closing : [DgCloses -> {"none", "waiting", "done"}], told : Nat, untold : Nat,
     input : {x.input}, parsed : {x.parsed}, consumed : {x.consumed}, upload : {x.upload},
     puts : {x.puts}]

(* Who awaits a delivery: first its report, then those that close.          *)
RepWaits(x) ==
    /\ x.state = "idle" => x.waiters = <<>>
    /\ x.state = "reporting" => x.waiters = <<"report">>
    /\ x.state = "closing" => Len(x.waiters) > 0 /\ x.waiters[1] = "report"
    /\ \A i \in 1..Len(x.waiters) : i > 1 \/ x.state = "closed" => x.waiters[i] \in DgCloses
    /\ x.waiters = <<>> => x.flight.sink = 0
    /\ x.waiters # <<>> => x.flight.sink > 0 /\ x.flight.who \in DgReports
    /\ x.state = "closed" => x.flight.sink \in {0, DgBackends + 1}
    /\ \A c \in DgCloses : x.closing[c] = "done" => x.state = "closed"

(* Whose result is open, and where the suppressions are counted.            *)
RepOpen(x) ==
    \A r \in DgReports : x.result[r] = "open" <=> r = x.flight.who /\ x.flight.sink \in 1..DgBackends
Suppressions(x) == {r \in DgReports : x.result[r] = "suppressed"}
RepCarried(x) == IF x.flight.sink \in 1..DgBackends THEN x.flight.carries ELSE 0
RepCounts(x) == x.suppressed + x.told + x.untold + RepCarried(x)
RepKept(x) ==
    /\ Cardinality(Suppressions(x)) >= RepCounts(x)
    /\ Cardinality(Suppressions(x)) > RepCounts(x) => Cardinality(Suppressions(x)) > DgMaxCounter

RepGood(x) == x \in RepStates(x) /\ RepWaits(x) /\ RepOpen(x) /\ RepKept(x)

(* The sinks there are, and the bounds of the reports. *)
LEMMA RepSinks == /\ DOMAIN Sinks = 1..DgBackends /\ Len(Sinks) = DgBackends /\ DgBackends \in Nat \ {0}
                  /\ IsFiniteSet(DgReports) /\ DgMaxCounter \in Nat /\ "report" \notin DgCloses
  <1>1. DgBackends \in Nat \ {0}
    BY DiagnosticsAssumption
  <1>2. Sinks \in Seq({"cloudwatch", "stderr"}) /\ Len(Sinks) = DgBackends
    BY <1>1 DEF Sinks
  <1> QED
    BY <1>1, <1>2, DiagnosticsAssumption DEF Sinks

(* The suppressed are finite, and one more is one more.                     *)
LEMMA Suppressed ==
    ASSUME NEW f \in [DgReports -> RepResults], NEW r \in DgReports, f[r] # "suppressed",
           NEW v \in RepResults
    PROVE  LET S(g) == {q \in DgReports : g[q] = "suppressed"}
           IN  /\ IsFiniteSet(S(f)) /\ Cardinality(S(f)) \in Nat
               /\ Cardinality(S([f EXCEPT ![r] = v])) =
                     Cardinality(S(f)) + (IF v = "suppressed" THEN 1 ELSE 0)
  <1> DEFINE S(g) == {q \in DgReports : g[q] = "suppressed"}
             g == [f EXCEPT ![r] = v]
  <1>1. IsFiniteSet(S(f)) /\ Cardinality(S(f)) \in Nat
    BY RepSinks, FS_Subset, FS_CardinalityType
  <1>2. CASE v = "suppressed"
    <2>1. S(g) = S(f) \cup {r} /\ r \notin S(f)
      BY <1>2
    <2> HIDE DEF S, g
    <2>2. Cardinality(S(f) \cup {r}) = Cardinality(S(f)) + 1
      BY <1>1, <2>1, FS_AddElement
    <2> QED
      BY <1>1, <1>2, <2>1, <2>2 DEF S, g
  <1>3. CASE v # "suppressed"
    <2>1. S(g) = S(f)
      BY <1>3
    <2> QED
      BY <1>1, <1>3, <2>1
  <1> QED
    BY <1>2, <1>3

(* The invariant of the reporter holds at first. *)
LEMMA RepInit == Reporter!DgInit => RepGood(state)
  <1> SUFFICES ASSUME Reporter!DgInit PROVE RepGood(state)
    OBVIOUS
  <1>1. /\ state.state = "idle" /\ state.suppressed = 0 /\ state.saturated = FALSE
        /\ state.flight = [sink |-> 0, carries |-> 0, who |-> "none"] /\ state.waiters = <<>>
        /\ state.result = [r \in DgReports |-> "none"] /\ state.closing = [c \in DgCloses |-> "none"]
        /\ state.told = 0 /\ state.untold = 0
    BY DEF Reporter!DgInit, Reporter!Idle
  <1>2. state \in RepStates(state)
    <2>1. /\ [sink |-> 0, carries |-> 0, who |-> "none"]
                \in [sink : 0..DgBackends + 1, carries : Nat, who : DgReports \cup {"none"}]
          /\ <<>> \in Seq(DgCloses \cup {"report"})
          /\ [r \in DgReports |-> "none"] \in [DgReports -> RepResults]
          /\ [c \in DgCloses |-> "none"] \in [DgCloses -> {"none", "waiting", "done"}]
      BY RepSinks DEF RepResults
    <2>2. state = [state |-> state.state, suppressed |-> state.suppressed, saturated |-> state.saturated,
                   flight |-> state.flight, waiters |-> state.waiters, result |-> state.result,
                   closing |-> state.closing, told |-> state.told, untold |-> state.untold,
                   input |-> state.input, parsed |-> state.parsed, consumed |-> state.consumed,
                   upload |-> state.upload, puts |-> state.puts]
      BY DEF Reporter!DgInit
    <2> QED
      BY <1>1, <2>1, <2>2 DEF RepStates
  <1>3. RepWaits(state) /\ RepOpen(state)
    BY <1>1, RepSinks DEF RepWaits, RepOpen
  <1>4. RepKept(state)
    <2>1. Suppressions(state) = {}
      BY <1>1 DEF Suppressions
    <2>2. Cardinality(Suppressions(state)) = 0
      BY <2>1, FS_EmptySet
    <2>3. RepCounts(state) = 0
      BY <1>1, RepSinks DEF RepCounts, RepCarried
    <2> QED
      BY <2>2, <2>3 DEF RepKept
  <1> QED
    BY <1>2, <1>3, <1>4 DEF RepGood

RepFlights == [sink : 0..DgBackends + 1, carries : Nat, who : DgReports \cup {"none"}]

(* Where a step of the reporter leads.                                      *)
RepTo(x, s, sup, sat, f, w, r, c, t, u) ==
    [x EXCEPT !.state = s, !.suppressed = sup, !.saturated = sat, !.flight = f, !.waiters = w,
              !.result = r, !.closing = c, !.told = t, !.untold = u]

RepIs(y, s, sup, f, w, r, c, t, u) ==
    /\ y \in RepStates(y) /\ y.state = s /\ y.suppressed = sup /\ y.flight = f /\ y.waiters = w
    /\ y.result = r /\ y.closing = c /\ y.told = t /\ y.untold = u

(* What a step of the reporter leaves alone. *)
LEMMA RepMoves ==
    ASSUME NEW x, x \in RepStates(x), NEW s \in {"idle", "reporting", "closing", "closed"}, NEW sup \in Nat,
           NEW sat \in BOOLEAN, NEW f \in RepFlights, NEW w \in Seq(DgCloses \cup {"report"}),
           NEW r \in [DgReports -> RepResults], NEW c \in [DgCloses -> {"none", "waiting", "done"}],
           NEW t \in Nat, NEW u \in Nat
    PROVE  RepIs(RepTo(x, s, sup, sat, f, w, r, c, t, u), s, sup, f, w, r, c, t, u)
  <1>0. PICK y : y = RepTo(x, s, sup, sat, f, w, r, c, t, u)
    OBVIOUS
  <1>1. /\ y.state = s /\ y.suppressed = sup /\ y.saturated = sat /\ y.flight = f /\ y.waiters = w
        /\ y.result = r /\ y.closing = c /\ y.told = t /\ y.untold = u
        /\ y.input = x.input /\ y.parsed = x.parsed /\ y.consumed = x.consumed /\ y.upload = x.upload
        /\ y.puts = x.puts
        /\ y = [state |-> s, suppressed |-> sup, saturated |-> sat, flight |-> f, waiters |-> w,
                result |-> r, closing |-> c, told |-> t, untold |-> u, input |-> x.input,
                parsed |-> x.parsed, consumed |-> x.consumed, upload |-> x.upload, puts |-> x.puts]
    BY <1>0 DEF RepStates, RepTo
  <1>2. y \in RepStates(y)
    BY <1>1 DEF RepStates, RepFlights
  <1> QED
    BY <1>0, <1>1, <1>2 DEF RepIs

(* What is known of a reporter that is good.                                *)
RepKnown(x) ==
    /\ x \in RepStates(x) /\ x.state \in {"idle", "reporting", "closing", "closed"}
    /\ x.suppressed \in Nat /\ x.saturated \in BOOLEAN /\ x.flight \in RepFlights
    /\ x.waiters \in Seq(DgCloses \cup {"report"}) /\ x.result \in [DgReports -> RepResults]
    /\ x.closing \in [DgCloses -> {"none", "waiting", "done"}] /\ x.told \in Nat /\ x.untold \in Nat
    /\ x.flight.sink \in 0..DgBackends + 1 /\ x.flight.carries \in Nat
    /\ x.flight = [sink |-> x.flight.sink, carries |-> x.flight.carries, who |-> x.flight.who]
    /\ IsFiniteSet(Suppressions(x)) /\ Cardinality(Suppressions(x)) \in Nat
    /\ RepCarried(x) \in Nat

(* What the invariant says of the types. *)
LEMMA RepTyped == ASSUME NEW x, RepGood(x) PROVE RepKnown(x)
  <1>1. x \in RepStates(x)
    BY DEF RepGood
  <1>2. IsFiniteSet(Suppressions(x)) /\ Cardinality(Suppressions(x)) \in Nat
    BY RepSinks, FS_Subset, FS_CardinalityType DEF Suppressions
  <1>3. /\ x.state \in {"idle", "reporting", "closing", "closed"}
        /\ x.suppressed \in Nat /\ x.saturated \in BOOLEAN /\ x.flight \in RepFlights
        /\ x.waiters \in Seq(DgCloses \cup {"report"}) /\ x.result \in [DgReports -> RepResults]
        /\ x.closing \in [DgCloses -> {"none", "waiting", "done"}] /\ x.told \in Nat /\ x.untold \in Nat
    BY <1>1 DEF RepStates, RepFlights
  <1>4. /\ x.flight.sink \in 0..DgBackends + 1 /\ x.flight.carries \in Nat
        /\ x.flight = [sink |-> x.flight.sink, carries |-> x.flight.carries, who |-> x.flight.who]
    BY <1>3 DEF RepFlights
  <1>5. RepCarried(x) \in Nat
    BY <1>4 DEF RepCarried
  <1> QED
    BY <1>1, <1>2, <1>3, <1>4, <1>5 DEF RepKnown

(* A report that is suppressed is accounted for. *)
LEMMA RepSuppresses ==
    ASSUME RepGood(state), NEW r \in DgReports, state.result[r] = "none",
           state.state \in {"reporting", "closing"},
           state' = [Reporter!AccountSuppressed(state) EXCEPT !.result[r] = "suppressed"]
    PROVE  RepGood(state')
  <1> DEFINE full == state.suppressed >= DgMaxCounter
             sup == IF full THEN state.suppressed ELSE state.suppressed + 1
             sat == IF full THEN TRUE ELSE state.saturated
             result == [state.result EXCEPT ![r] = "suppressed"]
  <1>0. RepKnown(state)
    BY RepTyped
  <1>1. /\ state \in RepStates(state) /\ sup \in Nat /\ sat \in BOOLEAN /\ result \in [DgReports -> RepResults]
        /\ DgMaxCounter \in Nat /\ state.suppressed \in Nat
    <2>1. state.suppressed \in Nat /\ state.saturated \in BOOLEAN /\ state.result \in [DgReports -> RepResults]
      BY <1>0 DEF RepKnown
    <2>2. sup \in Nat
      BY <2>1
    <2>3. sat \in BOOLEAN
      BY <2>1
    <2>4. result \in [DgReports -> RepResults]
      BY <2>1 DEF RepResults
    <2> QED
      BY <1>0, <2>1, <2>2, <2>3, <2>4, RepSinks DEF RepKnown
  <1>2. state' = RepTo(state, state.state, sup, sat, state.flight, state.waiters, result, state.closing,
                       state.told, state.untold)
    <2>1. CASE full
      BY <1>1, <2>1 DEF Reporter!AccountSuppressed, RepTo, RepStates
    <2>2. CASE ~full
      BY <1>1, <2>2 DEF Reporter!AccountSuppressed, RepTo, RepStates
    <2> QED
      BY <2>1, <2>2
  <1> HIDE DEF sup, sat, result
  <1>3. /\ state' \in RepStates(state') /\ state'.state = state.state /\ state'.suppressed = sup
        /\ state'.flight = state.flight /\ state'.waiters = state.waiters /\ state'.result = result
        /\ state'.closing = state.closing /\ state'.told = state.told /\ state'.untold = state.untold
    <2>1. RepIs(RepTo(state, state.state, sup, sat, state.flight, state.waiters, result, state.closing, state.told, state.untold),
                state.state, sup, state.flight, state.waiters, result, state.closing, state.told, state.untold)
      <3>1. /\ state.state \in {"idle", "reporting", "closing", "closed"} /\ sup \in Nat /\ sat \in BOOLEAN /\ state.flight \in RepFlights
            /\ state.waiters \in Seq(DgCloses \cup {"report"}) /\ result \in [DgReports -> RepResults]
            /\ state.closing \in [DgCloses -> {"none", "waiting", "done"}] /\ state.told \in Nat /\ state.untold \in Nat
        BY <1>0, <1>1 DEF RepKnown
      <3> QED
        BY <1>1, <3>1, RepMoves
    <2> QED
      BY <1>2, <2>1 DEF RepIs
  <1>4. RepWaits(state')
    BY <1>3 DEF RepGood, RepWaits
  <1>5. RepOpen(state')
    <2>1. \A q \in DgReports : q # r => result[q] = state.result[q]
      BY <1>0 DEF RepKnown, result
    <2>2. result[r] = "suppressed"
      BY <1>0 DEF RepKnown, result
    <2>3. ~(r = state.flight.who /\ state.flight.sink \in 1..DgBackends)
      BY DEF RepGood, RepOpen
    <2>4. \A q \in DgReports : q # r =>
            (result[q] = "open" <=> q = state.flight.who /\ state.flight.sink \in 1..DgBackends)
      BY <2>1 DEF RepGood, RepOpen
    <2> QED
      BY <1>3, <2>2, <2>3, <2>4 DEF RepOpen
  <1>6. RepKept(state')
    <2>1. Cardinality(Suppressions(state')) = Cardinality(Suppressions(state)) + 1
      <3>1. state.result[r] # "suppressed" /\ "suppressed" \in RepResults
        BY DEF RepResults
      <3>2. state.result \in [DgReports -> RepResults]
        BY <1>0 DEF RepKnown
      <3> HIDE DEF result
      <3> DEFINE S(g) == {q \in DgReports : g[q] = "suppressed"}
      <3>3. Cardinality(S(result)) = Cardinality(S(state.result)) + 1
        <4> HIDE DEF S
        <4> QED
          BY <3>1, <3>2, Suppressed DEF S, result
      <3> QED
        BY <1>3, <3>3 DEF Suppressions
    <2>2. RepCarried(state') = RepCarried(state)
      BY <1>3 DEF RepCarried
    <2>3. /\ Cardinality(Suppressions(state)) \in Nat /\ RepCarried(state) \in Nat
          /\ state.told \in Nat /\ state.untold \in Nat
      BY <1>0 DEF RepKnown
    <2>4. /\ Cardinality(Suppressions(state)) >= RepCounts(state)
          /\ Cardinality(Suppressions(state)) > RepCounts(state) => Cardinality(Suppressions(state)) > DgMaxCounter
      BY DEF RepGood, RepKept
    <2>5. RepCounts(state') = sup + state.told + state.untold + RepCarried(state)
      BY <1>3, <2>2 DEF RepCounts
    <2>6. RepCounts(state) = state.suppressed + state.told + state.untold + RepCarried(state)
      BY DEF RepCounts
    <2>7. CASE full
      <3>1. sup = state.suppressed
        BY <2>7 DEF sup
      <3>2. /\ RepCounts(state') = RepCounts(state)
            /\ Cardinality(Suppressions(state)) >= DgMaxCounter
        BY <1>1, <2>3, <2>4, <2>5, <2>6, <2>7, <3>1
      <3> QED
        BY <1>1, <2>1, <2>3, <2>4, <2>6, <3>2 DEF RepKept
    <2>8. CASE ~full
      <3>1. sup = state.suppressed + 1
        BY <2>8 DEF sup
      <3>2. RepCounts(state') = RepCounts(state) + 1
        BY <1>1, <2>3, <2>5, <2>6, <3>1
      <3> QED
        BY <1>1, <2>1, <2>3, <2>4, <2>6, <3>2 DEF RepKept
    <2> QED
      BY <2>7, <2>8
  <1> QED
    BY <1>3, <1>4, <1>5, <1>6 DEF RepGood

(* A report that is refused or rejected leaves the rest alone.              *)
LEMMA RepRefuses ==
    ASSUME RepGood(state), NEW r \in DgReports, state.result[r] = "none", NEW how \in {"closed", "threw"},
           state' = [state EXCEPT !.result[r] = how]
    PROVE  RepGood(state')
  <1> DEFINE result == [state.result EXCEPT ![r] = how]
  <1>0. RepKnown(state)
    BY RepTyped
  <1>1. state \in RepStates(state) /\ result \in [DgReports -> RepResults]
    BY <1>0 DEF RepKnown, RepResults
  <1>2. state' = RepTo(state, state.state, state.suppressed, state.saturated, state.flight, state.waiters,
                       result, state.closing, state.told, state.untold)
    BY <1>1 DEF RepTo, RepStates
  <1> HIDE DEF result
  <1>3. /\ state' \in RepStates(state') /\ state'.state = state.state /\ state'.suppressed = state.suppressed
        /\ state'.flight = state.flight /\ state'.waiters = state.waiters /\ state'.result = result
        /\ state'.closing = state.closing /\ state'.told = state.told /\ state'.untold = state.untold
    <2>1. RepIs(RepTo(state, state.state, state.suppressed, state.saturated, state.flight, state.waiters, result, state.closing, state.told, state.untold),
                state.state, state.suppressed, state.flight, state.waiters, result, state.closing, state.told, state.untold)
      <3>1. /\ state.state \in {"idle", "reporting", "closing", "closed"} /\ state.suppressed \in Nat /\ state.saturated \in BOOLEAN /\ state.flight \in RepFlights
            /\ state.waiters \in Seq(DgCloses \cup {"report"}) /\ result \in [DgReports -> RepResults]
            /\ state.closing \in [DgCloses -> {"none", "waiting", "done"}] /\ state.told \in Nat /\ state.untold \in Nat
        BY <1>0, <1>1 DEF RepKnown
      <3> QED
        BY <1>1, <3>1, RepMoves
    <2> QED
      BY <1>2, <2>1 DEF RepIs
  <1>4. RepWaits(state')
    BY <1>3 DEF RepGood, RepWaits
  <1>5. RepOpen(state')
    <2>1. \A q \in DgReports : result[q] = IF q = r THEN how ELSE state.result[q]
      BY <1>0 DEF RepKnown, result
    <2> QED
      BY <1>3, <2>1 DEF RepGood, RepOpen
  <1>6. RepKept(state')
    <2>1. Suppressions(state') = Suppressions(state)
      BY <1>3, <1>0 DEF RepKnown, Suppressions, result
    <2>2. RepCounts(state') = RepCounts(state)
      BY <1>3 DEF RepCarried, RepCounts
    <2> QED
      BY <2>1, <2>2 DEF RepGood, RepKept
  <1> QED
    BY <1>3, <1>4, <1>5, <1>6 DEF RepGood

(* A report that is admitted carries the suppressions so far.               *)
LEMMA RepAdmits ==
    ASSUME RepGood(state), NEW r \in DgReports, state.result[r] = "none", state.state = "idle",
           state' = [state EXCEPT !.result[r] = "open", !.state = "reporting",
                                  !.flight = [sink |-> 1, carries |-> state.suppressed, who |-> r],
                                  !.suppressed = 0, !.saturated = FALSE, !.waiters = <<"report">>]
    PROVE  RepGood(state')
  <1> DEFINE result == [state.result EXCEPT ![r] = "open"]
             flight == [sink |-> 1, carries |-> state.suppressed, who |-> r]
  <1>0. RepKnown(state)
    BY RepTyped
  <1>1. /\ state \in RepStates(state) /\ result \in [DgReports -> RepResults] /\ flight \in RepFlights
        /\ <<"report">> \in Seq(DgCloses \cup {"report"})
    BY <1>0, RepSinks DEF RepKnown, RepResults, RepFlights
  <1>2. state' = RepTo(state, "reporting", 0, FALSE, flight, <<"report">>, result, state.closing,
                       state.told, state.untold)
    BY <1>1 DEF RepTo, RepStates
  <1>3. flight.sink = 1 /\ flight.who = r /\ flight.carries = state.suppressed
    OBVIOUS
  <1> HIDE DEF result, flight
  <1>4. /\ state' \in RepStates(state') /\ state'.state = "reporting" /\ state'.suppressed = 0
        /\ state'.flight = flight /\ state'.waiters = <<"report">> /\ state'.result = result
        /\ state'.closing = state.closing /\ state'.told = state.told /\ state'.untold = state.untold
    <2>1. RepIs(RepTo(state, "reporting", 0, FALSE, flight, <<"report">>, result, state.closing, state.told, state.untold),
                "reporting", 0, flight, <<"report">>, result, state.closing, state.told, state.untold)
      <3>1. /\ "reporting" \in {"idle", "reporting", "closing", "closed"} /\ 0 \in Nat /\ FALSE \in BOOLEAN /\ flight \in RepFlights
            /\ <<"report">> \in Seq(DgCloses \cup {"report"}) /\ result \in [DgReports -> RepResults]
            /\ state.closing \in [DgCloses -> {"none", "waiting", "done"}] /\ state.told \in Nat /\ state.untold \in Nat
        BY <1>0, <1>1 DEF RepKnown
      <3> QED
        BY <1>1, <3>1, RepMoves
    <2> QED
      BY <1>2, <2>1 DEF RepIs
  <1>5. state.flight.sink = 0 /\ \A c \in DgCloses : state.closing[c] # "done"
    BY DEF RepGood, RepWaits
  <1>6. RepWaits(state')
    <2>1. Len(<<"report">>) = 1 /\ <<"report">>[1] = "report" /\ <<"report">> # <<>>
      OBVIOUS
    <2> QED
      BY <1>3, <1>4, <1>5, <2>1 DEF RepWaits
  <1>7. RepOpen(state')
    <2>1. \A q \in DgReports : result[q] = IF q = r THEN "open" ELSE state.result[q]
      BY <1>0 DEF RepKnown, result
    <2>2. \A q \in DgReports : state.result[q] # "open"
      BY <1>5, RepSinks DEF RepGood, RepOpen
    <2>3. 1 \in 1..DgBackends
      BY RepSinks
    <2>4. \A q \in DgReports : result[q] = "open" <=> q = r
      BY <2>1, <2>2
    <2> QED
      BY <1>3, <1>4, <2>3, <2>4 DEF RepOpen
  <1>8. RepKept(state')
    <2>1. Suppressions(state') = Suppressions(state)
      BY <1>4, <1>0 DEF RepKnown, Suppressions, result
    <2>2. RepCounts(state') = RepCounts(state)
      <3>1. RepCarried(state) = 0
        BY <1>5 DEF RepCarried
      <3>2. RepCarried(state') = state.suppressed
        BY <1>3, <1>4, RepSinks DEF RepCarried
      <3> QED
        BY <1>4, <3>1, <3>2, <1>0 DEF RepKnown, RepCounts
    <2> QED
      BY <2>1, <2>2 DEF RepGood, RepKept
  <1> QED
    BY <1>4, <1>6, <1>7, <1>8 DEF RepGood

(* A report keeps the invariant. *)
LEMMA RepReports ==
    ASSUME RepGood(state), NEW r \in DgReports, NEW ok \in BOOLEAN, Reporter!Report(r, ok)
    PROVE  RepGood(state')
  <1>1. state.result[r] = "none" /\ state.state \in {"idle", "reporting", "closing", "closed"}
    BY RepTyped DEF RepKnown, Reporter!Report
  <1>2. CASE state.state = "closed"
    <2>1. state' = [state EXCEPT !.result[r] = "closed"]
      BY <1>2 DEF Reporter!Report
    <2> QED
      BY <1>1, <2>1, RepRefuses
  <1>3. CASE state.state \in {"reporting", "closing"}
    <2>1. state' = [Reporter!AccountSuppressed(state) EXCEPT !.result[r] = "suppressed"]
      BY <1>3 DEF Reporter!Report
    <2> QED
      BY <1>1, <1>3, <2>1, RepSuppresses
  <1>4. CASE state.state = "idle" /\ ~ok
    <2>1. state' = [state EXCEPT !.result[r] = "threw"]
      BY <1>4 DEF Reporter!Report
    <2> QED
      BY <1>1, <2>1, RepRefuses
  <1>5. CASE state.state = "idle" /\ ok
    <2>1. state' = [state EXCEPT !.result[r] = "open", !.state = "reporting",
                                  !.flight = [sink |-> 1, carries |-> state.suppressed, who |-> r],
                                  !.suppressed = 0, !.saturated = FALSE, !.waiters = <<"report">>]
      BY <1>5 DEF Reporter!Report
    <2> QED
      BY <1>1, <1>5, <2>1, RepAdmits
  <1> QED
    BY <1>1, <1>2, <1>3, <1>4, <1>5

(* The answer of a sink: the next one is asked, or the delivery is settled  *)
(* and its suppressions were told or not.                                  *)
LEMMA RepAnswered ==
    ASSUME RepGood(state), NEW a, Reporter!SinkSettles(a)
    PROVE  RepGood(state')
  <1> DEFINE k == state.flight.sink
             r == state.flight.who
             how == IF a = "accepted" THEN "delivered" ELSE "failed"
             over == a = "accepted" \/ ~(k < DgBackends)
             flight == [state.flight EXCEPT !.sink = IF over THEN DgBackends + 1 ELSE k + 1]
             result == IF over THEN [state.result EXCEPT ![r] = how] ELSE state.result
             told == IF a = "accepted" THEN state.told + state.flight.carries ELSE state.told
             untold == IF over /\ a # "accepted" THEN state.untold + state.flight.carries ELSE state.untold
  <1>0. RepKnown(state)
    BY RepTyped
  <1>1. /\ state \in RepStates(state) /\ k \in 1..DgBackends /\ state.flight.carries \in Nat
        /\ state.result \in [DgReports -> RepResults] /\ state.told \in Nat /\ state.untold \in Nat
        /\ state.flight \in RepFlights /\ state.suppressed \in Nat /\ DgBackends \in Nat \ {0}
        /\ DgMaxCounter \in Nat
    BY <1>0, RepSinks DEF RepKnown, Reporter!SinkSettles
  <1>2. state.waiters # <<>> /\ r \in DgReports /\ state.state # "closed" /\ state.result[r] = "open"
    BY <1>1, RepSinks DEF RepGood, RepWaits, RepOpen
  <1>3. /\ flight \in RepFlights /\ flight.carries = state.flight.carries /\ flight.who = r
        /\ flight.sink = IF over THEN DgBackends + 1 ELSE k + 1
    BY <1>1 DEF RepFlights
  <1>4. result \in [DgReports -> RepResults] /\ told \in Nat /\ untold \in Nat
    <2>1. how \in RepResults
      BY DEF RepResults
    <2>2. [state.result EXCEPT ![r] = how] \in [DgReports -> RepResults]
      <3> HIDE DEF how, r
      <3> QED
        BY <1>1, <2>1
    <2>3. told \in Nat
      BY <1>1
    <2>4. untold \in Nat
      BY <1>1
    <2>5. result \in [DgReports -> RepResults]
      BY <1>1, <2>2
    <2> QED
      BY <2>3, <2>4, <2>5
  <1>5. state' = RepTo(state, state.state, state.suppressed, state.saturated, flight, state.waiters,
                       result, state.closing, told, untold)
    <2>1. Len(Sinks) = DgBackends
      BY RepSinks
    <2>2. CASE a = "accepted"
      BY <1>1, <2>1, <2>2 DEF Reporter!SinkSettles, RepTo, RepStates
    <2>3. CASE a # "accepted" /\ k < DgBackends
      BY <1>1, <2>1, <2>3 DEF Reporter!SinkSettles, RepTo, RepStates
    <2>4. CASE a # "accepted" /\ ~(k < DgBackends)
      BY <1>1, <2>1, <2>4 DEF Reporter!SinkSettles, RepTo, RepStates
    <2> QED
      BY <2>2, <2>3, <2>4
  <1>6. k + 1 \in 1..DgBackends <=> k < DgBackends
    BY <1>1
  <1>7. /\ over => \A q \in DgReports : result[q] = IF q = r THEN how ELSE state.result[q]
        /\ how \in {"delivered", "failed"}
        /\ over => told + untold = state.told + state.untold + state.flight.carries
        /\ ~over => told = state.told /\ untold = state.untold /\ result = state.result
    BY <1>1
  <1> HIDE DEF flight, result, told, untold, how, k, r
  <1>8. /\ state' \in RepStates(state') /\ state'.state = state.state /\ state'.suppressed = state.suppressed
        /\ state'.flight = flight /\ state'.waiters = state.waiters /\ state'.result = result
        /\ state'.closing = state.closing /\ state'.told = told /\ state'.untold = untold
    <2>1. RepIs(RepTo(state, state.state, state.suppressed, state.saturated, flight, state.waiters,
                      result, state.closing, told, untold),
                state.state, state.suppressed, flight, state.waiters, result, state.closing, told, untold)
      <3>1. /\ state.state \in {"idle", "reporting", "closing", "closed"} /\ state.suppressed \in Nat
            /\ state.saturated \in BOOLEAN /\ state.waiters \in Seq(DgCloses \cup {"report"})
            /\ state.closing \in [DgCloses -> {"none", "waiting", "done"}]
        BY <1>0 DEF RepKnown
      <3> QED
        BY <1>1, <1>3, <1>4, <3>1, RepMoves
    <2> QED
      BY <1>5, <2>1 DEF RepIs
  <1>9. flight.sink > 0 /\ flight.who \in DgReports /\ (flight.sink \in 1..DgBackends <=> ~over)
    BY <1>1, <1>2, <1>3, <1>6 DEF k
  <1>10. RepWaits(state')
    BY <1>2, <1>8, <1>9 DEF RepGood, RepWaits
  <1>11. RepOpen(state')
    <2>1. \A q \in DgReports : state.result[q] = "open" <=> q = r
      BY <1>1 DEF RepGood, RepOpen, k, r
    <2>2. \A q \in DgReports : result[q] = "open" <=> q = r /\ ~over
      BY <1>7, <2>1
    <2> QED
      BY <1>3, <1>8, <1>9, <2>2 DEF RepOpen
  <1>12. RepKept(state')
    <2>1. Suppressions(state') = Suppressions(state)
      <3>1. \A q \in DgReports : result[q] = "suppressed" <=> state.result[q] = "suppressed"
        BY <1>2, <1>7
      <3> QED
        BY <1>8, <3>1 DEF Suppressions
    <2>2. RepCarried(state) = state.flight.carries
      BY <1>1 DEF RepCarried, k
    <2>3. RepCarried(state') = IF over THEN 0 ELSE state.flight.carries
      BY <1>3, <1>8, <1>9 DEF RepCarried
    <2>4. RepCounts(state') = RepCounts(state)
      BY <1>1, <1>4, <1>7, <1>8, <2>2, <2>3 DEF RepCounts
    <2> QED
      BY <2>1, <2>4 DEF RepGood, RepKept
  <1> QED
    BY <1>8, <1>10, <1>11, <1>12 DEF RepGood

(* Who awaited a settled delivery goes on, and the last one ends it.        *)
LEMMA RepResumed ==
    ASSUME RepGood(state), state.flight.sink = DgBackends + 1, state.waiters # <<>>,
           NEW s \in {"idle", "reporting", "closing", "closed"},
           NEW c \in [DgCloses -> {"none", "waiting", "done"}],
           \/ Head(state.waiters) = "report" /\ c = state.closing
                /\ s = IF state.state = "closing" THEN "closed" ELSE "idle"
           \/ Head(state.waiters) \in DgCloses /\ s = "closed",
           state' = [state EXCEPT
                        !.flight = IF Len(state.waiters) = 1 THEN [sink |-> 0, carries |-> 0, who |-> "none"]
                                   ELSE state.flight,
                        !.waiters = Tail(state.waiters), !.state = s, !.closing = c]
    PROVE  RepGood(state')
  <1> DEFINE w == state.waiters
             idle == [sink |-> 0, carries |-> 0, who |-> "none"]
             flight == IF Len(w) = 1 THEN idle ELSE state.flight
  <1>0. RepKnown(state)
    BY RepTyped
  <1>1. /\ state \in RepStates(state) /\ w \in Seq(DgCloses \cup {"report"}) /\ w # <<>>
        /\ state.result \in [DgReports -> RepResults] /\ state.told \in Nat /\ state.untold \in Nat
        /\ state.flight \in RepFlights /\ state.suppressed \in Nat /\ DgBackends \in Nat \ {0}
        /\ state.saturated \in BOOLEAN
    BY <1>0, RepSinks DEF RepKnown
  <1>2. /\ Tail(w) \in Seq(DgCloses \cup {"report"}) /\ Len(w) \in Nat \ {0}
        /\ Len(Tail(w)) = Len(w) - 1 /\ \A i \in 1..Len(Tail(w)) : Tail(w)[i] = w[i + 1]
        /\ Head(w) = w[1] /\ (Tail(w) = <<>> <=> Len(w) = 1)
    <2>1. \A v \in Seq(DgCloses \cup {"report"}) : Len(v) \in Nat /\ (v = <<>> <=> Len(v) = 0)
      BY EmptySeq
    <2> HIDE DEF w
    <2>2. Len(w) \in Nat \ {0}
      BY <1>1, <2>1
    <2>3. /\ Tail(w) \in Seq(DgCloses \cup {"report"}) /\ Len(Tail(w)) = Len(w) - 1
          /\ Head(w) = w[1]
      BY <1>1, <2>2
    <2>4. \A i \in 1..Len(Tail(w)) : Tail(w)[i] = w[i + 1]
      BY <1>1, <2>2
    <2>5. Tail(w) = <<>> <=> Len(Tail(w)) = 0
      BY <2>1, <2>3
    <2>6. Tail(w) = <<>> <=> Len(w) = 1
      BY <2>2, <2>3, <2>5
    <2> QED
      BY <2>2, <2>3, <2>4, <2>6
  <1>3. flight \in RepFlights /\ flight.sink = IF Len(w) = 1 THEN 0 ELSE DgBackends + 1
    BY <1>1 DEF RepFlights
  <1>4. state' = RepTo(state, s, state.suppressed, state.saturated, flight, Tail(w), state.result, c,
                       state.told, state.untold)
    BY <1>1 DEF RepTo, RepStates
  <1>5. flight.who \in DgReports \/ Len(w) = 1
    BY <1>1 DEF RepGood, RepWaits
  <1> HIDE DEF flight, w
  <1>6. /\ state' \in RepStates(state') /\ state'.state = s /\ state'.suppressed = state.suppressed
        /\ state'.flight = flight /\ state'.waiters = Tail(w) /\ state'.result = state.result
        /\ state'.closing = c /\ state'.told = state.told /\ state'.untold = state.untold
    <2>1. RepIs(RepTo(state, s, state.suppressed, state.saturated, flight, Tail(w), state.result, c,
                      state.told, state.untold),
                s, state.suppressed, flight, Tail(w), state.result, c, state.told, state.untold)
      BY <1>1, <1>2, <1>3, RepMoves
    <2> QED
      BY <1>4, <2>1 DEF RepIs
  <1>7. /\ state.state = "idle" => w = <<>>
        /\ state.state = "reporting" => Len(w) = 1
        /\ state.state \in {"reporting", "closing"} => w[1] = "report"
        /\ \A i \in 1..Len(w) : i > 1 \/ state.state = "closed" => w[i] \in DgCloses
        /\ \A d \in DgCloses : state.closing[d] = "done" => state.state = "closed"
    <2>1. Len(<<"report">>) = 1 /\ <<"report">>[1] = "report"
      OBVIOUS
    <2> QED
      BY <2>1 DEF RepGood, RepWaits, w
  <1>8. \A i \in 1..Len(Tail(w)) : Tail(w)[i] \in DgCloses
    <2> SUFFICES ASSUME NEW i \in 1..Len(Tail(w)) PROVE Tail(w)[i] \in DgCloses
      OBVIOUS
    <2>1. i + 1 \in 1..Len(w) /\ i + 1 > 1 /\ Tail(w)[i] = w[i + 1]
      BY <1>2
    <2> QED
      BY <1>7, <2>1
  <1>9. /\ s \in {"idle", "closed"} /\ (s = "idle" => Tail(w) = <<>>)
        /\ \A d \in DgCloses : c[d] = "done" => s = "closed"
    <2>1. state.state \in {"idle", "reporting", "closing", "closed"}
      BY <1>0 DEF RepKnown
    <2>2. Head(w) = "report" => state.state # "closed"
      <3>1. 1 \in 1..Len(w)
        BY <1>2
      <3> QED
        BY <1>2, <1>7, <3>1, RepSinks
    <2> QED
      BY <1>1, <1>2, <1>7, <2>1, <2>2 DEF w
  <1>10. RepWaits(state')
    <2>1. /\ s = "idle" => state'.waiters = <<>>
          /\ state'.state \in {"idle", "closed"}
          /\ \A i \in 1..Len(state'.waiters) : state'.waiters[i] \in DgCloses
          /\ \A d \in DgCloses : state'.closing[d] = "done" => state'.state = "closed"
      BY <1>6, <1>8, <1>9
    <2>2. /\ state'.waiters = <<>> => state'.flight.sink = 0
          /\ state'.waiters # <<>> => state'.flight.sink > 0 /\ state'.flight.who \in DgReports
          /\ state'.flight.sink \in {0, DgBackends + 1}
      <3>1. CASE Len(w) = 1
        BY <1>2, <1>3, <1>6, <3>1
      <3>2. CASE Len(w) # 1
        <4>1. flight.sink = DgBackends + 1 /\ DgBackends + 1 > 0 /\ flight.who \in DgReports
          BY <1>1, <1>3, <1>5, <3>2
        <4> QED
          BY <1>2, <1>6, <3>2, <4>1
      <3> QED
        BY <3>1, <3>2
    <2> QED
      BY <1>6, <2>1, <2>2 DEF RepWaits
  <1>11. RepOpen(state')
    <2>1. ~(state.flight.sink \in 1..DgBackends) /\ ~(flight.sink \in 1..DgBackends)
      BY <1>1, <1>3
    <2> QED
      BY <1>6, <2>1 DEF RepGood, RepOpen
  <1>12. RepKept(state')
    <2>1. Suppressions(state') = Suppressions(state)
      BY <1>6 DEF Suppressions
    <2>2. RepCarried(state) = 0 /\ RepCarried(state') = 0
      BY <1>1, <1>3, <1>6 DEF RepCarried
    <2>3. RepCounts(state') = RepCounts(state)
      BY <1>6, <2>2 DEF RepCounts
    <2> QED
      BY <2>1, <2>3 DEF RepGood, RepKept
  <1> QED
    BY <1>6, <1>10, <1>11, <1>12 DEF RepGood

(* Who waits when the flight settles, waits for all sinks. *)
LEMMA RepSettled == RepGood(state) /\ Reporter!Settled /\ state.waiters # <<>> =>
                        state.flight.sink = DgBackends + 1
  <1> SUFFICES ASSUME RepGood(state), Reporter!Settled PROVE state.flight.sink = DgBackends + 1
    OBVIOUS
  <1>1. state.flight.sink \in 0..DgBackends + 1
    BY RepTyped DEF RepKnown
  <1>2. state.flight.sink > DgBackends
    BY RepSinks DEF Reporter!Settled
  <1> QED
    BY <1>1, <1>2, RepSinks

(* A report that resumes keeps the invariant. *)
LEMMA RepReportResumes == RepGood(state) /\ Reporter!ReportResumes => RepGood(state')
  <1> SUFFICES ASSUME RepGood(state), Reporter!ReportResumes PROVE RepGood(state')
    OBVIOUS
  <1> DEFINE s == IF state.state = "closing" THEN "closed" ELSE "idle"
  <1>1. state.flight.sink = DgBackends + 1 /\ state.waiters # <<>> /\ Head(state.waiters) = "report"
    BY RepSettled DEF Reporter!ReportResumes
  <1>2. state \in RepStates(state) /\ state.closing \in [DgCloses -> {"none", "waiting", "done"}]
    BY RepTyped DEF RepKnown
  <1>3. state' = [state EXCEPT
                    !.flight = IF Len(state.waiters) = 1 THEN [sink |-> 0, carries |-> 0, who |-> "none"]
                               ELSE state.flight,
                    !.waiters = Tail(state.waiters), !.state = s, !.closing = state.closing]
    BY <1>2 DEF Reporter!ReportResumes, Reporter!Idle, RepStates
  <1>4. s \in {"idle", "reporting", "closing", "closed"}
    OBVIOUS
  <1> QED
    BY <1>1, <1>2, <1>3, <1>4, RepResumed

(* A close that resumes keeps it. *)
LEMMA RepCloseResumes == RepGood(state) /\ Reporter!CloseResumes => RepGood(state')
  <1> SUFFICES ASSUME RepGood(state), Reporter!CloseResumes PROVE RepGood(state')
    OBVIOUS
  <1> DEFINE c == [state.closing EXCEPT ![Head(state.waiters)] = "done"]
  <1>1. state.flight.sink = DgBackends + 1 /\ state.waiters # <<>> /\ Head(state.waiters) \in DgCloses
    BY RepSettled DEF Reporter!CloseResumes
  <1>2. /\ state \in RepStates(state) /\ state.closing \in [DgCloses -> {"none", "waiting", "done"}]
        /\ c \in [DgCloses -> {"none", "waiting", "done"}]
    BY RepTyped DEF RepKnown
  <1>3. state' = [state EXCEPT
                    !.flight = IF Len(state.waiters) = 1 THEN [sink |-> 0, carries |-> 0, who |-> "none"]
                               ELSE state.flight,
                    !.waiters = Tail(state.waiters), !.state = "closed", !.closing = c]
    BY <1>2 DEF Reporter!CloseResumes, Reporter!Idle, RepStates
  <1> QED
    BY <1>1, <1>2, <1>3, RepResumed

(* close(): at once, or behind the report in flight.                        *)
LEMMA RepCloses ==
    ASSUME RepGood(state), NEW c \in DgCloses, Reporter!CloseReporter(c)
    PROVE  RepGood(state')
  <1> DEFINE now == state.state \in {"idle", "closed"}
             s == IF now THEN "closed" ELSE "closing"
             w == IF now THEN state.waiters ELSE Append(state.waiters, c)
             closing == [state.closing EXCEPT ![c] = IF now THEN "done" ELSE "waiting"]
  <1>0. RepKnown(state)
    BY RepTyped
  <1>1. /\ state \in RepStates(state) /\ state.waiters \in Seq(DgCloses \cup {"report"})
        /\ state.closing \in [DgCloses -> {"none", "waiting", "done"}]
        /\ state.state \in {"idle", "reporting", "closing", "closed"}
        /\ state.flight \in RepFlights /\ state.result \in [DgReports -> RepResults]
        /\ state.told \in Nat /\ state.untold \in Nat /\ state.suppressed \in Nat
        /\ state.saturated \in BOOLEAN
    BY <1>0 DEF RepKnown
  <1>2. /\ w \in Seq(DgCloses \cup {"report"}) /\ closing \in [DgCloses -> {"none", "waiting", "done"}]
        /\ s \in {"idle", "reporting", "closing", "closed"}
    BY <1>1
  <1>3. state' = RepTo(state, s, state.suppressed, state.saturated, state.flight, w, state.result, closing,
                       state.told, state.untold)
    <2>1. CASE now
      BY <1>1, <2>1 DEF Reporter!CloseReporter, RepTo, RepStates
    <2>2. CASE ~now
      BY <1>1, <2>2 DEF Reporter!CloseReporter, RepTo, RepStates
    <2> QED
      BY <2>1, <2>2
  <1>4. \A d \in DgCloses : closing[d] = IF d = c THEN (IF now THEN "done" ELSE "waiting") ELSE state.closing[d]
    BY <1>1
  <1>5. ~now => /\ Len(w) = Len(state.waiters) + 1 /\ w[Len(state.waiters) + 1] = c /\ w # <<>>
                /\ \A i \in 1..Len(state.waiters) : w[i] = state.waiters[i]
    BY <1>1
  <1> HIDE DEF w, closing
  <1>6. /\ state' \in RepStates(state') /\ state'.state = s /\ state'.suppressed = state.suppressed
        /\ state'.flight = state.flight /\ state'.waiters = w /\ state'.result = state.result
        /\ state'.closing = closing /\ state'.told = state.told /\ state'.untold = state.untold
    <2>1. RepIs(RepTo(state, s, state.suppressed, state.saturated, state.flight, w, state.result, closing,
                      state.told, state.untold),
                s, state.suppressed, state.flight, w, state.result, closing, state.told, state.untold)
      BY <1>1, <1>2, RepMoves
    <2> QED
      BY <1>3, <2>1 DEF RepIs
  <1>7. RepWaits(state')
    <2>1. CASE now
      <3>1. w = state.waiters /\ s = "closed"
        BY <2>1 DEF w
      <3>2. state.state = "idle" => state.waiters = <<>> /\ state.flight.sink = 0
        BY DEF RepGood, RepWaits
      <3>3. \A i \in 1..Len(w) : w[i] \in DgCloses
        <4>1. CASE state.state = "idle"
          BY <3>1, <3>2, <4>1
        <4>2. CASE state.state = "closed"
          BY <3>1, <4>2 DEF RepGood, RepWaits
        <4> QED
          BY <2>1, <4>1, <4>2
      <3> QED
        BY <1>6, <2>1, <3>1, <3>2, <3>3 DEF RepGood, RepWaits
    <2>2. CASE ~now
      <3>1. state.state \in {"reporting", "closing"} /\ s = "closing"
        BY <1>1, <2>2
      <3>2. Len(state.waiters) > 0 /\ Len(state.waiters) \in Nat /\ state.waiters[1] = "report"
        <4>1. Len(<<"report">>) = 1 /\ <<"report">>[1] = "report"
          OBVIOUS
        <4>2. CASE state.state = "reporting"
          <5>1. state.waiters = <<"report">>
            BY <4>2 DEF RepGood, RepWaits
          <5> QED
            BY <4>1, <5>1
        <4>3. CASE state.state = "closing"
          <5>1. Len(state.waiters) > 0 /\ state.waiters[1] = "report"
            BY <4>3 DEF RepGood, RepWaits
          <5> QED
            BY <1>1, <5>1
        <4> QED
          BY <3>1, <4>2, <4>3
      <3>3. /\ \A i \in 1..Len(state.waiters) : i > 1 => state.waiters[i] \in DgCloses
            /\ state.flight.sink > 0 /\ state.flight.who \in DgReports
            /\ \A d \in DgCloses : state.closing[d] # "done"
        BY <1>1, <3>1, <3>2 DEF RepGood, RepWaits
      <3>4. \A i \in 1..Len(w) : i > 1 => w[i] \in DgCloses
        <4> SUFFICES ASSUME NEW i \in 1..Len(w), i > 1 PROVE w[i] \in DgCloses
          OBVIOUS
        <4>1. i \in 1..Len(state.waiters) \/ i = Len(state.waiters) + 1
          BY <1>5, <2>2, <3>2
        <4> QED
          BY <1>5, <2>2, <3>3, <4>1
      <3>5. w # <<>> /\ Len(w) > 0 /\ w[1] = "report"
        BY <1>5, <2>2, <3>2
      <3> QED
        BY <1>4, <1>6, <2>2, <3>1, <3>3, <3>4, <3>5 DEF RepWaits
    <2> QED
      BY <2>1, <2>2
  <1>8. RepOpen(state') /\ RepKept(state')
    BY <1>6 DEF RepGood, RepOpen, RepKept, Suppressions, RepCounts, RepCarried
  <1> QED
    BY <1>6, <1>7, <1>8 DEF RepGood

(* Every step of the reporter keeps it. *)
LEMMA RepStep == RepGood(state) /\ Reporter!DgNext => RepGood(state')
  BY RepReports, RepAnswered, RepReportResumes, RepCloseResumes, RepCloses
     DEF Reporter!DgNext, Reporter!Tick

(* The invariant says that reports are conserved, and that a closed         *)
(* reporter stays closed.                                                   *)
LEMMA RepHolds == RepGood(state) => Reporter!ReportsAreConserved /\ Reporter!NeverReopens
  <1> SUFFICES ASSUME RepGood(state) PROVE Reporter!ReportsAreConserved /\ Reporter!NeverReopens
    OBVIOUS
  <1>0. RepKnown(state)
    BY RepTyped
  <1>1. \A how : Reporter!Counted(how) = Cardinality({r \in DgReports : state.result[r] = how})
    BY DEF Reporter!Counted, Cardinality, Reporter!Cardinality
  <1> DEFINE open == {r \in DgReports : state.result[r] = "open"}
  <1>2. open \subseteq {state.flight.who} /\ (open # {} => state.flight.sink \in 1..DgBackends)
    BY DEF RepGood, RepOpen
  <1>3. open = {} \/ open = {state.flight.who}
    BY <1>2
  <1> HIDE DEF open
  <1>4. /\ Cardinality(open) \in {0, 1}
        /\ Cardinality(open) = 1 => state.flight.sink \in 1..DgBackends
        /\ open = {} => Cardinality(open) = 0
    BY <1>2, <1>3, FS_EmptySet, FS_Singleton
  <1>5. state.flight.sink \in 1..DgBackends => state.state \in {"reporting", "closing"}
    <2>1. state.state \in {"idle", "reporting", "closing", "closed"}
      BY <1>0 DEF RepKnown
    <2> QED
      BY <2>1, RepSinks DEF RepGood, RepWaits
  <1>6. Reporter!Counted("open") = Cardinality(open)
    BY <1>1 DEF open
  <1>7. Reporter!Counted("suppressed") = Cardinality(Suppressions(state))
    BY <1>1 DEF Suppressions
  <1>8. Reporter!ReportsAreConserved
    <2>1. (IF state.flight.sink \in DOMAIN Sinks THEN state.flight.carries ELSE 0) = RepCarried(state)
      BY RepSinks DEF RepCarried
    <2> QED
      BY <1>4, <1>5, <1>6, <1>7, <2>1 DEF RepGood, RepKept, RepCounts, Reporter!ReportsAreConserved
  <1>9. Reporter!NeverReopens
    <2> SUFFICES ASSUME NEW c \in DgCloses, state.closing[c] = "done"
                 PROVE  state.state = "closed" /\ Reporter!Counted("open") = 0
      BY DEF Reporter!NeverReopens
    <2>1. state.state = "closed" /\ state.flight.sink \in {0, DgBackends + 1}
      BY DEF RepGood, RepWaits
    <2>2. ~(state.flight.sink \in 1..DgBackends)
      BY <2>1, RepSinks
    <2> QED
      BY <1>4, <1>6, <2>1, <2>2
  <1> QED
    BY <1>8, <1>9

(***************************************************************************)
(* Totals: what is added to one value of a function is added to the total  *)
(***************************************************************************)
Cells(f) == UNION {{x} \X (1..f[x]) : x \in DOMAIN f}
Column(k, n) == {k} \X (1..n)

(* A total counts one cell for each unit of each value. *)
LEMMA CellsAre ==
    ASSUME NEW f, NEW c
    PROVE  c \in Cells(f) <=> \E x \in DOMAIN f : c \in Column(x, f[x])
  <1>1. \A x : Column(x, f[x]) = {x} \X (1..f[x])
    BY DEF Column
  <1>2. c \in Cells(f) <=> \E x \in DOMAIN f : c \in {x} \X (1..f[x])
    BY DEF Cells
  <1> QED
    BY <1>1, <1>2

(* The cells of one value are as many as it says. *)
LEMMA Columns ==
    ASSUME NEW k, NEW n \in Nat
    PROVE  /\ IsFiniteSet(Column(k, n)) /\ Cardinality(Column(k, n)) = n
           /\ \A c \in Column(k, n) : c[1] = k
  <1>1. IsFiniteSet({k}) /\ Cardinality({k}) = 1
    BY FS_Singleton
  <1>2. IsFiniteSet(1..n) /\ Cardinality(1..n) = n
    BY FS_Interval
  <1>3. /\ IsFiniteSet({k} \X (1..n))
        /\ Cardinality({k} \X (1..n)) = Cardinality({k}) * Cardinality(1..n)
    BY <1>1, <1>2, FS_Product
  <1> QED
    BY <1>1, <1>2, <1>3 DEF Column

(* The total of nothing. *)
LEMMA NothingInAll ==
    ASSUME NEW f, DOMAIN f = {} PROVE IsFiniteSet(Cells(f)) /\ Cardinality(Cells(f)) = 0
  <1>1. Cells(f) = {}
    BY CellsAre
  <1> QED
    BY <1>1, FS_EmptySet

(* g is f, but for the value of k.                                          *)
LEMMA TotalAfter ==
    ASSUME NEW f, NEW g, NEW k, NEW old \in Nat, NEW v \in Nat, IsFiniteSet(Cells(f)),
           DOMAIN g = DOMAIN f \cup {k}, g[k] = v, old = IF k \in DOMAIN f THEN f[k] ELSE 0,
           \A x \in DOMAIN f : x # k => g[x] = f[x]
    PROVE  IsFiniteSet(Cells(g)) /\ Cardinality(Cells(g)) = (Cardinality(Cells(f)) - old) + v
  <1> DEFINE rest == Cells(f) \ Column(k, old)
  <1>1. Column(k, old) \subseteq Cells(f)
    <2>1. CASE k \in DOMAIN f
      BY <2>1, CellsAre
    <2>2. CASE k \notin DOMAIN f
      <3>1. Column(k, old) = {}
        BY <2>2 DEF Column
      <3> QED
        BY <3>1
    <2> QED
      BY <2>1, <2>2
  <1>2. \A x, n : \A c \in Column(x, n) : c[1] = x
    BY DEF Column
  <1>3. \A c : c \in rest <=> \E x \in DOMAIN f : x # k /\ c \in Column(x, f[x])
    <2> TAKE c
    <2>1. ASSUME c \in rest PROVE \E x \in DOMAIN f : x # k /\ c \in Column(x, f[x])
      <3>1. PICK x \in DOMAIN f : c \in Column(x, f[x])
        BY <2>1, CellsAre
      <3>2. x # k
        BY <2>1, <3>1
      <3> QED
        BY <3>1, <3>2
    <2>2. ASSUME NEW x \in DOMAIN f, x # k, c \in Column(x, f[x]) PROVE c \in rest
      <3>1. c \in Cells(f)
        BY <2>2, CellsAre
      <3>2. c \notin Column(k, old)
        BY <1>2, <2>2
      <3> QED
        BY <3>1, <3>2
    <2> QED
      BY <2>1, <2>2
  <1>4. Cells(g) = rest \cup Column(k, v)
    <2>1. ASSUME NEW c \in Cells(g) PROVE c \in rest \cup Column(k, v)
      <3>1. PICK x \in DOMAIN g : c \in Column(x, g[x])
        BY CellsAre
      <3> QED
        BY <1>3, <3>1
    <2>2. ASSUME NEW c \in rest \cup Column(k, v) PROVE c \in Cells(g)
      <3>1. \E x \in DOMAIN g : c \in Column(x, g[x])
        BY <1>3
      <3> QED
        BY <3>1, CellsAre
    <2> QED
      BY <2>1, <2>2
  <1>5. rest \cap Column(k, v) = {}
    BY <1>2, <1>3
  <1>6. IsFiniteSet(rest) /\ Cardinality(rest) = Cardinality(Cells(f)) - old
    <2>1. Cells(f) \cap Column(k, old) = Column(k, old)
      BY <1>1
    <2>2. /\ IsFiniteSet(Cells(f) \ Column(k, old))
          /\ Cardinality(Cells(f) \ Column(k, old)) =
                Cardinality(Cells(f)) - Cardinality(Cells(f) \cap Column(k, old))
      BY FS_Difference
    <2>3. Cardinality(Column(k, old)) = old
      BY Columns
    <2> QED
      BY <2>1, <2>2, <2>3
  <1> HIDE DEF rest
  <1>7. IsFiniteSet(Cells(g)) /\ Cardinality(Cells(g)) = Cardinality(rest) + v - Cardinality({})
    <2>1. IsFiniteSet(Column(k, v)) /\ Cardinality(Column(k, v)) = v
      BY Columns
    <2>2. /\ IsFiniteSet(rest \cup Column(k, v))
          /\ Cardinality(rest \cup Column(k, v)) =
                Cardinality(rest) + Cardinality(Column(k, v)) - Cardinality(rest \cap Column(k, v))
      BY <1>6, <2>1, FS_Union
    <2> QED
      BY <1>4, <1>5, <2>1, <2>2
  <1>8. Cardinality(Cells(f)) \in Nat /\ Cardinality({}) = 0
    BY FS_CardinalityType, FS_EmptySet
  <1> QED
    BY <1>6, <1>7, <1>8

(* The same, with its hypotheses under one name.                            *)
Adds(f, g, k, old, v) ==
    /\ old \in Nat /\ v \in Nat /\ IsFiniteSet(Cells(f))
    /\ DOMAIN g = DOMAIN f \cup {k} /\ g[k] = v /\ old = IF k \in DOMAIN f THEN f[k] ELSE 0
    /\ \A x \in DOMAIN f : x # k => g[x] = f[x]

(* The total when one value is replaced. *)
LEMMA TotalAdded ==
    ASSUME NEW f, NEW g, NEW k, NEW old, NEW v, Adds(f, g, k, old, v)
    PROVE  IsFiniteSet(Cells(g)) /\ Cardinality(Cells(g)) = (Cardinality(Cells(f)) - old) + v
  <1>1. /\ old \in Nat /\ v \in Nat /\ IsFiniteSet(Cells(f))
        /\ DOMAIN g = DOMAIN f \cup {k} /\ g[k] = v /\ old = IF k \in DOMAIN f THEN f[k] ELSE 0
        /\ \A x \in DOMAIN f : x # k => g[x] = f[x]
    BY DEF Adds
  <1> QED
    BY <1>1, TotalAfter

(* The totals of the metrics and of the process monitor count cells. *)
LEMMA TotalsAre ==
    \A f : /\ Prometheus!Total(f) = Cardinality(Cells(f))
           /\ Process!Total(f) = Cardinality(Cells(f))
  BY DEF Cells, Prometheus!Total, Process!Total, Cardinality, Prometheus!Cardinality, Process!Cardinality

(***************************************************************************)
(* Uploads under a grant                                                   *)
(***************************************************************************)
UpGrants == [provider : {"aws_s3", "azure_blob"}, signedAt : 0..DgHorizon,
             duration : 0..(DgTtl + 1), expiresAt : 1..DgHorizon, wellFormed : BOOLEAN]
Expiry(g) == g.signedAt + g.duration
UpGood(x) ==
    /\ x = [state |-> x.state, suppressed |-> x.suppressed, saturated |-> x.saturated, flight |-> x.flight,
            waiters |-> x.waiters, result |-> x.result, closing |-> x.closing, told |-> x.told,
            untold |-> x.untold, input |-> x.input, parsed |-> x.parsed, consumed |-> x.consumed,
            upload |-> x.upload, puts |-> x.puts]
    /\ x.flight.sink = 0 /\ x.waiters = <<>>
    /\ x.input \in [DgGrants -> UpGrants] /\ x.parsed \subseteq DgGrants
    /\ \A g \in x.parsed : x.input[g].expiresAt <= Expiry(x.input[g])
    /\ \A p \in x.puts : /\ p[2] \in x.consumed \cap x.parsed
                         /\ p[3] \in Int /\ p[3] < x.input[p[2]].expiresAt
    /\ \A p, q \in x.puts : p[2] = q[2] => p = q

(* The invariant of the uploader holds at first. *)
LEMMA UpInit == Uploader!DgInit => UpGood(state) /\ clock \in Nat
  <1> SUFFICES ASSUME Uploader!DgInit PROVE UpGood(state) /\ clock \in Nat
    OBVIOUS
  <1>1. /\ state = [state |-> state.state, suppressed |-> state.suppressed, saturated |-> state.saturated,
                    flight |-> state.flight, waiters |-> state.waiters, result |-> state.result,
                    closing |-> state.closing, told |-> state.told, untold |-> state.untold,
                    input |-> state.input, parsed |-> state.parsed, consumed |-> state.consumed,
                    upload |-> state.upload, puts |-> state.puts]
        /\ state.flight.sink = 0 /\ state.waiters = <<>> /\ state.parsed = {} /\ state.puts = {}
        /\ state.input \in [DgGrants -> UpGrants] /\ clock = 0
    BY DEF Uploader!DgInit, Uploader!Idle, Uploader!GrantInputs, UpGrants
  <1> QED
    BY <1>1 DEF UpGood

(* Every step of the uploader keeps it. *)
LEMMA UpStep ==
    ASSUME UpGood(state), clock \in Nat, Uploader!DgNext PROVE UpGood(state') /\ clock' \in Nat
  <1>0. DgHorizon \in Nat /\ DgTtl \in Nat
    BY DiagnosticsAssumption
  <1>1. CASE Uploader!Tick
    BY <1>1 DEF Uploader!Tick
  <1>2. ASSUME NEW g \in DgGrants, Uploader!Parse(g) PROVE UpGood(state') /\ clock' \in Nat
    <2>1. /\ state' = [state EXCEPT !.parsed = @ \cup {g}] /\ clock' = clock
          /\ state.input[g].expiresAt <= Expiry(state.input[g])
      BY <1>2 DEF Uploader!Parse, Uploader!Acceptable, Uploader!SignedExpiry, Expiry
    <2>2. /\ state'.flight = state.flight /\ state'.waiters = state.waiters /\ state'.input = state.input
          /\ state'.parsed = state.parsed \cup {g} /\ state'.puts = state.puts
          /\ state'.consumed = state.consumed
          /\ state' = [state |-> state'.state, suppressed |-> state'.suppressed,
                    saturated |-> state'.saturated, flight |-> state'.flight, waiters |-> state'.waiters,
                    result |-> state'.result, closing |-> state'.closing, told |-> state'.told,
                    untold |-> state'.untold, input |-> state'.input, parsed |-> state'.parsed,
                    consumed |-> state'.consumed, upload |-> state'.upload, puts |-> state'.puts]
      BY <2>1 DEF UpGood
    <2> QED
      BY <2>1, <2>2 DEF UpGood
  <1>3. ASSUME NEW u \in DgUploads, NEW g \in DgGrants, NEW b, Uploader!Upload(u, g, b)
        PROVE  UpGood(state') /\ clock' \in Nat
    <2>1. /\ clock' = clock /\ g \in state.parsed
          /\ \/ \E why : state' = [state EXCEPT !.upload[u] = why]
             \/ /\ ~(state.input[g].expiresAt <= clock) /\ g \notin state.consumed
                /\ state' = [state EXCEPT !.upload[u] = "put", !.consumed = @ \cup {g},
                                          !.puts = @ \cup {<<u, g, clock>>}]
      BY <1>3 DEF Uploader!Upload
    <2>2. CASE \E why : state' = [state EXCEPT !.upload[u] = why]
      <3>1. /\ state'.flight = state.flight /\ state'.waiters = state.waiters /\ state'.input = state.input
            /\ state'.parsed = state.parsed /\ state'.puts = state.puts
            /\ state'.consumed = state.consumed
            /\ state' = [state |-> state'.state, suppressed |-> state'.suppressed,
                    saturated |-> state'.saturated, flight |-> state'.flight, waiters |-> state'.waiters,
                    result |-> state'.result, closing |-> state'.closing, told |-> state'.told,
                    untold |-> state'.untold, input |-> state'.input, parsed |-> state'.parsed,
                    consumed |-> state'.consumed, upload |-> state'.upload, puts |-> state'.puts]
        BY <2>2 DEF UpGood
      <3> QED
        BY <2>1, <3>1 DEF UpGood
    <2>3. CASE /\ ~(state.input[g].expiresAt <= clock) /\ g \notin state.consumed
               /\ state' = [state EXCEPT !.upload[u] = "put", !.consumed = @ \cup {g},
                                         !.puts = @ \cup {<<u, g, clock>>}]
      <3>1. /\ state'.flight = state.flight /\ state'.waiters = state.waiters /\ state'.input = state.input
            /\ state'.parsed = state.parsed /\ state'.puts = state.puts \cup {<<u, g, clock>>}
            /\ state'.consumed = state.consumed \cup {g}
            /\ state' = [state |-> state'.state, suppressed |-> state'.suppressed,
                    saturated |-> state'.saturated, flight |-> state'.flight, waiters |-> state'.waiters,
                    result |-> state'.result, closing |-> state'.closing, told |-> state'.told,
                    untold |-> state'.untold, input |-> state'.input, parsed |-> state'.parsed,
                    consumed |-> state'.consumed, upload |-> state'.upload, puts |-> state'.puts]
        BY <2>3 DEF UpGood
      <3> DEFINE put == <<u, g, clock>>
      <3>2. put[2] = g /\ put[3] = clock
        OBVIOUS
      <3> HIDE DEF put
      <3>3. state.input[g].expiresAt \in Int /\ clock < state.input[g].expiresAt /\ clock \in Int
        <4>1. state.input[g] \in UpGrants
          BY DEF UpGood
        <4>2. state.input[g].expiresAt \in Nat
          BY <1>0, <4>1 DEF UpGrants
        <4> QED
          BY <2>3, <4>2
      <3>4. state'.puts = state.puts \cup {put}
        BY <3>1 DEF put
      <3>5. \A p \in state.puts : p[2] # g
        BY <2>3 DEF UpGood
      <3>6. \A p, q \in state'.puts : p[2] = q[2] => p = q
        BY <3>2, <3>4, <3>5 DEF UpGood
      <3>7. \A p \in state'.puts : /\ p[2] \in state'.consumed \cap state'.parsed
                                   /\ p[3] \in Int /\ p[3] < state'.input[p[2]].expiresAt
        BY <2>1, <3>1, <3>2, <3>3, <3>4 DEF UpGood
      <3> QED
        BY <2>1, <3>1, <3>6, <3>7 DEF UpGood
    <2> QED
      BY <2>1, <2>2, <2>3
  <1>4. ASSUME NEW u \in DgUploads, NEW how, Uploader!PutSettles(u, how)
        PROVE  UpGood(state') /\ clock' \in Nat
    <2>1. state' = [state EXCEPT !.upload[u] = how] /\ clock' = clock
      BY <1>4 DEF Uploader!PutSettles
    <2>2. /\ state'.flight = state.flight /\ state'.waiters = state.waiters /\ state'.input = state.input
          /\ state'.parsed = state.parsed /\ state'.puts = state.puts
          /\ state'.consumed = state.consumed
          /\ state' = [state |-> state'.state, suppressed |-> state'.suppressed,
                    saturated |-> state'.saturated, flight |-> state'.flight, waiters |-> state'.waiters,
                    result |-> state'.result, closing |-> state'.closing, told |-> state'.told,
                    untold |-> state'.untold, input |-> state'.input, parsed |-> state'.parsed,
                    consumed |-> state'.consumed, upload |-> state'.upload, puts |-> state'.puts]
      BY <2>1 DEF UpGood
    <2> QED
      BY <2>1, <2>2 DEF UpGood
  <1>5. ~Uploader!ReportResumes /\ ~Uploader!CloseResumes /\ \A a : ~Uploader!SinkSettles(a)
    <2>1. DOMAIN Sinks = 1..DgBackends
      BY DEF Sinks
    <2>2. state.waiters = <<>> /\ 0 \notin DOMAIN Sinks
      BY <2>1 DEF UpGood
    <2> QED
      BY <2>2 DEF UpGood, Uploader!ReportResumes, Uploader!CloseResumes, Uploader!SinkSettles
  <1> QED
    BY <1>1, <1>2, <1>3, <1>4, <1>5 DEF Uploader!DgNext

(* The invariant says that uploads are signed. *)
LEMMA UpHolds == UpGood(state) => Uploader!PutsAreSigned
  <1> SUFFICES ASSUME UpGood(state), NEW p \in state.puts
               PROVE  /\ p[3] < state.input[p[2]].expiresAt
                      /\ p[3] < Uploader!SignedExpiry(state.input[p[2]])
    BY DEF UpGood, Uploader!PutsAreSigned
  <1>1. /\ p[3] \in Int /\ p[3] < state.input[p[2]].expiresAt /\ state.input[p[2]] \in UpGrants
        /\ state.input[p[2]].expiresAt <= Expiry(state.input[p[2]])
    BY DEF UpGood
  <1>2. state.input[p[2]].expiresAt \in Int /\ Expiry(state.input[p[2]]) \in Int
    BY <1>1, DiagnosticsAssumption DEF UpGrants, Expiry
  <1> QED
    BY <1>1, <1>2 DEF Uploader!SignedExpiry, Expiry

(***************************************************************************)
(* The latency histogram                                                   *)
(***************************************************************************)
Below(all, i) == {k \in DOMAIN all : all[k] <= Boundaries[i]}
Held(all, i) == Cardinality(Below(all, i)) - (IF i = 1 THEN 0 ELSE Cardinality(Below(all, i - 1)))
Extreme(all, lo, hi) ==
    /\ \E k \in DOMAIN all : all[k] = lo
    /\ \E k \in DOMAIN all : all[k] = hi
    /\ \A k \in DOMAIN all : lo <= all[k] /\ all[k] <= hi
LatencyGood(h, all) ==
    /\ h = [buckets |-> h.buckets, count |-> h.count, sum |-> h.sum, lo |-> h.lo, hi |-> h.hi]
    /\ all \in Seq(Nat) /\ h.buckets \in [1..ApBuckets + 1 -> Nat] /\ h.count = Len(all)
    /\ IsFiniteSet(Cells(h.buckets)) /\ Cardinality(Cells(h.buckets)) = h.count
    /\ IsFiniteSet(Cells(all)) /\ Cardinality(Cells(all)) = h.sum
    /\ \A i \in 1..ApBuckets : h.buckets[i] = Held(all, i)
    /\ all # <<>> => h.lo \in Nat /\ h.hi \in Nat /\ Extreme(all, h.lo, h.hi)

(* The boundaries grow. *)
LEMMA BoundariesAre ==
    /\ ApBuckets \in Nat /\ Boundaries \in Seq(Nat) /\ DOMAIN Boundaries = 1..ApBuckets
    /\ Len(Boundaries) = ApBuckets
    /\ \A i \in 1..ApBuckets : Boundaries[i] \in Nat /\ Boundaries[i] = 2 * i - 1
  <1>1. ApBuckets \in Nat
    BY ProcessAssumption
  <1>2. Boundaries \in [1..ApBuckets -> Nat]
    BY <1>1 DEF Boundaries
  <1>3. Boundaries \in Seq(Nat) /\ Len(Boundaries) = ApBuckets
    BY <1>1, <1>2
  <1> QED
    BY <1>1, <1>2, <1>3 DEF Boundaries

(* A latency falls into the first bucket whose boundary it does not exceed. *)
LEMMA Falls ==
    ASSUME NEW v \in Nat
    PROVE  /\ Process!BucketOf(v) \in 1..ApBuckets + 1
           /\ \A i \in 1..ApBuckets :
                 Process!BucketOf(v) = i <=> v <= Boundaries[i] /\ (i = 1 \/ v > Boundaries[i - 1])
  <1> DEFINE in == {i \in 1..ApBuckets : v <= Boundaries[i]}
  <1>1. Process!BucketOf(v) = IF in = {} THEN ApBuckets + 1 ELSE Process!Min(in)
    BY BoundariesAre DEF Process!BucketOf
  <1>2. CASE in = {}
    <2>1. Process!BucketOf(v) = ApBuckets + 1
      BY <1>1, <1>2
    <2>2. \A i \in 1..ApBuckets : ~(v <= Boundaries[i]) /\ i # ApBuckets + 1
      BY <1>2, BoundariesAre
    <2> QED
      BY <2>1, <2>2, BoundariesAre
  <1>3. CASE in # {}
    <2>1. PICK m \in in : \A i \in in : m <= i
      <3>1. in \subseteq Nat /\ in # {}
        BY <1>3
      <3> QED
        BY <3>1, Least
    <2>2. Process!Min(in) = m
      <3>1. \A n \in in : (\A i \in in : n <= i) => n = m
        BY <2>1
      <3> HIDE DEF in
      <3> QED
        BY <2>1, <3>1 DEF Process!Min
    <2>3. Process!BucketOf(v) = m
      BY <1>1, <1>3, <2>2
    <2>4. ASSUME NEW i \in 1..ApBuckets
          PROVE  m = i <=> v <= Boundaries[i] /\ (i = 1 \/ v > Boundaries[i - 1])
      <3>1. CASE i < m
        <4>1. ~(v <= Boundaries[i])
          BY <2>1, <3>1
        <4> QED
          BY <3>1, <4>1
      <3>2. CASE i = m
        <4>1. v <= Boundaries[i]
          BY <2>1, <3>2
        <4>2. i # 1 => i - 1 \in 1..ApBuckets /\ i - 1 \notin in
          BY <2>1, <3>2, BoundariesAre
        <4>3. i # 1 => v > Boundaries[i - 1]
          BY <4>2, BoundariesAre
        <4> QED
          BY <3>2, <4>1, <4>3
      <3>3. CASE m < i
        <4>1. m \in 1..ApBuckets /\ v <= Boundaries[m] /\ i # 1 /\ i - 1 \in 1..ApBuckets /\ m <= i - 1
          BY <2>1, <3>3, BoundariesAre
        <4>2. v <= Boundaries[i - 1]
          BY <4>1, BoundariesAre
        <4>3. Boundaries[i - 1] \in Nat
          BY <4>1, BoundariesAre
        <4> QED
          BY <3>3, <4>1, <4>2, <4>3
      <3>4. m \in Nat
        BY <2>1, BoundariesAre
      <3> QED
        BY <3>1, <3>2, <3>3, <3>4
    <2>5. m \in 1..ApBuckets + 1
      BY <2>1, BoundariesAre
    <2> QED
      BY <2>3, <2>4, <2>5
  <1> QED
    BY <1>2, <1>3

(* Zeros add nothing to a total. *)
LEMMA ZerosInAll ==
    ASSUME NEW f, \A x \in DOMAIN f : f[x] = 0
    PROVE  IsFiniteSet(Cells(f)) /\ Cardinality(Cells(f)) = 0
  <1>1. Cells(f) = {}
    <2>1. \A x : Column(x, 0) = {}
      BY DEF Column
    <2> QED
      BY <2>1, CellsAre
  <1> QED
    BY <1>1, FS_EmptySet

(* A histogram that is empty is exact. *)
LEMMA LatencyNone == LatencyGood(Process!EmptyHistogram, <<>>)
  <1> DEFINE h == Process!EmptyHistogram
  <1>1. /\ h = [buckets |-> h.buckets, count |-> h.count, sum |-> h.sum, lo |-> h.lo, hi |-> h.hi]
        /\ h.buckets = [i \in 1..ApBuckets + 1 |-> 0] /\ h.count = 0 /\ h.sum = 0
    BY BoundariesAre DEF Process!EmptyHistogram
  <1> HIDE DEF h
  <1>2. IsFiniteSet(Cells(h.buckets)) /\ Cardinality(Cells(h.buckets)) = 0
    BY <1>1, ZerosInAll
  <1>3. IsFiniteSet(Cells(<<>>)) /\ Cardinality(Cells(<<>>)) = 0
    <2>1. DOMAIN <<>> = {}
      OBVIOUS
    <2> QED
      BY <2>1, NothingInAll
  <1>4. \A i \in 1..ApBuckets : Held(<<>>, i) = 0
    <2>1. \A i : Below(<<>>, i) = {}
      BY DEF Below
    <2>2. \A i : Cardinality(Below(<<>>, i)) = 0
      BY <2>1, FS_EmptySet
    <2> QED
      BY <2>2 DEF Held
  <1>5. /\ h.buckets \in [1..ApBuckets + 1 -> Nat]
        /\ \A i \in 1..ApBuckets : h.buckets[i] = 0
    BY <1>1, BoundariesAre
  <1>6. <<>> \in Seq(Nat) /\ Len(<<>>) = 0
    OBVIOUS
  <1>7. LatencyGood(h, <<>>)
    BY <1>1, <1>2, <1>3, <1>4, <1>5, <1>6 DEF LatencyGood
  <1> QED
    BY <1>7 DEF h

(* One more latency is below the boundaries that it does not exceed.        *)
LEMMA BelowGrows ==
    ASSUME NEW all \in Seq(Nat), NEW v \in Nat, NEW i \in 1..ApBuckets
    PROVE  /\ Cardinality(Below(all, i)) \in Nat
           /\ Cardinality(Below(Append(all, v), i)) =
                 Cardinality(Below(all, i)) + (IF v <= Boundaries[i] THEN 1 ELSE 0)
  <1> DEFINE n == Len(all) + 1
             more == Append(all, v)
  <1>1. /\ DOMAIN all = 1..Len(all) /\ Len(all) \in Nat /\ DOMAIN more = 1..n /\ more[n] = v
        /\ \A k \in 1..Len(all) : more[k] = all[k]
    BY AppendProperties, LenProperties
  <1> HIDE DEF more
  <1>2. IsFiniteSet(Below(all, i)) /\ Cardinality(Below(all, i)) \in Nat
    <2>1. IsFiniteSet(1..Len(all))
      BY <1>1, FS_Interval
    <2>2. Below(all, i) \subseteq 1..Len(all)
      BY <1>1 DEF Below
    <2> QED
      BY <2>1, <2>2, FS_Subset, FS_CardinalityType
  <1>3. n \notin Below(all, i)
    BY <1>1 DEF Below
  <1>4. CASE v <= Boundaries[i]
    <2>1. Below(more, i) = Below(all, i) \cup {n}
      BY <1>1, <1>4 DEF Below
    <2>2. Cardinality(Below(all, i) \cup {n}) = Cardinality(Below(all, i)) + 1
      BY <1>2, <1>3, FS_AddElement
    <2>3. Cardinality(Below(more, i)) = Cardinality(Below(all, i)) + 1
      BY <2>1, <2>2
    <2> QED
      BY <1>2, <1>4, <2>3 DEF more
  <1>5. CASE ~(v <= Boundaries[i])
    <2>1. Below(more, i) = Below(all, i)
      BY <1>1, <1>5 DEF Below
    <2>2. Cardinality(Below(more, i)) = Cardinality(Below(all, i))
      BY <2>1
    <2> QED
      BY <1>2, <1>5, <2>2 DEF more
  <1> QED
    BY <1>4, <1>5

(* A latency that is recorded keeps the histogram exact. *)
LEMMA LatencyRecorded ==
    ASSUME NEW h, NEW all, NEW v \in Nat, LatencyGood(h, all),
           NEW g, g = [buckets |-> [h.buckets EXCEPT ![Process!BucketOf(v)] = @ + 1],
                       count |-> h.count + 1, sum |-> h.sum + v,
                       lo |-> IF h.count = 0 THEN v ELSE Process!Min({h.lo, v}),
                       hi |-> IF h.count = 0 THEN v ELSE Process!Max({h.hi, v})]
    PROVE  LatencyGood(g, Append(all, v))
  <1> DEFINE b == Process!BucketOf(v)
             n == Len(all) + 1
             more == Append(all, v)
  <1>0. b \in 1..ApBuckets + 1 /\ ApBuckets \in Nat
    BY Falls, BoundariesAre
  <1>01. all \in Seq(Nat)
    BY DEF LatencyGood
  <1>02. /\ more \in Seq(Nat) /\ Len(more) = n /\ more # <<>> /\ more[n] = v
         /\ \A k \in 1..Len(all) : more[k] = all[k]
    BY <1>01, AppendProperties
  <1>1. /\ DOMAIN all = 1..Len(all) /\ Len(all) \in Nat /\ DOMAIN more = 1..n /\ more[n] = v
        /\ Len(more) = n /\ more \in Seq(Nat) /\ all \in Seq(Nat) /\ more # <<>>
        /\ \A k \in 1..Len(all) : more[k] = all[k] /\ all[k] \in Nat
    <2> HIDE DEF more
    <2> QED
      BY <1>01, <1>02, LenProperties
  <1>2. /\ g = [buckets |-> g.buckets, count |-> g.count, sum |-> g.sum, lo |-> g.lo, hi |-> g.hi]
        /\ g.buckets = [h.buckets EXCEPT ![b] = @ + 1] /\ g.count = h.count + 1 /\ g.sum = h.sum + v
        /\ g.lo = IF h.count = 0 THEN v ELSE Process!Min({h.lo, v})
        /\ g.hi = IF h.count = 0 THEN v ELSE Process!Max({h.hi, v})
    OBVIOUS
  <1>3. /\ h.buckets \in [1..ApBuckets + 1 -> Nat] /\ h.count = Len(all)
        /\ IsFiniteSet(Cells(h.buckets)) /\ Cardinality(Cells(h.buckets)) = h.count
        /\ IsFiniteSet(Cells(all)) /\ Cardinality(Cells(all)) = h.sum
        /\ \A i \in 1..ApBuckets : h.buckets[i] = Held(all, i)
        /\ all # <<>> => h.lo \in Nat /\ h.hi \in Nat /\ Extreme(all, h.lo, h.hi)
    BY DEF LatencyGood
  <1> HIDE DEF b
  <1>4. /\ g.buckets \in [1..ApBuckets + 1 -> Nat] /\ g.buckets[b] = h.buckets[b] + 1
        /\ \A i \in 1..ApBuckets + 1 : i # b => g.buckets[i] = h.buckets[i]
    BY <1>0, <1>2, <1>3
  <1>5. IsFiniteSet(Cells(g.buckets)) /\ Cardinality(Cells(g.buckets)) = g.count
    <2>1. h.buckets[b] \in Nat /\ DOMAIN h.buckets = 1..ApBuckets + 1 /\ DOMAIN g.buckets = DOMAIN h.buckets \cup {b}
      BY <1>0, <1>3, <1>4
    <2>2. /\ IsFiniteSet(Cells(g.buckets))
          /\ Cardinality(Cells(g.buckets)) =
                (Cardinality(Cells(h.buckets)) - h.buckets[b]) + (h.buckets[b] + 1)
      <3> DEFINE old == h.buckets[b]
                 new == h.buckets[b] + 1
      <3>1. /\ old \in Nat /\ new \in Nat /\ g.buckets[b] = new
            /\ old = IF b \in DOMAIN h.buckets THEN h.buckets[b] ELSE 0
            /\ \A i \in DOMAIN h.buckets : i # b => g.buckets[i] = h.buckets[i]
        BY <1>0, <1>4, <2>1
      <3> HIDE DEF old, new
      <3>3. Adds(h.buckets, g.buckets, b, old, new)
        BY <1>3, <2>1, <3>1 DEF Adds
      <3>2. /\ IsFiniteSet(Cells(g.buckets))
            /\ Cardinality(Cells(g.buckets)) = (Cardinality(Cells(h.buckets)) - old) + new
        BY <3>3, TotalAdded
      <3> QED
        BY <3>2 DEF old, new
    <2> QED
      BY <1>1, <1>2, <1>3, <2>1, <2>2
  <1>6. IsFiniteSet(Cells(more)) /\ Cardinality(Cells(more)) = g.sum
    <2> HIDE DEF more
    <2>1. /\ DOMAIN more = DOMAIN all \cup {n} /\ 0 = IF n \in DOMAIN all THEN all[n] ELSE 0
          /\ \A k \in DOMAIN all : k # n => more[k] = all[k]
      BY <1>1
    <2>2. /\ IsFiniteSet(Cells(more))
          /\ Cardinality(Cells(more)) = (Cardinality(Cells(all)) - 0) + v
      <3> DEFINE old == 0
      <3>1. old \in Nat /\ old = IF n \in DOMAIN all THEN all[n] ELSE 0
        BY <2>1
      <3> HIDE DEF old, n
      <3>3. Adds(all, more, n, old, v)
        BY <1>1, <1>3, <2>1, <3>1 DEF Adds
      <3>2. /\ IsFiniteSet(Cells(more))
            /\ Cardinality(Cells(more)) = (Cardinality(Cells(all)) - old) + v
        BY <3>3, TotalAdded
      <3> QED
        BY <3>2 DEF old
    <2>3. Cardinality(Cells(all)) \in Nat
      BY <1>3, FS_CardinalityType
    <2> QED
      BY <1>2, <1>3, <2>2, <2>3
  <1>7. ASSUME NEW i \in 1..ApBuckets PROVE g.buckets[i] = Held(more, i)
    <2>1. /\ Cardinality(Below(all, i)) \in Nat
          /\ Cardinality(Below(more, i)) =
                 Cardinality(Below(all, i)) + (IF v <= Boundaries[i] THEN 1 ELSE 0)
      BY <1>1, BelowGrows
    <2>2. b = i <=> v <= Boundaries[i] /\ (i = 1 \/ v > Boundaries[i - 1])
      BY Falls DEF b
    <2>3. i \in 1..ApBuckets + 1 /\ h.buckets[i] \in Nat /\ h.buckets[i] = Held(all, i)
      BY <1>0, <1>3
    <2>4. g.buckets[i] = IF b = i THEN h.buckets[i] + 1 ELSE h.buckets[i]
      BY <1>4, <2>3
    <2> HIDE DEF more
    <2>5. CASE i = 1
      BY <2>1, <2>2, <2>3, <2>4, <2>5 DEF Held
    <2>6. CASE i # 1
      <3>1. i - 1 \in 1..ApBuckets
        BY <1>0, <2>6
      <3>2. /\ Cardinality(Below(all, i - 1)) \in Nat
            /\ Cardinality(Below(more, i - 1)) =
                 Cardinality(Below(all, i - 1)) + (IF v <= Boundaries[i - 1] THEN 1 ELSE 0)
        BY <1>1, <3>1, BelowGrows DEF more
      <3>3. Boundaries[i - 1] \in Nat /\ Boundaries[i] \in Nat /\ Boundaries[i - 1] <= Boundaries[i]
        BY <1>0, <3>1, BoundariesAre
      <3>4. /\ Held(all, i) = Cardinality(Below(all, i)) - Cardinality(Below(all, i - 1))
            /\ Held(more, i) = Cardinality(Below(more, i)) - Cardinality(Below(more, i - 1))
        BY <2>6 DEF Held
      <3>5. CASE v <= Boundaries[i - 1]
        <4>1. v <= Boundaries[i] /\ b # i
          BY <2>2, <2>6, <3>3, <3>5
        <4> QED
          BY <2>1, <2>3, <2>4, <3>2, <3>4, <3>5, <4>1
      <3>6. CASE ~(v <= Boundaries[i - 1])
        <4>1. b = i <=> v <= Boundaries[i]
          BY <2>2, <3>3, <3>6
        <4> QED
          BY <2>1, <2>3, <2>4, <3>2, <3>4, <3>6, <4>1
      <3> QED
        BY <3>5, <3>6
    <2> QED
      BY <2>5, <2>6
  <1>8. g.lo \in Nat /\ g.hi \in Nat /\ Extreme(more, g.lo, g.hi)
    <2>1. CASE all = <<>>
      <3>1. g.lo = v /\ g.hi = v /\ DOMAIN more = {n}
        BY <1>1, <1>2, <1>3, <2>1
      <3>2. n \in DOMAIN more /\ \A k \in DOMAIN more : more[k] = v
        BY <1>1, <3>1
      <3> HIDE DEF more, n
      <3> QED
        BY <3>1, <3>2 DEF Extreme
    <2>2. CASE all # <<>>
      <3>1. h.lo \in Nat /\ h.hi \in Nat /\ Extreme(all, h.lo, h.hi) /\ h.count # 0
        BY <1>1, <1>3, <2>2
      <3>2. Process!Min({h.lo, v}) = IF h.lo <= v THEN h.lo ELSE v
        BY <3>1 DEF Process!Min
      <3>3. Process!Max({h.hi, v}) = IF h.hi >= v THEN h.hi ELSE v
        BY <3>1 DEF Process!Max
      <3>4. /\ g.lo = IF h.lo <= v THEN h.lo ELSE v
            /\ g.hi = IF h.hi >= v THEN h.hi ELSE v
        BY <1>2, <3>1, <3>2, <3>3
      <3> HIDE DEF more
      <3>5. n \in DOMAIN more /\ n \in Nat /\ \A k \in DOMAIN all : k \in DOMAIN more /\ more[k] = all[k] /\ more[k] \in Nat
        BY <1>1
      <3>6. PICK i \in DOMAIN all : all[i] = h.lo
        BY <3>1 DEF Extreme
      <3>7. PICK j \in DOMAIN all : all[j] = h.hi
        BY <3>1 DEF Extreme
      <3>8. more[i] = h.lo /\ more[j] = h.hi /\ i \in DOMAIN more /\ j \in DOMAIN more
        BY <3>5, <3>6, <3>7
      <3>9. (\E k \in DOMAIN more : more[k] = g.lo) /\ (\E k \in DOMAIN more : more[k] = g.hi)
        BY <1>1, <3>4, <3>5, <3>8
      <3>10. \A k \in DOMAIN more : g.lo <= more[k] /\ more[k] <= g.hi
        <4>1. ASSUME NEW k \in DOMAIN more PROVE g.lo <= more[k] /\ more[k] <= g.hi
          <5>1. CASE k = n
            BY <1>1, <3>1, <3>4, <5>1
          <5>2. CASE k \in DOMAIN all
            <6>1. h.lo <= more[k] /\ more[k] <= h.hi /\ more[k] \in Nat
              BY <3>1, <3>5, <5>2 DEF Extreme
            <6> QED
              BY <3>1, <3>4, <6>1
          <5> QED
            BY <1>1, <5>1, <5>2
        <4> QED
          BY <4>1
      <3> QED
        BY <3>1, <3>4, <3>9, <3>10 DEF Extreme
    <2> QED
      BY <2>1, <2>2
  <1>9. g.count = Len(more)
    BY <1>1, <1>2, <1>3
  <1> HIDE DEF more
  <1>10. LatencyGood(g, more)
    BY <1>1, <1>2, <1>4, <1>5, <1>6, <1>7, <1>8, <1>9 DEF LatencyGood
  <1> QED
    BY <1>10 DEF more

(* A histogram that is good is exact. *)
LEMMA LatencyHolds == LatencyGood(state.histogram, state.recorded) => Process!HistogramIsExact
  <1> DEFINE h == state.histogram
             all == state.recorded
  <1> SUFFICES ASSUME LatencyGood(h, all) PROVE Process!HistogramIsExact
    OBVIOUS
  <1>1. /\ all \in Seq(Nat) /\ h.buckets \in [1..ApBuckets + 1 -> Nat] /\ h.count = Len(all)
        /\ IsFiniteSet(Cells(h.buckets)) /\ Cardinality(Cells(h.buckets)) = h.count
        /\ IsFiniteSet(Cells(all)) /\ Cardinality(Cells(all)) = h.sum
        /\ \A i \in 1..ApBuckets : h.buckets[i] = Held(all, i)
        /\ all # <<>> => h.lo \in Nat /\ h.hi \in Nat /\ Extreme(all, h.lo, h.hi)
    BY DEF LatencyGood
  <1>2. h.count = Process!Total(h.buckets) /\ h.sum = Process!Total(all)
    BY <1>1, TotalsAre
  <1>3. all # <<>> => h.lo = Process!Min(Process!Range(all)) /\ h.hi = Process!Max(Process!Range(all))
    <2> SUFFICES ASSUME all # <<>>
                 PROVE  h.lo = Process!Min(Process!Range(all)) /\ h.hi = Process!Max(Process!Range(all))
      OBVIOUS
    <2>1. h.lo \in Nat /\ h.hi \in Nat /\ Extreme(all, h.lo, h.hi)
      BY <1>1
    <2> DEFINE R == Process!Range(all)
    <2>2. R \subseteq Nat /\ h.lo \in R /\ h.hi \in R /\ \A v \in R : h.lo <= v /\ v <= h.hi
      <3> HIDE DEF h
      <3>1. \A v : v \in R <=> \E k \in DOMAIN all : v = all[k]
        BY DEF Process!Range
      <3>2. \A k \in DOMAIN all : all[k] \in Nat
        BY <1>1
      <3> QED
        BY <2>1, <3>1, <3>2 DEF Extreme
    <2> HIDE DEF R, h
    <2>3. Process!Min(R) = h.lo
      <3>1. ASSUME NEW v \in R, \A w \in R : v <= w PROVE v = h.lo
        <4>1. v <= h.lo /\ h.lo <= v /\ v \in Nat /\ h.lo \in Nat
          BY <2>1, <2>2, <3>1
        <4> QED
          BY <4>1
      <3> QED
        BY <2>2, <3>1 DEF Process!Min
    <2>4. Process!Max(R) = h.hi
      <3>1. ASSUME NEW v \in R, \A w \in R : v >= w PROVE v = h.hi
        <4>1. v >= h.hi /\ h.hi >= v /\ v \in Nat /\ h.hi \in Nat
          BY <2>1, <2>2, <3>1
        <4> QED
          BY <4>1
      <3>2. \A w \in R : h.hi >= w
        BY <2>1, <2>2
      <3> QED
        BY <2>2, <3>1, <3>2 DEF Process!Max
    <2> QED
      BY <2>3, <2>4 DEF R
  <1>4. \A i \in DOMAIN Boundaries :
           h.buckets[i] = Process!Cardinality({k \in DOMAIN all : all[k] <= Boundaries[i]})
                          - (IF i = 1 THEN 0 ELSE Process!Cardinality({k \in DOMAIN all : all[k] <= Boundaries[i - 1]}))
    BY <1>1, BoundariesAre DEF Held, Below, Cardinality, Process!Cardinality
  <1> QED
    BY <1>1, <1>2, <1>3, <1>4 DEF Process!HistogramIsExact

(***************************************************************************)
(* The samples, the pressure gauge and the cleanups                        *)
(***************************************************************************)
Measures == {-2, -1, 0, 1, 2}
Sampling == [ApPaths -> Measures]
Sampled(n) == [p \in {q \in ApPaths : n[q] # -2} |-> n[p]]
SamplesGood(refreshes, samples, from, gauge, threshold) ==
    /\ refreshes \in Seq(Sampling) /\ from \in 0..Len(refreshes) /\ threshold \in {-1, 1, 2}
    /\ from = 0 => DOMAIN samples = {}
    /\ from # 0 => /\ \A p \in ApPaths : refreshes[from][p] # -1
                   /\ samples = Sampled(refreshes[from])
    /\ DOMAIN gauge \subseteq ApPaths
    /\ \A p \in DOMAIN gauge : gauge[p] =>
          \E n \in DOMAIN refreshes : refreshes[n][p] \in 0..threshold - 1

(* A sampling begins: the others are as they were. *)
LEMMA SamplingBegins ==
    ASSUME NEW r, NEW s, NEW f, NEW g, NEW t, SamplesGood(r, s, f, g, t)
    PROVE  SamplesGood(Append(r, [p \in ApPaths |-> -1]), s, f, g, t)
  <1> DEFINE new == [p \in ApPaths |-> -1]
             q == Append(r, new)
  <1>1. new \in Sampling
    BY DEF Sampling, Measures
  <1> HIDE DEF new
  <1>2. /\ r \in Seq(Sampling) /\ f \in 0..Len(r) /\ t \in {-1, 1, 2}
        /\ f = 0 => DOMAIN s = {}
        /\ f # 0 => (\A p \in ApPaths : r[f][p] # -1) /\ s = Sampled(r[f])
        /\ DOMAIN g \subseteq ApPaths
        /\ \A p \in DOMAIN g : g[p] => \E n \in DOMAIN r : r[n][p] \in 0..t - 1
    BY DEF SamplesGood
  <1>3. q \in Seq(Sampling) /\ Len(q) = Len(r) + 1 /\ \A n \in 1..Len(r) : q[n] = r[n]
    BY <1>1, <1>2, AppendProperties
  <1> HIDE DEF q
  <1>4. DOMAIN q = 1..Len(r) + 1 /\ DOMAIN r = 1..Len(r) /\ Len(r) \in Nat
    BY <1>2, <1>3, LenProperties
  <1>5. f \in 0..Len(q) /\ (f # 0 => q[f] = r[f])
    BY <1>2, <1>3, <1>4
  <1>6. \A p \in DOMAIN g : g[p] => \E n \in DOMAIN q : q[n][p] \in 0..t - 1
    <2> SUFFICES ASSUME NEW p \in DOMAIN g, g[p] PROVE \E n \in DOMAIN q : q[n][p] \in 0..t - 1
      OBVIOUS
    <2>1. PICK n \in DOMAIN r : r[n][p] \in 0..t - 1
      BY <1>2
    <2>2. n \in DOMAIN q /\ q[n] = r[n]
      BY <1>3, <1>4, <2>1
    <2> QED
      BY <2>1, <2>2
  <1>7. SamplesGood(q, s, f, g, t)
    BY <1>2, <1>3, <1>5, <1>6 DEF SamplesGood
  <1> QED
    BY <1>7 DEF q, new

(* A path is measured: what was measured stays.                             *)
MeasuredAs(r, q, n, p, o) ==
    /\ n \in DOMAIN r /\ p \in ApPaths /\ r[n][p] = -1 /\ o \in Measures \ {-1}
    /\ q = [r EXCEPT ![n][p] = o]

(* A path that is measured, and the refresh that is then complete. *)
LEMMA PathMeasured ==
    ASSUME NEW r, NEW s, NEW f, NEW g, NEW t, SamplesGood(r, s, f, g, t),
           NEW n, NEW p, NEW o, NEW q, MeasuredAs(r, q, n, p, o)
    PROVE  /\ SamplesGood(q, s, f, g, t) /\ n \in 1..Len(q)
           /\ (\A w \in ApPaths : q[n][w] # -1) =>
                 SamplesGood(q, Sampled(q[n]), n, g, t)
  <1>1. /\ n \in DOMAIN r /\ p \in ApPaths /\ r[n][p] = -1 /\ o \in Measures \ {-1}
        /\ q = [r EXCEPT ![n][p] = o]
    BY DEF MeasuredAs
  <1>2. /\ r \in Seq(Sampling) /\ f \in 0..Len(r) /\ t \in {-1, 1, 2}
        /\ f = 0 => DOMAIN s = {}
        /\ f # 0 => (\A w \in ApPaths : r[f][w] # -1) /\ s = Sampled(r[f])
        /\ DOMAIN g \subseteq ApPaths
        /\ \A w \in DOMAIN g : g[w] => \E m \in DOMAIN r : r[m][w] \in 0..t - 1
    BY DEF SamplesGood
  <1>3. DOMAIN r = 1..Len(r) /\ Len(r) \in Nat /\ r \in [1..Len(r) -> Sampling]
    BY <1>2, LenProperties
  <1>4. r[n] \in Sampling /\ [r[n] EXCEPT ![p] = o] \in Sampling
    BY <1>1, <1>3 DEF Sampling
  <1>5. q = [r EXCEPT ![n] = [r[n] EXCEPT ![p] = o]]
    BY <1>1
  <1>6. /\ q \in [1..Len(r) -> Sampling] /\ q[n] = [r[n] EXCEPT ![p] = o]
        /\ \A m \in 1..Len(r) : m # n => q[m] = r[m]
    BY <1>1, <1>3, <1>4, <1>5
  <1>7. q \in Seq(Sampling) /\ Len(q) = Len(r) /\ DOMAIN q = DOMAIN r
    BY <1>3, <1>6
  <1>8. \A m \in DOMAIN r : \A w \in ApPaths : r[m][w] # -1 => q[m][w] = r[m][w]
    <2> TAKE m \in DOMAIN r
    <2> TAKE w \in ApPaths
    <2>1. CASE m = n
      <3>1. CASE w = p
        BY <1>1, <2>1, <3>1
      <3>2. CASE w # p
        BY <1>1, <1>4, <1>6, <2>1, <3>2 DEF Sampling
      <3> QED
        BY <3>1, <3>2
    <2>2. CASE m # n
      BY <1>3, <1>6, <2>2
    <2> QED
      BY <2>1, <2>2
  <1>9. f # 0 => f # n /\ q[f] = r[f]
    BY <1>1, <1>2, <1>3, <1>6
  <1>10. \A w \in DOMAIN g : g[w] => \E m \in DOMAIN q : q[m][w] \in 0..t - 1
    <2> SUFFICES ASSUME NEW w \in DOMAIN g, g[w] PROVE \E m \in DOMAIN q : q[m][w] \in 0..t - 1
      OBVIOUS
    <2>1. PICK m \in DOMAIN r : r[m][w] \in 0..t - 1
      BY <1>2
    <2>2. w \in ApPaths /\ r[m][w] # -1
      BY <1>2, <2>1
    <2>3. m \in DOMAIN q /\ q[m][w] = r[m][w]
      BY <1>7, <1>8, <2>1, <2>2
    <2> QED
      BY <2>1, <2>3
  <1>11. SamplesGood(q, s, f, g, t)
    BY <1>2, <1>7, <1>9, <1>10 DEF SamplesGood
  <1>12. n \in 1..Len(q) /\ n # 0 /\ n \in 0..Len(q)
    BY <1>1, <1>3, <1>7
  <1>13. ASSUME \A w \in ApPaths : q[n][w] # -1 PROVE SamplesGood(q, Sampled(q[n]), n, g, t)
    BY <1>2, <1>7, <1>10, <1>12, <1>13 DEF SamplesGood
  <1> QED
    BY <1>11, <1>12, <1>13

(* The meter reads the gauge. *)
LEMMA GaugeRead ==
    ASSUME NEW r, NEW s, NEW f, NEW g, NEW t, SamplesGood(r, s, f, g, t)
    PROVE  SamplesGood(r, s, f, Process!EvaluateDiskPressure(s, t), t)
  <1> DEFINE e == Process!EvaluateDiskPressure(s, t)
  <1>2. /\ r \in Seq(Sampling) /\ f \in 0..Len(r) /\ t \in {-1, 1, 2}
        /\ f = 0 => DOMAIN s = {}
        /\ f # 0 => (\A w \in ApPaths : r[f][w] # -1) /\ s = Sampled(r[f])
    BY DEF SamplesGood
  <1>3. DOMAIN r = 1..Len(r) /\ Len(r) \in Nat /\ \A n \in 1..Len(r) : r[n] \in Sampling
    BY <1>2, LenProperties
  <1>4. DOMAIN e = DOMAIN s /\ \A p \in DOMAIN s : e[p] <=> s[p] < t
    BY DEF Process!EvaluateDiskPressure, Process!Breached
  <1> HIDE DEF e
  <1>5. CASE f = 0
    <2>1. DOMAIN e = {}
      BY <1>2, <1>4, <1>5
    <2> QED
      BY <1>2, <1>5, <2>1 DEF SamplesGood, e
  <1>6. CASE f # 0
    <2>1. f \in DOMAIN r /\ r[f] \in Sampling /\ s = Sampled(r[f])
      BY <1>2, <1>3, <1>6
    <2>2. DOMAIN s \subseteq ApPaths /\ \A p \in DOMAIN s : s[p] = r[f][p] /\ r[f][p] \in {0, 1, 2}
      BY <1>2, <1>6, <2>1 DEF Sampled, Sampling, Measures
    <2>3. \A p \in DOMAIN e : e[p] => \E n \in DOMAIN r : r[n][p] \in 0..t - 1
      <3> SUFFICES ASSUME NEW p \in DOMAIN e, e[p] PROVE r[f][p] \in 0..t - 1
        BY <2>1
      <3>1. s[p] < t /\ s[p] = r[f][p] /\ r[f][p] \in {0, 1, 2}
        BY <1>4, <2>2
      <3> QED
        BY <1>2, <3>1
    <2>4. DOMAIN e \subseteq ApPaths
      BY <1>4, <2>2
    <2> QED
      BY <1>2, <2>3, <2>4 DEF SamplesGood, e
  <1> QED
    BY <1>5, <1>6

Cleanables == {"process", "monitor", "delay", "utilization", "filesystem", "timer", "pressure"}
StopGood(st, cleanups, undone, rejected) ==
    /\ cleanups \in Seq(Cleanables) /\ rejected \in BOOLEAN
    /\ st = "stopped" /\ ~rejected => undone = Process!Range(cleanups)

(* What a policy registers is what can be cleaned up. *)
LEMMA RegistrationsAre ==
    ASSUME NEW policy PROVE Process!Registrations(policy) \in Seq(Cleanables)
  <1> DEFINE s == <<"process", "monitor", "delay", "utilization", "filesystem", "timer", "pressure">>
  <1>1. s \in Seq(Cleanables)
    BY DEF Cleanables
  <1> HIDE DEF s
  <1>2. PICK S : Process!Registrations(policy) = Process!Without(s, S)
    BY DEF Process!Registrations, s
  <1>3. Process!Without(s, S) = Without(s, S)
    BY DEF Process!Without, Without
  <1>4. Without(s, S) \in Seq(Cleanables)
    BY <1>1, WithoutProperties
  <1> QED
    BY <1>2, <1>3, <1>4

(* What SubSeq leaves of a sequence, from its start.                        *)
LEMMA FirstOnes ==
    ASSUME NEW S, NEW s \in Seq(S), NEW n \in 0..Len(s)
    PROVE  SubSeq(s, 1, n) \in Seq(S) /\ (n = Len(s) => SubSeq(s, 1, n) = s)
  <1>1. Len(s) \in Nat /\ s \in [1..Len(s) -> S] /\ DOMAIN s = 1..Len(s)
    BY LenProperties
  <1>2. 1 \in Int /\ n \in Int /\ \A i \in 1..n : s[i] \in S
    BY <1>1
  <1>3. /\ SubSeq(s, 1, n) \in Seq(S)
        /\ Len(SubSeq(s, 1, n)) = IF 1 <= n THEN n - 1 + 1 ELSE 0
        /\ \A i \in 1..n - 1 + 1 : SubSeq(s, 1, n)[i] = s[1 + i - 1]
    BY <1>2, SubSeqProperties
  <1>4. Len(SubSeq(s, 1, n)) = n /\ \A i \in 1..n : SubSeq(s, 1, n)[i] = s[i]
    BY <1>1, <1>3
  <1>5. ASSUME n = Len(s) PROVE SubSeq(s, 1, n) = s
    <2> DEFINE r == SubSeq(s, 1, n)
    <2>1. r \in Seq(S) /\ Len(r) = Len(s) /\ \A i \in 1..Len(s) : r[i] = s[i]
      BY <1>3, <1>4, <1>5
    <2> HIDE DEF r
    <2>2. r \in [1..Len(s) -> S]
      BY <2>1, LenProperties
    <2>3. r = s
      BY <1>1, <2>1, <2>2
    <2> QED
      BY <2>3 DEF r
  <1> QED
    BY <1>3, <1>5

ProcRecord(x) ==
    x = [policy |-> x.policy, state |-> x.state, cleanups |-> x.cleanups, undone |-> x.undone,
         refreshes |-> x.refreshes, samples |-> x.samples, from |-> x.from,
         rejected |-> x.rejected, gauge |-> x.gauge, histogram |-> x.histogram,
         recorded |-> x.recorded]
ProcGood(x) ==
    /\ ProcRecord(x)
    /\ LatencyGood(x.histogram, x.recorded)
    /\ SamplesGood(x.refreshes, x.samples, x.from, x.gauge, x.policy.threshold)
    /\ StopGood(x.state, x.cleanups, x.undone, x.rejected)

(* What a step leaves of each part.                                         *)
SameLatency(x, y) == y.histogram = x.histogram /\ y.recorded = x.recorded
SameSamples(x, y) ==
    /\ y.refreshes = x.refreshes /\ y.samples = x.samples /\ y.from = x.from
    /\ y.gauge = x.gauge /\ y.policy = x.policy
SameStop(x, y) ==
    y.state = x.state /\ y.cleanups = x.cleanups /\ y.undone = x.undone /\ y.rejected = x.rejected

(* The invariant of the process monitor holds at first. *)
LEMMA ProcInit == Process!ApInit => ProcGood(state)
  <1> SUFFICES ASSUME Process!ApInit PROVE ProcGood(state)
    OBVIOUS
  <1>1. PICK on \in SUBSET {"process", "latency", "runtime", "filesystem"}, t \in {-1, 1, 2} :
            state = [policy |-> [on |-> on, threshold |-> t], state |-> "starting",
                  cleanups |-> <<>>, undone |-> {}, refreshes |-> <<>>,
                  samples |-> [p \in {} |-> 0], from |-> 0,
                  rejected |-> FALSE, gauge |-> [p \in {} |-> FALSE],
                  histogram |-> Process!EmptyHistogram, recorded |-> <<>>]
    BY DEF Process!ApInit, Process!Unknown
  <1>2. /\ ProcRecord(state) /\ state.policy.threshold = t /\ state.state = "starting"
        /\ state.cleanups = <<>> /\ state.refreshes = <<>> /\ state.samples = [p \in {} |-> 0]
        /\ state.from = 0 /\ state.rejected = FALSE /\ state.gauge = [p \in {} |-> FALSE]
        /\ state.histogram = Process!EmptyHistogram /\ state.recorded = <<>>
    BY <1>1 DEF ProcRecord
  <1>3. LatencyGood(state.histogram, state.recorded)
    BY <1>2, LatencyNone
  <1>4. SamplesGood(state.refreshes, state.samples, state.from, state.gauge, state.policy.threshold)
    BY <1>2 DEF SamplesGood
  <1>5. StopGood(state.state, state.cleanups, state.undone, state.rejected)
    <2>1. <<>> \in Seq(Cleanables) /\ FALSE \in BOOLEAN
      OBVIOUS
    <2>2. state.cleanups \in Seq(Cleanables) /\ state.rejected \in BOOLEAN
      BY <1>2, <2>1
    <2>3. state.state # "stopped"
      BY <1>2
    <2> QED
      BY <2>2, <2>3 DEF StopGood
  <1> QED
    BY <1>2, <1>3, <1>4, <1>5 DEF ProcGood

(* The parts that a step leaves are as good as before.                      *)
LEMMA ProcKept ==
    ASSUME NEW x, NEW y, ProcGood(x)
    PROVE  /\ SameLatency(x, y) => LatencyGood(y.histogram, y.recorded)
           /\ SameSamples(x, y) =>
                SamplesGood(y.refreshes, y.samples, y.from, y.gauge, y.policy.threshold)
           /\ SameStop(x, y) => StopGood(y.state, y.cleanups, y.undone, y.rejected)
  BY DEF ProcGood, SameLatency, SameSamples, SameStop

(* A sampling begins, or does not. *)
LEMMA ProcBegins ==
    ASSUME NEW x, ProcGood(x) PROVE ProcGood(Process!BeginRefresh(x))
  <1> DEFINE y == Process!BeginRefresh(x)
  <1>1. \/ y = x
        \/ y = [x EXCEPT !.refreshes = Append(@, [p \in ApPaths |-> -1])]
    BY DEF Process!BeginRefresh, Process!Unknown
  <1> HIDE DEF y
  <1>2. CASE y = x
    BY <1>2 DEF y
  <1>3. CASE y = [x EXCEPT !.refreshes = Append(@, [p \in ApPaths |-> -1])]
    <2>1. /\ ProcRecord(y) /\ SameLatency(x, y) /\ SameStop(x, y)
          /\ y.refreshes = Append(x.refreshes, [p \in ApPaths |-> -1])
          /\ y.samples = x.samples /\ y.from = x.from /\ y.gauge = x.gauge /\ y.policy = x.policy
      BY <1>3 DEF ProcGood, ProcRecord, SameLatency, SameStop
    <2>2. SamplesGood(y.refreshes, y.samples, y.from, y.gauge, y.policy.threshold)
      BY <2>1, SamplingBegins DEF ProcGood
    <2>3. LatencyGood(y.histogram, y.recorded) /\ StopGood(y.state, y.cleanups, y.undone, y.rejected)
      BY <2>1, ProcKept
    <2>4. ProcGood(y)
      BY <2>1, <2>2, <2>3 DEF ProcGood
    <2> QED
      BY <2>4 DEF y
  <1> QED
    BY <1>1, <1>2, <1>3

(* A start, also one that throws on its way, keeps it. *)
LEMMA ProcStart ==
    ASSUME ProcGood(state), NEW upTo \in 0..7, Process!Start(upTo) PROVE ProcGood(state')
  <1> DEFINE all == Process!Registrations([state.policy EXCEPT !.threshold = Process!Threshold(state.policy)])
             done == SubSeq(all, 1, upTo)
             st == IF done = all THEN "running" ELSE "threw"
             x == [state EXCEPT !.cleanups = done, !.state = st]
  <1>1. upTo <= Len(all) /\ state' \in {x, Process!BeginRefresh(x)}
    BY DEF Process!Start
  <1>2. all \in Seq(Cleanables)
    BY RegistrationsAre
  <1> HIDE DEF all
  <1>3. done \in Seq(Cleanables)
    <2>1. upTo \in 0..Len(all)
      BY <1>1, <1>2, LenProperties
    <2> QED
      BY <1>2, <2>1, FirstOnes
  <1>4. st # "stopped"
    OBVIOUS
  <1> HIDE DEF done, st
  <1>5. /\ ProcRecord(x) /\ SameLatency(state, x) /\ SameSamples(state, x)
        /\ x.cleanups = done /\ x.state = st /\ x.rejected = state.rejected
    <2>1. ProcRecord(state) /\ x = [state EXCEPT !.cleanups = done, !.state = st]
      BY DEF ProcGood
    <2> HIDE DEF x
    <2>2. ProcRecord(x)
      BY <2>1 DEF ProcRecord
    <2>3. SameLatency(state, x) /\ SameSamples(state, x)
      BY <2>1 DEF ProcRecord, SameLatency, SameSamples
    <2>4. x.cleanups = done /\ x.state = st /\ x.rejected = state.rejected
      BY <2>1 DEF ProcRecord
    <2> QED
      BY <2>2, <2>3, <2>4
  <1> HIDE DEF x
  <1>6. StopGood(x.state, x.cleanups, x.undone, x.rejected)
    BY <1>3, <1>4, <1>5 DEF StopGood, ProcGood
  <1>7. LatencyGood(x.histogram, x.recorded)
        /\ SamplesGood(x.refreshes, x.samples, x.from, x.gauge, x.policy.threshold)
    BY <1>5, ProcKept
  <1>8. ProcGood(x)
    BY <1>5, <1>6, <1>7 DEF ProcGood
  <1> QED
    BY <1>1, <1>8, ProcBegins

(* A stop, also one that throws on its way, keeps it. *)
LEMMA ProcStop ==
    ASSUME ProcGood(state), NEW upTo \in 0..7, Process!Stop(upTo) PROVE ProcGood(state')
  <1> DEFINE cl == state.cleanups
             un == Process!Cleanup(SubSeq(cl, 1, upTo))
  <1>1. /\ upTo \in 0..Len(cl)
        /\ state' = [state EXCEPT !.state = "stopped", !.undone = un, !.rejected = @ \/ upTo < Len(cl)]
    BY DEF Process!Stop
  <1>2. cl \in Seq(Cleanables) /\ state.rejected \in BOOLEAN
    BY DEF ProcGood, StopGood
  <1>3. upTo = Len(cl) => un = Process!Range(cl)
    <2> HIDE DEF cl
    <2>1. upTo = Len(cl) => SubSeq(cl, 1, upTo) = cl
      BY <1>1, <1>2, FirstOnes
    <2> QED
      BY <2>1 DEF Process!Cleanup
  <1>4. upTo < Len(cl) \/ upTo = Len(cl)
    <2> HIDE DEF cl
    <2>1. Len(cl) \in Nat
      BY <1>2, LenProperties
    <2> QED
      BY <1>1, <2>1
  <1> HIDE DEF cl, un
  <1>5. /\ ProcRecord(state') /\ SameLatency(state, state') /\ SameSamples(state, state')
        /\ state'.cleanups = cl /\ state'.undone = un
        /\ state'.rejected = (state.rejected \/ upTo < Len(cl))
    <2>1. cl = state.cleanups
      BY DEF cl
    <2> QED
      BY <1>1, <2>1 DEF ProcGood, ProcRecord, SameLatency, SameSamples
  <1>6. state'.rejected \in BOOLEAN /\ (~state'.rejected => un = Process!Range(cl))
    BY <1>2, <1>3, <1>4, <1>5
  <1>7. StopGood(state'.state, state'.cleanups, state'.undone, state'.rejected)
    BY <1>2, <1>5, <1>6 DEF StopGood
  <1>8. LatencyGood(state'.histogram, state'.recorded)
        /\ SamplesGood(state'.refreshes, state'.samples, state'.from, state'.gauge, state'.policy.threshold)
    BY <1>5, ProcKept
  <1> QED
    BY <1>5, <1>7, <1>8 DEF ProcGood

(* A collection of samples keeps it. *)
LEMMA ProcCollection ==
    ASSUME ProcGood(state), Process!Collection PROVE ProcGood(state')
  <1> DEFINE e == Process!EvaluateDiskPressure(state.samples, state.policy.threshold)
  <1>1. state' = [state EXCEPT !.gauge = e]
    BY DEF Process!Collection
  <1>2. SamplesGood(state.refreshes, state.samples, state.from, e, state.policy.threshold)
    BY GaugeRead DEF ProcGood
  <1> HIDE DEF e
  <1>3. /\ ProcRecord(state') /\ SameLatency(state, state') /\ SameStop(state, state')
        /\ state'.refreshes = state.refreshes /\ state'.samples = state.samples
        /\ state'.from = state.from /\ state'.gauge = e /\ state'.policy = state.policy
    BY <1>1 DEF ProcGood, ProcRecord, SameLatency, SameStop
  <1>4. SamplesGood(state'.refreshes, state'.samples, state'.from, state'.gauge, state'.policy.threshold)
    BY <1>2, <1>3
  <1>5. LatencyGood(state'.histogram, state'.recorded)
        /\ StopGood(state'.state, state'.cleanups, state'.undone, state'.rejected)
    BY <1>3, ProcKept
  <1> QED
    BY <1>3, <1>4, <1>5 DEF ProcGood

(* A measurement that settles keeps it. *)
LEMMA ProcSettles ==
    ASSUME ProcGood(state), NEW n \in DOMAIN state.refreshes, NEW p \in ApPaths,
           NEW o \in {-2, 0, 1, 2}, NEW throws \in BOOLEAN, Process!StatfsSettles(n, p, o, throws)
    PROVE  ProcGood(state')
  <1> DEFINE q == [state.refreshes EXCEPT ![n][p] = o]
             x == [state EXCEPT !.refreshes = q]
  <1>1. /\ state.refreshes[n][p] = -1
        /\ \/ state' = x
           \/ state' = [x EXCEPT !.rejected = TRUE]
           \/ (\A w \in ApPaths : x.refreshes[n][w] # -1) /\ state' = Process!Collect(x, n)
    BY DEF Process!StatfsSettles, Process!Unknown
  <1>2. o \in Measures \ {-1}
    BY DEF Measures
  <1>3. /\ SamplesGood(q, state.samples, state.from, state.gauge, state.policy.threshold)
        /\ (\A w \in ApPaths : q[n][w] # -1) =>
                 SamplesGood(q, Sampled(q[n]), n, state.gauge, state.policy.threshold)
    <2> DEFINE r == state.refreshes
               t == state.policy.threshold
    <2>1. SamplesGood(r, state.samples, state.from, state.gauge, t) /\ n \in DOMAIN r
      BY DEF ProcGood
    <2>2. r[n][p] = -1 /\ q = [r EXCEPT ![n][p] = o]
      BY <1>1
    <2> HIDE DEF r, t, q
    <2>3. /\ SamplesGood(q, state.samples, state.from, state.gauge, t) /\ n \in 1..Len(q)
          /\ (\A w \in ApPaths : q[n][w] # -1) => SamplesGood(q, Sampled(q[n]), n, state.gauge, t)
      <3>1. MeasuredAs(r, q, n, p, o)
        BY <1>2, <2>1, <2>2 DEF MeasuredAs
      <3> QED
        BY <2>1, <3>1, PathMeasured
    <2> QED
      BY <2>3 DEF t
  <1> HIDE DEF q
  <1>4. /\ ProcRecord(x) /\ SameLatency(state, x) /\ SameStop(state, x) /\ x.refreshes = q
        /\ x.samples = state.samples /\ x.from = state.from /\ x.gauge = state.gauge
        /\ x.policy = state.policy
    BY DEF ProcGood, ProcRecord, SameLatency, SameStop
  <1> HIDE DEF x
  <1>5. ProcGood(x)
    <2>1. SamplesGood(x.refreshes, x.samples, x.from, x.gauge, x.policy.threshold)
      BY <1>3, <1>4
    <2>2. LatencyGood(x.histogram, x.recorded) /\ StopGood(x.state, x.cleanups, x.undone, x.rejected)
      BY <1>4, ProcKept
    <2> QED
      BY <1>4, <2>1, <2>2 DEF ProcGood
  <1>6. CASE state' = x
    BY <1>5, <1>6
  <1>7. CASE state' = [x EXCEPT !.rejected = TRUE]
    <2>1. /\ ProcRecord(state') /\ SameLatency(x, state') /\ SameSamples(x, state')
          /\ state'.cleanups = x.cleanups /\ state'.rejected = TRUE
      BY <1>4, <1>7 DEF ProcRecord, SameLatency, SameSamples
    <2>2. StopGood(state'.state, state'.cleanups, state'.undone, state'.rejected)
      BY <1>5, <2>1 DEF StopGood, ProcGood
    <2>3. LatencyGood(state'.histogram, state'.recorded)
          /\ SamplesGood(state'.refreshes, state'.samples, state'.from, state'.gauge, state'.policy.threshold)
      BY <1>5, <2>1, ProcKept
    <2> QED
      BY <2>1, <2>2, <2>3 DEF ProcGood
  <1>8. CASE (\A w \in ApPaths : x.refreshes[n][w] # -1) /\ state' = Process!Collect(x, n)
    <2> DEFINE s == Sampled(q[n])
    <2>1. state' = [x EXCEPT !.samples = s, !.from = n]
      BY <1>4, <1>8 DEF Process!Collect, Process!Failed, Sampled
    <2>2. SamplesGood(q, s, n, x.gauge, x.policy.threshold)
      BY <1>3, <1>4, <1>8
    <2> HIDE DEF s
    <2>3. /\ ProcRecord(state') /\ SameLatency(x, state') /\ SameStop(x, state')
          /\ state'.refreshes = q /\ state'.samples = s /\ state'.from = n
          /\ state'.gauge = x.gauge /\ state'.policy = x.policy
      BY <1>4, <2>1 DEF ProcRecord, SameLatency, SameStop
    <2>4. SamplesGood(state'.refreshes, state'.samples, state'.from, state'.gauge, state'.policy.threshold)
      BY <2>2, <2>3
    <2>5. LatencyGood(state'.histogram, state'.recorded)
          /\ StopGood(state'.state, state'.cleanups, state'.undone, state'.rejected)
      BY <1>5, <2>3, ProcKept
    <2> QED
      BY <2>3, <2>4, <2>5 DEF ProcGood
  <1> QED
    BY <1>1, <1>6, <1>7, <1>8

(* A latency that is recorded keeps it. *)
LEMMA ProcRecords ==
    ASSUME ProcGood(state), NEW v \in Nat, Process!RecordLatency(v) PROVE ProcGood(state')
  <1> DEFINE h == state.histogram
             g == Process!Recorded(h, v)
             all == Append(state.recorded, v)
  <1>1. state' = [state EXCEPT !.recorded = all, !.histogram = g]
    BY DEF Process!RecordLatency
  <1>2. LatencyGood(g, all)
    <2>1. LatencyGood(h, state.recorded)
      BY DEF ProcGood
    <2> HIDE DEF h
    <2> QED
      BY <2>1, LatencyRecorded DEF Process!Recorded
  <1> HIDE DEF g, all
  <1>3. /\ ProcRecord(state') /\ SameSamples(state, state') /\ SameStop(state, state')
        /\ state'.histogram = g /\ state'.recorded = all
    BY <1>1 DEF ProcGood, ProcRecord, SameSamples, SameStop
  <1>4. SamplesGood(state'.refreshes, state'.samples, state'.from, state'.gauge, state'.policy.threshold)
        /\ StopGood(state'.state, state'.cleanups, state'.undone, state'.rejected)
    BY <1>3, ProcKept
  <1> QED
    BY <1>2, <1>3, <1>4 DEF ProcGood

(* Every step of the process monitor keeps it. *)
LEMMA ProcStep == ProcGood(state) /\ Process!ApNext => ProcGood(state')
  <1> SUFFICES ASSUME ProcGood(state), Process!ApNext PROVE ProcGood(state')
    OBVIOUS
  <1>1. ASSUME Process!Refresh PROVE ProcGood(state')
    BY <1>1, ProcBegins DEF Process!Refresh
  <1>2. ASSUME NEW n \in DOMAIN state.refreshes, NEW p \in ApPaths,
               NEW o \in Process!Free \cup {Process!Failed}, NEW throws \in BOOLEAN,
               Process!StatfsSettles(n, p, o, throws)
        PROVE  ProcGood(state')
    <2>1. o \in {-2, 0, 1, 2}
      BY <1>2 DEF Process!Free, Process!Failed
    <2> QED
      BY <1>2, <2>1, ProcSettles
  <1>3. ASSUME NEW v \in ApLatencies, Process!RecordLatency(v) PROVE ProcGood(state')
    <2>1. v \in Nat
      BY ProcessAssumption
    <2> QED
      BY <1>3, <2>1, ProcRecords
  <1> QED
    BY <1>1, <1>2, <1>3, ProcStart, ProcStop, ProcCollection DEF Process!ApNext

(* The invariant says what the process monitor promises. *)
LEMMA ProcHolds ==
    ProcGood(state) =>
        Process!HistogramIsExact /\ Process!SamplesAreOneSampling /\ Process!StopUndoesAll
  <1> SUFFICES ASSUME ProcGood(state)
               PROVE  Process!HistogramIsExact /\ Process!SamplesAreOneSampling /\ Process!StopUndoesAll
    OBVIOUS
  <1>1. Process!HistogramIsExact
    BY LatencyHolds DEF ProcGood
  <1>2. Process!SamplesAreOneSampling
    BY DEF ProcGood, SamplesGood, Sampled, Process!SamplesAreOneSampling, Process!Failed
  <1>3. Process!StopUndoesAll
    BY DEF ProcGood, StopGood, Process!StopUndoesAll
  <1> QED
    BY <1>1, <1>2, <1>3

(***************************************************************************)
(* The series of a metric                                                  *)
(***************************************************************************)
LEMMA Limits == MtMaxSeries \in Nat \ {0} /\ IsFiniteSet(MtWrites) /\ MtBounds \in Nat /\ MtDurations \subseteq Nat
  BY MetricsAssumption

(* A metric of the older kind: within its limit, and what was seen is in a  *)
(* series or among the drops.                                               *)
CountGood(series, dropped, seen) ==
    /\ IsFiniteSet(DOMAIN series) /\ Cardinality(DOMAIN series) <= MtMaxSeries
    /\ \A l \in DOMAIN series : series[l] \in Nat
    /\ dropped \in Nat /\ seen \in Nat
    /\ IsFiniteSet(Cells(series)) /\ Cardinality(Cells(series)) + dropped = seen

(* A record counted under a label of its own, or a known one. *)
LEMMA CountPut ==
    ASSUME NEW series, NEW dropped, NEW seen, CountGood(series, dropped, seen), NEW label,
           label \in DOMAIN series \/ ~(Cardinality(DOMAIN series) >= MtMaxSeries),
           NEW g, g = Prometheus!Put(series, label, Prometheus!Default(series, label, 0) + 1)
    PROVE  CountGood(g, dropped, seen + 1)
  <1> DEFINE old == Prometheus!Default(series, label, 0)
             new == old + 1
  <1>1. /\ IsFiniteSet(DOMAIN series) /\ Cardinality(DOMAIN series) <= MtMaxSeries
        /\ \A l \in DOMAIN series : series[l] \in Nat
        /\ dropped \in Nat /\ seen \in Nat
        /\ IsFiniteSet(Cells(series)) /\ Cardinality(Cells(series)) + dropped = seen
    BY DEF CountGood
  <1>2. /\ old = IF label \in DOMAIN series THEN series[label] ELSE 0
        /\ old \in Nat /\ new \in Nat
    BY <1>1 DEF Prometheus!Default
  <1>3. new = old + 1 /\ g = Prometheus!Put(series, label, new)
    OBVIOUS
  <1> HIDE DEF old, new
  <1>4. /\ DOMAIN g = DOMAIN series \cup {label} /\ g[label] = new
        /\ \A l \in DOMAIN series : l # label => g[l] = series[l]
    <2>1. g = Prometheus!Put(series, label, new)
      BY <1>3
    <2> QED
      BY <2>1 DEF Prometheus!Put
  <1>5. Adds(series, g, label, old, new)
    BY <1>1, <1>2, <1>4 DEF Adds
  <1>6. IsFiniteSet(Cells(g)) /\ Cardinality(Cells(g)) = (Cardinality(Cells(series)) - old) + new
    BY <1>5, TotalAdded
  <1>7. Cardinality(Cells(series)) \in Nat /\ Cardinality(DOMAIN series) \in Nat
    BY <1>1, FS_CardinalityType
  <1>8. Cardinality(Cells(g)) + dropped = seen + 1
    BY <1>1, <1>2, <1>3, <1>6, <1>7
  <1>9. IsFiniteSet(DOMAIN g) /\ Cardinality(DOMAIN g) <= MtMaxSeries
    <2>1. CASE label \in DOMAIN series
      <3>1. DOMAIN g = DOMAIN series
        BY <1>4, <2>1
      <3> QED
        BY <1>1, <3>1
    <2>2. CASE label \notin DOMAIN series
      <3>1. /\ IsFiniteSet(DOMAIN series \cup {label})
            /\ Cardinality(DOMAIN series \cup {label}) = Cardinality(DOMAIN series) + 1
        BY <1>1, <2>2, FS_AddElement
      <3> QED
        BY <1>4, <1>7, <2>2, <3>1, Limits
    <2> QED
      BY <2>1, <2>2
  <1>10. \A l \in DOMAIN g : g[l] \in Nat
    BY <1>1, <1>2, <1>4
  <1> QED
    BY <1>1, <1>6, <1>8, <1>9, <1>10 DEF CountGood

(* A record dropped at the limit is counted as such. *)
LEMMA CountDropped ==
    ASSUME NEW series, NEW dropped, NEW seen, CountGood(series, dropped, seen)
    PROVE  CountGood(series, dropped + 1, seen + 1)
  <1>1. Cardinality(Cells(series)) \in Nat
    BY FS_CardinalityType DEF CountGood
  <1> QED
    BY <1>1 DEF CountGood

(***************************************************************************)
(* The registry as a whole: the part of a step that leaves the others      *)
(***************************************************************************)
PromRecord(x) ==
    x = [part |-> x.part, registered |-> x.registered, inFlight |-> x.inFlight,
         outcomes |-> x.outcomes, durations |-> x.durations, records |-> x.records,
         bytes |-> x.bytes, correlated |-> x.correlated, errors |-> x.errors,
         dropped |-> x.dropped, write |-> x.write, seen |-> x.seen, lost |-> x.lost,
         measured |-> x.measured, faults |-> x.faults]
Olds == {"records", "bytes", "correlated", "errors"}
CountsGood(x) ==
    /\ x.dropped \in [Olds -> Nat] /\ x.seen \in [Olds -> Nat]
    /\ \A m \in Olds : CountGood(x[m], x.dropped[m], x.seen[m])
SameCounts(x, y) ==
    y.dropped = x.dropped /\ y.seen = x.seen /\ \A m \in Olds : y[m] = x[m]
SameWrites(x, y) ==
    /\ y.inFlight = x.inFlight /\ y.durations = x.durations /\ y.write = x.write
    /\ y.lost = x.lost /\ y.measured = x.measured

(* One more in a counter keeps the counters good. *)
LEMMA AddKeeps ==
    ASSUME NEW x, PromRecord(x), CountsGood(x), NEW m \in Olds, NEW label,
           NEW y, y = Prometheus!Add(x, m, label)
    PROVE  /\ PromRecord(y) /\ CountsGood(y) /\ SameWrites(x, y)
           /\ y.registered = x.registered
  <1> DEFINE seen == [x.seen EXCEPT ![m] = @ + 1]
             dropped == [x.dropped EXCEPT ![m] = @ + 1]
             series == Prometheus!Put(x[m], label, Prometheus!Default(x[m], label, 0) + 1)
             mid == [x EXCEPT !.seen = seen]
  <1>1. /\ x.dropped \in [Olds -> Nat] /\ x.seen \in [Olds -> Nat]
        /\ \A k \in Olds : CountGood(x[k], x.dropped[k], x.seen[k])
    BY DEF CountsGood
  <1>2. [x EXCEPT !.seen[m] = @ + 1] = mid
    OBVIOUS
  <1>3. /\ seen \in [Olds -> Nat] /\ seen[m] = x.seen[m] + 1
        /\ \A k \in Olds : k # m => seen[k] = x.seen[k]
    BY <1>1
  <1>4. /\ dropped \in [Olds -> Nat] /\ dropped[m] = x.dropped[m] + 1
        /\ \A k \in Olds : k # m => dropped[k] = x.dropped[k]
    BY <1>1
  <1> HIDE DEF seen
  <1>5. /\ PromRecord(mid) /\ mid.seen = seen /\ mid.dropped = x.dropped /\ SameWrites(x, mid)
        /\ mid.registered = x.registered /\ \A k \in Olds : mid[k] = x[k]
    <2>1. PICK z : z = mid
      OBVIOUS
    <2>2. z = [x EXCEPT !.seen = seen]
      BY <2>1
    <2> HIDE DEF mid
    <2>3. /\ PromRecord(z) /\ z.seen = seen /\ z.dropped = x.dropped
          /\ z.registered = x.registered
      BY <2>2 DEF PromRecord
    <2>4. SameWrites(x, z)
      BY <2>2 DEF PromRecord, SameWrites
    <2>5. \A k \in Olds : z[k] = x[k]
      BY <2>2 DEF PromRecord, Olds
    <2> QED
      BY <2>1, <2>3, <2>4, <2>5
  <1> HIDE DEF dropped
  <1>6. CASE label \notin DOMAIN x[m] /\ Cardinality(DOMAIN x[m]) >= MtMaxSeries
    <2>1. y = [mid EXCEPT !.dropped = dropped]
      <3>1. y = Prometheus!NoteDrop([x EXCEPT !.seen[m] = @ + 1], m)
        BY <1>6 DEF Prometheus!Add, Cardinality, Prometheus!Cardinality
      <3>2. y = Prometheus!NoteDrop(mid, m)
        BY <1>2, <3>1
      <3> HIDE DEF mid
      <3>3. y = [mid EXCEPT !.dropped = [mid.dropped EXCEPT ![m] = @ + 1]]
        BY <3>2 DEF Prometheus!NoteDrop
      <3> QED
        BY <1>5, <3>3 DEF dropped
    <2> HIDE DEF mid
    <2>2. /\ PromRecord(y) /\ y.seen = seen /\ y.dropped = dropped
          /\ y.registered = x.registered
      BY <1>5, <2>1 DEF PromRecord
    <2>3. SameWrites(x, y)
      BY <1>5, <2>1 DEF PromRecord, SameWrites
    <2>4. \A k \in Olds : y[k] = x[k]
      BY <1>5, <2>1 DEF PromRecord, Olds
    <2>5. \A k \in Olds : CountGood(y[k], y.dropped[k], y.seen[k])
      <3> TAKE k \in Olds
      <3>1. CASE k = m
        BY <1>1, <1>3, <1>4, <2>2, <2>4, <3>1, CountDropped
      <3>2. CASE k # m
        BY <1>1, <1>3, <1>4, <2>2, <2>4, <3>2
      <3> QED
        BY <3>1, <3>2
    <2>6. CountsGood(y)
      BY <1>3, <1>4, <2>2, <2>5 DEF CountsGood
    <2> QED
      BY <2>2, <2>3, <2>6
  <1>7. CASE ~(label \notin DOMAIN x[m] /\ Cardinality(DOMAIN x[m]) >= MtMaxSeries)
    <2>1. y = [mid EXCEPT ![m] = series]
      <3>1. y = [[x EXCEPT !.seen[m] = @ + 1] EXCEPT ![m] =
                    Prometheus!Put(@, label, Prometheus!Default(x[m], label, 0) + 1)]
        BY <1>7 DEF Prometheus!Add, Cardinality, Prometheus!Cardinality
      <3>2. y = [mid EXCEPT ![m] = Prometheus!Put(@, label, Prometheus!Default(x[m], label, 0) + 1)]
        BY <1>2, <3>1
      <3> HIDE DEF mid
      <3> QED
        BY <1>5, <3>2
    <2> HIDE DEF mid, series
    <2>2. /\ PromRecord(y) /\ y.seen = seen /\ y.dropped = x.dropped
          /\ y.registered = x.registered
      BY <1>5, <2>1 DEF PromRecord, Olds
    <2>3. SameWrites(x, y)
      BY <1>5, <2>1 DEF PromRecord, SameWrites, Olds
    <2>4. y[m] = series /\ \A k \in Olds : k # m => y[k] = x[k]
      BY <1>5, <2>1 DEF PromRecord, Olds
    <2>5. \A k \in Olds : CountGood(y[k], y.dropped[k], y.seen[k])
      <3> TAKE k \in Olds
      <3>1. CASE k = m
        <4>1. label \in DOMAIN x[m] \/ ~(Cardinality(DOMAIN x[m]) >= MtMaxSeries)
          BY <1>7
        <4>2. CountGood(x[m], x.dropped[m], x.seen[m])
          BY <1>1
        <4>3. CountGood(series, x.dropped[m], x.seen[m] + 1)
          BY <4>1, <4>2, CountPut DEF series
        <4> QED
          BY <1>3, <2>2, <2>4, <3>1, <4>3
      <3>2. CASE k # m
        BY <1>1, <1>3, <2>2, <2>4, <3>2
      <3> QED
        BY <3>1, <3>2
    <2>6. CountsGood(y)
      BY <1>1, <1>3, <2>2, <2>5 DEF CountsGood
    <2> QED
      BY <2>2, <2>3, <2>6
  <1> QED
    BY <1>6, <1>7

(* A record that is counted keeps the counters good. *)
LEMMA CountsRecordKeeps ==
    ASSUME PromRecord(state), CountsGood(state), NEW level, NEW traced \in BOOLEAN,
           NEW isError \in BOOLEAN, Prometheus!CountsRecord(level, traced, isError)
    PROVE  /\ PromRecord(state') /\ CountsGood(state') /\ SameWrites(state, state')
           /\ state'.registered = state.registered
  <1> DEFINE Fine(x) == /\ PromRecord(x) /\ CountsGood(x) /\ SameWrites(state, x)
                        /\ x.registered = state.registered
             a == Prometheus!Add(state, "records", level)
             b == Prometheus!Add(a, "bytes", level)
             c == IF traced THEN Prometheus!Add(b, "correlated", level) ELSE b
  <1>1. Fine(state)
    BY DEF SameWrites
  <1>2. ASSUME NEW x, Fine(x), NEW m \in Olds, NEW y, y = Prometheus!Add(x, m, level) PROVE Fine(y)
    <2>1. PromRecord(x) /\ CountsGood(x) /\ SameWrites(state, x) /\ x.registered = state.registered
      BY <1>2
    <2>2. /\ PromRecord(y) /\ CountsGood(y) /\ SameWrites(x, y)
          /\ y.registered = x.registered
      BY <1>2, <2>1, AddKeeps
    <2> QED
      BY <2>1, <2>2 DEF SameWrites
  <1>3. state' = IF isError THEN Prometheus!Add(c, "errors", level) ELSE c
    BY DEF Prometheus!CountsRecord, Prometheus!ObserveSize
  <1>4. "records" \in Olds /\ "bytes" \in Olds /\ "correlated" \in Olds /\ "errors" \in Olds
    BY DEF Olds
  <1> HIDE DEF Fine
  <1>5. Fine(a)
    BY <1>1, <1>2, <1>4
  <1> HIDE DEF a
  <1>6. Fine(b)
    BY <1>2, <1>4, <1>5
  <1> HIDE DEF b
  <1>7. Fine(c)
    BY <1>2, <1>4, <1>6
  <1> HIDE DEF c
  <1>8. Fine(state')
    BY <1>2, <1>3, <1>4, <1>7
  <1> QED
    BY <1>8 DEF Fine

(***************************************************************************)
(* Metrics with an overflow                                                *)
(***************************************************************************)
Ordinary(s) == DOMAIN s \ {"__overflow__"}
SlotsGood(s) == IsFiniteSet(DOMAIN s) /\ Cardinality(Ordinary(s)) <= MtMaxSeries - 1

(* A label has a series of its own while there is room. *)
LEMMA LabelsOfIs ==
    \A s, t : Prometheus!LabelsOf(s, t) =
        IF t \in DOMAIN s \/ Cardinality(Ordinary(s)) < MtMaxSeries - 1 THEN t ELSE "__overflow__"
  BY DEF Prometheus!LabelsOf, Prometheus!Overflow, Ordinary, Cardinality, Prometheus!Cardinality

(* A series that is added keeps within its limit. *)
LEMMA SlotsKept ==
    ASSUME NEW s, SlotsGood(s), NEW t, NEW g, DOMAIN g = DOMAIN s \cup {Prometheus!LabelsOf(s, t)}
    PROVE  SlotsGood(g) /\ Prometheus!LabelsOf(g, t) = Prometheus!LabelsOf(s, t)
  <1>1. IsFiniteSet(DOMAIN s) /\ Cardinality(Ordinary(s)) <= MtMaxSeries - 1
    BY DEF SlotsGood
  <1>2. IsFiniteSet(DOMAIN g)
    BY <1>1, FS_AddElement
  <1>3. IsFiniteSet(Ordinary(s)) /\ Cardinality(Ordinary(s)) \in Nat /\ MtMaxSeries \in Nat \ {0}
    BY <1>1, FS_Subset, FS_CardinalityType, Limits DEF Ordinary
  <1>4. CASE t \in DOMAIN s
    <2>1. DOMAIN g = DOMAIN s
      BY <1>4, LabelsOfIs
    <2> QED
      BY <1>1, <1>2, <1>4, <2>1, LabelsOfIs DEF SlotsGood, Ordinary
  <1>5. CASE t \notin DOMAIN s /\ Cardinality(Ordinary(s)) < MtMaxSeries - 1
    <2>1. Prometheus!LabelsOf(s, t) = t /\ DOMAIN g = DOMAIN s \cup {t}
      BY <1>5, LabelsOfIs
    <2>2. Prometheus!LabelsOf(g, t) = t
      BY <2>1, LabelsOfIs
    <2>3. Cardinality(Ordinary(g)) <= MtMaxSeries - 1
      <3>1. CASE t = "__overflow__"
        <4>1. Ordinary(g) = Ordinary(s)
          BY <2>1, <3>1 DEF Ordinary
        <4> QED
          BY <1>1, <4>1
      <3>2. CASE t # "__overflow__"
        <4>1. Ordinary(g) = Ordinary(s) \cup {t} /\ t \notin Ordinary(s)
          BY <1>5, <2>1, <3>2 DEF Ordinary
        <4>2. Cardinality(Ordinary(s) \cup {t}) = Cardinality(Ordinary(s)) + 1
          BY <1>3, <4>1, FS_AddElement
        <4> QED
          BY <1>3, <1>5, <4>1, <4>2
      <3> QED
        BY <3>1, <3>2
    <2> QED
      BY <1>2, <2>1, <2>2, <2>3 DEF SlotsGood
  <1>6. CASE t \notin DOMAIN s /\ ~(Cardinality(Ordinary(s)) < MtMaxSeries - 1)
    <2>1. Prometheus!LabelsOf(s, t) = "__overflow__" /\ DOMAIN g = DOMAIN s \cup {"__overflow__"}
      BY <1>6, LabelsOfIs
    <2>2. Ordinary(g) = Ordinary(s)
      BY <2>1 DEF Ordinary
    <2>3. Prometheus!LabelsOf(g, t) = "__overflow__"
      BY <1>6, <2>1, <2>2, LabelsOfIs
    <2> QED
      BY <1>1, <1>2, <2>1, <2>2, <2>3 DEF SlotsGood
  <1> QED
    BY <1>4, <1>5, <1>6

(* A label keeps its series once it has one. *)
LEMMA SlotStays ==
    ASSUME NEW s, NEW t, NEW g, DOMAIN g = DOMAIN s \cup {Prometheus!LabelsOf(s, t)},
           NEW u, Prometheus!LabelsOf(s, u) \in DOMAIN s
    PROVE  Prometheus!LabelsOf(g, u) = Prometheus!LabelsOf(s, u)
  <1>1. CASE u \in DOMAIN s
    BY <1>1, LabelsOfIs
  <1>2. CASE u \notin DOMAIN s
    <2>1. /\ ~(Cardinality(Ordinary(s)) < MtMaxSeries - 1) /\ "__overflow__" \in DOMAIN s
          /\ Prometheus!LabelsOf(s, u) = "__overflow__"
      BY <1>2, LabelsOfIs
    <2>2. Prometheus!LabelsOf(s, t) \in DOMAIN s
      BY <2>1, LabelsOfIs
    <2>3. DOMAIN g = DOMAIN s
      BY <2>2
    <2> QED
      BY <1>2, <2>1, <2>3, LabelsOfIs DEF Ordinary
  <1> QED
    BY <1>1, <1>2

(* Series within their limit are bounded. *)
LEMMA SlotsBounded ==
    ASSUME NEW s, SlotsGood(s) PROVE Cardinality(DOMAIN s) <= MtMaxSeries
  <1>1. IsFiniteSet(DOMAIN s) /\ Cardinality(Ordinary(s)) <= MtMaxSeries - 1
    BY DEF SlotsGood
  <1>2. IsFiniteSet(Ordinary(s)) /\ Cardinality(Ordinary(s)) \in Nat /\ MtMaxSeries \in Nat
    BY <1>1, FS_Subset, FS_CardinalityType, Limits DEF Ordinary
  <1>3. Cardinality(Ordinary(s) \cup {"__overflow__"}) = Cardinality(Ordinary(s)) + 1
    <2>1. "__overflow__" \notin Ordinary(s)
      BY DEF Ordinary
    <2> QED
      BY <1>2, <2>1, FS_AddElement
  <1>4. IsFiniteSet(Ordinary(s) \cup {"__overflow__"})
    BY <1>2, FS_AddElement
  <1>5. DOMAIN s \subseteq Ordinary(s) \cup {"__overflow__"}
    BY DEF Ordinary
  <1>6. Cardinality(DOMAIN s) <= Cardinality(Ordinary(s) \cup {"__overflow__"})
    BY <1>4, <1>5, FS_Subset
  <1>7. Cardinality(DOMAIN s) \in Nat
    BY <1>1, FS_CardinalityType
  <1> QED
    BY <1>1, <1>2, <1>3, <1>6, <1>7

(***************************************************************************)
(* The histogram of the durations                                          *)
(***************************************************************************)
HistogramGood(h) ==
    /\ h.buckets \in [1..MtBounds -> Nat] /\ h.count \in Nat
    /\ \A i, j \in 1..MtBounds : i <= j => h.buckets[i] <= h.buckets[j] /\ h.buckets[j] <= h.count
Counts(d) == [l \in DOMAIN d |-> d[l].count]
DurationsGood(d, measured) ==
    /\ SlotsGood(d) /\ measured \in Nat
    /\ \A l \in DOMAIN d : HistogramGood(d[l])
    /\ IsFiniteSet(Cells(Counts(d))) /\ Cardinality(Cells(Counts(d))) = measured

(* The buckets there are. *)
LEMMA BucketsAre ==
    /\ MtBounds \in Nat /\ DOMAIN Buckets = 1..MtBounds
    /\ \A i \in 1..MtBounds : Buckets[i] = i - 1 /\ Buckets[i] \in Nat
  BY Limits DEF Buckets

(* A value that is observed keeps its buckets cumulative. *)
LEMMA Observed ==
    ASSUME NEW h, HistogramGood(h), NEW v \in Nat, NEW g,
           g = [buckets |-> [i \in 1..MtBounds |-> h.buckets[i] + (IF v <= Buckets[i] THEN 1 ELSE 0)],
                count |-> h.count + 1]
    PROVE  HistogramGood(g)
  <1>1. /\ h.buckets \in [1..MtBounds -> Nat] /\ h.count \in Nat
        /\ \A i, j \in 1..MtBounds : i <= j => h.buckets[i] <= h.buckets[j] /\ h.buckets[j] <= h.count
    BY DEF HistogramGood
  <1>2. /\ g.count = h.count + 1
        /\ g.buckets = [i \in 1..MtBounds |-> h.buckets[i] + (IF v <= Buckets[i] THEN 1 ELSE 0)]
    OBVIOUS
  <1>3. \A i \in 1..MtBounds :
           /\ h.buckets[i] \in Nat
           /\ g.buckets[i] = h.buckets[i] + (IF v <= Buckets[i] THEN 1 ELSE 0)
    BY <1>1, <1>2
  <1>4. g.buckets \in [1..MtBounds -> Nat]
    BY <1>2, <1>3
  <1>5. ASSUME NEW i \in 1..MtBounds, NEW j \in 1..MtBounds, i <= j
        PROVE  g.buckets[i] <= g.buckets[j] /\ g.buckets[j] <= g.count
    <2>1. h.buckets[i] <= h.buckets[j] /\ h.buckets[j] <= h.count
      BY <1>1, <1>5
    <2>2. v <= Buckets[i] => v <= Buckets[j]
      BY <1>5, BucketsAre
    <2>3. h.buckets[i] \in Nat /\ h.buckets[j] \in Nat
      BY <1>3
    <2>4. /\ g.buckets[i] = h.buckets[i] + (IF v <= Buckets[i] THEN 1 ELSE 0)
          /\ g.buckets[j] = h.buckets[j] + (IF v <= Buckets[j] THEN 1 ELSE 0)
      BY <1>3
    <2> QED
      BY <1>1, <1>2, <2>1, <2>2, <2>3, <2>4
  <1> QED
    BY <1>1, <1>2, <1>4, <1>5 DEF HistogramGood

(* A duration that is observed under a label keeps every histogram good. *)
LEMMA DurationObserved ==
    ASSUME NEW d, NEW measured, DurationsGood(d, measured), NEW label, NEW v \in Nat,
           NEW g, g = Prometheus!Observe(d, label, v)
    PROVE  DurationsGood(g, measured + 1)
  <1> DEFINE key == Prometheus!LabelsOf(d, label)
             h == Prometheus!Default(d, key, Prometheus!EmptyHistogram)
             new == [buckets |-> [i \in DOMAIN Buckets |-> h.buckets[i] + (IF v <= Buckets[i] THEN 1 ELSE 0)],
                     count |-> h.count + 1]
  <1>1. /\ SlotsGood(d) /\ measured \in Nat
        /\ \A l \in DOMAIN d : HistogramGood(d[l])
        /\ IsFiniteSet(Cells(Counts(d))) /\ Cardinality(Cells(Counts(d))) = measured
    BY DEF DurationsGood
  <1>2. /\ key \in DOMAIN d => h = d[key]
        /\ key \notin DOMAIN d => h = [buckets |-> [i \in 1..MtBounds |-> 0], count |-> 0]
    BY BucketsAre DEF Prometheus!Default, Prometheus!EmptyHistogram
  <1>3. g = Prometheus!Put(d, key, new)
    BY DEF Prometheus!Observe
  <1> HIDE DEF h
  <1>4. HistogramGood(h)
    <2>1. CASE key \in DOMAIN d
      BY <1>1, <1>2, <2>1
    <2>2. CASE key \notin DOMAIN d
      <3>1. h.count = 0 /\ h.buckets = [i \in 1..MtBounds |-> 0]
        BY <1>2, <2>2
      <3> QED
        BY <3>1, BucketsAre DEF HistogramGood
    <2> QED
      BY <2>1, <2>2
  <1>5. HistogramGood(new) /\ new.count = h.count + 1
    BY <1>4, BucketsAre, Observed
  <1> HIDE DEF new, key
  <1>6. /\ DOMAIN g = DOMAIN d \cup {key} /\ g[key] = new
        /\ \A l \in DOMAIN d : l # key => g[l] = d[l]
    BY <1>3 DEF Prometheus!Put
  <1>7. SlotsGood(g)
    BY <1>1, <1>6, SlotsKept DEF key
  <1>8. \A l \in DOMAIN g : HistogramGood(g[l])
    BY <1>1, <1>5, <1>6
  <1>9. IsFiniteSet(Cells(Counts(g))) /\ Cardinality(Cells(Counts(g))) = measured + 1
    <2> DEFINE old == IF key \in DOMAIN d THEN d[key].count ELSE 0
    <2>1. h.count = old /\ h.count \in Nat
      <3>1. h.count \in Nat
        BY <1>4 DEF HistogramGood
      <3> QED
        BY <1>2, <3>1
    <2>2. /\ DOMAIN Counts(d) = DOMAIN d /\ DOMAIN Counts(g) = DOMAIN d \cup {key}
          /\ \A l \in DOMAIN d : Counts(d)[l] = d[l].count
          /\ \A l \in DOMAIN d : l # key => Counts(g)[l] = d[l].count
          /\ Counts(g)[key] = h.count + 1
      BY <1>5, <1>6 DEF Counts
    <2>3. Adds(Counts(d), Counts(g), key, h.count, h.count + 1)
      BY <1>1, <2>1, <2>2 DEF Adds
    <2>4. /\ IsFiniteSet(Cells(Counts(g)))
          /\ Cardinality(Cells(Counts(g))) = (Cardinality(Cells(Counts(d))) - h.count) + (h.count + 1)
      BY <2>3, TotalAdded
    <2> QED
      BY <1>1, <2>1, <2>4
  <1> QED
    BY <1>1, <1>7, <1>8, <1>9 DEF DurationsGood

(***************************************************************************)
(* The gauge of the writes under way                                       *)
(***************************************************************************)
WriteStates == [at : {"new", "writing", "success", "failure"},
                transport : MtLabels \cup {"__overflow__"}, counted : BOOLEAN, started : BOOLEAN]
UnderWay(write) == {w \in MtWrites : write[w].at = "writing" /\ write[w].counted}
KeyOf(f, write, w) == Prometheus!LabelsOf(f, write[w].transport)
ShownBy(f, write, l) == {w \in UnderWay(write) : KeyOf(f, write, w) = l}
FlightGood(f, write, lost) ==
    /\ SlotsGood(f) /\ write \in [MtWrites -> WriteStates] /\ lost \in Nat
    /\ \A w \in UnderWay(write) : KeyOf(f, write, w) \in DOMAIN f
    /\ \A l \in DOMAIN f : f[l] \in Nat /\ Cardinality(ShownBy(f, write, l)) <= f[l]
    /\ IsFiniteSet(Cells(f)) /\ Cardinality(Cells(f)) = Cardinality(UnderWay(write)) + lost

(* The writes under way are finitely many. *)
LEMMA FlightsFinite ==
    ASSUME NEW f, NEW write, NEW l
    PROVE  /\ IsFiniteSet(UnderWay(write)) /\ Cardinality(UnderWay(write)) \in Nat
           /\ IsFiniteSet(ShownBy(f, write, l)) /\ Cardinality(ShownBy(f, write, l)) \in Nat
  <1>1. IsFiniteSet(UnderWay(write)) /\ Cardinality(UnderWay(write)) \in Nat
    BY Limits, FS_Subset, FS_CardinalityType DEF UnderWay
  <1>2. ShownBy(f, write, l) \subseteq UnderWay(write)
    BY DEF ShownBy
  <1> QED
    BY <1>1, <1>2, FS_Subset, FS_CardinalityType

(* A write begins, and its metric fails. *)
LEMMA BeginsUncounted ==
    ASSUME NEW f, NEW write, NEW lost, FlightGood(f, write, lost), NEW w \in MtWrites,
           write[w].at = "new", NEW k \in WriteStates, ~k.counted,
           NEW to, to = [write EXCEPT ![w] = k]
    PROVE  FlightGood(f, to, lost)
  <1>1. write \in [MtWrites -> WriteStates] /\ to \in [MtWrites -> WriteStates]
    BY DEF FlightGood
  <1>2. to[w] = k /\ \A v \in MtWrites : v # w => to[v] = write[v]
    BY <1>1
  <1>3. UnderWay(to) = UnderWay(write) /\ w \notin UnderWay(write)
    BY <1>2 DEF UnderWay
  <1>4. \A v \in UnderWay(write) : KeyOf(f, to, v) = KeyOf(f, write, v)
    BY <1>2, <1>3 DEF KeyOf, UnderWay
  <1>5. \A l : ShownBy(f, to, l) = ShownBy(f, write, l)
    BY <1>3, <1>4 DEF ShownBy
  <1> QED
    BY <1>1, <1>3, <1>4, <1>5 DEF FlightGood

(* A write begins: one more under the key of its transport.                 *)
LEMMA BeginsCounted ==
    ASSUME NEW f, NEW write, NEW lost, FlightGood(f, write, lost), NEW w \in MtWrites,
           write[w].at = "new", NEW k \in WriteStates, k.at = "writing", k.counted,
           NEW to, to = [write EXCEPT ![w] = k], NEW g, g = Prometheus!Inc(f, k.transport, 1)
    PROVE  FlightGood(g, to, lost)
  <1> DEFINE key == Prometheus!LabelsOf(f, k.transport)
             old == Prometheus!Default(f, key, 0)
             new == old + 1
  <1>1. /\ SlotsGood(f) /\ write \in [MtWrites -> WriteStates] /\ lost \in Nat
        /\ \A v \in UnderWay(write) : KeyOf(f, write, v) \in DOMAIN f
        /\ \A l \in DOMAIN f : f[l] \in Nat /\ Cardinality(ShownBy(f, write, l)) <= f[l]
        /\ IsFiniteSet(Cells(f)) /\ Cardinality(Cells(f)) = Cardinality(UnderWay(write)) + lost
    BY DEF FlightGood
  <1>2. /\ old = IF key \in DOMAIN f THEN f[key] ELSE 0
        /\ old \in Nat /\ new = old + 1 /\ new \in Nat /\ g = Prometheus!Put(f, key, new)
    <2>1. old = IF key \in DOMAIN f THEN f[key] ELSE 0
      BY DEF Prometheus!Default
    <2>2. old \in Nat
      BY <1>1, <2>1
    <2> HIDE DEF old
    <2>3. g = Prometheus!Put(f, key, new)
      BY DEF Prometheus!Inc, old
    <2> QED
      BY <2>1, <2>2, <2>3
  <1> HIDE DEF old, new, key
  <1>3. /\ DOMAIN g = DOMAIN f \cup {key} /\ g[key] = new
        /\ \A l \in DOMAIN f : l # key => g[l] = f[l]
    <2>1. g = Prometheus!Put(f, key, new)
      BY <1>2
    <2> QED
      BY <2>1 DEF Prometheus!Put
  <1>4. to \in [MtWrites -> WriteStates] /\ to[w] = k /\ \A v \in MtWrites : v # w => to[v] = write[v]
    BY <1>1
  <1>5. SlotsGood(g) /\ KeyOf(g, to, w) = key
    <2>1. SlotsGood(g) /\ Prometheus!LabelsOf(g, k.transport) = key
      BY <1>1, <1>3, SlotsKept DEF key
    <2> QED
      BY <1>4, <2>1 DEF KeyOf
  <1>6. UnderWay(to) = UnderWay(write) \cup {w} /\ w \notin UnderWay(write)
    BY <1>4 DEF UnderWay
  <1>7. \A v \in UnderWay(write) : KeyOf(g, to, v) = KeyOf(f, write, v)
    <2> TAKE v \in UnderWay(write)
    <2>1. to[v] = write[v] /\ Prometheus!LabelsOf(f, write[v].transport) \in DOMAIN f
      BY <1>1, <1>4, <1>6 DEF KeyOf, UnderWay
    <2>2. Prometheus!LabelsOf(g, write[v].transport) = Prometheus!LabelsOf(f, write[v].transport)
      BY <1>3, <2>1, SlotStays DEF key
    <2> QED
      BY <2>1, <2>2 DEF KeyOf
  <1>8. \A v \in UnderWay(to) : KeyOf(g, to, v) \in DOMAIN g
    BY <1>1, <1>3, <1>5, <1>6, <1>7
  <1>9. ShownBy(g, to, key) = ShownBy(f, write, key) \cup {w} /\ w \notin ShownBy(f, write, key)
    BY <1>5, <1>6, <1>7 DEF ShownBy
  <1>10. \A l : l # key => ShownBy(g, to, l) = ShownBy(f, write, l)
    BY <1>5, <1>6, <1>7 DEF ShownBy
  <1>11. Cardinality(ShownBy(g, to, key)) <= g[key]
    <2>1. Cardinality(ShownBy(f, write, key)) \in Nat /\ IsFiniteSet(ShownBy(f, write, key))
      BY FlightsFinite
    <2>2. Cardinality(ShownBy(g, to, key)) = Cardinality(ShownBy(f, write, key)) + 1
      BY <1>9, <2>1, FS_AddElement
    <2>3. Cardinality(ShownBy(f, write, key)) <= old
      <3>1. CASE key \in DOMAIN f
        BY <1>1, <1>2, <3>1
      <3>2. CASE key \notin DOMAIN f
        <4>1. ShownBy(f, write, key) = {}
          BY <1>1, <3>2 DEF ShownBy
        <4>2. Cardinality(ShownBy(f, write, key)) = 0
          BY <4>1, FS_EmptySet
        <4> QED
          BY <1>2, <4>2
      <3> QED
        BY <3>1, <3>2
    <2> QED
      BY <1>2, <1>3, <2>1, <2>2, <2>3
  <1>12. \A l \in DOMAIN g : g[l] \in Nat /\ Cardinality(ShownBy(g, to, l)) <= g[l]
    BY <1>1, <1>2, <1>3, <1>10, <1>11
  <1>13. IsFiniteSet(Cells(g)) /\ Cardinality(Cells(g)) = Cardinality(UnderWay(to)) + lost
    <2>1. Adds(f, g, key, old, new)
      BY <1>1, <1>2, <1>3 DEF Adds
    <2>2. IsFiniteSet(Cells(g)) /\ Cardinality(Cells(g)) = (Cardinality(Cells(f)) - old) + new
      BY <2>1, TotalAdded
    <2>3. IsFiniteSet(UnderWay(write)) /\ Cardinality(UnderWay(write)) \in Nat
      BY FlightsFinite
    <2>4. Cardinality(UnderWay(to)) = Cardinality(UnderWay(write)) + 1
      BY <1>6, <2>3, FS_AddElement
    <2> QED
      BY <1>1, <1>2, <2>2, <2>3, <2>4
  <1> QED
    BY <1>1, <1>4, <1>5, <1>8, <1>12, <1>13 DEF FlightGood

(* A write settles: it is no more under way, whatever becomes of the gauge. *)
Settled(write, to, w) ==
    /\ to \in [MtWrites -> WriteStates] /\ to[w].at \in {"success", "failure"}
    /\ to[w].transport = write[w].transport
    /\ \A v \in MtWrites : v # w => to[v] = write[v]

(* What a write that settles leaves under way. *)
LEMMA SettledAre ==
    ASSUME NEW f, NEW write, NEW w \in MtWrites, NEW to, Settled(write, to, w)
    PROVE  /\ UnderWay(to) = UnderWay(write) \ {w}
           /\ \A v \in UnderWay(write) : KeyOf(f, to, v) = KeyOf(f, write, v)
           /\ \A l : ShownBy(f, to, l) = ShownBy(f, write, l) \ {w}
  <1>1. /\ to[w].at \in {"success", "failure"} /\ to[w].transport = write[w].transport
        /\ \A v \in MtWrites : v # w => to[v] = write[v]
    BY DEF Settled
  <1>2. UnderWay(to) = UnderWay(write) \ {w}
    BY <1>1 DEF UnderWay
  <1>3. \A v \in UnderWay(write) : KeyOf(f, to, v) = KeyOf(f, write, v)
    BY <1>1 DEF KeyOf, UnderWay
  <1>4. \A l : ShownBy(f, to, l) = ShownBy(f, write, l) \ {w}
    BY <1>2, <1>3 DEF ShownBy
  <1> QED
    BY <1>2, <1>3, <1>4

(* A write that was not counted in leaves the gauges right. *)
LEMMA SettlesUncounted ==
    ASSUME NEW f, NEW write, NEW lost, FlightGood(f, write, lost), NEW w \in MtWrites,
           ~write[w].counted, NEW to, Settled(write, to, w)
    PROVE  FlightGood(f, to, lost)
  <1>1. w \notin UnderWay(write)
    BY DEF UnderWay
  <1>2. UnderWay(to) = UnderWay(write)
    BY <1>1, SettledAre
  <1>3. \A l : ShownBy(f, to, l) = ShownBy(f, write, l)
    <2>1. \A l : w \notin ShownBy(f, write, l)
      BY <1>1 DEF ShownBy
    <2>2. \A l : ShownBy(f, to, l) = ShownBy(f, write, l) \ {w}
      BY SettledAre
    <2> QED
      BY <2>1, <2>2
  <1>4. \A v \in UnderWay(write) : KeyOf(f, to, v) = KeyOf(f, write, v)
    BY SettledAre
  <1>5. to \in [MtWrites -> WriteStates]
    BY DEF Settled
  <1> QED
    BY <1>2, <1>3, <1>4, <1>5 DEF FlightGood

(* Its decrement fails: it stays on the gauge, and is known to be lost.     *)
LEMMA SettlesLost ==
    ASSUME NEW f, NEW write, NEW lost, FlightGood(f, write, lost), NEW w \in MtWrites,
           write[w].counted, write[w].at = "writing", NEW to, Settled(write, to, w)
    PROVE  FlightGood(f, to, lost + 1)
  <1>1. w \in UnderWay(write) /\ UnderWay(to) = UnderWay(write) \ {w}
    BY SettledAre DEF UnderWay
  <1>2. \A v \in UnderWay(to) : KeyOf(f, to, v) = KeyOf(f, write, v)
    BY <1>1, SettledAre
  <1>3. Cardinality(UnderWay(to)) = Cardinality(UnderWay(write)) - 1
        /\ Cardinality(UnderWay(write)) \in Nat
    <2>1. IsFiniteSet(UnderWay(write)) /\ Cardinality(UnderWay(write)) \in Nat
      BY FlightsFinite
    <2>2. Cardinality(UnderWay(write) \ {w}) = Cardinality(UnderWay(write)) - 1
      BY <1>1, <2>1, FS_RemoveElement
    <2> QED
      BY <1>1, <2>1, <2>2
  <1>4. ASSUME NEW l \in DOMAIN f PROVE Cardinality(ShownBy(f, to, l)) <= f[l]
    <2>1. ShownBy(f, to, l) \subseteq ShownBy(f, write, l)
      BY SettledAre
    <2>2. /\ IsFiniteSet(ShownBy(f, write, l)) /\ Cardinality(ShownBy(f, write, l)) \in Nat
          /\ Cardinality(ShownBy(f, to, l)) \in Nat
      BY FlightsFinite
    <2>3. Cardinality(ShownBy(f, to, l)) <= Cardinality(ShownBy(f, write, l))
      BY <2>1, <2>2, FS_Subset
    <2>4. f[l] \in Nat /\ Cardinality(ShownBy(f, write, l)) <= f[l]
      BY DEF FlightGood
    <2> QED
      BY <2>2, <2>3, <2>4
  <1>5. to \in [MtWrites -> WriteStates]
    BY DEF Settled
  <1>6. /\ SlotsGood(f) /\ lost \in Nat /\ \A l \in DOMAIN f : f[l] \in Nat
        /\ \A v \in UnderWay(write) : KeyOf(f, write, v) \in DOMAIN f
        /\ IsFiniteSet(Cells(f)) /\ Cardinality(Cells(f)) = Cardinality(UnderWay(write)) + lost
    BY DEF FlightGood
  <1>7. \A v \in UnderWay(to) : KeyOf(f, to, v) \in DOMAIN f
    BY <1>1, <1>2, <1>6
  <1>8. lost + 1 \in Nat /\ Cardinality(Cells(f)) = Cardinality(UnderWay(to)) + (lost + 1)
    BY <1>3, <1>6
  <1> QED
    BY <1>4, <1>5, <1>6, <1>7, <1>8 DEF FlightGood

(* It is taken off the gauge, off the series that it was put on.            *)
LEMMA SettlesCounted ==
    ASSUME NEW f, NEW write, NEW lost, FlightGood(f, write, lost), NEW w \in MtWrites,
           write[w].counted, write[w].at = "writing", NEW to, Settled(write, to, w),
           NEW g, g = Prometheus!Inc(f, write[w].transport, -1)
    PROVE  FlightGood(g, to, lost)
  <1> DEFINE key == KeyOf(f, write, w)
             new == f[key] + (-1)
  <1>1. /\ SlotsGood(f) /\ lost \in Nat
        /\ \A v \in UnderWay(write) : KeyOf(f, write, v) \in DOMAIN f
        /\ \A l \in DOMAIN f : f[l] \in Nat /\ Cardinality(ShownBy(f, write, l)) <= f[l]
        /\ IsFiniteSet(Cells(f)) /\ Cardinality(Cells(f)) = Cardinality(UnderWay(write)) + lost
    BY DEF FlightGood
  <1>2. w \in UnderWay(write) /\ key \in DOMAIN f /\ w \in ShownBy(f, write, key)
    BY <1>1 DEF UnderWay, ShownBy
  <1>3. f[key] \in Nat /\ f[key] > 0
    <2>1. IsFiniteSet(ShownBy(f, write, key)) /\ Cardinality(ShownBy(f, write, key)) \in Nat
      BY FlightsFinite
    <2>2. Cardinality(ShownBy(f, write, key)) # 0
      BY <1>2, <2>1, FS_EmptySet
    <2> QED
      BY <1>1, <1>2, <2>1, <2>2
  <1>4. g = Prometheus!Put(f, key, new)
    BY <1>2 DEF Prometheus!Inc, Prometheus!Default, KeyOf
  <1>5. new \in Nat /\ new = f[key] - 1
    BY <1>3
  <1> HIDE DEF key, new
  <1>6. /\ DOMAIN g = DOMAIN f \cup {key} /\ g[key] = new
        /\ \A l \in DOMAIN f : l # key => g[l] = f[l]
    BY <1>4 DEF Prometheus!Put
  <1>7. DOMAIN g = DOMAIN f
    BY <1>2, <1>6
  <1>8. SlotsGood(g) /\ \A l : Prometheus!LabelsOf(g, l) = Prometheus!LabelsOf(f, l)
    BY <1>1, <1>7, LabelsOfIs DEF SlotsGood, Ordinary
  <1>9. /\ UnderWay(to) = UnderWay(write) \ {w}
        /\ \A v \in UnderWay(write) : KeyOf(g, to, v) = KeyOf(f, write, v)
        /\ \A l : ShownBy(g, to, l) = ShownBy(f, write, l) \ {w}
    <2>1. /\ UnderWay(to) = UnderWay(write) \ {w}
          /\ \A v \in UnderWay(write) : KeyOf(f, to, v) = KeyOf(f, write, v)
          /\ \A l : ShownBy(f, to, l) = ShownBy(f, write, l) \ {w}
      BY SettledAre
    <2>2. \A v : KeyOf(g, to, v) = KeyOf(f, to, v)
      BY <1>8 DEF KeyOf
    <2>3. \A l : ShownBy(g, to, l) = ShownBy(f, to, l)
      BY <2>2 DEF ShownBy
    <2> QED
      BY <2>1, <2>2, <2>3
  <1>10. ASSUME NEW l \in DOMAIN g PROVE g[l] \in Nat /\ Cardinality(ShownBy(g, to, l)) <= g[l]
    <2>1. /\ IsFiniteSet(ShownBy(f, write, l)) /\ Cardinality(ShownBy(f, write, l)) \in Nat
          /\ f[l] \in Nat /\ Cardinality(ShownBy(f, write, l)) <= f[l]
      BY <1>1, <1>7, FlightsFinite
    <2>2. CASE l = key
      <3>1. w \in ShownBy(f, write, l)
        BY <1>2, <2>2
      <3>2. Cardinality(ShownBy(f, write, l) \ {w}) = Cardinality(ShownBy(f, write, l)) - 1
        BY <2>1, <3>1, FS_RemoveElement
      <3>3. ShownBy(g, to, l) = ShownBy(f, write, l) \ {w}
        BY <1>9
      <3>4. Cardinality(ShownBy(g, to, l)) = Cardinality(ShownBy(f, write, l)) - 1
        BY <3>2, <3>3
      <3>5. g[l] = f[l] - 1 /\ g[l] \in Nat
        BY <1>5, <1>6, <2>2
      <3> QED
        BY <2>1, <3>4, <3>5
    <2>3. CASE l # key
      <3>1. w \notin ShownBy(f, write, l)
        BY <2>3 DEF ShownBy, key
      <3>2. ShownBy(g, to, l) = ShownBy(f, write, l)
        BY <1>9, <3>1
      <3> QED
        BY <1>6, <1>7, <2>1, <2>3, <3>2
    <2> QED
      BY <2>2, <2>3
  <1>11. IsFiniteSet(Cells(g)) /\ Cardinality(Cells(g)) = Cardinality(UnderWay(to)) + lost
    <2>1. Adds(f, g, key, f[key], new)
      BY <1>1, <1>2, <1>3, <1>5, <1>6 DEF Adds
    <2>2. IsFiniteSet(Cells(g)) /\ Cardinality(Cells(g)) = (Cardinality(Cells(f)) - f[key]) + new
      BY <2>1, TotalAdded
    <2>3. IsFiniteSet(UnderWay(write)) /\ Cardinality(UnderWay(write)) \in Nat
      BY FlightsFinite
    <2>4. Cardinality(UnderWay(write) \ {w}) = Cardinality(UnderWay(write)) - 1
      BY <1>2, <2>3, FS_RemoveElement
    <2> QED
      BY <1>1, <1>3, <1>5, <1>9, <2>2, <2>3, <2>4
  <1>12. to \in [MtWrites -> WriteStates]
    BY DEF Settled
  <1>13. \A v \in UnderWay(to) : KeyOf(g, to, v) \in DOMAIN g
    BY <1>1, <1>7, <1>9
  <1> QED
    BY <1>1, <1>8, <1>10, <1>11, <1>12, <1>13 DEF FlightGood

(***************************************************************************)
(* The registry as a whole                                                 *)
(***************************************************************************)
RegisteredGood(r) ==
    \A a, b \in r : a # b => Prometheus!ExpositionNames(a) \cap Prometheus!ExpositionNames(b) = {}
PromGood(x) ==
    /\ PromRecord(x) /\ CountsGood(x) /\ RegisteredGood(x.registered)
    /\ FlightGood(x.inFlight, x.write, x.lost) /\ DurationsGood(x.durations, x.measured)

(* Nothing counted is counted right. *)
LEMMA NothingCounted ==
    ASSUME NEW f, DOMAIN f = {}
    PROVE  /\ CountGood(f, 0, 0) /\ SlotsGood(f) /\ DurationsGood(f, 0)
           /\ IsFiniteSet(Cells(f)) /\ Cardinality(Cells(f)) = 0
  <1>1. IsFiniteSet(DOMAIN f) /\ Cardinality(DOMAIN f) = 0 /\ Cardinality(Ordinary(f)) = 0
    <2>1. Ordinary(f) = {}
      BY DEF Ordinary
    <2> QED
      BY <2>1, FS_EmptySet
  <1>2. IsFiniteSet(Cells(f)) /\ Cardinality(Cells(f)) = 0
    BY NothingInAll
  <1>3. IsFiniteSet(Cells(Counts(f))) /\ Cardinality(Cells(Counts(f))) = 0
    <2>1. DOMAIN Counts(f) = {}
      BY DEF Counts
    <2> QED
      BY <2>1, NothingInAll
  <1>4. CountGood(f, 0, 0)
    BY <1>1, <1>2, Limits DEF CountGood
  <1>5. SlotsGood(f)
    BY <1>1, Limits DEF SlotsGood
  <1> QED
    BY <1>2, <1>3, <1>4, <1>5 DEF DurationsGood

(* The invariant of the metrics holds at first. *)
LEMMA PromInit == Prometheus!MtInit => PromGood(state)
  <1> SUFFICES ASSUME Prometheus!MtInit PROVE PromGood(state)
    OBVIOUS
  <1> DEFINE none == [l \in {} |-> 0]
             new == [at |-> "new", transport |-> "__overflow__", counted |-> FALSE, started |-> FALSE]
  <1>1. PICK p : state =
            [part |-> p, registered |-> {}, inFlight |-> none,
             outcomes |-> [o \in {"success", "failure"} |-> 0],
             durations |-> none, records |-> none, bytes |-> none, correlated |-> none, errors |-> none,
             dropped |-> [m \in Olds |-> 0], write |-> [w \in MtWrites |-> new],
             seen |-> [m \in Olds |-> 0], lost |-> 0, measured |-> 0, faults |-> 0]
    BY DEF Prometheus!MtInit, Prometheus!NoSeries, Prometheus!Overflow, Prometheus!Prefixed, Olds
  <1>2. DOMAIN none = {}
    OBVIOUS
  <1>3. new \in WriteStates
    BY DEF WriteStates
  <1>4. new.at = "new"
    OBVIOUS
  <1> HIDE DEF none, new
  <1>5. /\ state.registered = {} /\ state.inFlight = none /\ state.durations = none
        /\ state.dropped = [m \in Olds |-> 0] /\ state.seen = [m \in Olds |-> 0]
        /\ state.write = [w \in MtWrites |-> new] /\ state.lost = 0 /\ state.measured = 0
    BY <1>1
  <1>6. PromRecord(state) /\ \A m \in Olds : state[m] = none
    BY <1>1 DEF PromRecord, Olds
  <1>7. /\ CountGood(none, 0, 0) /\ SlotsGood(none) /\ DurationsGood(none, 0)
        /\ IsFiniteSet(Cells(none)) /\ Cardinality(Cells(none)) = 0
    BY <1>2, NothingCounted
  <1>8. CountsGood(state)
    BY <1>5, <1>6, <1>7 DEF CountsGood
  <1>9. FlightGood(state.inFlight, state.write, state.lost)
    <2>1. UnderWay(state.write) = {}
      BY <1>4, <1>5 DEF UnderWay
    <2>2. Cardinality(UnderWay(state.write)) = 0
      BY <2>1, FS_EmptySet
    <2>3. state.write \in [MtWrites -> WriteStates]
      BY <1>3, <1>5
    <2> QED
      BY <1>2, <1>5, <1>7, <2>1, <2>2, <2>3 DEF FlightGood
  <1>10. RegisteredGood(state.registered)
    BY <1>5 DEF RegisteredGood
  <1> QED
    BY <1>5, <1>6, <1>7, <1>8, <1>9, <1>10 DEF PromGood

(* A metric that is registered keeps it. *)
LEMMA PromRegisters ==
    ASSUME PromGood(state), NEW m, Prometheus!Register(m) PROVE PromGood(state')
  <1>1. /\ \A other \in state.registered :
              Prometheus!ExpositionNames(other) \cap Prometheus!ExpositionNames(m) = {}
        /\ state' = [state EXCEPT !.registered = @ \cup {m}]
    BY DEF Prometheus!Register
  <1>2. /\ PromRecord(state) /\ CountsGood(state) /\ RegisteredGood(state.registered)
        /\ FlightGood(state.inFlight, state.write, state.lost)
        /\ DurationsGood(state.durations, state.measured)
    BY DEF PromGood
  <1>3. PromRecord(state') /\ state'.registered = state.registered \cup {m}
    BY <1>1, <1>2 DEF PromRecord
  <1>4. SameCounts(state, state')
    BY <1>1, <1>2 DEF PromRecord, SameCounts, Olds
  <1>5. SameWrites(state, state')
    BY <1>1, <1>2 DEF PromRecord, SameWrites
  <1>6. RegisteredGood(state'.registered)
    BY <1>1, <1>2, <1>3 DEF RegisteredGood
  <1>7. CountsGood(state')
    BY <1>2, <1>4 DEF CountsGood, SameCounts
  <1> QED
    BY <1>2, <1>3, <1>5, <1>6, <1>7 DEF PromGood, SameWrites

(* A record that is counted keeps it. *)
LEMMA PromCounts ==
    ASSUME PromGood(state), NEW level, NEW traced \in BOOLEAN,
           NEW isError \in BOOLEAN, Prometheus!CountsRecord(level, traced, isError)
    PROVE  PromGood(state')
  <1>1. /\ PromRecord(state) /\ CountsGood(state) /\ RegisteredGood(state.registered)
        /\ FlightGood(state.inFlight, state.write, state.lost)
        /\ DurationsGood(state.durations, state.measured)
    BY DEF PromGood
  <1>2. /\ PromRecord(state') /\ CountsGood(state') /\ SameWrites(state, state')
        /\ state'.registered = state.registered
    BY <1>1, CountsRecordKeeps
  <1> QED
    BY <1>1, <1>2 DEF PromGood, SameWrites

(* What a step of a write leaves of the rest. *)
SameRest(x, y) == SameCounts(x, y) /\ y.registered = x.registered
(* The invariant, from what a write may change. *)
LEMMA PromWrites ==
    ASSUME NEW x, NEW y, PromGood(x), PromRecord(y), SameRest(x, y),
           FlightGood(y.inFlight, y.write, y.lost), DurationsGood(y.durations, y.measured)
    PROVE  PromGood(y)
  <1>1. CountsGood(x) /\ RegisteredGood(x.registered)
    BY DEF PromGood
  <1>2. SameCounts(x, y) /\ y.registered = x.registered
    BY DEF SameRest
  <1>3. CountsGood(y)
    BY <1>1, <1>2 DEF CountsGood, SameCounts
  <1> QED
    BY <1>1, <1>2, <1>3 DEF PromGood

(* A write that begins keeps it. *)
LEMMA PromBegins ==
    ASSUME PromGood(state), NEW w \in MtWrites, NEW t \in MtLabels, NEW failing,
           Prometheus!WriteBegins(w, t, failing)
    PROVE  PromGood(state')
  <1> DEFINE k == [at |-> "writing", transport |-> t, counted |-> "gauge" \notin failing,
                   started |-> "clock" \notin failing]
             to == [state.write EXCEPT ![w] = k]
             broken == "gauge" \in failing
             n == [state EXCEPT !.write = to].faults + Prometheus!Cardinality(failing)
             x == [[state EXCEPT !.write = to] EXCEPT !.faults = n]
  <1>1. /\ state.write[w].at = "new"
        /\ \/ broken /\ state' = x
           \/ ~broken /\ state' = [x EXCEPT !.inFlight = Prometheus!Inc(@, t, 1)]
    BY DEF Prometheus!WriteBegins, Prometheus!Spend
  <1>2. k \in WriteStates /\ (k.counted <=> ~broken) /\ k.at = "writing" /\ k.transport = t
    BY DEF WriteStates
  <1>3. PromRecord(state) /\ FlightGood(state.inFlight, state.write, state.lost)
        /\ DurationsGood(state.durations, state.measured)
    BY DEF PromGood
  <1> DEFINE y == state'
             g == Prometheus!Inc(state.inFlight, t, 1)
  <1> HIDE DEF k
  <1>4. PICK z : z = to
    OBVIOUS
  <1>7. PICK m : m = n
    OBVIOUS
  <1>5. CASE broken /\ state' = x
    <2>1. y = [[state EXCEPT !.write = z] EXCEPT !.faults = m]
      BY <1>4, <1>5, <1>7
    <2> HIDE DEF to, y, n, broken
    <2>2. /\ PromRecord(y) /\ y.inFlight = state.inFlight /\ y.write = z /\ y.lost = state.lost
          /\ y.durations = state.durations /\ y.measured = state.measured
          /\ y.registered = state.registered
      BY <1>3, <2>1 DEF PromRecord
    <2>3. SameCounts(state, y)
      BY <1>3, <2>1 DEF PromRecord, SameCounts, Olds
    <2>4. FlightGood(state.inFlight, z, state.lost)
      BY <1>1, <1>2, <1>3, <1>4, <1>5, BeginsUncounted DEF to
    <2>5. FlightGood(y.inFlight, y.write, y.lost) /\ DurationsGood(y.durations, y.measured)
      BY <1>3, <2>2, <2>4
    <2>6. PromGood(y)
      BY <2>2, <2>3, <2>5, PromWrites DEF SameRest
    <2> QED
      BY <2>6 DEF y
  <1>6. CASE ~broken /\ state' = [x EXCEPT !.inFlight = Prometheus!Inc(@, t, 1)]
    <2>1. y = [[[state EXCEPT !.write = z] EXCEPT !.faults = m] EXCEPT !.inFlight = Prometheus!Inc(@, t, 1)]
      BY <1>4, <1>6, <1>7
    <2> HIDE DEF to, y, n, broken
    <2>2. PICK f : f = g
      OBVIOUS
    <2>3. y = [[[state EXCEPT !.write = z] EXCEPT !.faults = m] EXCEPT !.inFlight = f]
      BY <1>3, <2>1, <2>2 DEF PromRecord
    <2>4. /\ PromRecord(y) /\ y.inFlight = f /\ y.write = z /\ y.lost = state.lost
          /\ y.durations = state.durations /\ y.measured = state.measured
          /\ y.registered = state.registered
      BY <1>3, <2>3 DEF PromRecord
    <2>5. SameCounts(state, y)
      BY <1>3, <2>3 DEF PromRecord, SameCounts, Olds
    <2>6. FlightGood(f, z, state.lost)
      BY <1>1, <1>2, <1>3, <1>4, <1>6, <2>2, BeginsCounted DEF to
    <2>7. FlightGood(y.inFlight, y.write, y.lost) /\ DurationsGood(y.durations, y.measured)
      BY <1>3, <2>4, <2>6
    <2>8. PromGood(y)
      BY <2>4, <2>5, <2>7, PromWrites DEF SameRest
    <2> QED
      BY <2>8 DEF y
  <1> QED
    BY <1>1, <1>5, <1>6

(* A write that settles keeps it. *)
LEMMA PromSettles ==
    ASSUME PromGood(state), NEW w \in MtWrites, NEW o \in {"success", "failure"},
           NEW v \in Nat, NEW failing, Prometheus!WriteSettles(w, o, v, failing)
    PROVE  PromGood(state')
  <1> DEFINE k == state.write[w]
             to == [state.write EXCEPT ![w].at = o]
             out == [state.outcomes EXCEPT ![o] = @ + 1]
             broken == "gauge" \in failing
             n == [state EXCEPT !.write = to, !.outcomes = out].faults + Prometheus!Cardinality(failing)
             x == [[state EXCEPT !.write = to, !.outcomes = out] EXCEPT !.faults = n]
             y == IF ~k.counted THEN x
                  ELSE IF broken THEN [x EXCEPT !.lost = @ + 1]
                  ELSE [x EXCEPT !.inFlight = Prometheus!Inc(@, k.transport, -1)]
  <1>1. /\ k.at = "writing"
        /\ state' = IF ~k.started \/ "clock" \in failing THEN y
                    ELSE [y EXCEPT !.durations = Prometheus!Observe(@, k.transport, v),
                                   !.measured = @ + 1]
    BY DEF Prometheus!WriteSettles, Prometheus!Spend
  <1>2. /\ PromRecord(state) /\ FlightGood(state.inFlight, state.write, state.lost)
        /\ DurationsGood(state.durations, state.measured) /\ state.write \in [MtWrites -> WriteStates]
    BY DEF PromGood, FlightGood
  <1>3. Settled(state.write, to, w)
    <2>1. state.write[w] \in WriteStates
      BY <1>2
    <2>2. to[w] = [state.write[w] EXCEPT !.at = o] /\ \A u \in MtWrites : u # w => to[u] = state.write[u]
      BY <1>2
    <2>3. [state.write[w] EXCEPT !.at = o] \in WriteStates
      BY <2>1 DEF WriteStates
    <2>4. /\ [state.write[w] EXCEPT !.at = o].at = o
          /\ [state.write[w] EXCEPT !.at = o].transport = state.write[w].transport
      BY <2>1 DEF WriteStates
    <2>5. to = [state.write EXCEPT ![w] = [state.write[w] EXCEPT !.at = o]]
      OBVIOUS
    <2>6. to \in [MtWrites -> WriteStates]
      BY <1>2, <2>3, <2>5
    <2> QED
      BY <2>2, <2>4, <2>6 DEF Settled
  <1> HIDE DEF to, out, n, broken
  <1>4. /\ PromRecord(x) /\ x.write = to /\ x.inFlight = state.inFlight /\ x.lost = state.lost
        /\ x.durations = state.durations /\ x.measured = state.measured
        /\ SameRest(state, x)
    <2>1. PICK z : z = x
      OBVIOUS
    <2>2. z = [[state EXCEPT !.write = to, !.outcomes = out] EXCEPT !.faults = n]
      BY <2>1
    <2> HIDE DEF x
    <2>3. /\ PromRecord(z) /\ z.write = to /\ z.inFlight = state.inFlight /\ z.lost = state.lost
          /\ z.durations = state.durations /\ z.measured = state.measured
          /\ z.registered = state.registered
      BY <1>2, <2>2 DEF PromRecord
    <2>4. SameCounts(state, z)
      BY <1>2, <2>2 DEF PromRecord, SameCounts, Olds
    <2> QED
      BY <2>1, <2>3, <2>4 DEF SameRest
  <1> HIDE DEF x, k
  <1>5. /\ PromRecord(y) /\ FlightGood(y.inFlight, y.write, y.lost)
        /\ y.durations = state.durations /\ y.measured = state.measured
        /\ SameRest(state, y)
    <2>1. CASE ~k.counted
      <3>1. y = x
        BY <2>1
      <3> HIDE DEF y
      <3>2. FlightGood(state.inFlight, to, state.lost)
        BY <1>2, <1>3, <2>1, SettlesUncounted DEF k
      <3> QED
        BY <1>4, <3>1, <3>2
    <2>2. CASE k.counted /\ broken
      <3>1. y = [x EXCEPT !.lost = @ + 1]
        BY <2>2
      <3> HIDE DEF y
      <3>2. FlightGood(state.inFlight, to, state.lost + 1)
        BY <1>1, <1>2, <1>3, <2>2, SettlesLost DEF k
      <3>3. /\ PromRecord(y) /\ y.write = x.write /\ y.inFlight = x.inFlight /\ y.lost = x.lost + 1
            /\ y.durations = x.durations /\ y.measured = x.measured
            /\ y.registered = x.registered
        BY <1>4, <3>1 DEF PromRecord
      <3>4. SameCounts(x, y)
        BY <1>4, <3>1 DEF PromRecord, SameCounts, Olds
      <3> QED
        BY <1>4, <3>2, <3>3, <3>4 DEF SameRest, SameCounts
    <2>3. CASE k.counted /\ ~broken
      <3>1. y = [x EXCEPT !.inFlight = Prometheus!Inc(@, k.transport, -1)]
        BY <2>3
      <3> HIDE DEF y
      <3>2. PICK f : f = Prometheus!Inc(state.inFlight, k.transport, -1)
        OBVIOUS
      <3>3. y = [x EXCEPT !.inFlight = f]
        BY <1>4, <3>1, <3>2
      <3>4. FlightGood(f, to, state.lost)
        BY <1>1, <1>2, <1>3, <2>3, <3>2, SettlesCounted DEF k
      <3>5. /\ PromRecord(y) /\ y.write = x.write /\ y.inFlight = f /\ y.lost = x.lost
            /\ y.durations = x.durations /\ y.measured = x.measured
            /\ y.registered = x.registered
        BY <1>4, <3>3 DEF PromRecord
      <3>6. SameCounts(x, y)
        BY <1>4, <3>3 DEF PromRecord, SameCounts, Olds
      <3> QED
        BY <1>4, <3>4, <3>5, <3>6 DEF SameRest, SameCounts
    <2> QED
      BY <2>1, <2>2, <2>3
  <1> HIDE DEF y
  <1>6. PromGood(y)
    BY <1>2, <1>5, PromWrites
  <1>7. CASE ~k.started \/ "clock" \in failing
    BY <1>1, <1>6, <1>7
  <1>8. CASE ~(~k.started \/ "clock" \in failing)
    <2>1. PICK d : d = Prometheus!Observe(state.durations, k.transport, v)
      OBVIOUS
    <2>2. state' = [y EXCEPT !.durations = d, !.measured = @ + 1]
      BY <1>1, <1>5, <1>8, <2>1
    <2>3. DurationsGood(d, state.measured + 1)
      BY <1>2, <2>1, DurationObserved
    <2> DEFINE z == state'
    <2>4. z = [y EXCEPT !.durations = d, !.measured = @ + 1]
      BY <2>2
    <2> HIDE DEF z
    <2>5. /\ PromRecord(z) /\ z.durations = d /\ z.measured = y.measured + 1
          /\ z.inFlight = y.inFlight /\ z.write = y.write /\ z.lost = y.lost
          /\ z.registered = y.registered
      BY <1>5, <2>4 DEF PromRecord
    <2>6. SameCounts(y, z)
      BY <1>5, <2>4 DEF PromRecord, SameCounts, Olds
    <2>7. DurationsGood(z.durations, z.measured) /\ FlightGood(z.inFlight, z.write, z.lost)
      BY <1>5, <2>3, <2>5
    <2>8. PromGood(z)
      BY <1>6, <2>5, <2>6, <2>7, PromWrites DEF SameRest
    <2> QED
      BY <2>8 DEF z
  <1> QED
    BY <1>7, <1>8

(* Every step of the metrics keeps it. *)
LEMMA PromStep == PromGood(state) /\ Prometheus!MtNext => PromGood(state')
  <1> SUFFICES ASSUME PromGood(state), Prometheus!MtNext PROVE PromGood(state')
    OBVIOUS
  <1>1. ASSUME NEW w \in MtWrites, NEW o \in {"success", "failure"}, NEW d \in MtDurations,
               NEW f, Prometheus!WriteSettles(w, o, d, f)
        PROVE  PromGood(state')
    <2>1. d \in Nat
      BY Limits
    <2> QED
      BY <1>1, <2>1, PromSettles
  <1> QED
    BY <1>1, PromRegisters, PromBegins, PromCounts DEF Prometheus!MtNext

(* The invariant says what the metrics promise. *)
LEMMA PromHolds ==
    PromGood(state) => /\ Prometheus!SeriesAreBounded /\ Prometheus!InFlightIsExact
                       /\ Prometheus!BucketsAreCumulative /\ Prometheus!OneFamilyPerName
  <1> SUFFICES ASSUME PromGood(state)
               PROVE  /\ Prometheus!SeriesAreBounded /\ Prometheus!InFlightIsExact
                      /\ Prometheus!BucketsAreCumulative /\ Prometheus!OneFamilyPerName
    OBVIOUS
  <1>1. /\ CountsGood(state) /\ RegisteredGood(state.registered)
        /\ FlightGood(state.inFlight, state.write, state.lost)
        /\ DurationsGood(state.durations, state.measured)
    BY DEF PromGood
  <1>2. Prometheus!SeriesAreBounded
    <2>1. \A m \in Olds : CountGood(state[m], state.dropped[m], state.seen[m])
      BY <1>1 DEF CountsGood
    <2>2. \A m \in Olds : Cardinality(DOMAIN state[m]) <= MtMaxSeries
      BY <2>1 DEF CountGood
    <2>3. \A m \in Olds : Cardinality(Cells(state[m])) + state.dropped[m] = state.seen[m]
      BY <2>1 DEF CountGood
    <2>4. SlotsGood(state.inFlight) /\ SlotsGood(state.durations)
      BY <1>1 DEF FlightGood, DurationsGood
    <2>5. /\ Cardinality(DOMAIN state["inFlight"]) <= MtMaxSeries
          /\ Cardinality(DOMAIN state["durations"]) <= MtMaxSeries
      BY <2>4, SlotsBounded
    <2>6. Prometheus!Total([l \in DOMAIN state.durations |-> state.durations[l].count]) = state.measured
      BY <1>1, TotalsAre DEF DurationsGood, Counts
    <2>7. \A m \in Olds : Prometheus!Total(state[m]) + state.dropped[m] = state.seen[m]
      BY <2>3, TotalsAre
    <2> QED
      BY <2>2, <2>5, <2>6, <2>7
      DEF Prometheus!SeriesAreBounded, Prometheus!Prefixed, Olds, Cardinality, Prometheus!Cardinality
  <1>3. Prometheus!InFlightIsExact
    <2>1. /\ Cardinality(Cells(state.inFlight)) = Cardinality(UnderWay(state.write)) + state.lost
          /\ \A l \in DOMAIN state.inFlight : state.inFlight[l] \in Nat
      BY <1>1 DEF FlightGood
    <2>2. Prometheus!Under = UnderWay(state.write)
      BY DEF Prometheus!Under, UnderWay
    <2>3. Prometheus!Total(state.inFlight) = Cardinality(Prometheus!Under) + state.lost
      BY <2>1, <2>2, TotalsAre
    <2>4. \A l \in DOMAIN state.inFlight : state.inFlight[l] >= 0
      BY <2>1
    <2> QED
      BY <2>3, <2>4 DEF Prometheus!InFlightIsExact, Cardinality, Prometheus!Cardinality
  <1>4. Prometheus!BucketsAreCumulative
    BY <1>1, BucketsAre DEF DurationsGood, HistogramGood, Prometheus!BucketsAreCumulative
  <1>5. Prometheus!OneFamilyPerName
    BY <1>1 DEF RegisteredGood, Prometheus!OneFamilyPerName
  <1> QED
    BY <1>2, <1>3, <1>4, <1>5

(***************************************************************************)
(* The levels of a serialization                                           *)
(***************************************************************************)
(* What the steps of a serialization give, level by level from its limit.   *)
SeAt(g, at) ==
    at = [room \in 0..g.maxDepth |->
            [c \in Serializer!Nodes \X SUBSET Serializer!Nodes |->
                Serializer!SerializeValue(g, IF room = 0 THEN <<>> ELSE at[room - 1], c[1], c[2],
                                          g.maxDepth - room)]]

(* The levels of serialize exist: a value at each depth that is left. *)
LEMMA SeExists ==
    ASSUME NEW g, g.maxDepth \in Nat
    PROVE  \E at : SeAt(g, at)
  <1> DEFINE D == g.maxDepth
             Row(inner, room) ==
                [c \in Serializer!Nodes \X SUBSET Serializer!Nodes |->
                    Serializer!SerializeValue(g, inner, c[1], c[2], D - room)]
             Rows(f, k) == [room \in 0..k |-> Row(IF room = 0 THEN <<>> ELSE f[room - 1], room)]
             T == {k \in Nat : \E f : f = Rows(f, k)}
  <1>1. 0 \in T
    <2> DEFINE f == [room \in 0..0 |-> Row(<<>>, room)]
    <2> HIDE DEF Row
    <2>1. f = Rows(f, 0)
      OBVIOUS
    <2> QED
      BY <2>1
  <1>2. ASSUME NEW k \in Nat, k \in T PROVE k + 1 \in T
    <2>1. PICK f : f = Rows(f, k)
      BY <1>2
    <2> DEFINE last == Row(f[k], k + 1)
               h == [room \in 0..(k + 1) |-> IF room = k + 1 THEN last ELSE f[room]]
    <2> HIDE DEF Row
    <2>2. ASSUME NEW room \in 0..(k + 1)
          PROVE  h[room] = Row(IF room = 0 THEN <<>> ELSE h[room - 1], room)
      <3>1. CASE room = k + 1
        <4>1. room # 0 /\ room - 1 \in 0..k /\ room - 1 \in 0..(k + 1) /\ room - 1 # k + 1 /\ room - 1 = k
          BY <3>1
        <4>2. h[room - 1] = f[k] /\ h[room] = last
          BY <3>1, <4>1
        <4> HIDE DEF h
        <4> QED
          BY <3>1, <4>1, <4>2
      <3>2. CASE room # k + 1
        <4>1. room \in 0..k /\ h[room] = f[room]
          BY <3>2
        <4>2. f[room] = Row(IF room = 0 THEN <<>> ELSE f[room - 1], room)
          <5> DEFINE w == Rows(f, k)
          <5>1. \A i \in 0..k : w[i] = Row(IF i = 0 THEN <<>> ELSE f[i - 1], i)
            OBVIOUS
          <5> HIDE DEF w
          <5>2. w[room] = Row(IF room = 0 THEN <<>> ELSE f[room - 1], room)
            BY <4>1, <5>1
          <5>3. w = f
            BY <2>1 DEF w
          <5> QED
            BY <5>2, <5>3
        <4>3. CASE room = 0
          BY <4>1, <4>2, <4>3
        <4>4. CASE room # 0
          <5>1. room - 1 \in 0..(k + 1) /\ room - 1 # k + 1
            BY <4>1, <4>4
          <5>2. h[room - 1] = f[room - 1]
            BY <5>1
          <5> HIDE DEF h
          <5> QED
            BY <4>1, <4>2, <4>4, <5>2
        <4> QED
          BY <4>3, <4>4
      <3> QED
        BY <3>1, <3>2
    <2>3. h = Rows(h, k + 1)
      <3> DEFINE w == Rows(h, k + 1)
      <3>1. \A room \in 0..(k + 1) : w[room] = Row(IF room = 0 THEN <<>> ELSE h[room - 1], room)
        OBVIOUS
      <3>2. w = [room \in 0..(k + 1) |-> w[room]] /\ h = [room \in 0..(k + 1) |-> h[room]]
        OBVIOUS
      <3> HIDE DEF w, h
      <3>3. w = h
        BY <2>2, <3>1, <3>2
      <3> QED
        BY <3>3 DEF w
    <2> HIDE DEF h, Rows
    <2> QED
      BY <2>3
  <1>3. Nat \subseteq T
    <2> HIDE DEF T
    <2> QED
      BY <1>1, <1>2, SetInduction
  <1>4. PICK at : at = Rows(at, D)
    <2> HIDE DEF Rows
    <2> QED
      BY <1>3
  <1> QED
    BY <1>4 DEF SeAt

(* The serialization of a value is made by such steps.                      *)
LEMMA SeMade ==
    ASSUME NEW g, g.maxDepth \in Nat, NEW n
    PROVE  \E at : SeAt(g, at) /\ Serializer!SerializeIt(g, n) = at[g.maxDepth][<<n, {}>>]
  <1> DEFINE at == CHOOSE f : SeAt(g, f)
  <1>1. SeAt(g, at)
    BY SeExists
  <1>2. Serializer!SerializeIt(g, n) = at[g.maxDepth][<<n, {}>>]
    BY DEF Serializer!SerializeIt, SeAt
  <1> HIDE DEF at
  <1> QED
    BY <1>1, <1>2

(* What each step gives.                                                    *)
LEMMA SeStep ==
    ASSUME NEW g, g.maxDepth \in Nat, NEW at, SeAt(g, at), NEW room \in 0..g.maxDepth,
           NEW m \in Serializer!Nodes, NEW seen \in SUBSET Serializer!Nodes
    PROVE  at[room][<<m, seen>>] =
              Serializer!SerializeValue(g, IF room = 0 THEN <<>> ELSE at[room - 1], m, seen,
                                        g.maxDepth - room)
  <1> DEFINE S == Serializer!Nodes \X SUBSET Serializer!Nodes
             row == [c \in S |-> Serializer!SerializeValue(g, IF room = 0 THEN <<>> ELSE at[room - 1],
                                                           c[1], c[2], g.maxDepth - room)]
  <1>1. at[room] = row
    <2> DEFINE rows == [i \in 0..g.maxDepth |->
                          [c \in S |-> Serializer!SerializeValue(g, IF i = 0 THEN <<>> ELSE at[i - 1],
                                                                 c[1], c[2], g.maxDepth - i)]]
    <2>1. rows[room] = row
      OBVIOUS
    <2>2. at = rows
      BY DEF SeAt
    <2> HIDE DEF rows, row
    <2> QED
      BY <2>1, <2>2
  <1>2. <<m, seen>> \in S /\ <<m, seen>>[1] = m /\ <<m, seen>>[2] = seen
    OBVIOUS
  <1>3. row[<<m, seen>>] = Serializer!SerializeValue(g, IF room = 0 THEN <<>> ELSE at[room - 1], m, seen,
                                                     g.maxDepth - room)
    BY <1>2
  <1> HIDE DEF row
  <1> QED
    BY <1>1, <1>3

(* The levels of a tree.                                                    *)
SeLevels(level, n) ==
    level = [i \in 0..n |-> IF i = 0 THEN {state.out}
                            ELSE UNION {Range(p.items) : p \in level[i - 1]}]

(* The levels of a tree exist. *)
LEMMA SeLevelsExist == ASSUME NEW n \in Nat PROVE \E level : SeLevels(level, n)
  <1> DEFINE Under(l) == UNION {Range(p.items) : p \in l}
             Rows(f, k) == [i \in 0..k |-> IF i = 0 THEN {state.out} ELSE Under(f[i - 1])]
             T == {k \in Nat : \E f : f = Rows(f, k)}
  <1> HIDE DEF Under
  <1>1. 0 \in T
    <2> DEFINE f == [i \in 0..0 |-> {state.out}]
    <2>1. f = Rows(f, 0)
      OBVIOUS
    <2> QED
      BY <2>1
  <1>2. ASSUME NEW k \in Nat, k \in T PROVE k + 1 \in T
    <2>1. PICK f : f = Rows(f, k)
      BY <1>2
    <2> DEFINE last == Under(f[k])
               h == [i \in 0..(k + 1) |-> IF i = k + 1 THEN last ELSE f[i]]
    <2>2. ASSUME NEW i \in 0..(k + 1)
          PROVE  h[i] = IF i = 0 THEN {state.out} ELSE Under(h[i - 1])
      <3>1. CASE i = k + 1
        <4>1. i # 0 /\ i - 1 \in 0..(k + 1) /\ i - 1 # k + 1 /\ i - 1 = k
          BY <3>1
        <4>2. h[i - 1] = f[k] /\ h[i] = last
          BY <3>1, <4>1
        <4> HIDE DEF h
        <4> QED
          BY <4>1, <4>2
      <3>2. CASE i # k + 1
        <4>1. i \in 0..k /\ h[i] = f[i]
          BY <3>2
        <4>2. f[i] = IF i = 0 THEN {state.out} ELSE Under(f[i - 1])
          <5>1. Rows(f, k)[i] = IF i = 0 THEN {state.out} ELSE Under(f[i - 1])
            BY <4>1
          <5> HIDE DEF Rows
          <5> QED
            BY <2>1, <5>1
        <4>3. i # 0 => h[i - 1] = f[i - 1]
          BY <4>1
        <4> HIDE DEF h
        <4> QED
          BY <4>1, <4>2, <4>3
      <3> QED
        BY <3>1, <3>2
    <2>3. h = Rows(h, k + 1)
      <3> DEFINE w == Rows(h, k + 1)
      <3>1. \A i \in 0..(k + 1) : w[i] = IF i = 0 THEN {state.out} ELSE Under(h[i - 1])
        OBVIOUS
      <3>2. w = [i \in 0..(k + 1) |-> w[i]] /\ h = [i \in 0..(k + 1) |-> h[i]]
        OBVIOUS
      <3> HIDE DEF w, h
      <3>3. w = h
        BY <2>2, <3>1, <3>2
      <3> QED
        BY <3>3 DEF w
    <2> HIDE DEF h, Rows
    <2> QED
      BY <2>3
  <1>3. Nat \subseteq T
    <2> HIDE DEF T
    <2> QED
      BY <1>1, <1>2, SetInduction
  <1>4. PICK level : level = Rows(level, n)
    <2> HIDE DEF Rows
    <2> QED
      BY <1>3
  <1> QED
    BY <1>4 DEF SeLevels, Under

(* Each level of the output holds the items of the one above. *)
LEMMA SeLevelsAre ==
    ASSUME state.maxDepth \in Nat
    PROVE  /\ Serializer!Levels[0] = {state.out}
           /\ \A i \in 0..state.maxDepth :
                 Serializer!Levels[i + 1] = UNION {Range(p.items) : p \in Serializer!Levels[i]}
  <1> DEFINE n == state.maxDepth + 1
             Under(l) == UNION {Range(p.items) : p \in l}
             L == Serializer!Levels
             rows == [i \in 0..n |-> IF i = 0 THEN {state.out} ELSE Under(L[i - 1])]
  <1>1. L = CHOOSE level : SeLevels(level, n)
    BY DEF Serializer!Levels, SeLevels, Serializer!Range, Range
  <1>2. SeLevels(L, n)
    <2> HIDE DEF L
    <2>1. n \in Nat
      OBVIOUS
    <2> HIDE DEF n
    <2> QED
      BY <1>1, <2>1, SeLevelsExist
  <1>3. L = rows
    BY <1>2 DEF SeLevels
  <1> HIDE DEF L, Under
  <1>4. rows[0] = {state.out} /\ \A i \in 0..state.maxDepth : rows[i + 1] = Under(L[i])
    <2>1. 0 \in 0..n /\ \A i \in 0..state.maxDepth : i + 1 \in 0..n /\ i + 1 # 0 /\ (i + 1) - 1 = i
      OBVIOUS
    <2> HIDE DEF n
    <2> QED
      BY <2>1
  <1> HIDE DEF rows
  <1> QED
    BY <1>3, <1>4 DEF L, Under

(***************************************************************************)
(* A part of the tree                                                      *)
(***************************************************************************)
SeKinds == Serializer!AtomKinds \cup Serializer!ContainerKinds
SeRefs == [key : {"plain", "secret", "cause"}, to : Serializer!Nodes]
SeGraph(g) ==
    /\ g.maxDepth \in Nat
    /\ g.kind \in [Serializer!Nodes -> SeKinds] /\ \A n \in SzAtoms : g.kind[n] \in Serializer!AtomKinds
    /\ \A n \in SzContainers :
          /\ g.refs[n] \in Seq(SeRefs)
          /\ g.kind[n] \in Serializer!AtomKinds => g.refs[n] = <<>>

Plain == {"text", "truncated", "throws", "circular", "too deep"}
Whole == {"error", "list", "map", "object"}
Shown(g, n) == {g.refs[n][k] : k \in {i \in 1..Len(g.refs[n]) : ~Serializer!ShouldRedact(g, g.refs[n][i])}}

(* What an item of a whole part may be; inner is the serialization of what  *)
(* it refers to.                                                           *)
ItemOf(g, inner, m, seen, q) ==
    /\ q.tag # "throws"
    /\ \/ q.items = <<>> /\ q.tag = "redacted"
       \/ q.items = <<>> /\ q.tag \in {"text", "more"} /\ q.node = m
       \/ \E ref \in Shown(g, m) :
             \/ q = inner[<<ref.to, seen>>]
             \/ q.items = <<>> /\ q.tag = "unserializable" /\ q.node = ref.to

ItemsOf(g, inner, m, seen, tag, items) ==
    /\ \A q \in Range(items) : ItemOf(g, inner, m, seen, q)
    /\ tag \in {"list", "map"} => Len(items) <= SzMaxLength + 1
    /\ tag = "object" => Len(items) <= SzMaxProperties + 1
    /\ tag = "error" => Len(items) <= Len(g.refs[m]) + 1
    /\ (\A q \in Range(items) : q.tag \notin Serializer!Marks) =>
          \A ref \in Shown(g, m) : inner[<<ref.to, seen>>] \in Range(items)

PartOf(g, at, room, m, seen, p) ==
    /\ p.node = m /\ p.tag \in Plain \cup Whole
    /\ p.tag \in Plain => p.items = <<>>
    /\ p.tag = "text" => g.kind[m] \in Serializer!AtomKinds
    /\ p.tag \in Whole =>
          room # 0 /\ m \in SzContainers /\ ItemsOf(g, at[room - 1], m, seen \cup {m}, p.tag, p.items)

(* Entries, as many as the limit lets through.                              *)
EntriesAre(g, inner, m, seen, limit, n, es) ==
    /\ n \in Nat /\ n <= limit /\ n <= Len(g.refs[m]) /\ (Len(g.refs[m]) <= limit => n = Len(g.refs[m]))
    /\ es \in Seq({es[k] : k \in 1..n}) /\ Len(es) = n /\ DOMAIN es = 1..n
    /\ \A k \in 1..n : es[k] = IF Serializer!ShouldRedact(g, g.refs[m][k])
                               THEN Serializer!Mark("redacted", g.refs[m][k].to)
                               ELSE inner[<<g.refs[m][k].to, seen \cup {m}>>]

(* The entries of a container, one for each reference up to the limit. *)
LEMMA SeEntries ==
    ASSUME NEW g, SeGraph(g), NEW inner, NEW m \in SzContainers, NEW seen, NEW limit \in Nat
    PROVE  \E n : EntriesAre(g, inner, m, seen, limit, n, Serializer!Entries(g, inner, m, seen, limit))
  <1> DEFINE refs == g.refs[m]
             n == IF Len(refs) > limit THEN limit ELSE Len(refs)
             entry(k) == IF Serializer!ShouldRedact(g, refs[k]) THEN Serializer!Mark("redacted", refs[k].to)
                         ELSE inner[<<refs[k].to, seen \cup {m}>>]
             es == [k \in 1..n |-> entry(k)]
  <1>1. refs \in Seq(SeRefs)
    BY DEF SeGraph
  <1>2. Len(refs) \in Nat
    <2> HIDE DEF refs
    <2> QED
      BY <1>1, LenProperties
  <1>3. /\ n \in Nat /\ n <= limit /\ n <= Len(refs) /\ (Len(refs) <= limit => n = Len(refs))
    BY <1>2
  <1>4. Serializer!Entries(g, inner, m, seen, limit) = es
    BY DEF Serializer!Entries
  <1> HIDE DEF n, refs, entry
  <1>5. DOMAIN es = 1..n /\ \A k \in 1..n : es[k] = entry(k)
    OBVIOUS
  <1>6. es \in Seq({es[k] : k \in 1..n}) /\ Len(es) = n
    <2> DEFINE S == {es[k] : k \in 1..n}
    <2>1. \A k \in 1..n : es[k] \in S
      OBVIOUS
    <2>2. es = [k \in 1..n |-> es[k]]
      BY <1>5
    <2> HIDE DEF S, es
    <2>3. es \in [1..n -> S]
      BY <2>1, <2>2
    <2> QED
      BY <1>3, <1>5, <2>3, LenProperties DEF S
  <1> HIDE DEF es
  <1>7. EntriesAre(g, inner, m, seen, limit, n, es)
    BY <1>3, <1>5, <1>6 DEF EntriesAre, refs, entry
  <1> QED
    BY <1>4, <1>7

(* The node of a part.                                                      *)
LEMMA SeNode ==
    ASSUME NEW g, SeGraph(g), NEW at, SeAt(g, at), NEW room \in 0..g.maxDepth,
           NEW m \in Serializer!Nodes, NEW seen \in SUBSET Serializer!Nodes
    PROVE  at[room][<<m, seen>>].node = m
  <1> DEFINE inner == IF room = 0 THEN <<>> ELSE at[room - 1]
             p == Serializer!SerializeValue(g, inner, m, seen, g.maxDepth - room)
  <1>1. at[room][<<m, seen>>] = p
    BY SeStep DEF SeGraph
  <1>2. g.kind[m] \in {"short", "long", "thrower", "object", "error", "map", "list"}
    BY DEF SeGraph, SeKinds, Serializer!AtomKinds, Serializer!ContainerKinds
  <1> HIDE DEF inner
  <1>3. p.node = m
    BY <1>2 DEF Serializer!SerializeValue, Serializer!ContainerKinds, Serializer!Mark, Serializer!Out,
                Serializer!Together, Serializer!SerializeError
  <1> HIDE DEF p
  <1> QED
    BY <1>1, <1>3

-----------------------------------------------------------------------------
(* The items of a whole part *)

CappedIs(capped, items, total, limit, n) ==
    /\ DOMAIN capped = 1..Len(capped) /\ Len(capped) \in Nat /\ Len(capped) <= Len(items) + 1
    /\ Range(capped) = Range(items)
                       \cup (IF total > limit THEN {Serializer!Mark("more", n)} ELSE {})

(* A collection under its cap.                                              *)
LEMMA SeCapped ==
    ASSUME NEW items, NEW S, items \in Seq(S), NEW total \in Nat, NEW limit \in Nat, NEW n
    PROVE  CappedIs(Serializer!CapCollection(items, total, limit, n), items, total, limit, n)
  <1> DEFINE mark == Serializer!Mark("more", n)
             q == Append(items, mark)
             capped == Serializer!CapCollection(items, total, limit, n)
  <1>1. capped = IF total > limit THEN q ELSE items
    BY DEF Serializer!CapCollection
  <1>2. DOMAIN items = 1..Len(items) /\ Len(items) \in Nat
    BY LenProperties
  <1>3. items \in Seq(S \cup {mark}) /\ mark \in S \cup {mark}
    <2> HIDE DEF mark
    <2> QED
      OBVIOUS
  <1> HIDE DEF mark
  <1>4. /\ q \in Seq(S \cup {mark}) /\ Len(q) = Len(items) + 1 /\ q[Len(items) + 1] = mark
        /\ \A i \in 1..Len(items) : q[i] = items[i]
    BY <1>3, AppendProperties
  <1> HIDE DEF q, capped
  <1>5. DOMAIN q = 1..Len(q)
    BY <1>4, LenProperties
  <1>6. Range(q) = Range(items) \cup {mark}
    BY <1>2, <1>4, <1>5 DEF Range
  <1>7. CASE total > limit
    BY <1>1, <1>2, <1>4, <1>5, <1>6, <1>7 DEF CappedIs, capped, mark
  <1>8. CASE ~(total > limit)
    BY <1>1, <1>2, <1>8 DEF CappedIs, capped
  <1> QED
    BY <1>7, <1>8

EntryItems(g, inner, m, seen, limit, n, es) ==
    /\ Range(es) = {es[k] : k \in 1..n}
    /\ \A q \in Range(es) : q.tag # "throws" => ItemOf(g, inner, m, seen \cup {m}, q)
    /\ Len(g.refs[m]) <= limit =>
          \A ref \in Shown(g, m) : inner[<<ref.to, seen \cup {m}>>] \in Range(es)

(* What entries are, as items.                                              *)
LEMMA SeEntryItems ==
    ASSUME NEW g, SeGraph(g), NEW inner, NEW m \in SzContainers, NEW seen, NEW limit \in Nat,
           NEW n, NEW es, EntriesAre(g, inner, m, seen, limit, n, es)
    PROVE  EntryItems(g, inner, m, seen, limit, n, es)
  <1>1. /\ n \in Nat /\ n <= Len(g.refs[m]) /\ (Len(g.refs[m]) <= limit => n = Len(g.refs[m]))
        /\ DOMAIN es = 1..n
        /\ \A k \in 1..n : es[k] = IF Serializer!ShouldRedact(g, g.refs[m][k])
                                   THEN Serializer!Mark("redacted", g.refs[m][k].to)
                                   ELSE inner[<<g.refs[m][k].to, seen \cup {m}>>]
    BY DEF EntriesAre
  <1>2. Range(es) = {es[k] : k \in 1..n}
    BY <1>1 DEF Range
  <1>3. Len(g.refs[m]) \in Nat
    BY LenProperties DEF SeGraph
  <1>4. ASSUME NEW k \in 1..n, es[k].tag # "throws" PROVE ItemOf(g, inner, m, seen \cup {m}, es[k])
    <2>1. k \in 1..Len(g.refs[m])
      BY <1>1, <1>3
    <2>2. CASE Serializer!ShouldRedact(g, g.refs[m][k])
      <3>1. es[k] = Serializer!Mark("redacted", g.refs[m][k].to)
        BY <1>1, <2>2
      <3>2. es[k].items = <<>> /\ es[k].tag = "redacted"
        BY <3>1 DEF Serializer!Mark, Serializer!Out
      <3> QED
        BY <1>4, <3>2 DEF ItemOf
    <2>3. CASE ~Serializer!ShouldRedact(g, g.refs[m][k])
      <3>1. es[k] = inner[<<g.refs[m][k].to, seen \cup {m}>>] /\ g.refs[m][k] \in Shown(g, m)
        BY <1>1, <2>1, <2>3 DEF Shown
      <3> QED
        BY <1>4, <3>1 DEF ItemOf
    <2> QED
      BY <2>2, <2>3
  <1>5. ASSUME Len(g.refs[m]) <= limit, NEW ref \in Shown(g, m)
        PROVE  inner[<<ref.to, seen \cup {m}>>] \in Range(es)
    <2>1. PICK k \in 1..Len(g.refs[m]) : ref = g.refs[m][k] /\ ~Serializer!ShouldRedact(g, g.refs[m][k])
      BY DEF Shown
    <2>2. k \in 1..n
      BY <1>1, <1>5
    <2>3. es[k] = inner[<<ref.to, seen \cup {m}>>]
      BY <1>1, <2>1, <2>2
    <2> QED
      BY <1>2, <2>2, <2>3
  <1> QED
    BY <1>2, <1>4, <1>5 DEF EntryItems

(* Items that make a whole part, unless one of them throws.                 *)
ItemsMake(g, inner, m, seen, tag, items) ==
    /\ DOMAIN items = 1..Len(items)
    /\ (\A q \in Range(items) : q.tag # "throws") => ItemsOf(g, inner, m, seen, tag, items)
TogetherIs(g, inner, m, seen, tag, p) ==
    /\ p.node = m /\ p.tag \in {"throws", tag}
    /\ p.tag = "throws" => p.items = <<>>
    /\ p.tag = tag => ItemsOf(g, inner, m, seen, tag, p.items)

(* What is put together is whole, or throws.                                *)
LEMMA SeTogether ==
    ASSUME NEW g, SeGraph(g), NEW inner, NEW m \in SzContainers, NEW seen, NEW tag \in Whole,
           NEW items, ItemsMake(g, inner, m, seen, tag, items)
    PROVE  TogetherIs(g, inner, m, seen, tag, Serializer!Together(m, tag, items))
  <1> DEFINE p == Serializer!Together(m, tag, items)
  <1>1. tag # "throws"
    BY DEF Whole
  <1>2. CASE \E k \in DOMAIN items : items[k].tag = "throws"
    <2>1. p = [tag |-> "throws", node |-> m, items |-> <<>>]
      BY <1>2 DEF Serializer!Together, Serializer!Mark, Serializer!Out
    <2> HIDE DEF p
    <2>2. p.tag = "throws" /\ p.node = m /\ p.items = <<>>
      BY <2>1
    <2> QED
      BY <1>1, <2>2 DEF p, TogetherIs
  <1>3. CASE ~\E k \in DOMAIN items : items[k].tag = "throws"
    <2>1. p = [tag |-> tag, node |-> m, items |-> items]
      BY <1>3 DEF Serializer!Together, Serializer!Out
    <2>2. \A q \in Range(items) : q.tag # "throws"
      BY <1>3 DEF Range
    <2> HIDE DEF p
    <2>3. p.tag = tag /\ p.node = m /\ p.items = items
      BY <2>1
    <2> QED
      BY <1>1, <2>2, <2>3 DEF p, TogetherIs, ItemsMake
  <1> QED
    BY <1>2, <1>3

(* A collection that is capped marks what it leaves out. *)
LEMMA SeCollection ==
    ASSUME NEW g, SeGraph(g), NEW inner, NEW m \in SzContainers, NEW seen, NEW tag \in {"list", "map"},
           NEW items, items = Serializer!CapCollection(Serializer!Entries(g, inner, m, seen, SzMaxLength),
                                                       Len(g.refs[m]), SzMaxLength, m)
    PROVE  ItemsMake(g, inner, m, seen \cup {m}, tag, items)
  <1> DEFINE es == Serializer!Entries(g, inner, m, seen, SzMaxLength)
             total == Len(g.refs[m])
             mark == Serializer!Mark("more", m)
  <1>1. SzMaxLength \in Nat
    BY SerializeAssumption
  <1>2. PICK n : EntriesAre(g, inner, m, seen, SzMaxLength, n, es)
    BY <1>1, SeEntries
  <1>3. /\ Range(es) = {es[k] : k \in 1..n}
        /\ \A q \in Range(es) : q.tag # "throws" => ItemOf(g, inner, m, seen \cup {m}, q)
        /\ total <= SzMaxLength =>
              \A ref \in Shown(g, m) : inner[<<ref.to, seen \cup {m}>>] \in Range(es)
    <2> HIDE DEF es
    <2>1. EntryItems(g, inner, m, seen, SzMaxLength, n, es)
      BY <1>1, <1>2, SeEntryItems
    <2> QED
      BY <2>1 DEF EntryItems
  <1>4. n \in Nat /\ n <= SzMaxLength /\ es \in Seq({es[k] : k \in 1..n}) /\ Len(es) = n
    <2> HIDE DEF es
    <2> QED
      BY <1>2 DEF EntriesAre
  <1>5. total \in Nat
    BY LenProperties DEF SeGraph
  <1> HIDE DEF es, total
  <1>6. /\ DOMAIN items = 1..Len(items) /\ Len(items) \in Nat /\ Len(items) <= Len(es) + 1
        /\ Range(items) = Range(es) \cup (IF total > SzMaxLength THEN {mark} ELSE {})
    <2>1. items = Serializer!CapCollection(es, total, SzMaxLength, m)
      BY DEF es, total
    <2>2. CappedIs(Serializer!CapCollection(es, total, SzMaxLength, m), es, total, SzMaxLength, m)
      BY <1>1, <1>4, <1>5, SeCapped
    <2>3. CappedIs(items, es, total, SzMaxLength, m)
      BY <2>1, <2>2
    <2> QED
      BY <2>3 DEF CappedIs
  <1>7. mark.tag = "more" /\ mark.node = m /\ mark.items = <<>>
    BY DEF Serializer!Mark, Serializer!Out
  <1>8. ItemOf(g, inner, m, seen \cup {m}, mark) /\ "more" \in Serializer!Marks
    <2> HIDE DEF mark
    <2> QED
      BY <1>7 DEF ItemOf, Serializer!Marks
  <1> HIDE DEF mark
  <1>9. Len(items) <= SzMaxLength + 1
    BY <1>1, <1>4, <1>6
  <1>10. total > SzMaxLength \/ total <= SzMaxLength
    BY <1>1, <1>5
  <1> QED
    BY <1>3, <1>6, <1>7, <1>8, <1>9, <1>10 DEF ItemsOf, ItemsMake

(* An error has its text and its own properties. *)
LEMMA SeErrorItems ==
    ASSUME NEW g, SeGraph(g), NEW inner, NEW m \in SzContainers, NEW seen, NEW items,
           items = <<Serializer!Out("text", m, <<>>)>>
                   \o Serializer!Entries(g, inner, m, seen, Len(g.refs[m]))
    PROVE  ItemsMake(g, inner, m, seen \cup {m}, "error", items)
  <1> DEFINE total == Len(g.refs[m])
             es == Serializer!Entries(g, inner, m, seen, total)
             text == Serializer!Out("text", m, <<>>)
  <1>1. total \in Nat
    BY LenProperties DEF SeGraph
  <1>2. PICK n : EntriesAre(g, inner, m, seen, total, n, es)
    BY <1>1, SeEntries
  <1>3. /\ Range(es) = {es[k] : k \in 1..n}
        /\ \A q \in Range(es) : q.tag # "throws" => ItemOf(g, inner, m, seen \cup {m}, q)
        /\ \A ref \in Shown(g, m) : inner[<<ref.to, seen \cup {m}>>] \in Range(es)
    <2>1. total <= total
      BY <1>1
    <2> HIDE DEF es
    <2>2. EntryItems(g, inner, m, seen, total, n, es)
      BY <1>1, <1>2, SeEntryItems
    <2> QED
      BY <2>1, <2>2 DEF EntryItems
  <1>4. es \in Seq({es[k] : k \in 1..n}) /\ Len(es) = n /\ n \in Nat /\ n <= total
    <2> HIDE DEF es, total
    <2> QED
      BY <1>2 DEF EntriesAre
  <1>5. items = <<text>> \o es
    OBVIOUS
  <1>6. text.tag = "text" /\ text.node = m /\ text.items = <<>>
    BY DEF Serializer!Out
  <1> HIDE DEF es, text
  <1> DEFINE X == {es[k] : k \in 1..n} \cup {text}
             S == {es[k] : k \in 1..n}
             first == <<text>>
  <1>7. first \in Seq(X) /\ Range(first) = {text} /\ Len(first) = 1
    <2>1. text \in X
      OBVIOUS
    <2> HIDE DEF X
    <2>2. first \in Seq(X) /\ DOMAIN first = {1} /\ first[1] = text /\ Len(first) = 1
      BY <2>1
    <2> HIDE DEF first
    <2> QED
      BY <2>2 DEF Range
  <1>8. es \in Seq(X)
    <2>1. es \in Seq(S) /\ X = S \cup {text}
      BY <1>4
    <2> HIDE DEF S, X
    <2> QED
      BY <2>1
  <1> HIDE DEF S, X, first
  <1>9. items \in Seq(X) /\ Range(items) = {text} \cup Range(es)
    <2>1. first \o es \in Seq(X) /\ Range(first \o es) = Range(first) \cup Range(es)
      BY <1>7, <1>8, RangeTogether
    <2>2. items = first \o es
      BY <1>5 DEF first
    <2> QED
      BY <1>7, <2>1, <2>2
  <1>10. DOMAIN items = 1..Len(items)
    BY <1>9, LenProperties
  <1>11. ItemOf(g, inner, m, seen \cup {m}, text)
    BY <1>6 DEF ItemOf
  <1>12. Len(items) <= Len(g.refs[m]) + 1
    <2>1. Len(first \o es) = Len(first) + Len(es)
      BY <1>7, <1>8, ConcatProperties
    <2>2. items = first \o es
      BY <1>5 DEF first
    <2> QED
      BY <1>1, <1>4, <1>7, <2>1, <2>2 DEF total
  <1> HIDE DEF total
  <1> QED
    BY <1>3, <1>9, <1>10, <1>11, <1>12 DEF ItemsOf, ItemsMake

(* An object guards its properties, one by one.                             *)
LEMMA SeObjectItems ==
    ASSUME NEW g, SeGraph(g), NEW inner, NEW m \in SzContainers, NEW seen,
           \A ref \in SeRefs : inner[<<ref.to, seen \cup {m}>>].node = ref.to,
           NEW object, object = Serializer!Entries(g, inner, m, seen, SzMaxProperties),
           NEW items, items = Serializer!CapCollection(
                                 [k \in DOMAIN object |-> Serializer!Guarded(object[k])],
                                 Len(g.refs[m]), SzMaxProperties, m)
    PROVE  ItemsOf(g, inner, m, seen \cup {m}, "object", items)
  <1> DEFINE total == Len(g.refs[m])
             mark == Serializer!Mark("more", m)
             es == [k \in DOMAIN object |-> Serializer!Guarded(object[k])]
  <1>1. SzMaxProperties \in Nat
    BY SerializeAssumption
  <1>2. PICK n : EntriesAre(g, inner, m, seen, SzMaxProperties, n, object)
    BY <1>1, SeEntries
  <1>3. /\ Range(object) = {object[k] : k \in 1..n}
        /\ \A q \in Range(object) : q.tag # "throws" => ItemOf(g, inner, m, seen \cup {m}, q)
        /\ total <= SzMaxProperties =>
              \A ref \in Shown(g, m) : inner[<<ref.to, seen \cup {m}>>] \in Range(object)
    <2>1. EntryItems(g, inner, m, seen, SzMaxProperties, n, object)
      BY <1>1, <1>2, SeEntryItems
    <2> QED
      BY <2>1 DEF EntryItems
  <1>4. /\ n \in Nat /\ n <= SzMaxProperties /\ n <= Len(g.refs[m]) /\ DOMAIN object = 1..n
        /\ \A k \in 1..n : object[k] = IF Serializer!ShouldRedact(g, g.refs[m][k])
                                       THEN Serializer!Mark("redacted", g.refs[m][k].to)
                                       ELSE inner[<<g.refs[m][k].to, seen \cup {m}>>]
    BY <1>2 DEF EntriesAre
  <1>5. total \in Nat /\ g.refs[m] \in Seq(SeRefs)
    BY LenProperties DEF SeGraph
  <1>6. /\ DOMAIN es = 1..n
        /\ \A k \in 1..n : es[k] = IF object[k].tag = "throws"
                                   THEN Serializer!Mark("unserializable", object[k].node) ELSE object[k]
    BY <1>4 DEF Serializer!Guarded
  <1>7. es \in Seq({es[k] : k \in 1..n}) /\ Len(es) = n
    <2> DEFINE S == {es[k] : k \in 1..n}
    <2>1. \A k \in 1..n : es[k] \in S
      OBVIOUS
    <2>2. es = [k \in 1..n |-> es[k]]
      BY <1>6
    <2> HIDE DEF S, es
    <2>3. es \in [1..n -> S]
      BY <2>1, <2>2
    <2> QED
      BY <1>4, <1>6, <2>3, LenProperties DEF S
  <1> HIDE DEF es, total
  <1>8. /\ DOMAIN items = 1..Len(items) /\ Len(items) \in Nat /\ Len(items) <= Len(es) + 1
        /\ Range(items) = Range(es) \cup (IF total > SzMaxProperties THEN {mark} ELSE {})
    <2>1. items = Serializer!CapCollection(es, total, SzMaxProperties, m)
      BY DEF es, total
    <2>2. CappedIs(Serializer!CapCollection(es, total, SzMaxProperties, m), es, total, SzMaxProperties, m)
      BY <1>1, <1>5, <1>7, SeCapped
    <2>3. CappedIs(items, es, total, SzMaxProperties, m)
      BY <2>1, <2>2
    <2> QED
      BY <2>3 DEF CappedIs
  <1>9. mark.tag = "more" /\ mark.node = m /\ mark.items = <<>>
    BY DEF Serializer!Mark, Serializer!Out
  <1>10. ItemOf(g, inner, m, seen \cup {m}, mark) /\ "more" \in Serializer!Marks
    <2> HIDE DEF mark
    <2> QED
      BY <1>9 DEF ItemOf, Serializer!Marks
  <1> HIDE DEF mark
  <1>11. Len(items) <= SzMaxProperties + 1
    BY <1>1, <1>4, <1>7, <1>8
  <1>12. Range(es) = {es[k] : k \in 1..n}
    BY <1>6 DEF Range
  <1>13. ASSUME NEW k \in 1..n PROVE ItemOf(g, inner, m, seen \cup {m}, es[k])
    <2>1. CASE object[k].tag # "throws"
      <3>1. es[k] = object[k] /\ object[k] \in Range(object)
        BY <1>3, <1>6, <2>1
      <3> QED
        BY <1>3, <2>1, <3>1
    <2>2. CASE object[k].tag = "throws"
      <3>1. k \in 1..Len(g.refs[m]) /\ g.refs[m][k] \in SeRefs
        <4>1. k \in 1..Len(g.refs[m])
          BY <1>4, <1>5 DEF total
        <4> QED
          BY <1>5, <4>1
      <3>2. ~Serializer!ShouldRedact(g, g.refs[m][k])
        <4>1. Serializer!Mark("redacted", g.refs[m][k].to).tag = "redacted"
          BY DEF Serializer!Mark, Serializer!Out
        <4> QED
          BY <1>4, <2>2, <4>1
      <3>3. object[k].node = g.refs[m][k].to /\ g.refs[m][k] \in Shown(g, m)
        BY <1>4, <3>1, <3>2 DEF Shown
      <3>4. es[k] = [tag |-> "unserializable", node |-> g.refs[m][k].to, items |-> <<>>]
        BY <1>6, <2>2, <3>3 DEF Serializer!Mark, Serializer!Out
      <3>5. es[k].tag = "unserializable" /\ es[k].node = g.refs[m][k].to /\ es[k].items = <<>>
        BY <3>4
      <3> QED
        BY <3>3, <3>5 DEF ItemOf
    <2> QED
      BY <2>1, <2>2
  <1>14. ASSUME \A q \in Range(items) : q.tag \notin Serializer!Marks, NEW ref \in Shown(g, m)
         PROVE  inner[<<ref.to, seen \cup {m}>>] \in Range(items)
    <2>1. total <= SzMaxProperties
      <3>1. CASE total > SzMaxProperties
        <4>1. mark \in Range(items)
          BY <1>8, <3>1
        <4> QED
          BY <1>9, <1>10, <1>14, <4>1
      <3> QED
        BY <1>1, <1>5, <3>1
    <2>2. PICK k \in 1..n : object[k] = inner[<<ref.to, seen \cup {m}>>]
      BY <1>3, <2>1
    <2>3. es[k] \in Range(items)
      BY <1>8, <1>12
    <2>4. es[k] = object[k]
      <3>1. es[k].tag # "unserializable"
        BY <1>14, <2>3 DEF Serializer!Marks
      <3>2. Serializer!Mark("unserializable", object[k].node).tag = "unserializable"
        BY DEF Serializer!Mark, Serializer!Out
      <3> QED
        BY <1>6, <3>1, <3>2
    <2> QED
      BY <2>2, <2>3, <2>4
  <1> QED
    BY <1>8, <1>10, <1>11, <1>12, <1>13, <1>14 DEF ItemsOf

-----------------------------------------------------------------------------
(* What serialize gives at each level.                                      *)
LEMMA SePart ==
    ASSUME NEW g, SeGraph(g), NEW at, SeAt(g, at), NEW room \in 0..g.maxDepth,
           NEW m \in Serializer!Nodes, NEW seen \in SUBSET Serializer!Nodes
    PROVE  PartOf(g, at, room, m, seen, at[room][<<m, seen>>])
  <1> DEFINE inner == IF room = 0 THEN <<>> ELSE at[room - 1]
             depth == g.maxDepth - room
             p == at[room][<<m, seen>>]
             kind == g.kind[m]
  <1>1. p = Serializer!SerializeValue(g, inner, m, seen, depth) /\ g.maxDepth \in Nat
    BY SeStep DEF SeGraph
  <1>2. kind \in {"short", "long", "thrower", "object", "error", "map", "list"}
    BY DEF SeGraph, SeKinds, Serializer!AtomKinds, Serializer!ContainerKinds
  <1> SUFFICES PartOf(g, at, room, m, seen, p)
    OBVIOUS
  <1> HIDE DEF inner, p
  <1>3. ASSUME p.tag \in Plain, p.node = m, p.items = <<>>,
               p.tag = "text" => kind \in Serializer!AtomKinds
        PROVE  PartOf(g, at, room, m, seen, p)
    <2>1. p.tag \notin Whole
      BY <1>3 DEF Plain, Whole
    <2> QED
      BY <1>3, <2>1 DEF PartOf
  <1>4. CASE kind \in {"short", "long", "thrower"}
    <2>1. p = [tag |-> IF kind = "short" THEN "text"
                       ELSE IF kind = "long" THEN "truncated" ELSE "throws",
               node |-> m, items |-> <<>>]
      <3>1. CASE kind = "short"
        BY <1>1, <3>1
           DEF Serializer!SerializeValue, Serializer!Mark, Serializer!Out, Serializer!ContainerKinds
      <3>2. CASE kind = "long"
        BY <1>1, <3>2
           DEF Serializer!SerializeValue, Serializer!Mark, Serializer!Out, Serializer!ContainerKinds
      <3>3. CASE kind = "thrower"
        BY <1>1, <3>3
           DEF Serializer!SerializeValue, Serializer!Mark, Serializer!Out, Serializer!ContainerKinds
      <3> QED
        BY <1>4, <3>1, <3>2, <3>3
    <2>2. p.node = m /\ p.items = <<>>
          /\ p.tag = IF kind = "short" THEN "text" ELSE IF kind = "long" THEN "truncated" ELSE "throws"
      BY <2>1
    <2>3. p.tag \in Plain /\ kind \in Serializer!AtomKinds
      BY <1>4, <2>2 DEF Plain, Serializer!AtomKinds
    <2> QED
      BY <1>3, <2>2, <2>3
  <1>5. CASE kind \in {"object", "error", "map", "list"}
    <2>1. kind \in Serializer!ContainerKinds /\ kind \notin {"short", "long", "thrower"}
      BY <1>5 DEF Serializer!ContainerKinds
    <2>2. m \in SzContainers
      BY <2>1 DEF SeGraph, Serializer!Nodes, Serializer!AtomKinds
    <2>3. CASE m \in seen
      <3>1. p = [tag |-> "circular", node |-> m, items |-> <<>>]
        BY <1>1, <2>1, <2>3 DEF Serializer!SerializeValue, Serializer!Mark, Serializer!Out
      <3>2. p.tag \in Plain /\ p.node = m /\ p.items = <<>> /\ p.tag # "text"
        BY <3>1 DEF Plain
      <3> QED
        BY <1>3, <3>2
    <2>4. CASE m \notin seen /\ depth >= g.maxDepth
      <3>1. p = [tag |-> "too deep", node |-> m, items |-> <<>>]
        BY <1>1, <2>1, <2>4 DEF Serializer!SerializeValue, Serializer!Mark, Serializer!Out
      <3>2. p.tag \in Plain /\ p.node = m /\ p.items = <<>> /\ p.tag # "text"
        BY <3>1 DEF Plain
      <3> QED
        BY <1>3, <3>2
    <2>5. CASE m \notin seen /\ ~(depth >= g.maxDepth)
      <3>1. room # 0 /\ room - 1 \in 0..g.maxDepth
        BY <1>1, <2>5
      <3>2. inner = at[room - 1]
        BY <3>1 DEF inner
      <3>3. CASE kind = "error"
        <4> DEFINE items == <<Serializer!Out("text", m, <<>>)>>
                            \o Serializer!Entries(g, inner, m, seen, Len(g.refs[m]))
        <4>1. p = Serializer!Together(m, "error", items)
          BY <1>1, <2>1, <2>5, <3>3 DEF Serializer!SerializeValue, Serializer!SerializeError
        <4>2. ItemsMake(g, inner, m, seen \cup {m}, "error", items)
          BY <2>2, SeErrorItems
        <4> HIDE DEF items
        <4>3. "error" \in Whole /\ "throws" \in Plain /\ "error" \notin Plain /\ "throws" \notin Whole
          BY DEF Whole, Plain
        <4>4. /\ p.node = m /\ p.tag \in {"throws", "error"}
              /\ p.tag = "throws" => p.items = <<>>
              /\ p.tag = "error" => ItemsOf(g, inner, m, seen \cup {m}, "error", p.items)
          <5>1. TogetherIs(g, inner, m, seen \cup {m}, "error", Serializer!Together(m, "error", items))
            BY <2>2, <4>2, <4>3, SeTogether
          <5>2. TogetherIs(g, inner, m, seen \cup {m}, "error", p)
            BY <4>1, <5>1
          <5> QED
            BY <5>2 DEF TogetherIs
        <4>5. CASE p.tag = "error"
          <5>1. ItemsOf(g, at[room - 1], m, seen \cup {m}, p.tag, p.items)
            BY <3>2, <4>4, <4>5
          <5> QED
            BY <2>2, <3>1, <4>3, <4>4, <4>5, <5>1 DEF PartOf
        <4>6. CASE p.tag = "throws"
          BY <4>3, <4>4, <4>6 DEF PartOf
        <4> QED
          BY <4>4, <4>5, <4>6
      <3>4. CASE kind \in {"list", "map"}
        <4>1. PICK tag \in {"list", "map"} : tag = kind
          BY <3>4
        <4> DEFINE items == Serializer!CapCollection(Serializer!Entries(g, inner, m, seen, SzMaxLength),
                                                     Len(g.refs[m]), SzMaxLength, m)
        <4>2. p = Serializer!Together(m, tag, items)
          BY <1>1, <2>1, <2>5, <3>4, <4>1 DEF Serializer!SerializeValue
        <4>3. ItemsMake(g, inner, m, seen \cup {m}, tag, items)
          <5>1. PICK list : list = items
            OBVIOUS
          <5>2. ItemsMake(g, inner, m, seen \cup {m}, tag, list)
            <6>1. tag \in {"list", "map"}
              BY <4>1
            <6>2. list = Serializer!CapCollection(Serializer!Entries(g, inner, m, seen, SzMaxLength),
                                                  Len(g.refs[m]), SzMaxLength, m)
              BY <5>1
            <6> HIDE DEF items, kind
            <6>3. CASE tag = "list"
              BY <2>2, <6>2, <6>3, SeCollection
            <6>4. CASE tag = "map"
              BY <2>2, <6>2, <6>4, SeCollection
            <6> QED
              BY <6>1, <6>3, <6>4
          <5> HIDE DEF items
          <5> QED
            BY <5>1, <5>2
        <4> HIDE DEF items
        <4>4. tag \in Whole /\ "throws" \in Plain /\ tag \notin Plain /\ "throws" \notin Whole
              /\ tag # "text" /\ tag # "throws"
          BY DEF Whole, Plain
        <4>5. /\ p.node = m /\ p.tag \in {"throws", tag}
              /\ p.tag = "throws" => p.items = <<>>
              /\ p.tag = tag => ItemsOf(g, inner, m, seen \cup {m}, tag, p.items)
          <5>1. TogetherIs(g, inner, m, seen \cup {m}, tag, Serializer!Together(m, tag, items))
            BY <2>2, <4>3, <4>4, SeTogether
          <5>2. TogetherIs(g, inner, m, seen \cup {m}, tag, p)
            BY <4>2, <5>1
          <5> QED
            BY <5>2 DEF TogetherIs
        <4>6. CASE p.tag = tag
          <5>1. ItemsOf(g, at[room - 1], m, seen \cup {m}, p.tag, p.items)
            BY <3>2, <4>5, <4>6
          <5> QED
            BY <2>2, <3>1, <4>4, <4>5, <4>6, <5>1 DEF PartOf
        <4>7. CASE p.tag = "throws"
          BY <4>4, <4>5, <4>7 DEF PartOf
        <4> QED
          BY <4>5, <4>6, <4>7
      <3>5. CASE kind = "object"
        <4> DEFINE object == Serializer!Entries(g, inner, m, seen, SzMaxProperties)
                   items == Serializer!CapCollection(
                               [k \in DOMAIN object |-> Serializer!Guarded(object[k])],
                               Len(g.refs[m]), SzMaxProperties, m)
        <4>1. p = [tag |-> "object", node |-> m, items |-> items]
          BY <1>1, <2>1, <2>5, <3>5 DEF Serializer!SerializeValue, Serializer!Out
        <4>2. \A ref \in SeRefs : inner[<<ref.to, seen \cup {m}>>].node = ref.to
          <5> TAKE ref \in SeRefs
          <5>1. ref.to \in Serializer!Nodes /\ seen \cup {m} \in SUBSET Serializer!Nodes
            BY DEF SeRefs
          <5> QED
            BY <3>1, <3>2, <5>1, SeNode
        <4>3. ItemsOf(g, inner, m, seen \cup {m}, "object", items)
          <5> HIDE DEF object
          <5>1. object = Serializer!Entries(g, inner, m, seen, SzMaxProperties)
            BY DEF object
          <5> QED
            BY <2>2, <4>2, <5>1, SeObjectItems
        <4> HIDE DEF items
        <4>4. p.tag = "object" /\ p.node = m /\ p.items = items
          BY <4>1
        <4>5. "object" \in Whole /\ "object" \notin Plain
          BY DEF Whole, Plain
        <4>6. ItemsOf(g, at[room - 1], m, seen \cup {m}, p.tag, p.items)
          BY <3>2, <4>3, <4>4
        <4> QED
          BY <2>2, <3>1, <4>4, <4>5, <4>6 DEF PartOf
      <3> QED
        BY <1>5, <3>3, <3>4, <3>5
    <2> QED
      BY <2>3, <2>4, <2>5
  <1> QED
    BY <1>2, <1>4, <1>5

(***************************************************************************)
(* The serializer                                                          *)
(***************************************************************************)
SeOf(x, g) ==
    /\ SeGraph(g) /\ x.kind = g.kind /\ x.refs = g.refs /\ x.maxDepth = g.maxDepth /\ x.redact = g.redact
SeDone(x, g) == x.out = Serializer!Pending \/ x.out = Serializer!SerializeIt(g, 1)

(* The invariant of the serializer: what came out is what serialize makes   *)
(* of the graph.                                                           *)
SeGood(x) == \E g : SeOf(x, g) /\ SeDone(x, g)

SeNext(g) ==
    [n \in Serializer!Nodes |->
        IF n \in SzContainers THEN {r.to : r \in Shown(g, n)} ELSE {}]

(* What is open, of the graph.                                              *)
LEMMA SeOpen ==
    ASSUME NEW g, SeOf(state, g)
    PROVE  ReachIs(SeNext(g), {1}, Serializer!OpenReach)
  <1> DEFINE next == [n \in Serializer!Nodes |->
                        IF n \in SzContainers
                        THEN {r.to : r \in {r \in Range(state.refs[n]) : Serializer!Opens(r)}} ELSE {}]
  <1>1. Serializer!OpenReach = Reach(next, {1})
    BY DEF Serializer!OpenReach, Serializer!Reach, Reach, Serializer!Range, Range
  <1>2. ASSUME NEW n \in SzContainers
        PROVE  {r \in Range(state.refs[n]) : Serializer!Opens(r)} = Shown(g, n)
    <2> DEFINE refs == g.refs[n]
    <2>1. refs \in Seq(SeRefs) /\ state.refs[n] = refs /\ state.redact = g.redact
      BY DEF SeOf, SeGraph
    <2> HIDE DEF refs
    <2>2. DOMAIN refs = 1..Len(refs)
      BY <2>1, LenProperties
    <2>3. \A r : Serializer!Opens(r) <=> ~Serializer!ShouldRedact(g, r)
      BY <2>1 DEF Serializer!Opens, Serializer!ShouldRedact
    <2>4. Range(refs) = {refs[k] : k \in 1..Len(refs)}
      BY <2>2 DEF Range
    <2>5. Shown(g, n) = {refs[k] : k \in {i \in 1..Len(refs) : ~Serializer!ShouldRedact(g, refs[i])}}
      BY DEF Shown, refs
    <2> QED
      BY <2>1, <2>3, <2>4, <2>5
  <1>3. next = SeNext(g)
    BY <1>2 DEF SeNext
  <1> HIDE DEF next
  <1>4. DOMAIN SeNext(g) = Serializer!Nodes /\ {1} \in SUBSET Serializer!Nodes
    BY SerializeAssumption DEF SeNext, Serializer!Nodes
  <1>5. ASSUME NEW m \in Serializer!Nodes PROVE SeNext(g)[m] \subseteq Serializer!Nodes
    <2>1. CASE m \in SzContainers
      <3>1. g.refs[m] \in Seq(SeRefs)
        BY <2>1 DEF SeOf, SeGraph
      <3>2. \A k \in 1..Len(g.refs[m]) : g.refs[m][k] \in SeRefs
        BY <3>1
      <3>3. \A r \in Shown(g, m) : r.to \in Serializer!Nodes
        BY <3>2 DEF Shown, SeRefs
      <3> QED
        BY <2>1, <3>3 DEF SeNext
    <2>2. CASE m \notin SzContainers
      BY <2>2 DEF SeNext
    <2> QED
      BY <2>1, <2>2
  <1> QED
    BY <1>1, <1>3, <1>4, <1>5, Reached

(* What is open leads to what is open.                                      *)
LEMMA SeOpens ==
    ASSUME NEW g, SeOf(state, g), NEW m \in Serializer!OpenReach, m \in SzContainers, NEW ref \in Shown(g, m)
    PROVE  ref.to \in Serializer!OpenReach
  <1>1. ReachIs(SeNext(g), {1}, Serializer!OpenReach)
    BY SeOpen
  <1>2. SeNext(g)[m] = {r.to : r \in Shown(g, m)}
    BY DEF SeNext, Serializer!Nodes
  <1> QED
    BY <1>1, <1>2 DEF ReachIs

(* What stands at a level of the tree.                                      *)
Kept(at, n, i, p) ==
    \/ p.items = <<>> /\ p.tag \in {"redacted", "pending"}
    \/ p.items = <<>> /\ p.tag \in {"text", "more", "unserializable"} /\ p.node \in Serializer!OpenReach
    \/ \E m \in Serializer!OpenReach, seen \in SUBSET Serializer!Nodes : p = at[n - i][<<m, seen>>]

(* What is under a node that keeps its promises keeps them too. *)
LEMMA SeUnder ==
    ASSUME NEW g, SeOf(state, g), NEW at, SeAt(g, at), NEW i \in 0..g.maxDepth,
           NEW p, Kept(at, g.maxDepth, i, p), NEW q \in Range(p.items)
    PROVE  i # g.maxDepth /\ Kept(at, g.maxDepth, i + 1, q)
  <1> DEFINE n == g.maxDepth
             room == n - i
  <1>1. p.items # <<>>
    BY DEF Range
  <1>2. PICK m \in Serializer!OpenReach, seen \in SUBSET Serializer!Nodes : p = at[room][<<m, seen>>]
    BY <1>1 DEF Kept
  <1>3. n \in Nat /\ room \in 0..n /\ SeGraph(g)
    BY DEF SeOf, SeGraph
  <1>4. m \in Serializer!Nodes
    <2>1. ReachIs(SeNext(g), {1}, Serializer!OpenReach)
      BY SeOpen
    <2>2. DOMAIN SeNext(g) = Serializer!Nodes
      BY DEF SeNext
    <2> QED
      BY <1>2, <2>1, <2>2 DEF ReachIs
  <1> HIDE DEF n, room
  <1>5. PartOf(g, at, room, m, seen, p)
    BY <1>2, <1>3, <1>4, SePart DEF n
  <1>6. p.tag \in Whole
    BY <1>1, <1>5 DEF PartOf
  <1>7. /\ room # 0 /\ m \in SzContainers
        /\ ItemsOf(g, at[room - 1], m, seen \cup {m}, p.tag, p.items)
    BY <1>5, <1>6 DEF PartOf
  <1>8. ItemOf(g, at[room - 1], m, seen \cup {m}, q)
    BY <1>7 DEF ItemsOf
  <1>9. i # n /\ room - 1 = n - (i + 1)
    BY <1>3, <1>7 DEF room
  <1>10. seen \cup {m} \in SUBSET Serializer!Nodes
    BY <1>2, <1>4
  <1>11. Kept(at, n, i + 1, q)
    <2>1. CASE q.items = <<>> /\ q.tag = "redacted"
      BY <2>1 DEF Kept
    <2>2. CASE q.items = <<>> /\ q.tag \in {"text", "more"} /\ q.node = m
      BY <1>2, <2>2 DEF Kept
    <2>3. ASSUME NEW ref \in Shown(g, m), q.items = <<>>, q.tag = "unserializable", q.node = ref.to
          PROVE  Kept(at, n, i + 1, q)
      <3>1. ref.to \in Serializer!OpenReach
        BY <1>2, <1>7, SeOpens
      <3> QED
        BY <2>3, <3>1 DEF Kept
    <2>4. ASSUME NEW ref \in Shown(g, m), q = at[room - 1][<<ref.to, seen \cup {m}>>]
          PROVE  Kept(at, n, i + 1, q)
      <3>1. ref.to \in Serializer!OpenReach
        BY <1>2, <1>7, SeOpens
      <3>2. q = at[n - (i + 1)][<<ref.to, seen \cup {m}>>]
        BY <1>9, <2>4
      <3> QED
        BY <1>10, <3>1, <3>2 DEF Kept
    <2> QED
      BY <1>8, <2>1, <2>2, <2>3, <2>4 DEF ItemOf
  <1> QED
    BY <1>9, <1>11 DEF n

(* Every node of the output keeps its promises, and there is none too deep. *)
LEMMA SeLevelsKeep ==
    ASSUME NEW g, SeOf(state, g), NEW at, SeAt(g, at),
           state.out = Serializer!Pending \/ state.out = at[g.maxDepth][<<1, {}>>]
    PROVE  /\ \A i \in 0..g.maxDepth : \A p \in Serializer!Levels[i] : Kept(at, g.maxDepth, i, p)
           /\ Serializer!Levels[g.maxDepth + 1] = {}
  <1> DEFINE n == g.maxDepth
             L == Serializer!Levels
             T == {i \in Nat : i <= n => \A p \in L[i] : Kept(at, n, i, p)}
  <1>1. /\ n \in Nat /\ L[0] = {state.out}
        /\ \A i \in 0..n : L[i + 1] = UNION {Range(p.items) : p \in L[i]}
    BY SeLevelsAre DEF SeOf, SeGraph
  <1> HIDE DEF L
  <1>2. 0 \in T
    <2>1. CASE state.out = Serializer!Pending
      <3>1. state.out.items = <<>> /\ state.out.tag = "pending"
        BY <2>1 DEF Serializer!Pending, Serializer!Out
      <3> QED
        BY <1>1, <3>1 DEF Kept
    <2>2. CASE state.out = at[n][<<1, {}>>]
      <3>1. 1 \in Serializer!OpenReach
        BY SeOpen DEF ReachIs
      <3>2. n - 0 = n
        BY <1>1
      <3>3. Kept(at, n, 0, state.out)
        BY <2>2, <3>1, <3>2 DEF Kept
      <3> QED
        BY <1>1, <3>3
    <2> QED
      BY <2>1, <2>2
  <1>3. ASSUME NEW i \in Nat, i \in T PROVE i + 1 \in T
    <2> SUFFICES ASSUME i + 1 <= n, NEW q \in L[i + 1] PROVE Kept(at, n, i + 1, q)
      OBVIOUS
    <2>1. i \in 0..n
      BY <1>1
    <2>2. PICK p \in L[i] : q \in Range(p.items)
      BY <1>1, <2>1
    <2>3. Kept(at, n, i, p)
      BY <1>1, <1>3, <2>1, <2>2
    <2> QED
      BY <2>1, <2>2, <2>3, SeUnder
  <1>4. Nat \subseteq T
    <2> HIDE DEF T
    <2> QED
      BY <1>2, <1>3, SetInduction
  <1>5. \A i \in 0..n : \A p \in L[i] : Kept(at, n, i, p)
    BY <1>1, <1>4
  <1>6. L[n + 1] = {}
    <2>1. n \in 0..n
      BY <1>1
    <2>2. ASSUME NEW p \in L[n], NEW q \in Range(p.items) PROVE FALSE
      <3>1. Kept(at, n, n, p)
        BY <1>5, <2>1
      <3> QED
        BY <2>1, <2>2, <3>1, SeUnder
    <2>3. L[n + 1] = UNION {Range(p.items) : p \in L[n]}
      BY <1>1, <2>1
    <2>4. \A q : q \notin UNION {Range(p.items) : p \in L[n]}
      BY <2>2
    <2> QED
      BY <2>3, <2>4
  <1> QED
    BY <1>5, <1>6 DEF L

-----------------------------------------------------------------------------
(* What the invariant says *)

(* The invariant of the serializer holds at first. *)
LEMMA SeInit == Serializer!SzInit => SeGood(state)
  <1> SUFFICES ASSUME Serializer!SzInit PROVE SeGood(state)
    OBVIOUS
  <1>1. PICK kind \in [SzContainers -> Serializer!AtomKinds \cup Serializer!ContainerKinds],
             atom \in [SzAtoms -> Serializer!AtomKinds],
             refs \in [SzContainers -> Serializer!RefLists], depth \in SzDepths, patterns \in BOOLEAN :
          /\ \A n \in SzContainers :
                /\ kind[n] \in Serializer!AtomKinds => refs[n] = <<>>
                /\ kind[n] = "list" => \A k \in DOMAIN refs[n] : refs[n][k].key = "plain"
                /\ kind[n] # "error" => \A k \in DOMAIN refs[n] : refs[n][k].key # "cause"
          /\ state = [kind |-> [n \in Serializer!Nodes |-> IF n \in SzAtoms THEN atom[n] ELSE kind[n]],
                      refs |-> refs, maxDepth |-> depth, redact |-> patterns, out |-> Serializer!Pending]
    BY DEF Serializer!SzInit
  <1> DEFINE all == [n \in Serializer!Nodes |-> IF n \in SzAtoms THEN atom[n] ELSE kind[n]]
  <1>2. all \in [Serializer!Nodes -> SeKinds]
    BY <1>1 DEF SeKinds, Serializer!Nodes
  <1>3. /\ \A n \in SzAtoms : all[n] \in Serializer!AtomKinds
        /\ \A n \in SzContainers : all[n] = kind[n]
    BY <1>1, SerializeAssumption DEF Serializer!Nodes
  <1> HIDE DEF all
  <1>4. /\ state.kind = all /\ state.refs = refs /\ state.maxDepth = depth
        /\ state.out = Serializer!Pending
    BY <1>1 DEF all
  <1>5. depth \in Nat
    BY <1>1, SerializeAssumption
  <1>6. ASSUME NEW n \in SzContainers PROVE refs[n] \in Seq(SeRefs)
    <2>1. refs[n] \in Serializer!RefLists
      BY <1>1
    <2>2. PICK k \in 0..SzMaxRefs : refs[n] \in [1..k -> SeRefs]
      BY <2>1 DEF Serializer!RefLists, Serializer!Refs, SeRefs
    <2>3. k \in Nat
      BY <2>2, SerializeAssumption
    <2> QED
      BY <2>2, <2>3
  <1>7. SeGraph(state)
    BY <1>1, <1>2, <1>3, <1>4, <1>5, <1>6 DEF SeGraph
  <1>8. SeOf(state, state) /\ SeDone(state, state)
    BY <1>4, <1>7 DEF SeOf, SeDone
  <1> QED
    BY <1>8 DEF SeGood

(* A serialization keeps it. *)
LEMMA SeSteps == SeGood(state) /\ Serializer!SzNext => SeGood(state')
  <1> SUFFICES ASSUME SeGood(state), Serializer!SzNext PROVE SeGood(state')
    OBVIOUS
  <1>1. PICK g : SeOf(state, g) /\ SeDone(state, g)
    BY DEF SeGood
  <1>2. state.out = Serializer!Pending /\ state' = [state EXCEPT !.out = Serializer!SerializeIt(state, 1)]
    BY DEF Serializer!SzNext, Serializer!Serializes
  <1>3. SeGraph(state)
    BY <1>1 DEF SeOf, SeGraph
  <1>4. /\ state'.kind = state.kind /\ state'.refs = state.refs /\ state'.maxDepth = state.maxDepth
        /\ state'.redact = state.redact
        /\ state'.out \in {state.out, Serializer!SerializeIt(state, 1)}
    BY <1>2
  <1>5. SeOf(state', state) /\ SeDone(state', state)
    BY <1>2, <1>3, <1>4 DEF SeOf, SeDone
  <1> QED
    BY <1>5 DEF SeGood

(* The invariant says what the serializer promises. *)
LEMMA SeHolds ==
    ASSUME SeGood(state)
    PROVE  Serializer!SecretsStayOut /\ Serializer!TreeIsBounded /\ Serializer!NothingSilentlyMissing
  <1>1. PICK g : SeOf(state, g) /\ SeDone(state, g)
    BY DEF SeGood
  <1> DEFINE n == g.maxDepth
             L == Serializer!Levels
             O == Serializer!OpenReach
  <1>2. n \in Nat /\ SeGraph(g) /\ state.maxDepth = n
    BY <1>1 DEF SeOf, SeGraph
  <1>3. PICK at : SeAt(g, at) /\ Serializer!SerializeIt(g, 1) = at[n][<<1, {}>>]
    BY <1>2, SeMade
  <1>4. /\ \A i \in 0..n : \A p \in L[i] : Kept(at, n, i, p)
        /\ L[n + 1] = {}
    <2>1. state.out = Serializer!Pending \/ state.out = at[n][<<1, {}>>]
      BY <1>1, <1>3 DEF SeDone
    <2> QED
      BY <1>1, <1>3, <2>1, SeLevelsKeep
  <1>5. Serializer!Parts = UNION {L[i] : i \in 0..n}
    BY <1>2 DEF Serializer!Parts
  <1>6. \A m \in O : m \in Serializer!Nodes
    <2>1. ReachIs(SeNext(g), {1}, O)
      BY <1>1, SeOpen
    <2>2. DOMAIN SeNext(g) = Serializer!Nodes
      BY DEF SeNext
    <2> QED
      BY <2>1, <2>2 DEF ReachIs
  <1>7. ASSUME NEW i \in 0..n, NEW m \in Serializer!Nodes, NEW seen \in SUBSET Serializer!Nodes
        PROVE  /\ n - i \in 0..n
               /\ PartOf(g, at, n - i, m, seen, at[n - i][<<m, seen>>])
    <2>1. n - i \in 0..n
      BY <1>2
    <2> QED
      BY <1>2, <1>3, <2>1, SePart
  <1> HIDE DEF n, L, O
  <1>8. Serializer!SecretsStayOut
    <2> SUFFICES ASSUME NEW p \in Serializer!Parts, p.tag \notin {"redacted", "pending"} PROVE p.node \in O
      BY DEF Serializer!SecretsStayOut, O
    <2>1. PICK i \in 0..n : p \in L[i]
      BY <1>5
    <2>2. Kept(at, n, i, p)
      BY <1>4, <2>1
    <2>3. ASSUME NEW m \in O, NEW seen \in SUBSET Serializer!Nodes, p = at[n - i][<<m, seen>>]
          PROVE  p.node \in O
      BY <1>6, <1>7, <2>1, <2>3 DEF PartOf
    <2> QED
      BY <2>2, <2>3 DEF Kept, O
  <1>9. Serializer!TreeIsBounded
    <2>1. ASSUME NEW p \in Serializer!Parts, p.tag \in Whole
          PROVE  /\ p.tag \in {"list", "map"} => Len(p.items) <= SzMaxLength + 1
                 /\ p.tag = "object" => Len(p.items) <= SzMaxProperties + 1
                 /\ p.tag = "error" => Len(p.items) <= Len(state.refs[p.node]) + 1
      <3>1. PICK i \in 0..n : p \in L[i]
        BY <1>5
      <3>2. Kept(at, n, i, p)
        BY <1>4, <3>1
      <3>3. PICK m \in O, seen \in SUBSET Serializer!Nodes : p = at[n - i][<<m, seen>>]
        BY <2>1, <3>2 DEF Kept, O, Whole
      <3>4. PartOf(g, at, n - i, m, seen, p)
        BY <1>6, <1>7, <3>1, <3>3
      <3>5. p.node = m /\ state.refs = g.refs
        BY <1>1, <3>4 DEF PartOf, SeOf
      <3>6. ItemsOf(g, at[n - i - 1], m, seen \cup {m}, p.tag, p.items)
        BY <2>1, <3>4 DEF PartOf
      <3> QED
        BY <3>5, <3>6 DEF ItemsOf
    <2>2. "list" \in Whole /\ "map" \in Whole /\ "object" \in Whole /\ "error" \in Whole
      BY DEF Whole
    <2>3. Serializer!Levels[state.maxDepth + 1] = {}
      BY <1>2, <1>4 DEF L
    <2> QED
      BY <2>1, <2>2, <2>3 DEF Serializer!TreeIsBounded
  <1>10. Serializer!NothingSilentlyMissing
    <2> SUFFICES ASSUME state.out.tag \notin {"throws", "pending"},
                        \A p \in Serializer!Parts : p.tag \notin Serializer!Marks
                 PROVE  O \subseteq {p.node : p \in Serializer!Parts}
      BY DEF Serializer!NothingSilentlyMissing, O
    <2> DEFINE Shows(i, m, seen) ==
                   /\ at[n - i][<<m, seen>>] \in L[i]
                   /\ at[n - i][<<m, seen>>].tag # "throws"
               C == {m \in Serializer!Nodes : \E i \in 0..n : \E seen \in SUBSET Serializer!Nodes : Shows(i, m, seen)}
    <2>1. L[0] = {state.out} /\ \A i \in 0..n : L[i + 1] = UNION {Range(p.items) : p \in L[i]}
      BY <1>2, SeLevelsAre DEF L
    <2>2. 1 \in C
      <3>1. state.out = at[n][<<1, {}>>]
        <4>1. Serializer!Pending.tag = "pending"
          BY DEF Serializer!Pending, Serializer!Out
        <4> QED
          BY <1>1, <1>3, <4>1 DEF SeDone, n
      <3>2. 1 \in Serializer!Nodes /\ {} \in SUBSET Serializer!Nodes /\ 0 \in 0..n /\ n - 0 = n
        BY <1>2, SerializeAssumption DEF Serializer!Nodes
      <3>3. Shows(0, 1, {})
        BY <2>1, <3>1, <3>2
      <3> HIDE DEF Shows
      <3> QED
        BY <3>2, <3>3
    <2>3. ASSUME NEW m \in C PROVE SeNext(g)[m] \subseteq C /\ \E p \in Serializer!Parts : p.node = m
      <3>1. PICK i \in 0..n : \E seen \in SUBSET Serializer!Nodes : Shows(i, m, seen)
        OBVIOUS
      <3>2. PICK seen \in SUBSET Serializer!Nodes : Shows(i, m, seen)
        BY <3>1
      <3> DEFINE p == at[n - i][<<m, seen>>]
      <3>3. PartOf(g, at, n - i, m, seen, p) /\ p \in L[i] /\ p.tag # "throws" /\ p \in Serializer!Parts
        BY <1>5, <1>7, <3>1, <3>2
      <3> HIDE DEF p, Shows
      <3>4. p.node = m /\ p.tag \in Plain \cup Whole /\ p.tag \notin Serializer!Marks
        BY <3>3 DEF PartOf
      <3>5. p.tag = "text" \/ p.tag \in Whole
        BY <3>3, <3>4 DEF Plain, Serializer!Marks
      <3>6. CASE p.tag = "text"
        <4>1. g.kind[m] \in Serializer!AtomKinds
          BY <3>3, <3>6 DEF PartOf
        <4>2. m \in SzContainers => Shown(g, m) = {}
          BY <1>2, <4>1 DEF SeGraph, Shown
        <4>3. SeNext(g)[m] = {}
          BY <4>2 DEF SeNext
        <4> QED
          BY <3>3, <3>4, <4>3
      <3>7. CASE p.tag \in Whole
        <4> DEFINE inner == at[n - i - 1]
                   more == seen \cup {m}
        <4>1. /\ n - i # 0 /\ m \in SzContainers /\ ItemsOf(g, inner, m, more, p.tag, p.items)
          BY <3>3, <3>7 DEF PartOf
        <4>2. i + 1 \in 0..n /\ n - i - 1 = n - (i + 1)
          BY <1>2, <3>1, <4>1
        <4>3. Range(p.items) \subseteq L[i + 1] /\ Range(p.items) \subseteq Serializer!Parts
          BY <1>5, <2>1, <3>1, <3>3, <4>2
        <4>4. ASSUME NEW ref \in Shown(g, m) PROVE ref.to \in C
          <5>1. inner[<<ref.to, more>>] \in Range(p.items)
            BY <4>1, <4>3 DEF ItemsOf
          <5>2. inner[<<ref.to, more>>].tag # "throws"
            BY <4>1, <5>1 DEF ItemsOf, ItemOf
          <5>3. ref.to \in Serializer!Nodes /\ more \in SUBSET Serializer!Nodes
            <6>1. g.refs[m] \in Seq(SeRefs)
              BY <1>2, <4>1 DEF SeGraph
            <6>2. \A k \in 1..Len(g.refs[m]) : g.refs[m][k] \in SeRefs
              BY <6>1
            <6> QED
              BY <3>2, <6>2 DEF Shown, SeRefs
          <5>4. Shows(i + 1, ref.to, more)
            BY <4>2, <4>3, <5>1, <5>2 DEF Shows
          <5> QED
            BY <4>2, <5>3, <5>4
        <4>5. SeNext(g)[m] = {r.to : r \in Shown(g, m)}
          BY <4>1 DEF SeNext
        <4> HIDE DEF C
        <4> QED
          BY <3>3, <3>4, <4>4, <4>5
      <3> QED
        BY <3>5, <3>6, <3>7
    <2>4. ReachIs(SeNext(g), {1}, O) /\ DOMAIN SeNext(g) = Serializer!Nodes /\ C \subseteq Serializer!Nodes
      BY <1>1, SeOpen DEF O, SeNext
    <2> HIDE DEF C
    <2>5. O \subseteq C
      BY <2>2, <2>3, <2>4 DEF ReachIs
    <2> QED
      BY <2>3, <2>5
  <1> QED
    BY <1>8, <1>9, <1>10

-----------------------------------------------------------------------------
(* Telemetry is believed only when it is whole: a record written under an   *)
(* active span that is read says of the trace what that span says, waves of *)
(* flush callbacks follow one another but for one that a callback started,  *)
(* and tracing leaves the result of the application as it is.               *)
THEOREM TelemetryCannotMislead == AllSpec => []TelemetryIsBelieved
  <1> DEFINE Inv == /\ subject = "telemetry" => TelGood(state)
                    /\ subject = "spans" => SpanGood(state)
  <1>1. AllInit => Inv
    BY TelInit, SpanInit DEF AllInit
  <1>2. Inv /\ [AllNext]_<<subject, state, clock>> => Inv'
    <2> SUFFICES ASSUME Inv, [AllNext]_<<subject, state, clock>> PROVE Inv'
      OBVIOUS
    <2>1. CASE AllNext
      <3>1. /\ subject' = subject
            /\ subject = "telemetry" => Telemetry!OtNext
            /\ subject = "spans" => Spans!OsNext
        BY <2>1 DEF AllNext
      <3> QED
        BY <3>1, TelStep, SpanStep
    <2>2. CASE UNCHANGED <<subject, state, clock>>
      BY <2>2
    <2> QED
      BY <2>1, <2>2
  <1>3. Inv => TelemetryIsBelieved
    BY TelHolds, SpanHolds DEF TelemetryIsBelieved
  <1> QED
    BY <1>1, <1>2, <1>3, PTL DEF AllSpec

(* The numbers are exact: the reporter, the metrics and the process monitor *)
(* account for what happened, at their limits and after failures.           *)
THEOREM NumbersCannotLie == AllSpec => []NumbersAreExact
  <1> DEFINE Inv == /\ subject = "reporter" => RepGood(state)
                    /\ subject = "prometheus" => PromGood(state)
                    /\ subject = "process" => ProcGood(state)
  <1>1. AllInit => Inv
    BY RepInit, PromInit, ProcInit DEF AllInit
  <1>2. Inv /\ [AllNext]_<<subject, state, clock>> => Inv'
    <2> SUFFICES ASSUME Inv, [AllNext]_<<subject, state, clock>> PROVE Inv'
      OBVIOUS
    <2>1. CASE AllNext
      <3>1. /\ subject' = subject
            /\ subject = "reporter" => Reporter!DgNext
            /\ subject = "prometheus" => Prometheus!MtNext
            /\ subject = "process" => Process!ApNext
        BY <2>1 DEF AllNext
      <3> QED
        BY <3>1, RepStep, PromStep, ProcStep
    <2>2. CASE UNCHANGED <<subject, state, clock>>
      BY <2>2
    <2> QED
      BY <2>1, <2>2
  <1>3. Inv => NumbersAreExact
    BY RepHolds, PromHolds, ProcHolds DEF NumbersAreExact
  <1> QED
    BY <1>1, <1>2, <1>3, PTL DEF AllSpec

(* An upload has a valid grant of its own. *)
THEOREM UploadsAreSigned == AllSpec => [](subject = "uploader" => Uploader!PutsAreSigned)
  <1> DEFINE Inv == subject = "uploader" => UpGood(state) /\ clock \in Nat
  <1>1. AllInit => Inv
    BY UpInit DEF AllInit
  <1>2. Inv /\ [AllNext]_<<subject, state, clock>> => Inv'
    <2> SUFFICES ASSUME Inv, [AllNext]_<<subject, state, clock>> PROVE Inv'
      OBVIOUS
    <2>1. CASE AllNext
      <3>1. /\ subject' = subject
            /\ subject = "uploader" => Uploader!DgNext
        BY <2>1 DEF AllNext
      <3> QED
        BY <3>1, UpStep
    <2>2. CASE UNCHANGED <<subject, state, clock>>
      BY <2>2
    <2> QED
      BY <2>1, <2>2
  <1>3. Inv => (subject = "uploader" => Uploader!PutsAreSigned)
    BY UpHolds
  <1> QED
    BY <1>1, <1>2, <1>3, PTL DEF AllSpec

(* What leaves the process is safe: of the output of the serializer nothing  *)
(* is there that only a redacted key leads to (the cause of an error has no *)
(* redacted key, whatever its name); it is no deeper than the limit, its    *)
(* lists, Maps and objects no longer than theirs, its errors no longer than *)
(* their own properties; it marks what it leaves out; and what is uploaded  *)
(* has a grant of its own that has not expired.                             *)
THEOREM OutputCannotLeak == AllSpec => []OutputIsSafe
  <1> DEFINE Inv == /\ subject = "serializer" => SeGood(state)
                    /\ subject = "uploader" => UpGood(state) /\ clock \in Nat
  <1>1. AllInit => Inv
    BY SeInit, UpInit DEF AllInit
  <1>2. Inv /\ [AllNext]_<<subject, state, clock>> => Inv'
    <2> SUFFICES ASSUME Inv, [AllNext]_<<subject, state, clock>> PROVE Inv'
      OBVIOUS
    <2>1. CASE AllNext
      <3>1. /\ subject' = subject
            /\ subject = "serializer" => Serializer!SzNext
            /\ subject = "uploader" => Uploader!DgNext
        BY <2>1 DEF AllNext
      <3> QED
        BY <3>1, SeSteps, UpStep
    <2>2. CASE UNCHANGED <<subject, state, clock>>
      BY <2>2
    <2> QED
      BY <2>1, <2>2
  <1>3. Inv => OutputIsSafe
    BY SeHolds, UpHolds DEF OutputIsSafe
  <1> QED
    BY <1>1, <1>2, <1>3, PTL DEF AllSpec
=============================================================================
