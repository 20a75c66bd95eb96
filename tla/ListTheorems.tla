---------------------------- MODULE ListTheorems ------------------------------
(***************************************************************************)
(* What the proofs share: what Without of Filter and Unique and Reach of   *)
(* Lists return, sequences that hold an element once, least and greatest   *)
(* numbers.  The library's induction theorems take the induction           *)
(* hypothesis as an operator, which the provers cannot instantiate;        *)
(* SetInduction states it with a set instead, and rests on the             *)
(* well-foundedness of strict inclusion on finite sets.                    *)
(***************************************************************************)
EXTENDS Filter, Lists, Naturals, Sequences, SequencesExt, FiniteSetTheorems,
        SequenceTheorems, WellFoundedInduction, TLAPS

(* Induction on the naturals: a set that has 0 and the successor of each of *)
(* its elements has them all.                                               *)
LEMMA SetInduction ==
    ASSUME NEW T, 0 \in T, \A n \in Nat : n \in T => n + 1 \in T
    PROVE  Nat \subseteq T
<1> SUFFICES ASSUME NEW b \in Nat, b \notin T PROVE FALSE
  OBVIOUS
<1> DEFINE Initial(n) == 0..n
           Family == {Initial(n) : n \in Nat \ T}
<1>1. Family # {} /\ Family \subseteq FiniteSubsetsOf(Nat)
  <2>1. ASSUME NEW n \in Nat \ T
        PROVE  Initial(n) \in FiniteSubsetsOf(Nat)
    <3>1. IsFiniteSet(0..n)
      BY FS_Interval
    <3>2. 0..n \subseteq Nat
      OBVIOUS
    <3> QED BY <3>1, <3>2 DEF FiniteSubsetsOf
  <2> QED BY <2>1
<1>2. IsWellFoundedOn(StrictSubsetOrdering(Nat), FiniteSubsetsOf(Nat))
  BY FS_StrictSubsetOrderingWellFounded
<1>3. PICK X \in Family :
        \A Y \in Family : ~ (<<Y, X>> \in StrictSubsetOrdering(Nat))
  <2> HIDE DEF Family
  <2> QED BY <1>1, <1>2, WFMin
<1>4. PICK n \in Nat \ T : X = 0..n
  BY <1>3
<1>5. n - 1 \in Nat /\ n - 1 \notin T
  BY <1>4
<1>6. 0..(n - 1) \in Family
  BY <1>5
<1>7. <<0..(n - 1), X>> \in StrictSubsetOrdering(Nat)
  <2>1. 0..(n - 1) \subseteq 0..n /\ n \in 0..n /\ n \notin 0..(n - 1)
    BY <1>4
  <2>2. 0..(n - 1) \subseteq Nat /\ 0..n \subseteq Nat
    BY <1>4
  <2> QED BY <2>1, <2>2, <1>4 DEF StrictSubsetOrdering
<1> QED BY <1>3, <1>6, <1>7

(* A recursion over the positions of a sequence of elements of X: kept is   *)
(* what Without(s, S) keeps of the first i elements.                        *)
KeepsOf(s, S, kept, n) ==
    \A i \in 0..n :
        kept[i] = IF i = 0 THEN <<>>
                  ELSE IF s[i] \in S THEN kept[i - 1]
                  ELSE Append(kept[i - 1], s[i])

(* There is such a function for each prefix.                                *)
LEMMA KeepsExist ==
    ASSUME NEW X, NEW s \in Seq(X), NEW S
    PROVE  \E kept \in [0..Len(s) -> Seq(X)] : KeepsOf(s, S, kept, Len(s))
<1> DEFINE T == {n \in Nat : n <= Len(s) =>
                     \E kept \in [0..n -> Seq(X)] : KeepsOf(s, S, kept, n)}
<1>1. 0 \in T
  <2> DEFINE k == [i \in 0..0 |-> <<>>]
  <2>1. k \in [0..0 -> Seq(X)] /\ KeepsOf(s, S, k, 0)
    BY DEF KeepsOf
  <2> QED BY <2>1
<1>2. ASSUME NEW n \in Nat, n \in T
      PROVE  n + 1 \in T
  <2> SUFFICES ASSUME n + 1 <= Len(s)
               PROVE  \E kept \in [0..(n + 1) -> Seq(X)] :
                          KeepsOf(s, S, kept, n + 1)
    OBVIOUS
  <2>1. PICK kept \in [0..n -> Seq(X)] : KeepsOf(s, S, kept, n)
    BY <1>2
  <2> DEFINE last == IF s[n + 1] \in S THEN kept[n] ELSE Append(kept[n], s[n + 1])
             longer == [i \in 0..(n + 1) |-> IF i = n + 1 THEN last ELSE kept[i]]
  <2>2. s[n + 1] \in X /\ kept[n] \in Seq(X)
    BY ElementOfSeq, <2>1
  <2>3. last \in Seq(X)
    BY <2>2, AppendProperties
  <2>4. longer \in [0..(n + 1) -> Seq(X)]
    <3> HIDE DEF last
    <3>1. \A i \in 0..(n + 1) : i # n + 1 => i \in 0..n
      OBVIOUS
    <3> QED BY <2>1, <2>3, <3>1
  <2>5. KeepsOf(s, S, longer, n + 1)
    <3> SUFFICES ASSUME NEW i \in 0..(n + 1)
                 PROVE  longer[i] = IF i = 0 THEN <<>>
                                    ELSE IF s[i] \in S THEN longer[i - 1]
                                    ELSE Append(longer[i - 1], s[i])
      BY DEF KeepsOf
    <3>1. CASE i = n + 1
      <4>1. longer[i] = last /\ i # 0 /\ longer[i - 1] = kept[n]
        BY <3>1
      <4> QED BY <3>1, <4>1
    <3>2. CASE i \in 0..n
      <4>1. longer[i] = kept[i]
        BY <3>2
      <4>2. i # 0 => longer[i - 1] = kept[i - 1]
        BY <3>2
      <4>3. kept[i] = IF i = 0 THEN <<>>
                      ELSE IF s[i] \in S THEN kept[i - 1]
                      ELSE Append(kept[i - 1], s[i])
        BY <2>1, <3>2 DEF KeepsOf
      <4> HIDE DEF longer
      <4> QED BY <4>1, <4>2, <4>3
    <3> QED BY <3>1, <3>2
  <2> QED BY <2>4, <2>5
<1>3. Nat \subseteq T
  <2> HIDE DEF T
  <2> QED BY <1>1, <1>2, SetInduction
<1> QED BY <1>3, LenProperties

(* Without is the last value of such a function.                           *)
LEMMA WithoutKeeps ==
    ASSUME NEW X, NEW s \in Seq(X), NEW S
    PROVE  \E kept : /\ KeepsOf(s, S, kept, Len(s))
                     /\ Without(s, S) = kept[Len(s)]
<1> DEFINE Step(f) == [i \in 0..Len(s) |->
                         IF i = 0 THEN <<>>
                         ELSE IF s[i] \in S THEN f[i - 1]
                         ELSE Append(f[i - 1], s[i])]
           kept == CHOOSE f : f = Step(f)
<1>1. PICK g \in [0..Len(s) -> Seq(X)] : KeepsOf(s, S, g, Len(s))
  BY KeepsExist
<1>2. g = Step(g)
  BY <1>1 DEF KeepsOf
<1>3. kept = Step(kept)
  BY <1>2
<1>4. KeepsOf(s, S, kept, Len(s))
  <2> HIDE DEF kept
  <2> QED BY <1>3 DEF KeepsOf
<1>5. Without(s, S) = kept[Len(s)]
  BY DEF Without
<1> HIDE DEF kept
<1> QED BY <1>4, <1>5

(* The elements of a sequence that is extended by one.                     *)
LEMMA ToSetAppend ==
    ASSUME NEW X, NEW s \in Seq(X), NEW e \in X
    PROVE  ToSet(Append(s, e)) = ToSet(s) \cup {e}
<1>1. /\ Len(Append(s, e)) = Len(s) + 1
      /\ \A i \in 1..Len(s) : Append(s, e)[i] = s[i]
      /\ Append(s, e)[Len(s) + 1] = e
      /\ Append(s, e) \in Seq(X)
  BY AppendProperties
<1>2. DOMAIN s = 1..Len(s) /\ DOMAIN Append(s, e) = 1..(Len(s) + 1)
  BY <1>1, LenProperties
<1>3. 1..(Len(s) + 1) = 1..Len(s) \cup {Len(s) + 1}
  BY LenProperties
<1> QED BY <1>1, <1>2, <1>3 DEF ToSet

(* Without(s, S) keeps exactly the elements outside S; it is shorter by at  *)
(* least one when there is one inside.                                     *)
LEMMA WithoutProperties ==
    ASSUME NEW X, NEW s \in Seq(X), NEW S
    PROVE  /\ Without(s, S) \in Seq(X)
           /\ ToSet(Without(s, S)) = ToSet(s) \ S
           /\ Len(Without(s, S)) <= Len(s)
           /\ ToSet(s) \cap S # {} => Len(Without(s, S)) < Len(s)
<1>1. PICK kept : /\ KeepsOf(s, S, kept, Len(s))
                  /\ Without(s, S) = kept[Len(s)]
  BY WithoutKeeps
<1> DEFINE Seen(n) == {s[i] : i \in 1..n}
           Good(n) == /\ kept[n] \in Seq(X)
                      /\ ToSet(kept[n]) = Seen(n) \ S
                      /\ Len(kept[n]) <= n
                      /\ Seen(n) \cap S # {} => Len(kept[n]) < n
           T == {n \in Nat : n <= Len(s) => Good(n)}
<1>2. 0 \in T
  <2>1. kept[0] = <<>> /\ Seen(0) = {}
    BY <1>1, LenProperties DEF KeepsOf
  <2>2. kept[0] \in Seq(X) /\ Len(kept[0]) = 0 /\ ToSet(kept[0]) = {}
    BY <2>1, EmptySeq DEF ToSet
  <2> HIDE DEF Seen
  <2>3. Good(0)
    BY <2>1, <2>2
  <2> QED BY <2>3
<1>3. ASSUME NEW n \in Nat, n \in T
      PROVE  n + 1 \in T
  <2> SUFFICES ASSUME n + 1 <= Len(s)
               PROVE  Good(n + 1)
    OBVIOUS
  <2>1. Good(n)
    BY <1>3, LenProperties
  <2>2. s[n + 1] \in X
    BY ElementOfSeq
  <2>3. kept[n + 1] = IF s[n + 1] \in S THEN kept[n] ELSE Append(kept[n], s[n + 1])
    <3>1. n + 1 \in 0..Len(s) /\ n + 1 # 0 /\ (n + 1) - 1 = n
      BY LenProperties
    <3> QED BY <3>1, <1>1 DEF KeepsOf
  <2>4. Seen(n + 1) = Seen(n) \cup {s[n + 1]}
    <3>1. 1..(n + 1) = 1..n \cup {n + 1}
      OBVIOUS
    <3> QED BY <3>1
  <2> HIDE DEF Seen
  <2>5. CASE s[n + 1] \in S
    BY <2>1, <2>3, <2>4, <2>5, LenProperties
  <2>6. CASE s[n + 1] \notin S
    <3>1. kept[n + 1] = Append(kept[n], s[n + 1])
      BY <2>3, <2>6
    <3>2. kept[n + 1] \in Seq(X) /\ Len(kept[n + 1]) = Len(kept[n]) + 1
      BY <3>1, <2>1, <2>2, AppendProperties
    <3>3. ToSet(kept[n + 1]) = Seen(n + 1) \ S
      <4>1. ToSet(kept[n + 1]) = ToSet(kept[n]) \cup {s[n + 1]}
        BY <3>1, <2>1, <2>2, ToSetAppend
      <4> QED BY <4>1, <2>1, <2>4, <2>6
    <3>4. Seen(n + 1) \cap S = Seen(n) \cap S
      BY <2>4, <2>6
    <3> QED BY <3>2, <3>3, <3>4, <2>1, LenProperties
  <2> QED BY <2>5, <2>6
<1>4. Nat \subseteq T
  <2> HIDE DEF T
  <2> QED BY <1>2, <1>3, SetInduction
<1>5. Good(Len(s))
  <2>1. Len(s) \in Nat
    BY LenProperties
  <2> HIDE DEF Good
  <2> QED BY <2>1, <1>4
<1>6. Seen(Len(s)) = ToSet(s)
  BY LenProperties DEF ToSet
<1> HIDE DEF Seen
<1> QED BY <1>1, <1>5, <1>6

(* Without(s, S) keeps the order of s: what relates every element of s to   *)
(* the later ones relates the kept ones.                                    *)
LEMMA WithoutKeepsOrder ==
    ASSUME NEW X, NEW s \in Seq(X), NEW S, NEW Before,
           \A i, j \in 1..Len(s) : i < j => <<s[i], s[j]>> \in Before
    PROVE  \A i, j \in 1..Len(Without(s, S)) :
              i < j => <<Without(s, S)[i], Without(s, S)[j]>> \in Before
<1>1. PICK kept : /\ KeepsOf(s, S, kept, Len(s))
                  /\ Without(s, S) = kept[Len(s)]
  BY WithoutKeeps
<1> DEFINE From(n) == \A i \in 1..Len(kept[n]) : \E a \in 1..n : kept[n][i] = s[a]
           Ordered(n) == \A i, j \in 1..Len(kept[n]) :
                            i < j => <<kept[n][i], kept[n][j]>> \in Before
           Good(n) == kept[n] \in Seq(X) /\ From(n) /\ Ordered(n)
           T == {n \in Nat : n <= Len(s) => Good(n)}
<1>2. 0 \in T
  <2>1. kept[0] = <<>>
    BY <1>1, LenProperties DEF KeepsOf
  <2>2. kept[0] \in Seq(X) /\ Len(kept[0]) = 0
    BY <2>1, EmptySeq
  <2>3. Good(0)
    BY <2>2
  <2> QED BY <2>3
<1>3. ASSUME NEW n \in Nat, n \in T
      PROVE  n + 1 \in T
  <2> SUFFICES ASSUME n + 1 <= Len(s)
               PROVE  Good(n + 1)
    OBVIOUS
  <2>1. Good(n)
    BY <1>3, LenProperties
  <2>2. s[n + 1] \in X
    BY ElementOfSeq
  <2>3. kept[n + 1] = IF s[n + 1] \in S THEN kept[n] ELSE Append(kept[n], s[n + 1])
    <3>1. n + 1 \in 0..Len(s) /\ n + 1 # 0 /\ (n + 1) - 1 = n
      BY LenProperties
    <3> QED BY <3>1, <1>1 DEF KeepsOf
  <2>4. CASE s[n + 1] \in S
    <3>1. kept[n + 1] = kept[n]
      BY <2>3, <2>4
    <3>2. From(n + 1)
      <4> SUFFICES ASSUME NEW i \in 1..Len(kept[n])
                   PROVE  \E a \in 1..(n + 1) : kept[n][i] = s[a]
        BY <3>1
      <4>1. PICK a \in 1..n : kept[n][i] = s[a]
        BY <2>1
      <4>2. a \in 1..(n + 1)
        OBVIOUS
      <4> QED BY <4>1, <4>2
    <3> QED BY <3>1, <3>2, <2>1
  <2>5. CASE s[n + 1] \notin S
    <3> DEFINE k == kept[n]
    <3>1. kept[n + 1] = Append(k, s[n + 1])
      BY <2>3, <2>5
    <3>2. /\ kept[n + 1] \in Seq(X) /\ Len(kept[n + 1]) = Len(k) + 1
          /\ Len(k) \in Nat
          /\ \A i \in 1..Len(k) : kept[n + 1][i] = k[i]
          /\ kept[n + 1][Len(k) + 1] = s[n + 1]
      BY <3>1, <2>1, <2>2, AppendProperties, LenProperties
    <3>3. \A i \in 1..(Len(k) + 1) : i \in 1..Len(k) \/ i = Len(k) + 1
      BY <3>2
    <3>4. From(n + 1)
      <4> SUFFICES ASSUME NEW i \in 1..Len(kept[n + 1])
                   PROVE  \E a \in 1..(n + 1) : kept[n + 1][i] = s[a]
        OBVIOUS
      <4>1. CASE i = Len(k) + 1
        <5>1. n + 1 \in 1..(n + 1)
          OBVIOUS
        <5> QED BY <5>1, <4>1, <3>2
      <4>2. CASE i \in 1..Len(k)
        <5>1. PICK a \in 1..n : k[i] = s[a]
          BY <2>1, <4>2
        <5>2. a \in 1..(n + 1)
          OBVIOUS
        <5> QED BY <5>1, <5>2, <4>2, <3>2
      <4> QED BY <4>1, <4>2, <3>2, <3>3
    <3>5. Ordered(n + 1)
      <4> SUFFICES ASSUME NEW i \in 1..Len(kept[n + 1]), NEW j \in 1..Len(kept[n + 1]),
                          i < j
                   PROVE  <<kept[n + 1][i], kept[n + 1][j]>> \in Before
        OBVIOUS
      <4>1. i \in 1..Len(k)
        BY <3>2
      <4>2. CASE j \in 1..Len(k)
        BY <4>1, <4>2, <3>2, <2>1
      <4>3. CASE j = Len(k) + 1
        <5>1. PICK a \in 1..n : k[i] = s[a]
          BY <2>1, <4>1
        <5>2. a \in 1..Len(s) /\ n + 1 \in 1..Len(s) /\ a < n + 1
          BY LenProperties
        <5>3. <<s[a], s[n + 1]>> \in Before
          BY <5>2
        <5> QED BY <5>1, <5>3, <4>1, <4>3, <3>2
      <4> QED BY <4>2, <4>3, <3>2, <3>3
    <3> QED BY <3>2, <3>4, <3>5
  <2> QED BY <2>4, <2>5
<1>4. Nat \subseteq T
  <2> HIDE DEF T
  <2> QED BY <1>2, <1>3, SetInduction
<1>5. Good(Len(s))
  <2>1. Len(s) \in Nat
    BY LenProperties
  <2> HIDE DEF Good
  <2> QED BY <2>1, <1>4
<1> QED BY <1>1, <1>5

(***************************************************************************)
(* Recursions: a function that takes n steps from base exists, when every  *)
(* step stays in S.                                                        *)
(***************************************************************************)
Recurs(f, n, base, step) == f[0] = base /\ \A i \in 1..n : f[i] = step[<<f[i - 1], i>>]

(* A function that takes n steps exists. *)
LEMMA RecursionExists ==
    ASSUME NEW S, NEW n \in Nat, NEW base \in S, NEW step,
           \A x \in S, i \in 1..n : step[<<x, i>>] \in S
    PROVE  \E f \in [0..n -> S] : Recurs(f, n, base, step)
  <1> DEFINE T == {m \in Nat : m <= n => \E f \in [0..m -> S] : Recurs(f, m, base, step)}
  <1>1. 0 \in T
    <2> DEFINE f == [i \in 0..0 |-> base]
    <2>1. f \in [0..0 -> S] /\ Recurs(f, 0, base, step)
      BY DEF Recurs
    <2> QED
      BY <2>1
  <1>2. ASSUME NEW m \in Nat, m \in T PROVE m + 1 \in T
    <2> SUFFICES ASSUME m + 1 <= n
                 PROVE  \E f \in [0..(m + 1) -> S] : Recurs(f, m + 1, base, step)
      OBVIOUS
    <2>1. PICK f \in [0..m -> S] : Recurs(f, m, base, step)
      BY <1>2
    <2> DEFINE last == step[<<f[m], m + 1>>]
               g == [i \in 0..(m + 1) |-> IF i = m + 1 THEN last ELSE f[i]]
    <2>2. last \in S
      <3>1. f[m] \in S /\ m + 1 \in 1..n
        BY <2>1
      <3> QED
        BY <3>1
    <2>3. g \in [0..(m + 1) -> S]
      <3> HIDE DEF last
      <3>1. \A i \in 0..(m + 1) : i # m + 1 => i \in 0..m
        OBVIOUS
      <3> QED
        BY <2>1, <2>2, <3>1
    <2>4. g[0] = base
      BY <2>1 DEF Recurs
    <2>5. ASSUME NEW i \in 1..(m + 1) PROVE g[i] = step[<<g[i - 1], i>>]
      <3>1. CASE i = m + 1
        <4>1. i - 1 = m /\ m # m + 1 /\ m \in 0..(m + 1) /\ i \in 0..(m + 1)
          BY <3>1
        <4> HIDE DEF last
        <4>2. g[i] = last /\ g[m] = f[m]
          BY <3>1, <4>1
        <4> HIDE DEF g
        <4> QED
          BY <3>1, <4>1, <4>2 DEF last
      <3>2. CASE i # m + 1
        <4>1. i \in 1..m /\ g[i] = f[i] /\ g[i - 1] = f[i - 1]
          BY <3>2
        <4> QED
          BY <2>1, <4>1 DEF Recurs
      <3> QED
        BY <3>1, <3>2
    <2> QED
      BY <2>3, <2>4, <2>5 DEF Recurs
  <1>3. Nat \subseteq T
    <2> HIDE DEF T
    <2> QED
      BY <1>1, <1>2, SetInduction
  <1> QED
    BY <1>3

(* Where the elements of two sequences put together come from.              *)
Joint(s, r, S, m, k) ==
    /\ s \o r \in Seq(S) /\ Len(s \o r) = m + k
    /\ \A i \in 1..m + k : (s \o r)[i] = IF i <= m THEN s[i] ELSE r[i - m]

(* The elements of two sequences put together. *)
LEMMA Together ==
    ASSUME NEW S, NEW s \in Seq(S), NEW r \in Seq(S), NEW m \in Nat, NEW k \in Nat,
           Len(s) = m, Len(r) = k
    PROVE  Joint(s, r, S, m, k)
  BY ConcatProperties DEF Joint

(***************************************************************************)
(* Lists without repetitions                                               *)
(***************************************************************************)
OnceOf(s, once) ==
    \A i \in 0..Len(s) :
        once[i] = IF i = 0 THEN <<>>
                  ELSE IF s[i] \in Range(once[i - 1]) THEN once[i - 1]
                  ELSE Append(once[i - 1], s[i])
Injective(s) == \A i, j \in DOMAIN s : s[i] = s[j] => i = j

(* Unique is computed element by element. *)
LEMMA UniqueIs ==
    ASSUME NEW X, NEW s \in Seq(X)
    PROVE  \E once : OnceOf(s, once) /\ Unique(s) = once[Len(s)]
  <1> DEFINE n == Len(s)
             Step(f) == [i \in 0..Len(s) |->
                         IF i = 0 THEN <<>>
                         ELSE IF s[i] \in Range(f[i - 1]) THEN f[i - 1]
                         ELSE Append(f[i - 1], s[i])]
             once == CHOOSE f : f = Step(f)
             step == [p \in Seq(X) \X (1..n) |->
                         IF s[p[2]] \in Range(p[1]) THEN p[1] ELSE Append(p[1], s[p[2]])]
  <1>1. n \in Nat /\ \A i \in 1..n : s[i] \in X
    BY LenProperties
  <1>2. <<>> \in Seq(X)
    OBVIOUS
  <1>3. \A x \in Seq(X), i \in 1..n :
           /\ step[<<x, i>>] = IF s[i] \in Range(x) THEN x ELSE Append(x, s[i])
           /\ step[<<x, i>>] \in Seq(X)
    <2> TAKE x \in Seq(X), i \in 1..n
    <2>1. Append(x, s[i]) \in Seq(X)
      BY <1>1, AppendProperties
    <2>2. <<x, i>> \in Seq(X) \X (1..n) /\ <<x, i>>[1] = x /\ <<x, i>>[2] = i
      OBVIOUS
    <2>3. step[<<x, i>>] = IF s[i] \in Range(x) THEN x ELSE Append(x, s[i])
      BY <2>2
    <2> HIDE DEF step
    <2> QED
      BY <2>1, <2>3
  <1>4. PICK g \in [0..n -> Seq(X)] : Recurs(g, n, <<>>, step)
    <2> HIDE DEF step
    <2>1. \A x \in Seq(X), i \in 1..n : step[<<x, i>>] \in Seq(X)
      BY <1>3
    <2> QED
      BY <1>1, <1>2, <2>1, RecursionExists
  <1>5. g = Step(g)
    <2>1. ASSUME NEW i \in 1..n
          PROVE  g[i] = IF s[i] \in Range(g[i - 1]) THEN g[i - 1] ELSE Append(g[i - 1], s[i])
      <3>1. g[i - 1] \in Seq(X) /\ g[i] = step[<<g[i - 1], i>>]
        <4>1. i - 1 \in 0..n
          BY <1>1
        <4> HIDE DEF step
        <4> QED
          BY <1>4, <4>1 DEF Recurs
      <3> HIDE DEF step
      <3> QED
        BY <1>3, <3>1
    <2>2. g[0] = << >> /\ \A i \in 0..n : i # 0 => i \in 1..n
      BY <1>1, <1>4 DEF Recurs
    <2> HIDE DEF step
    <2> QED
      BY <1>4, <2>1, <2>2
  <1>6. once = Step(once)
    BY <1>5
  <1>7. OnceOf(s, once)
    <2> HIDE DEF once
    <2> QED
      BY <1>6 DEF OnceOf
  <1>8. Unique(s) = once[Len(s)]
    BY DEF Unique
  <1> HIDE DEF once
  <1> QED
    BY <1>7, <1>8

(* Unique keeps every element, each once. *)
LEMMA UniqueKeeps ==
    ASSUME NEW X, NEW s \in Seq(X)
    PROVE  /\ Unique(s) \in Seq(X) /\ Injective(Unique(s)) /\ Range(Unique(s)) = Range(s)
  <1>1. PICK once : OnceOf(s, once) /\ Unique(s) = once[Len(s)]
    BY UniqueIs
  <1>2. Len(s) \in Nat /\ DOMAIN s = 1..Len(s) /\ \A i \in 1..Len(s) : s[i] \in X
    BY LenProperties
  <1> DEFINE Seen(n) == {s[i] : i \in 1..n}
             Good(n) == once[n] \in Seq(X) /\ Injective(once[n]) /\ Range(once[n]) = Seen(n)
             T == {n \in Nat : n <= Len(s) => Good(n)}
  <1>3. 0 \in T
    <2>1. once[0] = <<>> /\ Seen(0) = {}
      BY <1>1, <1>2 DEF OnceOf
    <2>2. once[0] \in Seq(X) /\ DOMAIN once[0] = {}
      BY <2>1
    <2>3. Range(once[0]) = {} /\ Injective(once[0])
      BY <2>2 DEF Range, Injective
    <2> HIDE DEF Seen
    <2> QED
      BY <2>1, <2>2, <2>3
  <1>4. ASSUME NEW n \in Nat, n \in T PROVE n + 1 \in T
    <2> SUFFICES ASSUME n + 1 <= Len(s) PROVE Good(n + 1)
      OBVIOUS
    <2>1. Good(n) /\ s[n + 1] \in X
      BY <1>2, <1>4
    <2>2. once[n + 1] = IF s[n + 1] \in Range(once[n]) THEN once[n] ELSE Append(once[n], s[n + 1])
      <3>1. n + 1 \in 0..Len(s) /\ n + 1 # 0 /\ (n + 1) - 1 = n
        BY <1>2
      <3> QED
        BY <1>1, <3>1 DEF OnceOf
    <2>3. Seen(n + 1) = Seen(n) \cup {s[n + 1]}
      <3>1. 1..(n + 1) = 1..n \cup {n + 1}
        OBVIOUS
      <3> QED
        BY <3>1
    <2> HIDE DEF Seen
    <2>4. CASE s[n + 1] \in Range(once[n])
      BY <2>1, <2>2, <2>3, <2>4
    <2>5. CASE s[n + 1] \notin Range(once[n])
      <3> DEFINE r == once[n]
                 e == s[n + 1]
                 q == once[n + 1]
      <3>1. r \in Seq(X) /\ Injective(r) /\ e \in X /\ e \notin Range(r) /\ q = Append(r, e)
        BY <2>1, <2>2, <2>5
      <3> HIDE DEF r, e, q
      <3>2. /\ q \in Seq(X) /\ Len(q) = Len(r) + 1 /\ q[Len(r) + 1] = e
            /\ \A i \in 1..Len(r) : q[i] = r[i]
        BY <3>1, AppendProperties
      <3>3. DOMAIN r = 1..Len(r) /\ Len(r) \in Nat /\ DOMAIN q = 1..Len(r) + 1
        BY <3>1, <3>2, LenProperties
      <3>4. \A i \in 1..Len(r) : r[i] # e
        BY <3>1, <3>3 DEF Range
      <3>5. Injective(q)
        BY <3>1, <3>2, <3>3, <3>4 DEF Injective
      <3>6. Range(q) = Range(r) \cup {e}
        BY <3>2, <3>3 DEF Range
      <3> QED
        BY <2>1, <2>3, <3>2, <3>5, <3>6 DEF r, e, q
    <2> QED
      BY <2>4, <2>5
  <1>5. Nat \subseteq T
    <2> HIDE DEF T
    <2> QED
      BY <1>3, <1>4, SetInduction
  <1>6. Good(Len(s))
    <2> HIDE DEF Good
    <2> QED
      BY <1>2, <1>5
  <1>7. Seen(Len(s)) = Range(s)
    BY <1>2 DEF Range
  <1> HIDE DEF Seen
  <1> QED
    BY <1>1, <1>6, <1>7

(* Of two sequences put together, what either has.                          *)
LEMMA RangeTogether ==
    ASSUME NEW X, NEW s \in Seq(X), NEW r \in Seq(X)
    PROVE  s \o r \in Seq(X) /\ Range(s \o r) = Range(s) \cup Range(r)
  BY ConcatProperties, RangeConcatenation

(***************************************************************************)
(* What is reached                                                         *)
(***************************************************************************)
(* What is reached holds the start, is closed, and nothing smaller is.      *)
ReachIs(next, S, R) ==
    /\ R \subseteq DOMAIN next /\ S \subseteq R
    /\ \A m \in R : next[m] \subseteq R
    /\ \A C \in SUBSET DOMAIN next : S \subseteq C /\ (\A m \in C : next[m] \subseteq C) => R \subseteq C

(* Reach is the least closed set. *)
LEMMA Reached ==
    ASSUME NEW next, NEW S \in SUBSET DOMAIN next, \A m \in DOMAIN next : next[m] \subseteq DOMAIN next
    PROVE  ReachIs(next, S, Reach(next, S))
  <1> DEFINE R == Reach(next, S)
             Closed(C) == S \subseteq C /\ \A n \in C : next[n] \subseteq C
  <1>1. \A m : m \in R <=> m \in DOMAIN next /\ \A C \in SUBSET DOMAIN next : Closed(C) => m \in C
    BY DEF Reach
  <1> HIDE DEF R
  <1>2. R \subseteq DOMAIN next
    BY <1>1
  <1>3. S \subseteq R
    BY <1>1
  <1>4. ASSUME NEW m \in R, NEW k \in next[m] PROVE k \in R
    <2>1. k \in DOMAIN next
      BY <1>2
    <2>2. ASSUME NEW C \in SUBSET DOMAIN next, Closed(C) PROVE k \in C
      BY <1>1, <2>2
    <2> QED
      BY <1>1, <2>1, <2>2
  <1>5. ASSUME NEW C \in SUBSET DOMAIN next, Closed(C) PROVE R \subseteq C
    BY <1>1, <1>5
  <1> QED
    BY <1>2, <1>3, <1>4, <1>5 DEF ReachIs, R

(***************************************************************************)
(* Sequences that hold an element once                                     *)
(***************************************************************************)

Once(s) == \A i, j \in 1..Len(s) : s[i] = s[j] => i = j
Elements(s) == {s[i] : i \in 1..Len(s)}

LEMMA ElementsType ==
    ASSUME NEW X, NEW s \in Seq(X)
    PROVE  /\ Elements(s) \subseteq X
           /\ Elements(s) = {} <=> s = <<>>
           /\ Elements(s) = ToSet(s) /\ Elements(s) = Range(s)
           /\ Once(s) <=> IsInjective(s)
  <1>1. DOMAIN s = 1..Len(s) /\ Len(s) \in Nat /\ \A i \in 1..Len(s) : s[i] \in X
    BY ElementOfSeq, LenProperties
  <1>2. Elements(s) = {} => s = <<>>
    <2>1. Len(s) # 0 => 1 \in 1..Len(s)
      BY <1>1
    <2> QED
      BY <2>1, <1>1, EmptySeq DEF Elements
  <1>3. s = <<>> => Elements(s) = {}
    BY EmptySeq DEF Elements
  <1> QED
    BY <1>1, <1>2, <1>3 DEF Elements, ToSet, Range, Once, IsInjective

LEMMA OnceEmpty == Once(<<>>) /\ Elements(<<>>) = {}
  BY EmptySeq DEF Once, Elements

LEMMA OnceSingle ==
    ASSUME NEW e
    PROVE  <<e>> \in Seq({e}) /\ Once(<<e>>) /\ Elements(<<e>>) = {e} /\ Len(<<e>>) = 1
  <1>1. Len(<<e>>) = 1 /\ <<e>>[1] = e /\ <<e>> \in Seq({e})
    OBVIOUS
  <1>2. 1..1 = {1}
    OBVIOUS
  <1> QED
    BY <1>1, <1>2 DEF Once, Elements

LEMMA OnceConcat ==
    ASSUME NEW X, NEW s \in Seq(X), NEW t \in Seq(X)
    PROVE  /\ s \o t \in Seq(X) /\ Len(s \o t) = Len(s) + Len(t)
           /\ Elements(s \o t) = Elements(s) \cup Elements(t)
           /\ Once(s \o t) <=> /\ Once(s) /\ Once(t)
                               /\ Elements(s) \cap Elements(t) = {}
  <1> DEFINE m == Len(s)
             n == Len(t)
             u == s \o t
  <1>1. /\ u \in Seq(X) /\ Len(u) = m + n /\ m \in Nat /\ n \in Nat
        /\ \A i \in 1..m : u[i] = s[i]
        /\ \A i \in (m + 1)..(m + n) : u[i] = t[i - m]
    BY ConcatProperties, LenProperties
  <1>2. \A j \in 1..n : j + m \in (m + 1)..(m + n) /\ u[j + m] = t[j]
    BY <1>1
  <1> HIDE DEF m, n, u
  <1>3. 1..(m + n) = (1..m) \cup ((m + 1)..(m + n))
    BY <1>1
  <1>4. \A i \in (m + 1)..(m + n) : i - m \in 1..n
    BY <1>1
  <1>5. Elements(u) = Elements(s) \cup Elements(t)
    <2>1. Elements(u) \subseteq Elements(s) \cup Elements(t)
      BY <1>1, <1>3, <1>4 DEF Elements, m, n
    <2>2. Elements(s) \subseteq Elements(u)
      BY <1>1, <1>3 DEF Elements, m
    <2>3. Elements(t) \subseteq Elements(u)
      BY <1>1, <1>2, <1>3 DEF Elements, n
    <2> QED
      BY <2>1, <2>2, <2>3
  <1>6. ASSUME Once(u)
        PROVE  Once(s) /\ Once(t) /\ Elements(s) \cap Elements(t) = {}
    <2>1. Once(s)
      BY <1>1, <1>3, <1>6 DEF Once, m
    <2>2. Once(t)
      <3>1. SUFFICES ASSUME NEW i \in 1..n, NEW j \in 1..n, t[i] = t[j] PROVE i = j
        BY DEF Once, n
      <3>2. i + m = j + m
        BY <1>1, <1>2, <1>3, <1>6, <3>1 DEF Once
      <3> QED
        BY <1>1, <3>2
    <2>3. ASSUME NEW i \in 1..m, NEW j \in 1..n, s[i] = t[j] PROVE FALSE
      <3>1. i = j + m
        BY <1>1, <1>2, <1>3, <1>6, <2>3 DEF Once
      <3> QED
        BY <1>1, <3>1
    <2> QED
      BY <2>1, <2>2, <2>3 DEF Elements, m, n
  <1>7. ASSUME Once(s), Once(t), Elements(s) \cap Elements(t) = {}
        PROVE  Once(u)
    <2>1. \A i \in 1..m, j \in 1..n : s[i] # t[j]
      BY <1>7 DEF Elements, m, n
    <2>2. SUFFICES ASSUME NEW i \in 1..(m + n), NEW j \in 1..(m + n), u[i] = u[j]
                   PROVE  i = j
      BY <1>1 DEF Once
    <2>3. CASE i \in 1..m /\ j \in 1..m
      BY <1>1, <1>7, <2>2, <2>3 DEF Once, m
    <2>4. CASE i \in (m + 1)..(m + n) /\ j \in (m + 1)..(m + n)
      <3>1. i - m = j - m
        BY <1>1, <1>4, <1>7, <2>2, <2>4 DEF Once, n
      <3> QED
        BY <1>1, <3>1
    <2>5. CASE i \in 1..m /\ j \in (m + 1)..(m + n)
      BY <1>1, <1>4, <2>1, <2>2, <2>5
    <2>6. CASE i \in (m + 1)..(m + n) /\ j \in 1..m
      BY <1>1, <1>4, <2>1, <2>2, <2>6
    <2> QED
      BY <1>3, <2>3, <2>4, <2>5, <2>6
  <1> QED
    BY <1>1, <1>5, <1>6, <1>7 DEF u, m, n

LEMMA OnceAppend ==
    ASSUME NEW X, NEW s \in Seq(X), NEW e \in X
    PROVE  /\ Append(s, e) \in Seq(X) /\ Len(Append(s, e)) = Len(s) + 1
           /\ Append(s, e) # <<>>
           /\ Elements(Append(s, e)) = Elements(s) \cup {e}
           /\ Once(s) /\ e \notin Elements(s) => Once(Append(s, e))
  <1>1. Append(s, e) = s \o <<e>>
    OBVIOUS
  <1>2. <<e>> \in Seq(X)
    OBVIOUS
  <1>3. Len(Append(s, e)) = Len(s) + 1 /\ Len(s) \in Nat
    BY AppendProperties, LenProperties
  <1>4. /\ Elements(s \o <<e>>) = Elements(s) \cup Elements(<<e>>)
        /\ s \o <<e>> \in Seq(X)
        /\ Once(s \o <<e>>) <=>
              Once(s) /\ Once(<<e>>) /\ Elements(s) \cap Elements(<<e>>) = {}
    <2> DEFINE t == <<e>>
    <2>1. t \in Seq(X)
      BY <1>2
    <2> HIDE DEF t
    <2>2. /\ Elements(s \o t) = Elements(s) \cup Elements(t) /\ s \o t \in Seq(X)
          /\ Once(s \o t) <=> Once(s) /\ Once(t) /\ Elements(s) \cap Elements(t) = {}
      BY <2>1, OnceConcat
    <2> QED
      BY <2>2 DEF t
  <1>5. Elements(<<e>>) = {e} /\ Once(<<e>>)
    BY OnceSingle
  <1>6. Append(s, e) # <<>>
    BY <1>3, EmptySeq
  <1> QED
    BY <1>1, <1>3, <1>4, <1>5, <1>6

(* A sequence cut in two.                                                   *)
LEMMA OnceCut ==
    ASSUME NEW X, NEW s \in Seq(X), NEW n \in 0..Len(s)
    PROVE  LET a == SubSeq(s, 1, n)
               b == SubSeq(s, n + 1, Len(s))
           IN  /\ a \in Seq(X) /\ b \in Seq(X)
               /\ Len(a) = n /\ Len(b) = Len(s) - n
               /\ Elements(s) = Elements(a) \cup Elements(b)
               /\ Once(s) => Once(a) /\ Once(b) /\ Elements(a) \cap Elements(b) = {}
  <1> DEFINE a == SubSeq(s, 1, n)
             b == SubSeq(s, n + 1, Len(s))
  <1>1. /\ a \in Seq(X) /\ Len(a) = n /\ \A i \in 1..n : a[i] = s[i]
        /\ b \in Seq(X) /\ Len(b) = Len(s) - n
        /\ \A i \in 1..(Len(s) - n) : b[i] = s[n + i]
        /\ Len(s) \in Nat
    <2>1. Len(s) \in Nat
      BY LenProperties
    <2>2. 1 \in 1..(Len(s) + 1) /\ n \in (1 - 1)..Len(s)
      BY <2>1
    <2>3. n + 1 \in 1..(Len(s) + 1) /\ Len(s) \in ((n + 1) - 1)..Len(s)
      BY <2>1
    <2>4. a \in Seq(X) /\ Len(a) = n - 1 + 1 /\ \A i \in 1..(n - 1 + 1) : a[i] = s[1 + i - 1]
      BY <2>2, SubSeqProperties
    <2>5. /\ b \in Seq(X) /\ Len(b) = Len(s) - (n + 1) + 1
          /\ \A i \in 1..(Len(s) - (n + 1) + 1) : b[i] = s[(n + 1) + i - 1]
      BY <2>3, SubSeqProperties
    <2> HIDE DEF a, b
    <2> QED
      BY <2>1, <2>4, <2>5
  <1>2. s = a \o b
    <2> HIDE DEF a, b
    <2>1. /\ a \o b \in Seq(X) /\ Len(a \o b) = Len(a) + Len(b)
          /\ \A i \in 1..Len(a) : (a \o b)[i] = a[i]
          /\ \A i \in (Len(a) + 1)..(Len(a) + Len(b)) : (a \o b)[i] = b[i - Len(a)]
      <3>1. a \in Seq(X) /\ b \in Seq(X)
        BY <1>1
      <3> QED
        BY <3>1, ConcatProperties
    <2> DEFINE c == a \o b
    <2> HIDE DEF c
    <2>2. Len(c) = Len(s)
      BY <1>1, <2>1 DEF c
    <2>3. ASSUME NEW i \in 1..Len(s) PROVE c[i] = s[i]
      <3>1. CASE i \in 1..n
        BY <1>1, <2>1, <3>1 DEF c
      <3>2. CASE i \notin 1..n
        <4>1. i \in (n + 1)..Len(s) /\ i - n \in 1..(Len(s) - n) /\ n + (i - n) = i
          BY <1>1, <3>2
        <4>2. c[i] = b[i - n]
          BY <1>1, <2>1, <4>1 DEF c
        <4> QED
          BY <1>1, <4>1, <4>2
      <3> QED
        BY <3>1, <3>2
    <2>4. c \in Seq(X)
      BY <2>1 DEF c
    <2>5. c = s
      BY <2>2, <2>3, <2>4, SeqEqual
    <2> QED
      BY <2>5 DEF c
  <1> HIDE DEF a, b
  <1>3. Elements(a \o b) = Elements(a) \cup Elements(b)
    BY <1>1, OnceConcat
  <1>4. Once(a \o b) => Once(a) /\ Once(b) /\ Elements(a) \cap Elements(b) = {}
    BY <1>1, OnceConcat
  <1> QED
    BY <1>1, <1>2, <1>3, <1>4 DEF a, b

LEMMA OnceHeadTail ==
    ASSUME NEW X, NEW s \in Seq(X), s # <<>>
    PROVE  /\ Head(s) \in X /\ Tail(s) \in Seq(X) /\ Len(Tail(s)) = Len(s) - 1
           /\ Elements(s) = {Head(s)} \cup Elements(Tail(s))
           /\ Once(s) => Once(Tail(s)) /\ Head(s) \notin Elements(Tail(s))
  <1>1. Len(s) \in Nat /\ Len(s) # 0
    BY LenProperties, EmptySeq
  <1>2. /\ Head(s) = s[1] /\ Tail(s) \in Seq(X) /\ Len(Tail(s)) = Len(s) - 1
        /\ \A i \in 1..Len(Tail(s)) : Tail(s)[i] = s[i + 1]
    BY HeadTailProperties
  <1> DEFINE t == Tail(s)
             h == Head(s)
  <1> HIDE DEF t, h
  <1>3. /\ \A i \in 1..Len(t) : i + 1 \in 1..Len(s) /\ t[i] = s[i + 1] /\ i + 1 # 1
        /\ \A j \in 1..Len(s) : j = 1 \/ (j - 1 \in 1..Len(t) /\ t[j - 1] = s[j])
        /\ h = s[1] /\ 1 \in 1..Len(s)
    BY <1>1, <1>2 DEF t, h
  <1>4. Elements(s) = {h} \cup Elements(t)
    <2>1. h \in Elements(s)
      BY <1>3 DEF Elements
    <2>2. ASSUME NEW e \in Elements(t) PROVE e \in Elements(s)
      <3>1. PICK i \in 1..Len(t) : e = t[i]
        BY DEF Elements
      <3>2. i + 1 \in 1..Len(s) /\ s[i + 1] = e
        BY <1>3, <3>1
      <3> QED
        BY <3>2 DEF Elements
    <2>3. ASSUME NEW e \in Elements(s), e # h PROVE e \in Elements(t)
      <3>1. PICK j \in 1..Len(s) : e = s[j]
        BY DEF Elements
      <3>2. j - 1 \in 1..Len(t) /\ t[j - 1] = e
        BY <1>3, <2>3, <3>1
      <3> QED
        BY <3>2 DEF Elements
    <2> QED
      BY <2>1, <2>2, <2>3
  <1>5. Once(s) => Once(t) /\ h \notin Elements(t)
    <2> SUFFICES ASSUME Once(s) PROVE Once(t) /\ h \notin Elements(t)
      OBVIOUS
    <2>1. h \notin Elements(t)
      BY <1>3 DEF Once, Elements
    <2>2. ASSUME NEW i \in 1..Len(t), NEW j \in 1..Len(t), t[i] = t[j] PROVE i = j
      <3>1. i + 1 = j + 1
        BY <1>3, <2>2 DEF Once
      <3> QED
        BY <3>1
    <2> QED
      BY <2>1, <2>2 DEF Once
  <1>6. h \in X
    BY <1>3, ElementOfSeq
  <1> QED
    BY <1>2, <1>4, <1>5, <1>6 DEF t, h

LEMMA OnceWithout ==
    ASSUME NEW X, NEW s \in Seq(X), NEW S
    PROVE  LET w == Without(s, S)
           IN  /\ w \in Seq(X) /\ Len(w) <= Len(s) /\ Len(w) \in Nat
               /\ Elements(w) = Elements(s) \ S
               /\ Elements(s) \cap S # {} => Len(w) < Len(s)
               /\ Once(s) => Once(w)
  <1> DEFINE w == Without(s, S)
             Before == {p \in X \X X : p[1] # p[2]}
  <1>1. /\ w \in Seq(X) /\ ToSet(w) = ToSet(s) \ S /\ Len(w) <= Len(s)
        /\ ToSet(s) \cap S # {} => Len(w) < Len(s)
    BY WithoutProperties
  <1>2. Elements(w) = ToSet(w) /\ Elements(s) = ToSet(s)
    BY <1>1, ElementsType
  <1>3. ASSUME Once(s) PROVE Once(w)
    <2>1. \A i, j \in 1..Len(s) : i < j => <<s[i], s[j]>> \in Before
      <3>1. \A i \in 1..Len(s) : s[i] \in X
        BY ElementOfSeq
      <3>2. \A i, j \in 1..Len(s) : i < j => s[i] # s[j]
        <4>1. ASSUME NEW i \in 1..Len(s), NEW j \in 1..Len(s), i < j, s[i] = s[j]
              PROVE  FALSE
          <5>1. i = j
            BY <1>3, <4>1 DEF Once
          <5> QED
            BY <4>1, <5>1
        <4> QED
          BY <4>1
      <3> QED
        BY <3>1, <3>2
    <2>2. \A i, j \in 1..Len(w) : i < j => <<w[i], w[j]>> \in Before
      <3> HIDE DEF Before
      <3> QED
        BY <2>1, WithoutKeepsOrder
    <2>3. \A i, j \in 1..Len(w) : i < j => w[i] # w[j]
      BY <2>2
    <2>4. Len(w) \in Nat
      BY <1>1, LenProperties
    <2> HIDE DEF w, Before
    <2>5. ASSUME NEW i \in 1..Len(w), NEW j \in 1..Len(w), w[i] = w[j] PROVE i = j
      <3>1. i < j \/ j < i \/ i = j
        OBVIOUS
      <3> QED
        BY <2>3, <2>5, <3>1
    <2> QED
      BY <2>5 DEF Once
  <1>4. Len(w) \in Nat
    BY <1>1, LenProperties
  <1> QED
    BY <1>1, <1>2, <1>3, <1>4

(***************************************************************************)
(* Least and greatest numbers                                              *)
(***************************************************************************)

LEMMA Least ==
    ASSUME NEW S \in SUBSET Nat, S # {}
    PROVE  \E m \in S : \A n \in S : m <= n
  <1> SUFFICES ASSUME \A m \in S : \E n \in S : n < m PROVE FALSE
    OBVIOUS
  <1> DEFINE T == {n \in Nat : \A m \in 0..n : m \notin S}
  <1>1. 0 \in T
    BY 0..0 = {0}
  <1>2. ASSUME NEW n \in Nat, n \in T PROVE n + 1 \in T
    <2>1. n + 1 \notin S
      <3>1. \A m \in Nat : m < n + 1 => m \in 0..n
        OBVIOUS
      <3> QED
        BY <1>2, <3>1
    <2>2. 0..(n + 1) = (0..n) \cup {n + 1}
      OBVIOUS
    <2> QED
      BY <1>2, <2>1, <2>2
  <1> HIDE DEF T
  <1>3. Nat \subseteq T
    BY <1>1, <1>2, SetInduction
  <1>4. \A n \in Nat : n \notin S
    BY <1>3 DEF T
  <1> QED
    BY <1>4

LEMMA Greatest ==
    ASSUME NEW b \in Nat, NEW S \in SUBSET (0..b), S # {}
    PROVE  \E m \in S : \A n \in S : m >= n
  <1> DEFINE D == {b - n : n \in S}
  <1>1. D \in SUBSET Nat /\ D # {}
    <2>1. \A n \in S : b - n \in Nat
      OBVIOUS
    <2>2. PICK n \in S : TRUE
      OBVIOUS
    <2> QED
      BY <2>1, <2>2
  <1> HIDE DEF D
  <1>2. PICK d \in D : \A e \in D : d <= e
    BY <1>1, Least
  <1>3. PICK m \in S : d = b - m
    BY DEF D
  <1>4. \A n \in S : b - m <= b - n
    BY <1>2, <1>3 DEF D
  <1> QED
    BY <1>4

(* A finite set written as a sequence.                                      *)
LEMMA SeqOfSet ==
    ASSUME NEW X, NEW W \in SUBSET X, IsFiniteSet(W)
    PROVE  /\ InSomeOrder(W) \in Seq(X) /\ Once(InSomeOrder(W)) /\ Elements(InSomeOrder(W)) = W
  <1> DEFINE n == Cardinality(W)
             f == InSomeOrder(W)
  <1>1. n \in Nat /\ ExistsBijection(1..n, W)
    BY FS_CardinalityType
  <1>2. PICK g \in Bijection(1..n, W) : TRUE
    BY <1>1 DEF ExistsBijection
  <1> DEFINE Orders(s) == \A i, j \in DOMAIN s : s[i] = s[j] => i = j
  <1>3. g \in [1..n -> W] /\ Orders(g)
    BY <1>2 DEF Bijection, Injection, Surjection, IsInjective
  <1>4. f \in [1..n -> W] /\ Orders(f)
    BY <1>3 DEF InSomeOrder
  <1>5. IsFiniteSet(1..n) /\ Cardinality(1..n) = n
    BY <1>1, FS_Interval
  <1> HIDE DEF f
  <1>6. f \in Injection(1..n, W)
    BY <1>4 DEF Injection, IsInjective
  <1>7. f \in Surjection(1..n, W)
    BY <1>5, <1>6, FS_Injection
  <1>8. f \in Seq(X) /\ Len(f) = n /\ DOMAIN f = 1..n
    BY <1>1, <1>4
  <1>9. Once(f)
    BY <1>4, <1>8 DEF Once, IsInjective
  <1>10. Elements(f) = W
    BY <1>4, <1>7, <1>8 DEF Elements, Surjection
  <1> QED
    BY <1>8, <1>9, <1>10 DEF f
===============================================================================
