------------------------ MODULE PersistentQueueProofs ------------------------
(***************************************************************************)
(* Proofs about PersistentQueue, for every set of records, every bound and *)
(* every combination of options.                                           *)
(*                                                                         *)
(* QInv is inductive.  It says where a record may be that is no longer     *)
(* somewhere else: storage against memory, what the drain still has ahead  *)
(* of it against memory, what the delegate holds against memory, and the   *)
(* resident ids against what the delegate holds; each may only have given  *)
(* up what is settled, that is, committed or reported.                     *)
(*                                                                         *)
(* A step changes where records are in one of nine ways (Kinds).  Each way *)
(* is described by sets alone (StepKinds), so that the invariant's parts   *)
(* follow from the description and not from the handlers.                  *)
(***************************************************************************)
EXTENDS PersistentQueue, ListTheorems

(***************************************************************************)
(* The inductive invariant                                                 *)
(***************************************************************************)
Settled == committed \cup dropped

(* Whatever is anywhere was issued; a page that is gone holds nothing.     *)
Known ==
    /\ ToSet(storage) \subseteq issued /\ ToSet(entries) \subseteq issued
    /\ ToSet(drainList) \subseteq issued /\ ToSet(innerPending) \subseteq issued
    /\ resident \subseteq issued
DownIsEmpty ==
    ~up => /\ entries = <<>> /\ drainList = <<>> /\ innerPending = <<>>
           /\ resident = {} /\ promised = {} /\ drainPc = "idle"

(* Storage holds more than memory only when a removal or what a restart     *)
(* kept could not be written, or the constructor could not read it.         *)
StorageIsAccounted ==
    up => ToSet(storage) \subseteq ToSet(entries) \cup Settled \cup unread

(* What a drain has ahead of it, what the delegate holds, and what counts   *)
(* as resident is stored, held and settled respectively.                   *)
AheadIsStored == ToSet(drainList) \subseteq ToSet(entries) \cup Settled
HeldIsStored == ToSet(innerPending) \subseteq ToSet(entries) \cup Settled
ResidentIsHeld == resident \subseteq ToSet(innerPending) \cup Settled

(* The running drain has what it owes ahead of it until it has handed it to *)
(* the delegate, and the delegate until it is settled.                     *)
PromiseIsKept ==
  /\ drainPc = "idle" => promised = {}
  /\ innerAccepting =>
        /\ drainPc = "write" =>
               promised \subseteq ToSet(drainList) \cup resident \cup Settled
        /\ drainPc \in {"flush", "exitFlush"} =>
               promised \subseteq resident \cup Settled
        /\ drainPc = "done" => promised \subseteq Settled
AcceptsUntilClosed == up /\ closePc \in {"idle", "drain"} => innerAccepting

QInv ==
    /\ TypeOK /\ Known /\ DownIsEmpty
    /\ NothingLost /\ MemoryIsBacked /\ HandedOnce
    /\ StorageIsAccounted /\ AheadIsStored /\ HeldIsStored /\ ResidentIsHeld
    /\ PromiseIsKept /\ AcceptsUntilClosed

-----------------------------------------------------------------------------
(* Sequences *)

(* The tail of a sequence and its head are its elements.                   *)
LEMMA ToSetTail ==
    ASSUME NEW X, NEW s \in Seq(X), s # <<>>
    PROVE  /\ Head(s) \in X /\ Tail(s) \in Seq(X)
           /\ ToSet(s) = {Head(s)} \cup ToSet(Tail(s))
<1>1. /\ Head(s) = s[1] /\ Head(s) \in X /\ Tail(s) \in Seq(X)
      /\ Len(s) \in Nat /\ Len(s) >= 1 /\ Len(Tail(s)) = Len(s) - 1
      /\ \A i \in 1..Len(Tail(s)) : Tail(s)[i] = s[i + 1]
  BY HeadTailProperties, EmptySeq, LenProperties
<1>2. DOMAIN s = 1..Len(s) /\ DOMAIN Tail(s) = 1..(Len(s) - 1)
  BY <1>1, LenProperties
<1>3. ASSUME NEW e \in ToSet(s)
      PROVE  e \in {Head(s)} \cup ToSet(Tail(s))
  <2>1. PICK i \in 1..Len(s) : e = s[i]
    BY <1>2 DEF ToSet
  <2>2. CASE i = 1
    BY <1>1, <2>1, <2>2
  <2>3. CASE i # 1
    <3>1. i - 1 \in 1..(Len(s) - 1) /\ s[i] = Tail(s)[i - 1]
      BY <1>1, <2>1, <2>3
    <3> QED BY <3>1, <1>2, <2>1 DEF ToSet
  <2> QED BY <2>2, <2>3
<1>4. ASSUME NEW e \in ToSet(Tail(s))
      PROVE  e \in ToSet(s)
  <2>1. PICK i \in 1..(Len(s) - 1) : e = Tail(s)[i]
    BY <1>2 DEF ToSet
  <2>2. i + 1 \in 1..Len(s) /\ e = s[i + 1]
    BY <1>1, <2>1
  <2> QED BY <2>2, <1>2 DEF ToSet
<1>5. Head(s) \in ToSet(s)
  BY <1>1, <1>2 DEF ToSet
<1> QED BY <1>1, <1>3, <1>4, <1>5

(* Injectivity by positions, and what the tail and an append keep of it.   *)
LEMMA InjectiveTail ==
    ASSUME NEW X, NEW s \in Seq(X), s # <<>>, IsInjective(s)
    PROVE  IsInjective(Tail(s))
<1>1. /\ Tail(s) \in Seq(X) /\ Len(s) \in Nat /\ Len(s) >= 1
      /\ Len(Tail(s)) = Len(s) - 1
      /\ \A i \in 1..Len(Tail(s)) : Tail(s)[i] = s[i + 1]
  BY HeadTailProperties, EmptySeq, LenProperties
<1>2. DOMAIN s = 1..Len(s) /\ DOMAIN Tail(s) = 1..(Len(s) - 1)
  BY <1>1, LenProperties
<1>3. ASSUME NEW i \in 1..(Len(s) - 1), NEW j \in 1..(Len(s) - 1),
             Tail(s)[i] = Tail(s)[j]
      PROVE  i = j
  <2>1. s[i + 1] = s[j + 1] /\ i + 1 \in 1..Len(s) /\ j + 1 \in 1..Len(s)
    BY <1>1, <1>3
  <2>2. i + 1 = j + 1
    BY <2>1, <1>2 DEF IsInjective
  <2> QED BY <2>2
<1> QED BY <1>2, <1>3 DEF IsInjective

LEMMA InjectiveAppend ==
    ASSUME NEW X, NEW s \in Seq(X), NEW e \in X, e \notin ToSet(s), IsInjective(s)
    PROVE  IsInjective(Append(s, e))
<1>1. /\ Len(s) \in Nat /\ Len(Append(s, e)) = Len(s) + 1
      /\ \A i \in 1..Len(s) : Append(s, e)[i] = s[i]
      /\ Append(s, e)[Len(s) + 1] = e /\ Append(s, e) \in Seq(X)
  BY AppendProperties, LenProperties
<1>2. DOMAIN s = 1..Len(s) /\ DOMAIN Append(s, e) = 1..(Len(s) + 1)
  BY <1>1, LenProperties
<1>3. \A i \in 1..(Len(s) + 1) : i \in 1..Len(s) \/ i = Len(s) + 1
  BY <1>1
<1>4. \A i \in 1..Len(s) : s[i] # e
  BY <1>2 DEF ToSet
<1>5. \A i, j \in 1..Len(s) : s[i] = s[j] => i = j
  BY <1>2 DEF IsInjective
<1> QED BY <1>1, <1>2, <1>3, <1>4, <1>5 DEF IsInjective

(* A sequence without its k-th element.                                    *)
LEMMA RemoveAtProperties ==
    ASSUME NEW X, NEW s \in Seq(X), NEW k \in 1..Len(s)
    PROVE  /\ RemoveAt(s, k) \in Seq(X)
           /\ ToSet(RemoveAt(s, k)) \subseteq ToSet(s)
           /\ ToSet(s) \subseteq ToSet(RemoveAt(s, k)) \cup {s[k]}
           /\ IsInjective(s) => IsInjective(RemoveAt(s, k))
<1> DEFINE t == RemoveAt(s, k)
           place(i) == IF i < k THEN i ELSE i + 1
<1>1. Len(s) \in Nat /\ k \in Nat /\ k <= Len(s) /\ 1 <= k
  BY LenProperties
<1>2. /\ t \in Seq(X) /\ Len(t) = Len(s) - 1
      /\ \A i \in 1..(Len(s) - 1) : t[i] = s[place(i)]
  <2>1. /\ SubSeq(s, 1, k - 1) \in Seq(X) /\ Len(SubSeq(s, 1, k - 1)) = k - 1
        /\ \A i \in 1..(k - 1) : SubSeq(s, 1, k - 1)[i] = s[i]
    <3>1. \A i \in 1..(k - 1) : i \in 1..Len(s)
      BY <1>1
    <3> QED BY <1>1, <3>1, SubSeqProperties, ElementOfSeq
  <2>2. /\ SubSeq(s, k + 1, Len(s)) \in Seq(X)
        /\ Len(SubSeq(s, k + 1, Len(s))) = Len(s) - k
        /\ \A i \in 1..(Len(s) - k) : SubSeq(s, k + 1, Len(s))[i] = s[i + k]
    <3>1. \A i \in (k + 1)..Len(s) : i \in 1..Len(s)
      BY <1>1
    <3> QED BY <1>1, <3>1, SubSeqProperties, ElementOfSeq
  <2>3. t = SubSeq(s, 1, k - 1) \o SubSeq(s, k + 1, Len(s))
    BY DEF RemoveAt
  <2> HIDE DEF t
  <2> DEFINE a == SubSeq(s, 1, k - 1)
             b == SubSeq(s, k + 1, Len(s))
  <2>4. /\ t \in Seq(X) /\ Len(t) = Len(a) + Len(b)
        /\ \A i \in 1..(Len(a) + Len(b)) :
              t[i] = IF i <= Len(a) THEN a[i] ELSE b[i - Len(a)]
    BY <2>1, <2>2, <2>3, ConcatProperties
  <2> HIDE DEF a, b
  <2>5. /\ Len(a) = k - 1 /\ Len(b) = Len(s) - k
        /\ \A i \in 1..(k - 1) : a[i] = s[i]
        /\ \A i \in 1..(Len(s) - k) : b[i] = s[i + k]
    BY <2>1, <2>2 DEF a, b
  <2>6. ASSUME NEW i \in 1..(Len(s) - 1)
        PROVE  t[i] = s[place(i)]
    <3>1. CASE i < k
      <4>1. t[i] = a[i] /\ i \in 1..(k - 1)
        BY <1>1, <2>4, <2>5, <3>1
      <4> QED BY <4>1, <2>5, <3>1
    <3>2. CASE ~(i < k)
      <4>0. i - (k - 1) \in 1..(Len(s) - k) /\ ~(i <= k - 1)
        BY <1>1, <3>2
      <4>1. t[i] = b[i - (k - 1)] /\ i - (k - 1) \in 1..(Len(s) - k)
        <5>1. i \in 1..(Len(a) + Len(b)) /\ ~(i <= Len(a))
          BY <1>1, <2>5, <4>0
        <5>2. t[i] = b[i - Len(a)]
          BY <2>4, <5>1
        <5> QED BY <2>5, <4>0, <5>2
      <4>2. b[i - (k - 1)] = s[(i - (k - 1)) + k]
        BY <4>1, <2>5
      <4> QED BY <4>1, <4>2, <3>2, <1>1
    <3> QED BY <3>1, <3>2
  <2> QED BY <2>4, <2>5, <2>6, <1>1
<1> HIDE DEF t
<1>3. DOMAIN s = 1..Len(s) /\ DOMAIN t = 1..(Len(s) - 1)
  BY <1>2, LenProperties
<1>4. /\ \A i \in 1..(Len(s) - 1) : place(i) \in 1..Len(s)
      /\ \A i, j \in 1..(Len(s) - 1) : place(i) = place(j) => i = j
      /\ \A j \in 1..Len(s) : j # k => \E i \in 1..(Len(s) - 1) : j = place(i)
  <2>1. ASSUME NEW j \in 1..Len(s), j # k
        PROVE  \E i \in 1..(Len(s) - 1) : j = place(i)
    <3>1. CASE j < k
      <4>1. j \in 1..(Len(s) - 1) /\ j = place(j)
        BY <1>1, <3>1
      <4> QED BY <4>1
    <3>2. CASE j > k
      <4>1. j - 1 \in 1..(Len(s) - 1) /\ j = place(j - 1)
        BY <1>1, <3>2
      <4> QED BY <4>1
    <3> QED BY <3>1, <3>2, <2>1, <1>1
  <2>2. \A i \in 1..(Len(s) - 1) : place(i) \in 1..Len(s)
    BY <1>1
  <2>3. \A i, j \in 1..(Len(s) - 1) : place(i) = place(j) => i = j
    BY <1>1
  <2> QED BY <2>1, <2>2, <2>3
<1> HIDE DEF place
<1>5. ASSUME NEW e \in ToSet(t)
      PROVE  e \in ToSet(s)
  <2>1. PICK i \in 1..(Len(s) - 1) : e = t[i]
    BY <1>3 DEF ToSet
  <2>2. e = s[place(i)] /\ place(i) \in 1..Len(s)
    BY <1>2, <1>4, <2>1
  <2> QED BY <1>3, <2>2 DEF ToSet
<1>6. ASSUME NEW e \in ToSet(s), e # s[k]
      PROVE  e \in ToSet(t)
  <2>1. PICK j \in 1..Len(s) : e = s[j]
    BY <1>3 DEF ToSet
  <2>2. PICK i \in 1..(Len(s) - 1) : j = place(i)
    BY <1>4, <1>6, <2>1
  <2>3. e = t[i]
    BY <1>2, <2>1, <2>2
  <2> QED BY <1>3, <2>3 DEF ToSet
<1>7. IsInjective(s) => IsInjective(t)
  BY <1>2, <1>3, <1>4 DEF IsInjective
<1> QED BY <1>2, <1>5, <1>6, <1>7 DEF t

-----------------------------------------------------------------------------
(* Where records are *)

Placement ==
    /\ ToSet(storage) \subseteq issued /\ ToSet(entries) \subseteq issued
    /\ ToSet(innerPending) \subseteq issued /\ resident \subseteq issued
    /\ NothingLost /\ MemoryIsBacked /\ HandedOnce
    /\ StorageIsAccounted /\ HeldIsStored /\ ResidentIsHeld

(* What StorageReleasesCommitted says of a step.                           *)
Releases ==
    \A r \in ToSet(storage) \ ToSet(storage') :
        r \in committed \cup dropped' \cup unread

(* Histories only grow; memory and the resident ids lose what is settled.  *)
Grows ==
    /\ committed \subseteq committed' /\ dropped \subseteq dropped'
    /\ unread \subseteq unread' /\ issued \subseteq issued'
Keeps ==
    /\ Grows
    /\ ToSet(entries) \subseteq ToSet(entries') \cup Settled'
    /\ resident \subseteq resident' \cup Settled'

(* QInv without TypeOK, in one layer.                                      *)
LEMMA QInvPlaces == QInv => TypeOK /\ Placement
  BY DEF QInv, Known, Placement

(* A step that leaves the places alone, and reports a record it refuses.   *)
LEMMA StayPut ==
    ASSUME QInv, Grows, issued' \subseteq issued \cup dropped',
           UNCHANGED <<storage, entries, resident, innerPending, up>>
    PROVE  Placement' /\ Releases /\ Keeps
<1>1. Placement
  BY QInvPlaces
<1>2. /\ ToSet(storage)' = ToSet(storage) /\ ToSet(entries)' = ToSet(entries)
      /\ ToSet(innerPending)' = ToSet(innerPending)
      /\ IsInjective(innerPending)' <=> IsInjective(innerPending)
  OBVIOUS
<1>3. Settled \subseteq Settled'
  BY DEF Grows, Settled
<1>4. NothingLost' /\ MemoryIsBacked' /\ HandedOnce'
  BY <1>1, <1>2, Zenon DEF Placement, NothingLost, MemoryIsBacked, HandedOnce, Grows
<1>5. StorageIsAccounted' /\ HeldIsStored' /\ ResidentIsHeld'
  BY <1>1, <1>2, <1>3, Zenon
    DEF Placement, StorageIsAccounted, HeldIsStored, ResidentIsHeld, Grows
<1>6. Placement'
  BY <1>1, <1>2, <1>4, <1>5 DEF Placement, Grows
<1> QED BY <1>2, <1>3, <1>6 DEF Releases, Keeps

(* What persistRecord does to the entries: the one displaced entry is one   *)
(* the delegate has not taken, and the bound is kept.                      *)
LEMMA EntriesWithProperties ==
    ASSUME QInv, NEW r \in Records \ issued
    PROVE  /\ EntriesWith(r) \in Seq(Records)
           /\ ToSet(EntriesWith(r)) = (ToSet(entries) \cup {r}) \ Overflow(r)
           /\ Overflow(r) \subseteq (ToSet(entries) \cup {r}) \ resident
           /\ Len(EntriesWith(r)) <= MaxRecords
<1> DEFINE longer == Append(entries, r)
           candidates == Without(longer, resident)
<1>1. /\ entries \in Seq(Records) /\ Len(entries) <= MaxRecords
      /\ MaxRecords \in Nat /\ r \notin resident
  BY MaxRecordsAssumption DEF QInv, TypeOK, Known
<1>2. /\ longer \in Seq(Records) /\ Len(longer) = Len(entries) + 1
      /\ ToSet(longer) = ToSet(entries) \cup {r}
  BY <1>1, AppendProperties, ToSetAppend
<1>3. EntriesWith(r) = Without(longer, Overflow(r))
  BY DEF EntriesWith
<1> HIDE DEF longer
<1>4. /\ candidates \in Seq(Records)
      /\ ToSet(candidates) = (ToSet(entries) \cup {r}) \ resident
  BY <1>2, WithoutProperties
<1>5. Overflow(r) = IF Len(entries) < MaxRecords THEN {} ELSE {Head(candidates)}
  BY DEF Overflow, longer
<1> HIDE DEF candidates
<1>6. Head(candidates) \in (ToSet(entries) \cup {r}) \ resident
  <2>1. r \in ToSet(candidates)
    BY <1>1, <1>4
  <2>2. candidates # <<>>
    BY <2>1 DEF ToSet
  <2> QED BY <1>4, <2>2, ToSetTail
<1>7. /\ EntriesWith(r) \in Seq(Records)
      /\ ToSet(EntriesWith(r)) = (ToSet(entries) \cup {r}) \ Overflow(r)
      /\ Len(EntriesWith(r)) <= Len(entries) + 1
      /\ ToSet(longer) \cap Overflow(r) # {} => Len(EntriesWith(r)) < Len(entries) + 1
  <2>1. /\ Without(longer, Overflow(r)) \in Seq(Records)
        /\ ToSet(Without(longer, Overflow(r))) = ToSet(longer) \ Overflow(r)
        /\ Len(Without(longer, Overflow(r))) <= Len(longer)
        /\ ToSet(longer) \cap Overflow(r) # {} =>
              Len(Without(longer, Overflow(r))) < Len(longer)
    BY <1>2, WithoutProperties
  <2> QED BY <2>1, <1>2, <1>3
<1>8. Len(EntriesWith(r)) \in Nat /\ Len(entries) \in Nat
  BY <1>1, <1>7, LenProperties
<1>9. Len(EntriesWith(r)) <= MaxRecords
  <2>1. CASE Len(entries) < MaxRecords
    BY <1>1, <1>7, <1>8, <2>1
  <2>2. CASE ~(Len(entries) < MaxRecords)
    <3>1. ToSet(longer) \cap Overflow(r) # {}
      BY <1>2, <1>5, <1>6, <2>2
    <3> QED BY <3>1, <1>1, <1>7, <1>8
  <2> QED BY <2>1, <2>2
<1> QED BY <1>5, <1>6, <1>7, <1>9

(* persistRecord: what storage gives up is accounted for elsewhere.        *)
LEMMA PersistPlaces ==
    ASSUME QInv, NEW r \in Records \ issued, Persist(r),
           issued' = issued \cup {r}, up,
           UNCHANGED <<innerPending, committed, up>>
    PROVE  Placement' /\ Releases /\ Keeps
<1> DEFINE V == Overflow(r)
<1>1. Placement
  BY QInvPlaces
<1>2. /\ storage' = entries' /\ ToSet(entries)' = (ToSet(entries) \cup {r}) \ V
      /\ V \subseteq ToSet(entries) \cup {r} /\ dropped' = dropped \cup V
      /\ resident' = resident /\ unread' = unread
  BY EntriesWithProperties DEF Persist
<1>3. /\ ToSet(innerPending)' = ToSet(innerPending)
      /\ ToSet(storage)' = ToSet(entries)'
      /\ IsInjective(innerPending)' <=> IsInjective(innerPending)
  BY <1>2
<1> HIDE DEF V
<1>4. Grows /\ Settled' = Settled \cup V
  BY <1>2 DEF Grows, Settled
<1>5. NothingLost'
  BY <1>1, <1>2, <1>3 DEF Placement, NothingLost, StorageIsAccounted, Settled
<1>6. MemoryIsBacked'
  BY <1>1, <1>2, <1>3 DEF Placement, MemoryIsBacked, HeldIsStored, Settled
<1>7. HandedOnce'
  BY <1>1, <1>2, <1>3, Zenon DEF Placement, HandedOnce
<1>8. StorageIsAccounted' /\ HeldIsStored' /\ ResidentIsHeld'
  BY <1>1, <1>2, <1>3, <1>4
    DEF Placement, StorageIsAccounted, HeldIsStored, ResidentIsHeld
<1>9. Releases
  BY <1>1, <1>2, <1>3 DEF Placement, Releases, StorageIsAccounted, Settled
<1>10. Keeps
  BY <1>1, <1>2, <1>4 DEF Keeps
<1>11. Placement'
  BY <1>1, <1>2, <1>3, <1>5, <1>6, <1>7, <1>8 DEF Placement
<1> QED BY <1>9, <1>10, <1>11

(* removeCommitted: the delegate holds nothing, so what was resident is     *)
(* settled, whether or not storage could be written.                       *)
LEMMA RemovePlaces ==
    ASSUME QInv, RemoveCommitted(resident), innerPending = <<>>, up,
           UNCHANGED <<innerPending, committed, issued, dropped, unread, up>>
    PROVE  Placement' /\ Releases /\ Keeps
<1>1. Placement /\ entries \in Seq(Records)
  BY QInvPlaces DEF TypeOK
<1>2. ToSet(innerPending) = {} /\ ToSet(innerPending)' = {}
  BY DEF ToSet
<1>3. /\ ToSet(entries)' = ToSet(entries) \ resident /\ resident' = {}
      /\ storage' = storage \/ storage' = entries'
  BY <1>1, WithoutProperties DEF RemoveCommitted
<1>4. ToSet(storage)' = ToSet(storage) \/ ToSet(storage)' = ToSet(entries)'
  BY <1>3
<1>5. resident \subseteq Settled /\ Settled' = Settled
  BY <1>1, <1>2 DEF Placement, ResidentIsHeld, Settled
<1>6. Grows
  BY DEF Grows
<1>7. NothingLost'
  BY <1>1, <1>3, <1>4, <1>5 DEF Placement, NothingLost, StorageIsAccounted, Settled
<1>8. MemoryIsBacked' /\ HandedOnce'
  BY <1>1, <1>2, <1>3, <1>4 DEF Placement, MemoryIsBacked, HandedOnce
<1>9. StorageIsAccounted' /\ HeldIsStored' /\ ResidentIsHeld'
  BY <1>1, <1>2, <1>3, <1>4, <1>5
    DEF Placement, StorageIsAccounted, HeldIsStored, ResidentIsHeld
<1>10. Releases
  BY <1>1, <1>3, <1>4, <1>5 DEF Placement, Releases, StorageIsAccounted, Settled
<1>11. Keeps
  BY <1>3, <1>5, <1>6 DEF Keeps
<1>12. Placement'
  BY <1>1, <1>2, <1>3, <1>4, <1>7, <1>8, <1>9 DEF Placement, MemoryIsBacked
<1> QED BY <1>10, <1>11, <1>12

(* The entries the drain still has ahead of it, and the next one.          *)
LEMMA AheadProperties ==
    ASSUME QInv
    PROVE  /\ Ahead \in Seq(Records) /\ ToSet(Ahead) = ToSet(drainList) \ resident
           /\ Ahead # <<>> =>
                /\ Head(Ahead) \in Records /\ Head(Ahead) \in ToSet(drainList) \ resident
                /\ Tail(Ahead) \in Seq(Records)
                /\ ToSet(drainList) \subseteq
                     ToSet(Tail(Ahead)) \cup {Head(Ahead)} \cup resident
                /\ ToSet(Tail(Ahead)) \subseteq ToSet(drainList)
<1>1. drainList \in Seq(Records)
  BY DEF QInv, TypeOK
<1>2. Ahead \in Seq(Records) /\ ToSet(Ahead) = ToSet(drainList) \ resident
  BY <1>1, WithoutProperties DEF Ahead
<1>3. ASSUME Ahead # <<>>
      PROVE  /\ Head(Ahead) \in Records /\ Tail(Ahead) \in Seq(Records)
             /\ ToSet(Ahead) = {Head(Ahead)} \cup ToSet(Tail(Ahead))
  BY <1>2, <1>3, ToSetTail
<1> QED BY <1>2, <1>3

(* What the delegate holds after it has taken h: at most one record, which  *)
(* it reports, makes room.                                                 *)
LEMMA InnerTakesProperties ==
    ASSUME QInv, up, NEW h \in Records, h \notin resident, InnerTakes(h)
    PROVE  /\ innerPending' \in Seq(Records) /\ IsInjective(innerPending')
           /\ h \in ToSet(innerPending')
           /\ ToSet(innerPending') \subseteq ToSet(innerPending) \cup {h}
           /\ ToSet(innerPending) \subseteq ToSet(innerPending') \cup dropped'
           /\ dropped \subseteq dropped' /\ dropped' \subseteq Records
           /\ resident' = resident \cup {h} /\ handed' = handed \cup {h}
<1>1. /\ innerPending \in Seq(Records) /\ IsInjective(innerPending)
      /\ h \notin ToSet(innerPending) /\ dropped \subseteq Records
  BY DEF QInv, TypeOK, HandedOnce
<1>2. CASE innerPending' = Append(innerPending, h) /\ UNCHANGED dropped
  <2>1. /\ innerPending' \in Seq(Records) /\ IsInjective(innerPending')
        /\ ToSet(innerPending') = ToSet(innerPending) \cup {h}
    BY <1>1, <1>2, AppendProperties, ToSetAppend, InjectiveAppend
  <2> QED BY <2>1, <1>1, <1>2 DEF InnerTakes
<1>3. CASE ~(innerPending' = Append(innerPending, h) /\ UNCHANGED dropped)
  <2> DEFINE k == Len(innerPending) - MaxRecords + 1
             rest == RemoveAt(innerPending, k)
  <2>1. /\ k > 0 /\ innerPending' = Append(rest, h)
        /\ dropped' = dropped \cup {innerPending[k]}
    BY <1>3 DEF InnerTakes
  <2>2. k \in 1..Len(innerPending)
    BY <1>1, <2>1, LenProperties, MaxRecordsAssumption
  <2>3. innerPending[k] \in Records
    BY <1>1, <2>2, ElementOfSeq
  <2>4. /\ rest \in Seq(Records) /\ ToSet(rest) \subseteq ToSet(innerPending)
        /\ ToSet(innerPending) \subseteq ToSet(rest) \cup {innerPending[k]}
        /\ IsInjective(rest)
    <3> HIDE DEF k
    <3> QED BY <1>1, <2>2, RemoveAtProperties
  <2> HIDE DEF rest, k
  <2>5. /\ innerPending' \in Seq(Records) /\ IsInjective(innerPending')
        /\ ToSet(innerPending') = ToSet(rest) \cup {h}
    <3>1. h \notin ToSet(rest)
      BY <1>1, <2>4
    <3> QED BY <2>1, <2>4, <3>1, AppendProperties, ToSetAppend, InjectiveAppend
  <2> QED BY <1>1, <2>1, <2>3, <2>4, <2>5 DEF InnerTakes
<1> QED BY <1>2, <1>3

(* The delegate takes a record, and may report its oldest.                 *)
LEMMA TakePlaces ==
    ASSUME QInv, up, NEW h \in Records, h \in ToSet(drainList) \ resident,
           InnerTakes(h),
           UNCHANGED <<storage, entries, committed, issued, unread, up>>
    PROVE  Placement' /\ Releases /\ Keeps
<1>1. Placement /\ ToSet(drainList) \subseteq ToSet(entries) \cup Settled
      /\ ToSet(drainList) \subseteq issued
  BY QInvPlaces DEF QInv, AheadIsStored, Known
<1>2. /\ IsInjective(innerPending') /\ h \in ToSet(innerPending')
      /\ ToSet(innerPending') \subseteq ToSet(innerPending) \cup {h}
      /\ ToSet(innerPending) \subseteq ToSet(innerPending') \cup dropped'
      /\ dropped \subseteq dropped'
      /\ resident' = resident \cup {h}
  BY InnerTakesProperties
<1>3. /\ ToSet(storage)' = ToSet(storage) /\ ToSet(entries)' = ToSet(entries)
      /\ ToSet(innerPending)' = ToSet(innerPending')
      /\ IsInjective(innerPending)' <=> IsInjective(innerPending')
  OBVIOUS
<1>4. Grows /\ Settled \subseteq Settled' /\ dropped' \subseteq Settled'
  BY <1>2 DEF Grows, Settled
<1>5. HeldIsStored' /\ ResidentIsHeld' /\ StorageIsAccounted'
  BY <1>1, <1>2, <1>3, <1>4
    DEF Placement, HeldIsStored, ResidentIsHeld, StorageIsAccounted
<1>6. MemoryIsBacked'
  BY <1>1, <1>3, <1>5 DEF Placement, MemoryIsBacked, HeldIsStored, Settled
<1>7. HandedOnce'
  <2>1. IsInjective(innerPending)'
    BY <1>2
  <2>2. ToSet(innerPending)' \subseteq resident'
    BY <1>1, <1>2 DEF Placement, HandedOnce
  <2> QED BY <2>1, <2>2 DEF HandedOnce
<1>8. NothingLost'
  BY <1>1, <1>2, <1>3 DEF Placement, NothingLost
<1>9. Placement'
  BY <1>1, <1>2, <1>3, <1>5, <1>6, <1>7, <1>8 DEF Placement
<1> QED BY <1>2, <1>3, <1>4, <1>9 DEF Releases, Keeps

(* An acknowledgement: what the delegate lets go of is committed.          *)
LEMMA ReleasePlaces ==
    ASSUME QInv, InnerReleases
    PROVE  /\ innerPending' \in Seq(Records)
           /\ Placement' /\ Releases /\ Keeps
<1>1. Placement /\ innerPending \in Seq(Records) /\ innerPending # <<>>
  BY QInvPlaces DEF TypeOK, InnerReleases
<1>2. /\ innerPending' = Tail(innerPending) /\ Head(innerPending) \in committed
      /\ storage' = storage /\ entries' = entries /\ resident' = resident
      /\ up' = up /\ committed' = committed /\ issued' = issued
      /\ dropped' = dropped /\ unread' = unread
  BY DEF InnerReleases, queueVars, histVars
<1>3. /\ innerPending' \in Seq(Records) /\ IsInjective(innerPending')
      /\ ToSet(innerPending) = {Head(innerPending)} \cup ToSet(innerPending')
  BY <1>1, <1>2, ToSetTail, InjectiveTail DEF Placement, HandedOnce
<1>4. /\ ToSet(storage)' = ToSet(storage) /\ ToSet(entries)' = ToSet(entries)
      /\ ToSet(innerPending)' = ToSet(innerPending')
      /\ IsInjective(innerPending)'
      /\ Grows /\ Settled' = Settled
  BY <1>2, <1>3 DEF Grows, Settled
<1>5. HeldIsStored' /\ ResidentIsHeld' /\ StorageIsAccounted'
  BY <1>1, <1>2, <1>3, <1>4
    DEF Placement, HeldIsStored, ResidentIsHeld, StorageIsAccounted, Settled
<1>6. MemoryIsBacked' /\ HandedOnce' /\ NothingLost'
  BY <1>1, <1>2, <1>3, <1>4
    DEF Placement, MemoryIsBacked, HandedOnce, NothingLost
<1>7. Placement'
  BY <1>1, <1>2, <1>3, <1>4, <1>5, <1>6 DEF Placement
<1> QED BY <1>2, <1>3, <1>4, <1>7 DEF Releases, Keeps

(* The page goes: storage is all there is of what was not settled.         *)
LEMMA CrashPlaces ==
    ASSUME QInv, Crash
    PROVE  Placement' /\ Releases
<1>1. Placement
  BY QInvPlaces
<1>2. /\ storage' = storage /\ entries' = <<>> /\ resident' = {}
      /\ innerPending' = <<>> /\ ~up' /\ committed' = committed
      /\ issued' = issued /\ dropped' = dropped /\ unread' = unread
  BY DEF Crash, histVars
<1>3. ToSet(<<>>) = {} /\ IsInjective(<<>>)
  BY DEF ToSet, IsInjective
<1>4. /\ ToSet(storage)' = ToSet(storage) /\ ToSet(entries)' = {}
      /\ ToSet(innerPending)' = {} /\ IsInjective(innerPending)'
  BY <1>2, <1>3
<1>5. NothingLost' /\ MemoryIsBacked' /\ HandedOnce'
  BY <1>1, <1>2, <1>4 DEF Placement, NothingLost, MemoryIsBacked, HandedOnce
<1>6. StorageIsAccounted' /\ HeldIsStored' /\ ResidentIsHeld'
  BY <1>2, <1>4 DEF StorageIsAccounted, HeldIsStored, ResidentIsHeld
<1> QED BY <1>1, <1>2, <1>4, <1>5, <1>6 DEF Placement, Releases

(* The next page load: what restore() discards it reports.                 *)
LEMMA RestartPlaces ==
    ASSUME QInv, NEW D \in SUBSET ToSet(storage), Restart(D)
    PROVE  Placement' /\ Releases /\ Grows
<1>1. Placement /\ storage \in Seq(Records)
  BY QInvPlaces DEF TypeOK
<1>2. /\ entries' = Without(storage, D) /\ up' = TRUE
      /\ storage' = entries' \/ storage' = storage
      /\ dropped' = dropped \cup D /\ unread' = unread /\ resident' = resident
      /\ innerPending' = innerPending /\ committed' = committed
      /\ issued' = issued /\ innerPending = <<>> /\ resident = {}
  BY DEF Restart, Boots, QInv, DownIsEmpty
<1>3. /\ ToSet(entries)' = ToSet(storage) \ D
      /\ ToSet(storage)' = ToSet(entries)' \/ ToSet(storage)' = ToSet(storage)
      /\ ToSet(innerPending)' = {} /\ IsInjective(innerPending)'
  BY <1>1, <1>2, WithoutProperties DEF ToSet, IsInjective
<1>4. NothingLost' /\ MemoryIsBacked' /\ HandedOnce'
  BY <1>1, <1>2, <1>3 DEF Placement, NothingLost, MemoryIsBacked, HandedOnce
<1>5. StorageIsAccounted' /\ HeldIsStored' /\ ResidentIsHeld'
  BY <1>2, <1>3 DEF StorageIsAccounted, HeldIsStored, ResidentIsHeld, Settled
<1>6. Placement'
  BY <1>1, <1>2, <1>3, <1>4, <1>5 DEF Placement
<1>7. Releases
  BY <1>1, <1>2, <1>3 DEF Releases
<1> QED BY <1>2, <1>6, <1>7 DEF Grows

(* A page load that cannot read storage starts empty beside it.            *)
LEMMA UnreadPlaces ==
    ASSUME QInv, RestartUnread
    PROVE  Placement' /\ Releases /\ Grows
<1>1. Placement
  BY QInvPlaces
<1>2. /\ entries' = <<>> /\ storage' = storage /\ up' = TRUE
      /\ dropped' = dropped /\ unread' = unread \cup ToSet(storage)
      /\ resident' = resident
      /\ innerPending' = innerPending /\ committed' = committed
      /\ issued' = issued /\ innerPending = <<>> /\ resident = {}
  BY DEF RestartUnread, Boots, QInv, DownIsEmpty
<1>3. /\ ToSet(entries)' = {} /\ ToSet(storage)' = ToSet(storage)
      /\ ToSet(innerPending)' = {} /\ IsInjective(innerPending)'
  BY <1>2 DEF ToSet, IsInjective
<1>4. NothingLost' /\ MemoryIsBacked' /\ HandedOnce'
  BY <1>1, <1>2, <1>3 DEF Placement, NothingLost, MemoryIsBacked, HandedOnce
<1>5. StorageIsAccounted' /\ HeldIsStored' /\ ResidentIsHeld'
  BY <1>2, <1>3 DEF StorageIsAccounted, HeldIsStored, ResidentIsHeld
<1> QED BY <1>1, <1>2, <1>3, <1>4, <1>5 DEF Placement, Releases, Grows

-----------------------------------------------------------------------------
(* Every step *)

Boot == RestartUnread \/ \E D \in SUBSET ToSet(storage) : Restart(D)

LEMMA StepPlaces ==
    ASSUME QInv, Next
    PROVE  Placement' /\ Releases /\ Grows /\ (Keeps \/ Crash \/ Boot)
<1> USE DEF Grows, queueVars, lifeVars, drainVars, innerVars, histVars, owedVars
<1>1. ASSUME NEW r \in Records, Refuse(r)
      PROVE  Placement' /\ Releases /\ Keeps
  BY <1>1, StayPut DEF Refuse
<1>2. ASSUME NEW r \in Records,
             WriteScheduled(r) \/ WriteAwaited(r) \/ FlushOnExitWith(r)
      PROVE  Placement' /\ Releases /\ Keeps
  <2>1. /\ up /\ r \notin issued /\ issued' = issued \cup {r} /\ Persist(r)
        /\ UNCHANGED <<innerPending, committed, up>>
    BY <1>2 DEF WriteScheduled, WriteAwaited, FlushOnExitWith
  <2> QED BY <2>1, PersistPlaces
<1>3. ASSUME Flush \/ FlushOnExit \/ Close \/ ScheduledDrain
      PROVE  Placement' /\ Releases /\ Keeps
  BY <1>3, StayPut DEF Flush, FlushOnExit, Close, ScheduledDrain
<1>4. ASSUME DrainFlushes \/ DrainRejects \/ DrainFinally \/ CloseRejects
      PROVE  Placement' /\ Releases /\ Keeps
  BY <1>4, StayPut DEF DrainFlushes, DrainRejects, DrainFinally, CloseRejects
<1>5. ASSUME DrainWrites
      PROVE  Placement' /\ Releases /\ Keeps
  <2>1. CASE InnerTakes(Head(Ahead))
    <3>1. /\ up /\ Head(Ahead) \in Records
          /\ Head(Ahead) \in ToSet(drainList) \ resident
          /\ UNCHANGED <<storage, entries, committed, issued, unread, up>>
      BY <1>5, AheadProperties DEF DrainWrites
    <3> QED BY <2>1, <3>1, TakePlaces
  <2>2. CASE UNCHANGED <<innerPending, handed, resident, dropped>>
    BY <1>5, <2>2, StayPut DEF DrainWrites
  <2> QED BY <1>5, <2>1, <2>2 DEF DrainWrites
<1>6. ASSUME DrainResolves \/ CloseResolves
      PROVE  Placement' /\ Releases /\ Keeps
  <2>1. CASE resident = {}
    BY <1>6, <2>1, StayPut DEF DrainResolves, CloseResolves
  <2>2. CASE resident # {}
    BY <1>6, <2>2, RemovePlaces DEF DrainResolves, CloseResolves
  <2> QED BY <2>1, <2>2
<1>7. ASSUME InnerReleases
      PROVE  Placement' /\ Releases /\ Keeps
  BY <1>7, ReleasePlaces
<1>8. ASSUME NEW r \in Records, InnerCommits(r)
      PROVE  Placement' /\ Releases /\ Keeps
  BY <1>8, StayPut DEF InnerCommits
<1>9. ASSUME Crash
      PROVE  Placement' /\ Releases /\ Grows
  BY <1>9, CrashPlaces DEF Crash
<1>10. ASSUME Boot
       PROVE  Placement' /\ Releases /\ Grows
  BY <1>10, RestartPlaces, UnreadPlaces DEF Boot
<1>11. Keeps => Grows
  BY DEF Keeps
<1> HIDE DEF Grows
<1> QED
  BY <1>1, <1>2, <1>3, <1>4, <1>5, <1>6, <1>7, <1>8, <1>9, <1>10, <1>11
    DEF Next, Calls, Drain, Boot

-----------------------------------------------------------------------------
(* What the running drain owes *)

Running ==
    /\ ToSet(drainList) \subseteq issued
    /\ AheadIsStored /\ PromiseIsKept

(* A step that leaves the drain where it is.                               *)
LEMMA DrainStays ==
    ASSUME QInv, Keeps, innerAccepting' => innerAccepting,
           UNCHANGED <<drainPc, drainList, promised>>
    PROVE  Running'
<1>1. ToSet(drainList) \subseteq issued /\ AheadIsStored /\ PromiseIsKept
  BY DEF QInv, Known
<1>2. ToSet(drainList)' = ToSet(drainList)
  OBVIOUS
<1>3. Settled \subseteq Settled' /\ resident \subseteq resident' \cup Settled'
  BY DEF Keeps, Grows, Settled
<1>4. AheadIsStored'
  BY <1>1, <1>2, <1>3 DEF AheadIsStored, Keeps
<1>5. PromiseIsKept'
  BY <1>1, <1>2, <1>3 DEF PromiseIsKept
<1> QED BY <1>1, <1>2, <1>4, <1>5 DEF Running, Keeps, Grows

(* startDrain with the entries as they are after the step.                 *)
LEMMA DrainStarts ==
    ASSUME QInv, Keeps, Placement', innerAccepting' => innerAccepting,
           NEW exit, StartDrain(entries', exit), Promise(entries')
    PROVE  Running'
<1>1. CASE drainPc = "idle" /\ entries' # <<>>
  <2>1. /\ drainPc' = "write" /\ drainList' = entries'
        /\ promised' = ToSet(entries')
    BY <1>1 DEF StartDrain, Promise, drainVars
  <2>2. /\ ToSet(drainList)' = ToSet(entries)' /\ promised' = ToSet(drainList)'
        /\ ToSet(entries)' \subseteq issued'
    BY <2>1 DEF Placement
  <2> QED BY <2>1, <2>2 DEF Running, AheadIsStored, PromiseIsKept
<1>2. CASE drainPc = "idle" /\ entries' = <<>>
  <2>1. UNCHANGED <<drainPc, drainList, promised>>
    <3>1. promised' = {} /\ promised = {}
      BY <1>2 DEF Promise, QInv, PromiseIsKept, ToSet
    <3> QED BY <1>2, <3>1 DEF StartDrain, drainVars
  <2> QED BY <2>1, DrainStays
<1>3. CASE drainPc # "idle"
  BY <1>3, DrainStays DEF StartDrain, Promise, drainVars
<1> QED BY <1>1, <1>2, <1>3

LEMMA DrainWritesOwes ==
    ASSUME QInv, DrainWrites, Keeps
    PROVE  Running'
<1>1. /\ ToSet(drainList) \subseteq issued /\ AheadIsStored /\ PromiseIsKept
      /\ Ahead # <<>> /\ drainPc = "write" /\ drainPc' = "write"
      /\ drainList' = Tail(Ahead) /\ promised' = promised
      /\ innerAccepting' = innerAccepting
  BY DEF QInv, Known, DrainWrites, owedVars
<1>2. /\ ToSet(drainList) \subseteq ToSet(drainList)' \cup {Head(Ahead)} \cup resident
      /\ ToSet(drainList)' \subseteq ToSet(drainList)
  BY <1>1, AheadProperties
<1>3. Settled \subseteq Settled' /\ resident \subseteq resident' \cup Settled'
  BY DEF Keeps, Grows, Settled
<1>4. AheadIsStored'
  BY <1>1, <1>2, <1>3 DEF AheadIsStored, Keeps
<1>5. innerAccepting => Head(Ahead) \in resident'
  BY <1>1 DEF DrainWrites, InnerTakes
<1>6. PromiseIsKept'
  BY <1>1, <1>2, <1>3, <1>5 DEF PromiseIsKept
<1> QED BY <1>1, <1>2, <1>4, <1>6 DEF Running, Keeps, Grows

(* The delegate's flush settles what is resident.                          *)
LEMMA DrainResolvesOwes ==
    ASSUME QInv, DrainResolves, Keeps
    PROVE  Running'
<1>1. /\ ToSet(drainList) \subseteq issued /\ AheadIsStored /\ PromiseIsKept
      /\ drainPc \in {"flush", "exitFlush"} /\ drainPc' \in {"done", "failed"}
      /\ drainList' = drainList /\ promised' = promised
      /\ innerAccepting' = innerAccepting
  BY DEF QInv, Known, DrainResolves, owedVars, innerVars
<1>2. ToSet(drainList)' = ToSet(drainList)
  BY <1>1
<1>3. resident \subseteq Settled
  <2>1. ToSet(innerPending) = {}
    BY DEF DrainResolves, ToSet
  <2> QED BY <2>1 DEF QInv, ResidentIsHeld
<1>4. Settled \subseteq Settled'
  BY DEF Keeps, Grows, Settled
<1>5. AheadIsStored'
  BY <1>1, <1>2, <1>4 DEF AheadIsStored, Keeps
<1>6. PromiseIsKept'
  BY <1>1, <1>3, <1>4 DEF PromiseIsKept
<1> QED BY <1>1, <1>2, <1>5, <1>6 DEF Running, Keeps, Grows

(* The other steps of the drain: the flush begins, fails, and its callers   *)
(* settle.                                                                 *)
LEMMA DrainMovesOwes ==
    ASSUME QInv, DrainFlushes \/ DrainRejects \/ DrainFinally, Keeps
    PROVE  Running'
<1>1. ToSet(drainList) \subseteq issued /\ AheadIsStored /\ PromiseIsKept
  BY DEF QInv, Known
<1>2. Settled \subseteq Settled' /\ resident \subseteq resident' \cup Settled'
  BY DEF Keeps, Grows, Settled
<1>3. CASE DrainFlushes
  <2>1. /\ drainPc = "write" /\ drainPc' = "flush" /\ drainList' = <<>>
        /\ promised' = promised /\ innerAccepting' = innerAccepting /\ Ahead = <<>>
    BY <1>3 DEF DrainFlushes, owedVars, innerVars
  <2>2. ToSet(drainList)' = {} /\ ToSet(drainList) \subseteq resident
    <3>1. ToSet(<<>>) = {}
      BY DEF ToSet
    <3> QED BY <2>1, <3>1, AheadProperties
  <2> QED BY <1>1, <1>2, <2>1, <2>2 DEF Running, AheadIsStored, PromiseIsKept
<1>4. CASE DrainRejects
  <2>1. /\ drainPc \in {"flush", "exitFlush"} /\ drainPc' \in {"exitFlush", "failed"}
        /\ drainList' = drainList /\ promised' = promised
        /\ innerAccepting' = innerAccepting
    BY <1>4 DEF DrainRejects, owedVars, innerVars
  <2>2. ToSet(drainList)' = ToSet(drainList)
    BY <2>1
  <2>3. AheadIsStored'
    BY <1>1, <1>2, <2>2 DEF AheadIsStored, Keeps
  <2>4. PromiseIsKept'
    BY <1>1, <1>2, <2>1 DEF PromiseIsKept
  <2> QED BY <1>1, <2>2, <2>3, <2>4 DEF Running, Keeps, Grows
<1>5. CASE DrainFinally
  <2>1. drainPc' = "idle" /\ drainList' = drainList /\ promised' = {}
    BY <1>5 DEF DrainFinally
  <2>2. ToSet(drainList)' = ToSet(drainList)
    BY <2>1
  <2>3. AheadIsStored'
    BY <1>1, <1>2, <2>2 DEF AheadIsStored, Keeps
  <2>4. PromiseIsKept'
    BY <2>1 DEF PromiseIsKept
  <2> QED BY <1>1, <2>2, <2>3, <2>4 DEF Running, Keeps, Grows
<1> QED BY <1>3, <1>4, <1>5

LEMMA StepRunning ==
    ASSUME QInv, Next
    PROVE  Running'
<1> USE DEF queueVars, lifeVars, drainVars, innerVars, histVars, owedVars
<1>1. /\ Placement' /\ (Keeps \/ Crash \/ Boot)
      /\ AcceptsUntilClosed
  BY StepPlaces DEF QInv
<1>2. CASE Crash \/ Boot
  <2>1. /\ drainList' = <<>> /\ promised' = {} /\ drainPc' = "idle"
    BY <1>2 DEF Crash, Boot, Restart, RestartUnread, Boots, QInv, DownIsEmpty
  <2>2. ToSet(drainList)' = {}
    BY <2>1 DEF ToSet
  <2> QED BY <2>1, <2>2 DEF Running, AheadIsStored, PromiseIsKept
<1>3. CASE Keeps
  <2>1. ASSUME NEW r \in Records, Refuse(r) \/ WriteScheduled(r) \/ InnerCommits(r)
        PROVE  Running'
    BY <1>3, <2>1, DrainStays DEF Refuse, WriteScheduled, InnerCommits
  <2>2. ASSUME NEW r \in Records, WriteAwaited(r) \/ FlushOnExitWith(r)
        PROVE  Running'
    <3>1. PICK exit \in BOOLEAN : /\ StartDrain(entries', exit) /\ Promise(entries')
                                  /\ innerAccepting' = innerAccepting
      BY <2>2 DEF WriteAwaited, FlushOnExitWith, Persist
    <3> QED BY <1>1, <1>3, <3>1, DrainStarts
  <2>3. ASSUME Flush \/ FlushOnExit \/ Close
        PROVE  Running'
    <3>0. entries' = entries /\ (innerAccepting' => innerAccepting)
      <4>1. CASE Flush \/ FlushOnExit
        <5>1. UNCHANGED entries
          BY <4>1 DEF Flush, FlushOnExit
        <5>2. UNCHANGED innerAccepting
          BY <4>1, Zenon DEF Flush, FlushOnExit
        <5> QED BY <5>1, <5>2, Zenon
      <4>2. CASE Close
        BY <1>1, <4>2, Zenon DEF Close, AcceptsUntilClosed
      <4> QED BY <2>3, <4>1, <4>2
    <3>1. PICK exit \in BOOLEAN : StartDrain(entries', exit) /\ Promise(entries')
      <4>1. CASE Flush
        BY <3>0, <4>1, Zenon DEF Flush
      <4>2. CASE FlushOnExit \/ Close
        BY <3>0, <4>2, Zenon DEF FlushOnExit, Close
      <4> QED BY <2>3, <4>1, <4>2
    <3> QED BY <1>1, <1>3, <3>0, <3>1, DrainStarts
  <2>4. ASSUME ScheduledDrain
        PROVE  Running'
    <3>1. CASE UNCHANGED drainVars
      BY <1>3, <2>4, <3>1, DrainStays DEF ScheduledDrain
    <3>2. CASE drainPc = "idle" /\ drainPc' = "write" /\ drainList' = entries'
      <4>1. ToSet(drainList)' = ToSet(entries)' /\ promised' = {}
        BY <2>4, <3>2 DEF ScheduledDrain, QInv, PromiseIsKept
      <4> QED BY <1>1, <3>2, <4>1 DEF Running, AheadIsStored, PromiseIsKept, Placement
    <3> QED BY <2>4, <3>1, <3>2 DEF ScheduledDrain, StartDrain
  <2>5. ASSUME DrainWrites \/ DrainResolves \/ DrainFlushes \/ DrainRejects \/ DrainFinally
        PROVE  Running'
    BY <1>3, <2>5, DrainWritesOwes, DrainResolvesOwes, DrainMovesOwes
  <2>6. ASSUME CloseResolves \/ CloseRejects \/ InnerReleases
        PROVE  Running'
    BY <1>3, <2>6, DrainStays DEF CloseResolves, CloseRejects, InnerReleases
  <2>7. ASSUME Crash \/ Boot
        PROVE  Running'
    BY <1>2, <2>7
  <2> QED BY <2>1, <2>2, <2>3, <2>4, <2>5, <2>6, <2>7
        DEF Next, Calls, Drain, Boot
<1> QED BY <1>1, <1>2, <1>3

-----------------------------------------------------------------------------
(* The page's and the transport's lives *)

LEMMA StepLife ==
    ASSUME QInv, Next
    PROVE  DownIsEmpty' /\ AcceptsUntilClosed'
<1> USE DEF queueVars, lifeVars, drainVars, innerVars, histVars, owedVars,
            DownIsEmpty, AcceptsUntilClosed
<1>1. DownIsEmpty /\ AcceptsUntilClosed /\ closePc \in ClosePcs
  BY DEF QInv, TypeOK
<1>2. ASSUME NEW r \in Records, Refuse(r) \/ InnerCommits(r)
      PROVE  DownIsEmpty' /\ AcceptsUntilClosed'
  BY <1>1, <1>2 DEF Refuse, InnerCommits
<1>3. ASSUME NEW r \in Records,
             WriteScheduled(r) \/ WriteAwaited(r) \/ FlushOnExitWith(r)
      PROVE  DownIsEmpty' /\ AcceptsUntilClosed'
  <2>1. up /\ UNCHANGED <<up, closePc, innerAccepting>>
    BY <1>3, Zenon DEF WriteScheduled, WriteAwaited, FlushOnExitWith
  <2> QED BY <1>1, <2>1, Zenon
<1>4. ASSUME Flush \/ FlushOnExit \/ ScheduledDrain
      PROVE  DownIsEmpty' /\ AcceptsUntilClosed'
  <2>1. up /\ UNCHANGED <<up, closePc, innerAccepting>>
    BY <1>4, Zenon DEF Flush, FlushOnExit, ScheduledDrain
  <2> QED BY <1>1, <2>1, Zenon
<1>5. ASSUME DrainWrites \/ DrainFlushes \/ DrainResolves \/ DrainRejects
      PROVE  DownIsEmpty' /\ AcceptsUntilClosed'
  BY <1>1, <1>5 DEF DrainWrites, DrainFlushes, DrainResolves, DrainRejects
<1>6. ASSUME DrainFinally \/ Close
      PROVE  DownIsEmpty' /\ AcceptsUntilClosed'
  <2>1. CASE DrainFinally
    BY <1>1, <2>1 DEF DrainFinally, ClosePcs
  <2>2. CASE Close
    <3>1. /\ up /\ up' = up /\ innerAccepting' = (entries # <<>>)
          /\ closePc' = IF entries = <<>> THEN "inner" ELSE "drain"
      BY <2>2, Zenon DEF Close
    <3> QED BY <3>1
  <2> QED BY <1>6, <2>1, <2>2
<1>7. ASSUME CloseResolves \/ CloseRejects \/ InnerReleases
      PROVE  DownIsEmpty' /\ AcceptsUntilClosed'
  BY <1>1, <1>7 DEF CloseResolves, CloseRejects, InnerReleases
<1>8. ASSUME Crash \/ Boot
      PROVE  DownIsEmpty' /\ AcceptsUntilClosed'
  BY <1>1, <1>8 DEF Crash, Boot, Restart, RestartUnread, Boots
<1> QED BY <1>2, <1>3, <1>4, <1>5, <1>6, <1>7, <1>8 DEF Next, Calls, Drain, Boot

-----------------------------------------------------------------------------
(* Types *)

(* startDrain and the promise of its caller.                               *)
LEMMA StartDrainTypes ==
    ASSUME QInv, NEW es \in Seq(Records), NEW exit \in BOOLEAN,
           StartDrain(es, exit)
    PROVE  drainPc' \in DrainPcs /\ drainList' \in Seq(Records) /\ drainExit' \in BOOLEAN
  BY DEF QInv, TypeOK, StartDrain, DrainPcs, drainVars

LEMMA PromiseTypes ==
    ASSUME QInv, NEW es \in Seq(Records), Promise(es)
    PROVE  promised' \subseteq Records /\ late' \subseteq Records
<1>1. ToSet(es) \subseteq Records
  BY ElementOfSeq, LenProperties DEF ToSet
<1> QED BY <1>1 DEF QInv, TypeOK, Promise

LEMMA FaultTypes ==
    ASSUME QInv, Fault \/ UNCHANGED faults
    PROVE  faults' \in 0..MaxFaults
  BY BoundAssumption DEF QInv, TypeOK, Fault

LEMMA RemoveTypes ==
    ASSUME QInv, RemoveCommitted(resident)
    PROVE  /\ storage' \in Seq(Records) /\ Len(storage') <= MaxRecords
           /\ entries' \in Seq(Records) /\ Len(entries') <= MaxRecords
           /\ resident' \subseteq Records /\ faults' \in 0..MaxFaults
<1>1. /\ entries \in Seq(Records) /\ Len(entries) <= MaxRecords
      /\ storage \in Seq(Records) /\ Len(storage) <= MaxRecords
      /\ entries' = Without(entries, resident) /\ resident' = {}
      /\ storage' = storage \/ storage' = entries'
      /\ Fault \/ UNCHANGED faults
  BY DEF QInv, TypeOK, RemoveCommitted
<1>2. /\ entries' \in Seq(Records) /\ Len(entries') <= Len(entries)
  BY <1>1, WithoutProperties
<1>3. Len(entries') <= MaxRecords
  BY <1>1, <1>2, MaxRecordsAssumption, LenProperties
<1> QED BY <1>1, <1>2, <1>3, FaultTypes

LEMMA StepTypes ==
    ASSUME QInv, Next
    PROVE  TypeOK'
<1> USE DEF queueVars, lifeVars, drainVars, innerVars, histVars, owedVars
<1>1. TypeOK
  BY DEF QInv
<1>2. ASSUME NEW r \in Records, Refuse(r)
      PROVE  TypeOK'
  <2>1. faults' \in 0..MaxFaults
    BY <1>2, FaultTypes DEF Refuse
  <2> QED BY <1>1, <1>2, <2>1 DEF TypeOK, Refuse
<1>3. ASSUME NEW r \in Records,
             WriteScheduled(r) \/ WriteAwaited(r) \/ FlushOnExitWith(r)
      PROVE  TypeOK'
  <2>1. r \notin issued /\ Persist(r) /\ issued' = issued \cup {r}
    BY <1>3 DEF WriteScheduled, WriteAwaited, FlushOnExitWith
  <2>2. /\ EntriesWith(r) \in Seq(Records) /\ Len(EntriesWith(r)) <= MaxRecords
        /\ Overflow(r) \subseteq Records
    <3>1. ToSet(entries) \subseteq Records
      BY <1>1, ElementOfSeq, LenProperties DEF TypeOK, ToSet
    <3> QED BY <2>1, <3>1, EntriesWithProperties
  <2>3. /\ entries' \in Seq(Records) /\ Len(entries') <= MaxRecords
        /\ storage' = entries' /\ dropped' \subseteq Records
        /\ resident' = resident /\ unread' = unread
    BY <1>1, <2>1, <2>2 DEF Persist, TypeOK
  <2>4. /\ drainPc' \in DrainPcs /\ drainList' \in Seq(Records) /\ drainExit' \in BOOLEAN
        /\ promised' \subseteq Records /\ late' \subseteq Records
        /\ scheduled' \in BOOLEAN
    <3>1. CASE WriteScheduled(r)
      BY <1>1, <3>1 DEF WriteScheduled, TypeOK
    <3>2. CASE WriteAwaited(r) \/ FlushOnExitWith(r)
      BY <1>1, <2>2, <3>2, StartDrainTypes, PromiseTypes
        DEF WriteAwaited, FlushOnExitWith, TypeOK
    <3> QED BY <1>3, <3>1, <3>2
  <2>5. UNCHANGED <<up, accepting, closed, closePc, innerPending, innerAccepting,
                    handed, committed, faults, crashes>>
    BY <1>3 DEF WriteScheduled, WriteAwaited, FlushOnExitWith
  <2> QED BY <1>1, <2>1, <2>3, <2>4, <2>5 DEF TypeOK
<1>4. ASSUME Flush \/ FlushOnExit \/ Close
      PROVE  TypeOK'
  <2>1. /\ drainPc' \in DrainPcs /\ drainList' \in Seq(Records) /\ drainExit' \in BOOLEAN
        /\ promised' \subseteq Records /\ late' \subseteq Records
    BY <1>1, <1>4, StartDrainTypes, PromiseTypes DEF Flush, FlushOnExit, Close, TypeOK
  <2>2. closePc' \in ClosePcs /\ accepting' \in BOOLEAN /\ innerAccepting' \in BOOLEAN
    BY <1>1, <1>4 DEF Flush, FlushOnExit, Close, TypeOK, ClosePcs
  <2>3. UNCHANGED <<storage, entries, resident, up, scheduled, closed, innerPending,
                    handed, committed, issued, dropped, unread, faults, crashes>>
    BY <1>4 DEF Flush, FlushOnExit, Close
  <2> QED BY <1>1, <2>1, <2>2, <2>3 DEF TypeOK
<1>5. ASSUME ScheduledDrain
      PROVE  TypeOK'
  <2>1. drainPc' \in DrainPcs /\ drainList' \in Seq(Records) /\ drainExit' \in BOOLEAN
    BY <1>1, <1>5, StartDrainTypes DEF ScheduledDrain, TypeOK
  <2> QED BY <1>1, <1>5, <2>1 DEF ScheduledDrain, TypeOK
<1>6. ASSUME DrainWrites
      PROVE  TypeOK'
  <2>1. /\ drainList' \in Seq(Records) /\ Head(Ahead) \in Records
        /\ Head(Ahead) \notin resident
    BY <1>6, AheadProperties DEF DrainWrites
  <2>2. /\ innerPending' \in Seq(Records) /\ handed' \subseteq Records
        /\ resident' \subseteq Records /\ dropped' \subseteq Records
    <3>1. CASE InnerTakes(Head(Ahead))
      BY <1>1, <1>6, <2>1, <3>1, InnerTakesProperties DEF DrainWrites, TypeOK
    <3>2. CASE UNCHANGED <<innerPending, handed, resident, dropped>>
      BY <1>1, <3>2 DEF TypeOK
    <3> QED BY <1>6, <3>1, <3>2 DEF DrainWrites
  <2> QED BY <1>1, <1>6, <2>1, <2>2 DEF DrainWrites, TypeOK
<1>7. ASSUME DrainFlushes
      PROVE  TypeOK'
  BY <1>1, <1>7, EmptySeq DEF DrainFlushes, TypeOK, DrainPcs
<1>8. ASSUME DrainResolves
      PROVE  TypeOK'
  <2>1. CASE resident = {}
    BY <1>1, <1>8, <2>1 DEF DrainResolves, TypeOK, DrainPcs
  <2>2. CASE resident # {}
    BY <1>1, <1>8, <2>2, RemoveTypes DEF DrainResolves, TypeOK, DrainPcs
  <2> QED BY <2>1, <2>2
<1>9. ASSUME DrainRejects
      PROVE  TypeOK'
  <2>1. faults' \in 0..MaxFaults
    BY <1>9, FaultTypes DEF DrainRejects
  <2> QED BY <1>1, <1>9, <2>1 DEF DrainRejects, TypeOK, DrainPcs
<1>10. ASSUME DrainFinally
       PROVE  TypeOK'
  BY <1>1, <1>10 DEF DrainFinally, TypeOK, DrainPcs, ClosePcs
<1>11. ASSUME CloseResolves
       PROVE  TypeOK'
  <2>1. CASE resident = {}
    BY <1>1, <1>11, <2>1 DEF CloseResolves, TypeOK, ClosePcs
  <2>2. CASE resident # {}
    BY <1>1, <1>11, <2>2, RemoveTypes DEF CloseResolves, TypeOK, ClosePcs
  <2> QED BY <2>1, <2>2
<1>12. ASSUME CloseRejects
       PROVE  TypeOK'
  <2>1. faults' \in 0..MaxFaults
    BY <1>12, FaultTypes DEF CloseRejects
  <2> QED BY <1>1, <1>12, <2>1 DEF CloseRejects, TypeOK, ClosePcs
<1>13. ASSUME InnerReleases
       PROVE  TypeOK'
  <2>1. innerPending' \in Seq(Records)
    BY <1>13, ReleasePlaces
  <2> QED BY <1>1, <1>13, <2>1 DEF InnerReleases, TypeOK
<1>14. ASSUME NEW r \in Records, InnerCommits(r)
       PROVE  TypeOK'
  BY <1>1, <1>14 DEF InnerCommits, TypeOK
<1>15. ASSUME Crash
       PROVE  TypeOK'
  <2>1. crashes' \in 0..MaxCrashes /\ Len(<<>>) <= MaxRecords
    BY <1>1, <1>15, BoundAssumption, MaxRecordsAssumption, EmptySeq DEF Crash, TypeOK
  <2> QED BY <1>1, <1>15, <2>1, EmptySeq DEF Crash, TypeOK, DrainPcs, ClosePcs
<1>16. ASSUME RestartUnread
       PROVE  TypeOK'
  <2>1. faults' \in 0..MaxFaults /\ Len(<<>>) <= MaxRecords
    BY <1>16, FaultTypes, MaxRecordsAssumption, EmptySeq DEF RestartUnread
  <2>2. ToSet(storage) \subseteq Records
    BY <1>1, ElementOfSeq, LenProperties DEF TypeOK, ToSet
  <2>3. scheduled' \in BOOLEAN
    BY <1>16, OptionAssumption DEF RestartUnread, Boots
  <2> QED BY <1>1, <1>16, <2>1, <2>2, <2>3, EmptySeq DEF RestartUnread, Boots, TypeOK
<1>17. ASSUME NEW D \in SUBSET ToSet(storage), Restart(D)
       PROVE  TypeOK'
  <2>1. /\ storage \in Seq(Records) /\ Len(storage) <= MaxRecords
        /\ entries' = Without(storage, D) /\ dropped' = dropped \cup D
        /\ storage' = entries' \/ storage' = storage
        /\ Fault \/ UNCHANGED faults
    BY <1>1, <1>17 DEF TypeOK, Restart, Boots
  <2>2. entries' \in Seq(Records) /\ Len(entries') <= Len(storage)
    BY <2>1, WithoutProperties
  <2>3. Len(entries') <= MaxRecords
    BY <2>1, <2>2, LenProperties, MaxRecordsAssumption
  <2>4. ToSet(storage) \subseteq Records
    BY <1>1, ElementOfSeq, LenProperties DEF TypeOK, ToSet
  <2>5. scheduled' \in BOOLEAN
    BY <1>17, OptionAssumption DEF Restart, Boots
  <2>6. faults' \in 0..MaxFaults
    BY <2>1, FaultTypes
  <2> QED BY <1>1, <1>17, <2>1, <2>2, <2>3, <2>4, <2>5, <2>6 DEF Restart, Boots, TypeOK
<1> QED BY <1>2, <1>3, <1>4, <1>5, <1>6, <1>7, <1>8, <1>9, <1>10, <1>11, <1>12,
           <1>13, <1>14, <1>15, <1>16, <1>17 DEF Next, Calls, Drain

-----------------------------------------------------------------------------
(* The theorems *)

LEMMA QInvInit == Init => QInv
<1> SUFFICES ASSUME Init PROVE QInv
  OBVIOUS
<1>1. ToSet(<<>>) = {} /\ IsInjective(<<>>) /\ Len(<<>>) = 0
  BY EmptySeq DEF ToSet, IsInjective
<1>2. TypeOK
  <2>1. /\ <<>> \in Seq(Records) /\ Len(<<>>) <= MaxRecords
        /\ 0 \in 0..MaxFaults /\ 0 \in 0..MaxCrashes
    BY <1>1, EmptySeq, BoundAssumption, MaxRecordsAssumption
  <2> QED BY <2>1 DEF Init, TypeOK, DrainPcs, ClosePcs
<1>3. Known /\ DownIsEmpty /\ NothingLost /\ MemoryIsBacked /\ HandedOnce
  BY <1>1 DEF Init, Known, DownIsEmpty, NothingLost, MemoryIsBacked, HandedOnce
<1>4. StorageIsAccounted /\ AheadIsStored /\ HeldIsStored /\ ResidentIsHeld
  BY <1>1 DEF Init, StorageIsAccounted, AheadIsStored, HeldIsStored, ResidentIsHeld
<1>5. PromiseIsKept /\ AcceptsUntilClosed
  BY DEF Init, PromiseIsKept, AcceptsUntilClosed
<1> QED BY <1>2, <1>3, <1>4, <1>5 DEF QInv

LEMMA QInvStep == QInv /\ [Next]_vars => QInv'
<1> SUFFICES ASSUME QInv, [Next]_vars PROVE QInv'
  OBVIOUS
<1>1. CASE Next
  <2>1. Placement' /\ Running' /\ DownIsEmpty' /\ AcceptsUntilClosed' /\ TypeOK'
    BY <1>1, StepPlaces, StepRunning, StepLife, StepTypes
  <2> QED BY <2>1 DEF QInv, Placement, Running, Known
<1>2. CASE UNCHANGED vars
  <2>1. UNCHANGED <<storage, up, entries, resident, scheduled, accepting, closed,
                    drainPc, drainList, drainExit, closePc, innerPending,
                    innerAccepting, handed, committed, issued, dropped, unread,
                    promised, late, faults, crashes>>
    BY <1>2 DEF vars, queueVars, lifeVars, drainVars, innerVars, histVars, owedVars
  <2>2. TypeOK' /\ DownIsEmpty' /\ PromiseIsKept' /\ AcceptsUntilClosed' /\ AheadIsStored'
    BY <2>1, Zenon DEF QInv, TypeOK, DownIsEmpty, PromiseIsKept, AcceptsUntilClosed,
      AheadIsStored, Settled
  <2>3. Placement' /\ Known'
    BY <2>1, QInvPlaces, Zenon DEF QInv, Known, Placement, NothingLost, MemoryIsBacked,
      HandedOnce, StorageIsAccounted, HeldIsStored, ResidentIsHeld, Settled
  <2> QED BY <2>2, <2>3 DEF QInv, Placement
<1> QED BY <1>1, <1>2

(* In every reachable state: whatever is stored, queued or held was issued; *)
(* a record is in storage, committed, reported or unread; memory and the    *)
(* delegate's queue are backed by storage or settled; what the delegate     *)
(* holds it was handed once; the drain has ahead of it only what is stored  *)
(* or settled; the starter of a drain is owed only what is ahead, resident  *)
(* or settled; and the delegate accepts until close() closes it.            *)
THEOREM QueueInvariant == Spec => []QInv
  BY QInvInit, QInvStep, PTL DEF Spec

(* Across overflow, failed storage writes, failed flushes, crashes, page    *)
(* loads that cannot read storage, and close(), a record that was handed to *)
(* the transport is in storage, in the database, reported, or was in a      *)
(* state a restart could not read.                                         *)
THEOREM RecordsAreNeverLost == Spec => []NothingLost
<1>1. QInv => NothingLost
  BY DEF QInv
<1> QED BY <1>1, QueueInvariant, PTL

(* The queue in memory and what the delegate holds are backed by storage,   *)
(* every bound is kept, and the delegate is given a record once in a page's *)
(* life, whatever drains failed, were joined or were started again.        *)
THEOREM QueueStaysSound == Spec => []QueueIsSound
<1>1. QInv => QueueIsSound
  BY DEF QInv, QueueIsSound
<1> QED BY <1>1, QueueInvariant, PTL

(* A drain that succeeds while the delegate still accepts has settled every *)
(* record that was stored when its caller started it.                      *)
THEOREM StartersAreServed == Spec => []StarterIsServed
<1>1. QInv => StarterIsServed
  BY DEF QInv, PromiseIsKept, StarterIsServed, Settled
<1> QED BY <1>1, QueueInvariant, PTL

(* No step takes a record out of storage before it is committed, reported   *)
(* or lost to a restart that could not read it.                            *)
THEOREM StorageIsReleasedLast == Spec => StorageReleasesCommitted
<1>1. QInv /\ [Next]_vars =>
        [\A r \in ToSet(storage) \ ToSet(storage') :
            r \in committed \cup dropped' \cup unread]_vars
  BY StepPlaces DEF Releases
<1> QED BY <1>1, QueueInvariant, PTL DEF Spec, StorageReleasesCommitted
=============================================================================
