--------------------------- MODULE WsIngestProofs ---------------------------
(***************************************************************************)
(* Theorems about WsIngest, for every value of its constants, in four      *)
(* parts that build on each other: types and wakeups, whatever the         *)
(* options; the delivery contract without an exit fallback (with one it    *)
(* does not hold: the run ws_exit_race of the README); from a record being *)
(* in one place only, the refinement of AckDelivery and the counters; and  *)
(* that replays are exact, again whatever the options.                     *)
(***************************************************************************)
EXTENDS WsIngest, FiniteSetTheorems, SequenceTheorems, TLAPS

Busy(pc) == pc \notin {"idle", "done", "failed"}

(* A coroutine that is past the head of its loop has a batch.              *)
HasBatch ==
    /\ Busy(drainPc) => drainBatch # 0
    /\ \A p \in Exits : exitPc[p] \in {"persist", "commit"} => exitBatch[p] # 0

(* The type invariant does not stand alone: commit() reads the local batch. *)
TypeInv == TypeOK /\ HasBatch

USE OversizeAssumption, BatchSizeAssumption, MaxQueueAssumption,
    MaxAttemptsAssumption, MaxFaultsAssumption, OptionAssumption

-----------------------------------------------------------------------------
(* Sequences *)

(* splice(0, n) cuts a sequence in two that together hold its elements.    *)
LEMMA SpliceType ==
    ASSUME NEW S, NEW q \in Seq(S), NEW n \in 0..Len(q)
    PROVE  /\ SubSeq(q, 1, n) \in Seq(S) /\ Len(SubSeq(q, 1, n)) = n
           /\ SubSeq(q, n + 1, Len(q)) \in Seq(S)
           /\ Len(SubSeq(q, n + 1, Len(q))) = Len(q) - n
  OBVIOUS

(* A set of the elements of a sequence is no larger than the sequence.     *)
LEMMA ToSetCardinality ==
    ASSUME NEW S, NEW q \in Seq(S), NEW T
    PROVE  Cardinality(ToSet(q) \ T) \in 0..Len(q)
  <1>0. Len(q) \in Nat /\ DOMAIN q = 1..Len(q)
    OBVIOUS
  <1>1. /\ IsFiniteSet(1..Len(q)) /\ Cardinality(1..Len(q)) = Len(q)
    <2>1. Cardinality(1..Len(q)) = Len(q) - 1 + 1
      BY <1>0, FS_Interval
    <2> QED
      BY <1>0, <2>1, FS_Interval
  <1>2. /\ IsFiniteSet({q[i] : i \in 1..Len(q)})
        /\ Cardinality({q[i] : i \in 1..Len(q)}) <= Cardinality(1..Len(q))
    <2> DEFINE f == [i \in 1..Len(q) |-> q[i]]
    <2>1. {f[i] : i \in 1..Len(q)} = {q[i] : i \in 1..Len(q)}
      OBVIOUS
    <2>2. f \in Surjection(1..Len(q), {q[i] : i \in 1..Len(q)})
      BY <2>1 DEF Surjection
    <2> HIDE DEF f
    <2> QED
      BY <2>2, <1>1, FS_Surjection, ZenonT(40)
  <1>3. ToSet(q) = {q[i] : i \in 1..Len(q)}
    BY <1>0 DEF ToSet
  <1>4. ToSet(q) \ T \subseteq ToSet(q)
    OBVIOUS
  <1> QED
    BY <1>0, <1>1, <1>2, <1>3, <1>4, FS_Subset, FS_CardinalityType

-----------------------------------------------------------------------------
(* The operators the actions are built from *)

(* A batch holds at least the records the collector answered for.          *)
LEMMA LeastType ==
    ASSUME NEW m \in Nat, NEW n \in Nat
    PROVE  Least(m, n) \in 0..n /\ (m > 0 /\ n > 0 => Least(m, n) > 0)
  BY DEF Least

(* enqueue keeps the queue within its bound and drops one of its records.  *)
LEMMA EnqueueType ==
    ASSUME MemType, NEW r \in Records
    PROVE  /\ QueueWith(r) \in Seq(Records) /\ Len(QueueWith(r)) \in 1..MaxQueue
           /\ Displaced \subseteq Records
  BY DEF MemType, QueueWith, Displaced, Full

(* createBatch appends one batch, or inFlight is taken as it is.           *)
LEMMA TakeBatchType ==
    ASSUME MemType, NEW q \in Seq(Records), Len(q) <= MaxQueue,
           NEW b \in 0..Len(batches), NEW seq \in Nat \ {0},
           TakeBatch(q, b, seq)
    PROVE  MemType' /\ inFlight' # 0 /\ Len(batches) <= Len(batches')
  <1>1. CASE b # 0
    BY <1>1 DEF MemType, TakeBatch
  <1>2. CASE b = 0
    <2> DEFINE n == Least(BatchSize, Len(q))
               new == [sequence |-> seq, records |-> SubSeq(q, 1, n)]
    <2>1. n \in 0..Len(q)
      <3>1. BatchSize \in Nat /\ Len(q) \in Nat
        OBVIOUS
      <3> QED
        BY <3>1, LeastType
    <2> HIDE DEF n
    <2>2. /\ SubSeq(q, 1, n) \in Seq(Records)
          /\ SubSeq(q, n + 1, Len(q)) \in Seq(Records)
          /\ Len(SubSeq(q, n + 1, Len(q))) <= MaxQueue
      BY <2>1, SpliceType
    <2>3. new \in Batch
      BY <2>2 DEF Batch
    <2>4. /\ batches' = Append(batches, new) /\ inFlight' = Len(batches) + 1
          /\ queue' = SubSeq(q, n + 1, Len(q))
      BY <1>2 DEF TakeBatch, n
    <2> HIDE DEF new
    <2> QED
      BY <2>2, <2>3, <2>4 DEF MemType
  <1> QED
    BY <1>1, <1>2

(* One turn of the drain loop ends settled or with a batch in hand.        *)
LEMMA DrainStepType ==
    ASSUME MemType, NEW q \in Seq(Records), Len(q) <= MaxQueue,
           NEW b \in 0..Len(batches), NEW seq \in Nat \ {0},
           DrainStep(q, b, seq)
    PROVE  /\ MemType' /\ Len(batches) <= Len(batches')
           /\ drainPc' \in DrainPcs /\ drainBatch' \in 0..Len(batches')
           /\ Busy(drainPc') => drainBatch' # 0
  <1>1. CASE b = 0 /\ q = <<>>
    BY <1>1 DEF MemType, DrainStep, DrainPcs, Busy
  <1>2. CASE TakeBatch(q, b, seq) /\ drainBatch' = inFlight'
               /\ drainPc' = IF IsOpen THEN "send" ELSE "ticket"
    BY <1>2, TakeBatchType DEF MemType, DrainPcs
  <1> QED
    BY <1>1, <1>2 DEF DrainStep

LEMMA FlushCallType ==
    ASSUME TypeInv, NEW q \in Seq(Records), Len(q) <= MaxQueue, FlushCall(q)
    PROVE  /\ MemType' /\ Len(batches) <= Len(batches')
           /\ drainPc' \in DrainPcs /\ drainBatch' \in 0..Len(batches')
           /\ Busy(drainPc') => drainBatch' # 0
           /\ attempts' \in 0..MaxAttempts /\ flushTimer' \in BOOLEAN
  <1>1. CASE drainPc # "idle" /\ queue' = q
               /\ UNCHANGED <<inFlight, batches, drainPc, drainBatch, attempts,
                              flushTimer>>
    BY <1>1 DEF TypeInv, TypeOK, MemType, DrainType, LifeType, HasBatch, Busy
  <1>2. CASE flushTimer' = FALSE /\ attempts' = 0
               /\ DrainStep(q, inFlight, nextSequence)
    <2>1. /\ MemType /\ inFlight \in 0..Len(batches)
          /\ nextSequence \in Nat \ {0} /\ 0 \in 0..MaxAttempts
      BY DEF TypeInv, TypeOK, MemType, CountType
    <2>2. /\ MemType' /\ Len(batches) <= Len(batches')
          /\ drainPc' \in DrainPcs /\ drainBatch' \in 0..Len(batches')
          /\ Busy(drainPc') => drainBatch' # 0
      BY <1>2, <2>1, DrainStepType
    <2> QED
      BY <1>2, <2>1, <2>2
  <1> QED
    BY <1>1, <1>2 DEF FlushCall

(* One turn of the exit loop ends resolved or with a batch in hand.        *)
LEMMA ExitStepType ==
    ASSUME MemType, ExitType, NEW p \in Exits,
           NEW q \in Seq(Records), Len(q) <= MaxQueue,
           NEW b \in 0..Len(batches), NEW seq \in Nat \ {0},
           ExitStep(p, q, b, seq)
    PROVE  /\ MemType' /\ Len(batches) <= Len(batches')
           /\ exitPc' \in [Exits -> ExitPcs]
           /\ exitBatch' \in [Exits -> 0..Len(batches')]
           /\ exitPc'[p] \in {"persist", "commit"} => exitBatch'[p] # 0
           /\ \A o \in Exits \ {p} : exitPc'[o] = exitPc[o] /\ exitBatch'[o] = exitBatch[o]
  <1>1. CASE /\ exitPc' = [exitPc EXCEPT ![p] = "resolved"]
             /\ exitBatch' = [exitBatch EXCEPT ![p] = 0]
             /\ inFlight' = 0 /\ queue' = q /\ UNCHANGED batches
    BY <1>1 DEF MemType, ExitType, ExitPcs
  <1>2. CASE /\ TakeBatch(q, b, seq)
             /\ exitBatch' = [exitBatch EXCEPT ![p] = inFlight']
             /\ exitPc' = [exitPc EXCEPT ![p] = "persist"]
    <2>1. MemType' /\ inFlight' # 0 /\ Len(batches) <= Len(batches')
      BY <1>2, TakeBatchType
    <2> QED
      BY <1>2, <2>1 DEF MemType, ExitType, ExitPcs
  <1> QED
    BY <1>1, <1>2 DEF ExitStep

-----------------------------------------------------------------------------
(* Type correctness *)

(* The groups of variables a step leaves alone keep their types.           *)
USE DEF memVars, countVars, lifeVars, drainVars, connVars, exitVars, netVars,
        histVars

(* A step that leaves the sockets and the network alone, and takes no batch *)
(* out of the history, keeps the types of what is on the network.          *)
LEMMA NetTypeKept ==
    ASSUME NetType, UNCHANGED <<sockets, toServer, toClient, committed>>,
           Len(batches) \in Nat, Len(batches') \in Nat, Len(batches) <= Len(batches')
    PROVE  NetType'
  <1>1. 1..Len(batches) \subseteq 1..Len(batches')
    OBVIOUS
  <1> QED
    BY <1>1 DEF NetType

LEMMA TypeInit == Init => TypeInv
  <1> SUFFICES ASSUME Init PROVE TypeInv
    OBVIOUS
  <1>1. MemType /\ CountType
    BY DEF Init, MemType, CountType
  <1>7. LifeType
    BY Zenon DEF Init, LifeType
  <1>2. NoCounts \in Counts
    BY DEF NoCounts, Counts
  <1>3. DrainType /\ ConnType
    BY <1>2 DEF Init, DrainType, DrainPcs, ConnType
  <1>4. ExitType
    BY <1>2 DEF Init, ExitType, ExitPcs
  <1>5. NetType /\ HistType
    BY DEF Init, NetType, HistType
  <1>6. HasBatch
    BY DEF Init, HasBatch, Busy
  <1> QED
    BY <1>1, <1>3, <1>4, <1>5, <1>6, <1>7 DEF TypeInv, TypeOK

(* What the history holds are batches.                                      *)
LEMMA BatchType ==
    ASSUME MemType, NEW b \in 1..Len(batches)
    PROVE  /\ batches[b].records \in Seq(Records)
           /\ batches[b].sequence \in Nat \ {0}
  <1>1. batches[b] \in Batch
    BY DEF MemType
  <1> QED
    BY <1>1 DEF Batch

(* The collector's counts are natural numbers: a batch has no fewer records *)
(* than it has new ones.                                                    *)
LEMMA CountsType ==
    ASSUME MemType, NEW b \in 1..Len(batches), NEW T
    PROVE  [accepted |-> Cardinality(RecordsOf(b) \ T),
            duplicates |-> Len(batches[b].records) - Cardinality(RecordsOf(b) \ T)]
              \in Counts
  <1>1. batches[b].records \in Seq(Records)
    BY BatchType
  <1>2. RecordsOf(b) = ToSet(batches[b].records)
    BY DEF RecordsOf
  <1>3. Cardinality(RecordsOf(b) \ T) \in 0..Len(batches[b].records)
    BY <1>1, <1>2, ToSetCardinality
  <1> QED
    BY <1>1, <1>3 DEF Counts

(* What a batch or the memory of the transport holds are records.          *)
LEMMA RecordsOfType ==
    ASSUME MemType
    PROVE  /\ \A b \in 0..Len(batches) : RecordsOf(b) \subseteq Records
           /\ Pending \subseteq Records
  <1>1. \A b \in 0..Len(batches) : RecordsOf(b) \subseteq Records
    BY BatchType DEF RecordsOf, ToSet
  <1> QED
    BY <1>1 DEF MemType, Pending, ToSet

LEMMA WriteType ==
    ASSUME TypeInv, NEW r \in Records,
           WriteDropped(r) \/ WriteBuffered(r) \/ WriteFlushes(r)
    PROVE  TypeInv'
  <1>0. /\ MemType
        /\ QueueWith(r) \in Seq(Records) /\ Len(QueueWith(r)) \in 1..MaxQueue
        /\ Displaced \subseteq Records /\ Pending \cup {r} \subseteq Records
    BY EnqueueType, RecordsOfType DEF TypeInv, TypeOK
  <1>1. CASE WriteDropped(r)
    BY <1>1 DEF WriteDropped, TypeInv, TypeOK, HasBatch, Busy,
           MemType, CountType, LifeType, DrainType, ConnType, ExitType, NetType,
           HistType
  <1>2. CASE WriteBuffered(r)
    BY <1>0, <1>2 DEF WriteBuffered, TypeInv, TypeOK, HasBatch, Busy,
           MemType, CountType, LifeType, DrainType, ConnType, ExitType, NetType,
           HistType
  <1>3. CASE WriteFlushes(r)
    <2>1. /\ MemType' /\ Len(batches) <= Len(batches')
          /\ drainPc' \in DrainPcs /\ drainBatch' \in 0..Len(batches')
          /\ Busy(drainPc') => drainBatch' # 0
          /\ attempts' \in 0..MaxAttempts /\ flushTimer' \in BOOLEAN
      BY <1>0, <1>3, FlushCallType DEF WriteFlushes
    <2>2. promised' \subseteq Records /\ late' \subseteq Records
      BY <1>0, <1>3 DEF WriteFlushes, Promise, TypeInv, TypeOK, HistType
    <2>3. CountType' /\ LifeType'
      BY <1>3, <2>1 DEF WriteFlushes, TypeInv, TypeOK, CountType, LifeType
    <2>4. DrainType' /\ ConnType'
      BY <1>3, <2>1 DEF WriteFlushes, TypeInv, TypeOK, DrainType, ConnType
    <2>5. ExitType'
      BY <1>3, <2>1 DEF WriteFlushes, TypeInv, TypeOK, ExitType, MemType, ExitPcs
    <2>6. NetType'
      <3>1. Len(batches) \in Nat /\ Len(batches') \in Nat /\ Len(batches) <= Len(batches')
        BY <1>3, <2>1 DEF WriteFlushes, TypeInv, TypeOK, MemType
      <3> QED
        BY <1>3, <2>1, <3>1, NetTypeKept DEF WriteFlushes, TypeInv, TypeOK
    <2>7. HistType'
      BY <1>0, <1>3, <2>2 DEF WriteFlushes, TypeInv, TypeOK, HistType
    <2>8. HasBatch'
      BY <1>3, <2>1 DEF WriteFlushes, TypeInv, HasBatch
    <2> QED
      BY <2>1, <2>3, <2>4, <2>5, <2>6, <2>7, <2>8 DEF TypeInv, TypeOK
  <1> QED
    BY <1>1, <1>2, <1>3

LEMMA FlushType ==
    ASSUME TypeInv, Flush \/ FlushTimerFires \/ DelayElapses \/ DrainCommits
    PROVE  TypeInv'
  <1>0. /\ MemType /\ Pending \subseteq Records /\ queue \in Seq(Records)
        /\ Len(queue) <= MaxQueue /\ inFlight \in 0..Len(batches)
        /\ nextSequence \in Nat \ {0} /\ 0 \in 0..MaxAttempts
    BY RecordsOfType DEF TypeInv, TypeOK, MemType, CountType
  <1>1. CASE Flush
    <2>1. /\ MemType' /\ Len(batches) <= Len(batches')
          /\ drainPc' \in DrainPcs /\ drainBatch' \in 0..Len(batches')
          /\ Busy(drainPc') => drainBatch' # 0
          /\ attempts' \in 0..MaxAttempts /\ flushTimer' \in BOOLEAN
      BY <1>0, <1>1, FlushCallType DEF Flush
    <2>2. promised' \subseteq Records /\ late' \subseteq Records
      BY <1>0, <1>1 DEF Flush, Promise, TypeInv, TypeOK, HistType
    <2>3. CountType' /\ LifeType'
      BY <1>1, <2>1 DEF Flush, TypeInv, TypeOK, CountType, LifeType
    <2>4. DrainType' /\ ConnType'
      BY <1>1, <2>1 DEF Flush, TypeInv, TypeOK, DrainType, ConnType
    <2>5. ExitType'
      BY <1>1, <2>1 DEF Flush, TypeInv, TypeOK, ExitType, MemType, ExitPcs
    <2>6. NetType'
      <3>1. Len(batches) \in Nat /\ Len(batches') \in Nat /\ Len(batches) <= Len(batches')
        BY <1>1, <2>1 DEF Flush, TypeInv, TypeOK, MemType
      <3> QED
        BY <1>1, <2>1, <3>1, NetTypeKept DEF Flush, TypeInv, TypeOK
    <2>7. HistType'
      BY <1>0, <1>1, <2>2 DEF Flush, TypeInv, TypeOK, HistType
    <2>8. HasBatch'
      BY <1>1, <2>1 DEF Flush, TypeInv, HasBatch
    <2> QED
      BY <2>1, <2>3, <2>4, <2>5, <2>6, <2>7, <2>8 DEF TypeInv, TypeOK
  <1>2. CASE FlushTimerFires
    <2>1. CASE drainPc # "idle" /\ UNCHANGED <<memVars, drainPc, drainBatch, attempts>>
      BY <1>2, <2>1 DEF FlushTimerFires, TypeInv, TypeOK, HasBatch, Busy,
           MemType, CountType, LifeType, DrainType, ConnType, ExitType, NetType,
           HistType
    <2>2. CASE attempts' = 0 /\ DrainStep(queue, inFlight, nextSequence)
      <3>1. /\ MemType' /\ Len(batches) <= Len(batches')
            /\ drainPc' \in DrainPcs /\ drainBatch' \in 0..Len(batches')
            /\ Busy(drainPc') => drainBatch' # 0
        BY <1>0, <2>2, DrainStepType
      <3>11. MemType'
        BY <1>0, <1>2, <2>2, <3>1 DEF FlushTimerFires, TypeInv, TypeOK, MemType
      <3>12. CountType'
        BY <1>0, <1>2, <2>2, <3>1 DEF FlushTimerFires, TypeInv, TypeOK,
           CountType
      <3>13. LifeType'
        BY <1>0, <1>2, <2>2, <3>1 DEF FlushTimerFires, TypeInv, TypeOK, LifeType
      <3>14. DrainType'
        BY <1>0, <1>2, <2>2, <3>1 DEF FlushTimerFires, TypeInv, TypeOK,
           DrainType, MemType, DrainPcs
      <3>15. ConnType'
        BY <1>0, <1>2, <2>2, <3>1 DEF FlushTimerFires, TypeInv, TypeOK, ConnType
      <3>16. ExitType'
        BY <1>0, <1>2, <2>2, <3>1 DEF FlushTimerFires, TypeInv, TypeOK,
           ExitType, MemType, ExitPcs
      <3>17. NetType'
        BY <1>0, <1>2, <2>2, <3>1 DEF FlushTimerFires, TypeInv, TypeOK,
           NetType, MemType, ConnType
      <3>18. HistType'
        BY <1>0, <1>2, <2>2, <3>1 DEF FlushTimerFires, TypeInv, TypeOK, HistType
      <3>19. HasBatch'
        BY <1>0, <1>2, <2>2, <3>1 DEF FlushTimerFires, TypeInv, TypeOK,
           HasBatch, Busy, MemType, DrainType, ExitType
      <3> QED
        BY <3>11, <3>12, <3>13, <3>14, <3>15, <3>16, <3>17, <3>18, <3>19 DEF
           TypeInv, TypeOK
    <2> QED
      BY <1>2, <2>1, <2>2 DEF FlushTimerFires
  <1>3. CASE DelayElapses
    <2>1. /\ MemType' /\ Len(batches) <= Len(batches')
          /\ drainPc' \in DrainPcs /\ drainBatch' \in 0..Len(batches')
          /\ Busy(drainPc') => drainBatch' # 0
      BY <1>0, <1>3, DrainStepType DEF DelayElapses
    <2> QED
      BY <1>3, <2>1 DEF DelayElapses, TypeInv, TypeOK, HasBatch, Busy,
           MemType, CountType, LifeType, DrainType, ConnType, ExitType, NetType,
           HistType
  <1>4. CASE DrainCommits
    <2>1. /\ drainBatch \in 1..Len(batches) /\ drainAck \in Counts
          /\ batches[drainBatch].sequence + 1 \in Nat \ {0}
      <3>1. drainBatch \in 1..Len(batches) /\ drainAck \in Counts
        BY <1>4 DEF DrainCommits, TypeInv, TypeOK, DrainType, HasBatch, Busy
      <3> QED
        BY <1>0, <3>1, BatchType
    <2>2. /\ MemType' /\ Len(batches) <= Len(batches')
          /\ drainPc' \in DrainPcs /\ drainBatch' \in 0..Len(batches')
          /\ Busy(drainPc') => drainBatch' # 0
      BY <1>0, <1>4, <2>1, DrainStepType DEF DrainCommits
    <2>3. CountType' /\ NoCounts \in Counts
      BY <1>4, <2>1 DEF DrainCommits, CommitCounts, TypeInv, TypeOK, CountType,
           Counts, NoCounts
    <2>11. MemType'
      BY <1>0, <1>4, <2>2, <2>3 DEF DrainCommits, TypeInv, TypeOK, MemType
    <2>12. CountType'
      BY <1>0, <1>4, <2>2, <2>3 DEF DrainCommits, TypeInv, TypeOK, CountType
    <2>13. LifeType'
      BY <1>0, <1>4, <2>2, <2>3 DEF DrainCommits, TypeInv, TypeOK, LifeType
    <2>14. DrainType'
      BY <1>0, <1>4, <2>2, <2>3 DEF DrainCommits, TypeInv, TypeOK, DrainType,
         MemType, DrainPcs
    <2>15. ConnType'
      BY <1>0, <1>4, <2>2, <2>3 DEF DrainCommits, TypeInv, TypeOK, ConnType
    <2>16. ExitType'
      BY <1>0, <1>4, <2>2, <2>3 DEF DrainCommits, TypeInv, TypeOK, ExitType,
         MemType, ExitPcs
    <2>17. NetType'
      <3>1. Len(batches) \in Nat /\ Len(batches') \in Nat /\ Len(batches) <= Len(batches')
        BY <1>0, <1>4, <2>2, <2>3 DEF DrainCommits, TypeInv, TypeOK, MemType
      <3> QED
        BY <1>0, <1>4, <2>2, <2>3, <3>1, NetTypeKept DEF DrainCommits, TypeInv, TypeOK
    <2>18. HistType'
      BY <1>0, <1>4, <2>2, <2>3 DEF DrainCommits, TypeInv, TypeOK, HistType
    <2>19. HasBatch'
      BY <1>0, <1>4, <2>2, <2>3 DEF DrainCommits, TypeInv, TypeOK, HasBatch,
         Busy, MemType, DrainType, ExitType
    <2> QED
      BY <2>11, <2>12, <2>13, <2>14, <2>15, <2>16, <2>17, <2>18, <2>19 DEF
         TypeInv, TypeOK
  <1> QED
    BY <1>1, <1>2, <1>3, <1>4

LEMMA DrainTypeStep ==
    ASSUME TypeInv, NoLostWakeup, TicketFails \/ TicketArrives \/ SocketOpens \/ OpenFails
             \/ PeerCloses \/ ConnectionFails \/ SendBatch \/ SendRefused
             \/ SendThrows \/ AckTimeout \/ DrainRefusesAck \/ DrainFails \/ DrainFinally
    PROVE  TypeInv'
  <1>0. /\ NoCounts \in Counts
        /\ {"connecting", "open", "closing", "closed"} \subseteq SocketStates
        /\ {"idle", "joined", "resolved", "rejected"} \subseteq ExitPcs
    BY DEF NoCounts, Counts, SocketStates, ExitPcs
  <1>1. CASE TicketFails
    BY <1>0, <1>1 DEF TicketFails, Fault, DrainPcs, TypeInv, TypeOK, HasBatch,
       Busy,
           MemType, CountType, LifeType, DrainType, ConnType, ExitType, NetType,
           HistType
  <1>2. CASE TicketArrives
    BY <1>0, <1>2 DEF TicketArrives, DrainPcs, TypeInv, TypeOK, HasBatch, Busy,
           MemType, CountType, LifeType, DrainType, ConnType, ExitType, NetType,
           HistType
  <1>3. CASE SocketOpens
    BY <1>0, <1>3 DEF SocketOpens, DrainPcs, TypeInv, TypeOK, HasBatch, Busy,
           MemType, CountType, LifeType, DrainType, ConnType, ExitType, NetType,
           HistType
  <1>4. CASE OpenFails
    BY <1>0, <1>4 DEF OpenFails, Fault, Hangup, DrainPcs, TypeInv, TypeOK,
       HasBatch, Busy,
           MemType, CountType, LifeType, DrainType, ConnType, ExitType, NetType,
           HistType
  <1>5. CASE PeerCloses
    BY <1>0, <1>5 DEF PeerCloses, Fault, IsOpen, TypeInv, TypeOK, HasBatch,
       Busy,
           MemType, CountType, LifeType, DrainType, ConnType, ExitType, NetType,
           HistType
  <1>6. CASE ConnectionFails
    <2>11. MemType'
      BY <1>0, <1>6 DEF ConnectionFails, Fault, RejectAck, Hangup, TypeInv,
         TypeOK, MemType
    <2>12. CountType'
      BY <1>0, <1>6 DEF ConnectionFails, Fault, RejectAck, Hangup, TypeInv,
         TypeOK, CountType
    <2>13. LifeType'
      BY <1>0, <1>6 DEF ConnectionFails, Fault, RejectAck, Hangup, TypeInv,
         TypeOK, LifeType
    <2>14. DrainType'
      BY <1>0, <1>6 DEF ConnectionFails, Fault, RejectAck, Hangup, TypeInv,
         TypeOK, DrainType, MemType, DrainPcs, IsOpen
    <2>15. ConnType'
      BY <1>0, <1>6 DEF ConnectionFails, Fault, RejectAck, Hangup, TypeInv,
         TypeOK, ConnType
    <2>16. ExitType'
      BY <1>0, <1>6 DEF ConnectionFails, Fault, RejectAck, Hangup, TypeInv,
         TypeOK, ExitType, MemType, ExitPcs
    <2>17. NetType'
      BY <1>0, <1>6 DEF ConnectionFails, Fault, RejectAck, Hangup, TypeInv, TypeOK,
         NetType, MemType, ConnType
    <2>18. HistType'
      BY <1>0, <1>6 DEF ConnectionFails, Fault, RejectAck, Hangup, TypeInv,
         TypeOK, HistType
    <2>19. HasBatch'
      BY <1>0, <1>6 DEF ConnectionFails, Fault, RejectAck, Hangup, TypeInv,
         TypeOK, HasBatch, Busy, NoLostWakeup, MemType, DrainType, ExitType,
         IsOpen
    <2> QED
      BY <2>11, <2>12, <2>13, <2>14, <2>15, <2>16, <2>17, <2>18, <2>19 DEF
         TypeInv, TypeOK
  <1>7. CASE SendBatch
    BY <1>0, <1>7 DEF SendBatch, IsOpen, DrainPcs, TypeInv, TypeOK, HasBatch,
       Busy,
           MemType, CountType, LifeType, DrainType, ConnType, ExitType, NetType,
           HistType
  <1>8. CASE SendRefused
    BY <1>0, <1>8 DEF SendRefused, DrainPcs, TypeInv, TypeOK, HasBatch, Busy,
           MemType, CountType, LifeType, DrainType, ConnType, ExitType, NetType,
           HistType
  <1>9. CASE SendThrows
    BY <1>0, <1>9 DEF SendThrows, Fault, DrainPcs, TypeInv, TypeOK, HasBatch,
       Busy,
           MemType, CountType, LifeType, DrainType, ConnType, ExitType, NetType,
           HistType
  <1>10. CASE AckTimeout
    <2>11. MemType'
      BY <1>0, <1>10 DEF AckTimeout, Fault, RejectAck, TypeInv, TypeOK, MemType
    <2>12. CountType'
      BY <1>0, <1>10 DEF AckTimeout, Fault, RejectAck, TypeInv, TypeOK,
         CountType
    <2>13. LifeType'
      BY <1>0, <1>10 DEF AckTimeout, Fault, RejectAck, TypeInv, TypeOK, LifeType
    <2>14. DrainType'
      BY <1>0, <1>10 DEF AckTimeout, Fault, RejectAck, TypeInv, TypeOK,
         DrainType, MemType, DrainPcs
    <2>15. ConnType'
      BY <1>0, <1>10 DEF AckTimeout, Fault, RejectAck, TypeInv, TypeOK, ConnType
    <2>16. ExitType'
      BY <1>0, <1>10 DEF AckTimeout, Fault, RejectAck, TypeInv, TypeOK,
         ExitType, MemType, ExitPcs
    <2>17. NetType'
      <3>1. Len(batches) \in Nat /\ Len(batches') \in Nat /\ Len(batches) <= Len(batches')
        BY <1>0, <1>10 DEF AckTimeout, Fault, RejectAck, TypeInv, TypeOK, MemType
      <3> QED
        BY <1>0, <1>10, <3>1, NetTypeKept DEF AckTimeout, Fault, RejectAck, TypeInv, TypeOK
    <2>18. HistType'
      BY <1>0, <1>10 DEF AckTimeout, Fault, RejectAck, TypeInv, TypeOK, HistType
    <2>19. HasBatch'
      BY <1>0, <1>10 DEF AckTimeout, Fault, RejectAck, TypeInv, TypeOK,
         HasBatch, Busy, NoLostWakeup, MemType, DrainType, ExitType
    <2> QED
      BY <2>11, <2>12, <2>13, <2>14, <2>15, <2>16, <2>17, <2>18, <2>19 DEF
         TypeInv, TypeOK
  <1>11. CASE DrainRefusesAck
    BY <1>0, <1>11 DEF DrainRefusesAck, DrainPcs, TypeInv, TypeOK, HasBatch,
       Busy,
           MemType, CountType, LifeType, DrainType, ConnType, ExitType, NetType,
           HistType
  <1>12. CASE DrainFails
    BY <1>0, <1>12 DEF DrainFails, Hangup, DrainPcs, TypeInv, TypeOK, HasBatch,
       Busy,
           MemType, CountType, LifeType, DrainType, ConnType, ExitType, NetType,
           HistType
  <1>13. CASE DrainFinally
    BY <1>0, <1>13 DEF DrainFinally, Settled, DrainPcs, TypeInv, TypeOK,
       HasBatch, Busy,
           MemType, CountType, LifeType, DrainType, ConnType, ExitType, NetType,
           HistType
  <1> QED
    BY <1>1, <1>2, <1>3, <1>4, <1>5, <1>6, <1>7,
       <1>8, <1>9, <1>10, <1>11, <1>12, <1>13

LEMMA EventType ==
    ASSUME TypeInv, NoLostWakeup,
           \/ \E g \in 1..Len(sockets) : SocketClosed(g)
           \/ \E m \in toClient : OnAck(m)
           \/ \E m \in toServer : ServerCommits(m) \/ ServerMiscounts(m)
    PROVE  TypeInv'
  <1>0. "closed" \in SocketStates
    BY DEF SocketStates
  <1>1. ASSUME NEW g \in 1..Len(sockets), SocketClosed(g) PROVE TypeInv'
    <2>11. MemType'
      BY <1>0, <1>1 DEF SocketClosed, RejectAck, TypeInv, TypeOK, MemType
    <2>12. CountType'
      BY <1>0, <1>1 DEF SocketClosed, RejectAck, TypeInv, TypeOK, CountType
    <2>13. LifeType'
      BY <1>0, <1>1 DEF SocketClosed, RejectAck, TypeInv, TypeOK, LifeType
    <2>14. DrainType'
      BY <1>0, <1>1 DEF SocketClosed, RejectAck, TypeInv, TypeOK, DrainType,
         MemType, DrainPcs
    <2>15. ConnType'
      BY <1>0, <1>1 DEF SocketClosed, RejectAck, TypeInv, TypeOK, ConnType
    <2>16. ExitType'
      BY <1>0, <1>1 DEF SocketClosed, RejectAck, TypeInv, TypeOK, ExitType,
         MemType, ExitPcs
    <2>17. NetType'
      BY <1>0, <1>1 DEF SocketClosed, RejectAck, TypeInv, TypeOK,
         NetType, MemType, ConnType
    <2>18. HistType'
      BY <1>0, <1>1 DEF SocketClosed, RejectAck, TypeInv, TypeOK, HistType
    <2>19. HasBatch'
      BY <1>0, <1>1 DEF SocketClosed, RejectAck, TypeInv, TypeOK, HasBatch,
         Busy, NoLostWakeup, MemType, DrainType, ExitType
    <2> QED
      BY <2>11, <2>12, <2>13, <2>14, <2>15, <2>16, <2>17, <2>18, <2>19 DEF
         TypeInv, TypeOK
  <1>2. ASSUME NEW m \in toClient, OnAck(m) PROVE TypeInv'
    <2>1. m \in [batch: 1..Len(batches), counts: Counts]
      BY DEF TypeInv, TypeOK, NetType
    <2>11. MemType'
      BY <1>0, <1>2, <2>1 DEF OnAck, RejectAck, Hangup, TypeInv, TypeOK, MemType
    <2>12. CountType'
      BY <1>0, <1>2, <2>1 DEF OnAck, RejectAck, Hangup, TypeInv, TypeOK,
         CountType
    <2>13. LifeType'
      BY <1>0, <1>2, <2>1 DEF OnAck, RejectAck, Hangup, TypeInv, TypeOK,
         LifeType
    <2>14. DrainType'
      BY <1>0, <1>2, <2>1 DEF OnAck, RejectAck, Hangup, TypeInv, TypeOK,
         DrainType, MemType, DrainPcs
    <2>15. ConnType'
      BY <1>0, <1>2, <2>1 DEF OnAck, RejectAck, Hangup, TypeInv, TypeOK,
         ConnType
    <2>16. ExitType'
      BY <1>0, <1>2, <2>1 DEF OnAck, RejectAck, Hangup, TypeInv, TypeOK,
         ExitType, MemType, ExitPcs
    <2>17. NetType'
      BY <1>0, <1>2, <2>1 DEF OnAck, RejectAck, Hangup, TypeInv, TypeOK,
         NetType, MemType, ConnType
    <2>18. HistType'
      BY <1>0, <1>2, <2>1 DEF OnAck, RejectAck, Hangup, TypeInv, TypeOK,
         HistType
    <2>19. HasBatch'
      BY <1>0, <1>2, <2>1 DEF OnAck, RejectAck, Hangup, TypeInv, TypeOK,
         HasBatch, Busy, NoLostWakeup, MemType, DrainType, ExitType
    <2> QED
      BY <2>11, <2>12, <2>13, <2>14, <2>15, <2>16, <2>17, <2>18, <2>19 DEF
         TypeInv, TypeOK
  <1>3. ASSUME NEW m \in toServer, ServerCommits(m) PROVE TypeInv'
    <2>1. m.batch \in 1..Len(batches) /\ m.gen \in 1..Len(sockets)
      BY DEF TypeInv, TypeOK, NetType
    <2>2. /\ RecordsOf(m.batch) \subseteq Records
          /\ [accepted |-> Cardinality(RecordsOf(m.batch) \ committed),
              duplicates |-> Len(batches[m.batch].records)
                               - Cardinality(RecordsOf(m.batch) \ committed)] \in Counts
      <3>1. MemType /\ m.batch \in 0..Len(batches)
        BY <2>1 DEF TypeInv, TypeOK
      <3> QED
        BY <2>1, <3>1, RecordsOfType, CountsType
    <2>11. MemType'
      BY <1>3, <2>1, <2>2 DEF ServerCommits, Answer, TypeInv, TypeOK, MemType
    <2>12. CountType'
      BY <1>3, <2>1, <2>2 DEF ServerCommits, Answer, TypeInv, TypeOK, CountType
    <2>13. LifeType'
      BY <1>3, <2>1, <2>2 DEF ServerCommits, Answer, TypeInv, TypeOK, LifeType
    <2>14. DrainType'
      BY <1>3, <2>1, <2>2 DEF ServerCommits, Answer, TypeInv, TypeOK,
         DrainType, MemType, DrainPcs
    <2>15. ConnType'
      BY <1>3, <2>1, <2>2 DEF ServerCommits, Answer, TypeInv, TypeOK, ConnType
    <2>16. ExitType'
      BY <1>3, <2>1, <2>2 DEF ServerCommits, Answer, TypeInv, TypeOK, ExitType,
         MemType, ExitPcs
    <2>17. NetType'
      <3>1. [batch |-> m.batch,
             counts |-> [accepted |-> Cardinality(RecordsOf(m.batch) \ committed),
                         duplicates |-> Len(batches[m.batch].records)
                            - Cardinality(RecordsOf(m.batch) \ committed)]]
               \in [batch: 1..Len(batches), counts: Counts]
        BY <2>1, <2>2
      <3>2. /\ committed' = committed \cup RecordsOf(m.batch)
            /\ toServer' \subseteq toServer
            /\ UNCHANGED <<sockets, batches>>
        BY <1>3 DEF ServerCommits
      <3>3. toClient' \subseteq [batch: 1..Len(batches), counts: Counts]
        BY <1>3, <3>1 DEF ServerCommits, Answer, TypeInv, TypeOK, NetType
      <3> QED
        BY <2>2, <3>2, <3>3 DEF TypeInv, TypeOK, NetType
    <2>18. HistType'
      BY <1>3, <2>1, <2>2 DEF ServerCommits, Answer, TypeInv, TypeOK, HistType
    <2>19. HasBatch'
      BY <1>3, <2>1, <2>2 DEF ServerCommits, Answer, TypeInv, TypeOK, HasBatch,
         Busy, MemType, DrainType, ExitType
    <2> QED
      BY <2>11, <2>12, <2>13, <2>14, <2>15, <2>16, <2>17, <2>18, <2>19 DEF
         TypeInv, TypeOK
  <1>4. ASSUME NEW m \in toServer, ServerMiscounts(m) PROVE TypeInv'
    <2>1. m.batch \in 1..Len(batches) /\ NoCounts \in Counts
      BY DEF TypeInv, TypeOK, NetType, NoCounts, Counts
    <2> QED
      BY <1>4, <2>1 DEF ServerMiscounts, Answer, Fault, TypeInv, TypeOK,
         HasBatch, Busy,
           MemType, CountType, LifeType, DrainType, ConnType, ExitType, NetType,
           HistType
  <1> QED
    BY <1>1, <1>2, <1>3, <1>4

(* What an exit caller starts: the parts of the invariant a call can change. *)
CallKeepsTypes ==
    /\ MemType' /\ Len(batches) <= Len(batches')
    /\ drainPc' \in DrainPcs /\ drainBatch' \in 0..Len(batches')
    /\ Busy(drainPc') => drainBatch' # 0
    /\ attempts' \in 0..MaxAttempts /\ flushTimer' \in BOOLEAN
    /\ exitPc' \in [Exits -> ExitPcs]
    /\ exitBatch' \in [Exits -> 0..Len(batches')]
    /\ \A o \in Exits :
         exitPc'[o] \in {"persist", "commit"} => exitBatch'[o] # 0
    /\ promised' \subseteq Records /\ late' \subseteq Records

(* What an exit caller starts keeps the types: the fallback loop or flush(). *)
LEMMA ExitBeginsType ==
    ASSUME TypeInv, NEW p \in Exits, NEW q \in Seq(Records), Len(q) <= MaxQueue,
           NEW owed \in SUBSET Records, ExitBegins(p, q, owed)
    PROVE  CallKeepsTypes
  <1>0. /\ MemType /\ ExitType /\ inFlight \in 0..Len(batches)
        /\ nextSequence \in Nat \ {0}
        /\ drainPc \in DrainPcs /\ drainBatch \in 0..Len(batches)
        /\ Busy(drainPc) => drainBatch # 0
        /\ attempts \in 0..MaxAttempts
        /\ promised \subseteq Records /\ late \subseteq Records
        /\ \A o \in Exits :
             exitPc[o] \in {"persist", "commit"} => exitBatch[o] # 0
        /\ exitBatch \in [Exits -> 0..Len(batches)]
    BY DEF TypeInv, TypeOK, HasBatch, MemType, CountType, DrainType, ExitType,
           HistType
  <1>1. CASE /\ flushTimer' = FALSE
             /\ ExitStep(p, q, inFlight, nextSequence)
             /\ UNCHANGED <<drainPc, drainBatch, attempts, promised, late>>
    <2>1. /\ MemType' /\ Len(batches) <= Len(batches')
          /\ exitPc' \in [Exits -> ExitPcs]
          /\ exitBatch' \in [Exits -> 0..Len(batches')]
          /\ exitPc'[p] \in {"persist", "commit"} => exitBatch'[p] # 0
          /\ \A o \in Exits \ {p} :
               exitPc'[o] = exitPc[o] /\ exitBatch'[o] = exitBatch[o]
      BY <1>0, <1>1, ExitStepType
    <2>2. drainBatch' \in 0..Len(batches')
      BY <1>0, <1>1, <2>1 DEF MemType
    <2> QED
      BY <1>0, <1>1, <2>1, <2>2 DEF CallKeepsTypes
  <1>2. CASE /\ exitPc' = [exitPc EXCEPT ![p] = "joined"]
             /\ FlushCall(q) /\ Promise(owed) /\ UNCHANGED exitBatch
    <2>1. /\ MemType' /\ Len(batches) <= Len(batches')
          /\ drainPc' \in DrainPcs /\ drainBatch' \in 0..Len(batches')
          /\ Busy(drainPc') => drainBatch' # 0
          /\ attempts' \in 0..MaxAttempts /\ flushTimer' \in BOOLEAN
      BY <1>2, FlushCallType
    <2>2. promised' \subseteq Records /\ late' \subseteq Records
      BY <1>0, <1>2 DEF Promise
    <2>3. exitPc' \in [Exits -> ExitPcs]
      BY <1>0, <1>2 DEF ExitType, ExitPcs
    <2>4. exitBatch' \in [Exits -> 0..Len(batches')]
      BY <1>0, <1>2, <2>1 DEF MemType
    <2>5. \A o \in Exits :
            exitPc'[o] \in {"persist", "commit"} => exitBatch'[o] # 0
      BY <1>0, <1>2 DEF ExitType
    <2> QED
      BY <2>1, <2>2, <2>3, <2>4, <2>5 DEF CallKeepsTypes
  <1> QED
    BY <1>1, <1>2 DEF ExitBegins

(* The calls and the steps of an exit caller.                               *)
LEMMA ExitTypeStep ==
    ASSUME TypeInv, NoLostWakeup, NEW p \in Exits,
           \/ FlushOnExit(p) \/ Close(p) \/ \E r \in Records : FlushOnExitWith(p, r)
           \/ FallbackCommits(p) \/ FallbackFails(p) \/ ExitCommits(p)
           \/ CloseFinishes(p)
    PROVE  TypeInv'
  <1>0. /\ MemType /\ ExitType /\ queue \in Seq(Records) /\ Len(queue) <= MaxQueue
        /\ Pending \in SUBSET Records /\ NoCounts \in Counts
        /\ {"idle", "joined", "commit", "resolved", "rejected", "closed"} \subseteq ExitPcs
    BY RecordsOfType DEF TypeInv, TypeOK, MemType, NoCounts, Counts, ExitPcs
  <1>1. ASSUME FlushOnExit(p) PROVE TypeInv'
    <2>1. ExitBegins(p, queue, Pending)
      BY <1>1 DEF FlushOnExit
    <2>2. CallKeepsTypes
      BY <1>0, <2>1, ExitBeginsType
    <2>11. MemType'
      BY <1>0, <1>1, <2>2 DEF FlushOnExit, CallKeepsTypes, TypeInv, TypeOK,
         MemType
    <2>12. CountType'
      BY <1>0, <1>1, <2>2 DEF FlushOnExit, CallKeepsTypes, TypeInv, TypeOK,
         CountType
    <2>13. LifeType'
      BY <1>0, <1>1, <2>2 DEF FlushOnExit, CallKeepsTypes, TypeInv, TypeOK,
         LifeType
    <2>14. DrainType'
      BY <1>0, <1>1, <2>2 DEF FlushOnExit, CallKeepsTypes, TypeInv, TypeOK,
         DrainType, MemType, DrainPcs
    <2>15. ConnType'
      BY <1>0, <1>1, <2>2 DEF FlushOnExit, CallKeepsTypes, TypeInv, TypeOK,
         ConnType
    <2>16. ExitType'
      BY <1>0, <1>1, <2>2 DEF FlushOnExit, CallKeepsTypes, TypeInv, TypeOK,
         ExitType, MemType, ExitPcs
    <2>17. NetType'
      <3>1. Len(batches) \in Nat /\ Len(batches') \in Nat /\ Len(batches) <= Len(batches')
        BY <1>0, <1>1, <2>2 DEF FlushOnExit, CallKeepsTypes, TypeInv, TypeOK, MemType
      <3> QED
        BY <1>0, <1>1, <2>2, <3>1, NetTypeKept DEF FlushOnExit, CallKeepsTypes, TypeInv, TypeOK
    <2>18. HistType'
      BY <1>0, <1>1, <2>2 DEF FlushOnExit, CallKeepsTypes, TypeInv, TypeOK,
         HistType
    <2>19. HasBatch'
      BY <1>0, <1>1, <2>2 DEF FlushOnExit, CallKeepsTypes, TypeInv, TypeOK,
         HasBatch, Busy, MemType, DrainType, ExitType
    <2> QED
      BY <2>11, <2>12, <2>13, <2>14, <2>15, <2>16, <2>17, <2>18, <2>19 DEF
         TypeInv, TypeOK
  <1>2. ASSUME NEW r \in Records, FlushOnExitWith(p, r) PROVE TypeInv'
    <2>1. /\ QueueWith(r) \in Seq(Records) /\ Len(QueueWith(r)) <= MaxQueue
          /\ Displaced \subseteq Records /\ Pending \cup {r} \in SUBSET Records
      BY <1>0, EnqueueType
    <2>2. CallKeepsTypes
      <3>1. CASE ExitBegins(p, QueueWith(r), Pending \cup {r})
        BY <2>1, <3>1, ExitBeginsType
      <3>2. CASE ExitBegins(p, queue, Pending)
        BY <1>0, <3>2, ExitBeginsType
      <3> QED
        BY <1>2, <3>1, <3>2 DEF FlushOnExitWith
    <2>11. MemType'
      BY <1>0, <1>2, <2>1, <2>2 DEF FlushOnExitWith, CallKeepsTypes, TypeInv,
         TypeOK, MemType
    <2>12. CountType'
      BY <1>0, <1>2, <2>1, <2>2 DEF FlushOnExitWith, CallKeepsTypes, TypeInv,
         TypeOK, CountType
    <2>13. LifeType'
      BY <1>0, <1>2, <2>1, <2>2 DEF FlushOnExitWith, CallKeepsTypes, TypeInv,
         TypeOK, LifeType
    <2>14. DrainType'
      BY <1>0, <1>2, <2>1, <2>2 DEF FlushOnExitWith, CallKeepsTypes, TypeInv,
         TypeOK, DrainType, MemType, DrainPcs
    <2>15. ConnType'
      BY <1>0, <1>2, <2>1, <2>2 DEF FlushOnExitWith, CallKeepsTypes, TypeInv,
         TypeOK, ConnType
    <2>16. ExitType'
      BY <1>0, <1>2, <2>1, <2>2 DEF FlushOnExitWith, CallKeepsTypes, TypeInv,
         TypeOK, ExitType, MemType, ExitPcs
    <2>17. NetType'
      <3>1. Len(batches) \in Nat /\ Len(batches') \in Nat /\ Len(batches) <= Len(batches')
        BY <1>0, <1>2, <2>1, <2>2 DEF FlushOnExitWith, CallKeepsTypes, TypeInv, TypeOK, MemType
      <3> QED
        BY <1>0, <1>2, <2>1, <2>2, <3>1, NetTypeKept DEF FlushOnExitWith, CallKeepsTypes, TypeInv, TypeOK
    <2>18. HistType'
      BY <1>0, <1>2, <2>1, <2>2 DEF FlushOnExitWith, CallKeepsTypes, TypeInv,
         TypeOK, HistType
    <2>19. HasBatch'
      BY <1>0, <1>2, <2>1, <2>2 DEF FlushOnExitWith, CallKeepsTypes, TypeInv,
         TypeOK, HasBatch, Busy, MemType, DrainType, ExitType
    <2> QED
      BY <2>11, <2>12, <2>13, <2>14, <2>15, <2>16, <2>17, <2>18, <2>19 DEF
         TypeInv, TypeOK
  <1>3. ASSUME Close(p) PROVE TypeInv'
    <2>2. CallKeepsTypes
      <3>1. CASE ExitBegins(p, queue, Pending)
        BY <1>0, <3>1, ExitBeginsType
      <3>2. CASE /\ exitPc' = [exitPc EXCEPT ![p] = "joined"]
                 /\ flushTimer' = FALSE /\ drainPc # "idle"
                 /\ UNCHANGED <<memVars, drainPc, drainBatch, attempts>>
                 /\ Promise(Pending) /\ UNCHANGED exitBatch
        <4>1. promised' \subseteq Records /\ late' \subseteq Records
          BY <1>0, <3>2 DEF Promise, TypeInv, TypeOK, HistType
        <4>2. exitPc' \in [Exits -> ExitPcs]
          BY <1>0, <3>2 DEF ExitType
        <4>3. MemType' /\ Len(batches) <= Len(batches')
          BY <1>0, <3>2 DEF MemType
        <4>4. /\ drainPc' \in DrainPcs /\ drainBatch' \in 0..Len(batches')
              /\ Busy(drainPc') => drainBatch' # 0
              /\ attempts' \in 0..MaxAttempts
          BY <3>2 DEF TypeInv, TypeOK, HasBatch, DrainType
        <4>5. exitBatch' \in [Exits -> 0..Len(batches')]
          BY <1>0, <3>2 DEF ExitType
        <4>6. \A o \in Exits :
                exitPc'[o] \in {"persist", "commit"} => exitBatch'[o] # 0
          BY <1>0, <3>2 DEF TypeInv, HasBatch, ExitType
        <4> QED
          BY <3>2, <4>1, <4>2, <4>3, <4>4, <4>5, <4>6 DEF CallKeepsTypes
      <3> QED
        BY <1>3, <3>1, <3>2 DEF Close, ExitBegins, FlushCall
    <2>11. MemType'
      BY <1>0, <1>3, <2>2 DEF Close, CallKeepsTypes, TypeInv, TypeOK, MemType
    <2>12. CountType'
      BY <1>0, <1>3, <2>2 DEF Close, CallKeepsTypes, TypeInv, TypeOK, CountType
    <2>13. LifeType'
      BY <1>0, <1>3, <2>2 DEF Close, CallKeepsTypes, TypeInv, TypeOK, LifeType
    <2>14. DrainType'
      BY <1>0, <1>3, <2>2 DEF Close, CallKeepsTypes, TypeInv, TypeOK,
         DrainType, MemType, DrainPcs
    <2>15. ConnType'
      BY <1>0, <1>3, <2>2 DEF Close, CallKeepsTypes, TypeInv, TypeOK, ConnType
    <2>16. ExitType'
      BY <1>0, <1>3, <2>2 DEF Close, CallKeepsTypes, TypeInv, TypeOK, ExitType,
         MemType, ExitPcs
    <2>17. NetType'
      <3>1. Len(batches) \in Nat /\ Len(batches') \in Nat /\ Len(batches) <= Len(batches')
        BY <1>0, <1>3, <2>2 DEF Close, CallKeepsTypes, TypeInv, TypeOK, MemType
      <3> QED
        BY <1>0, <1>3, <2>2, <3>1, NetTypeKept DEF Close, CallKeepsTypes, TypeInv, TypeOK
    <2>18. HistType'
      BY <1>0, <1>3, <2>2 DEF Close, CallKeepsTypes, TypeInv, TypeOK, HistType
    <2>19. HasBatch'
      BY <1>0, <1>3, <2>2 DEF Close, CallKeepsTypes, TypeInv, TypeOK, HasBatch,
         Busy, MemType, DrainType, ExitType
    <2> QED
      BY <2>11, <2>12, <2>13, <2>14, <2>15, <2>16, <2>17, <2>18, <2>19 DEF
         TypeInv, TypeOK
  <1>4. ASSUME FallbackCommits(p) PROVE TypeInv'
    <2>1. exitBatch[p] \in 1..Len(batches)
      BY <1>4 DEF FallbackCommits, TypeInv, TypeOK, ExitType, HasBatch
    <2>2. /\ RecordsOf(exitBatch[p]) \subseteq Records
          /\ [accepted |-> Cardinality(RecordsOf(exitBatch[p]) \ committed),
              duplicates |-> Len(batches[exitBatch[p]].records)
                  - Cardinality(RecordsOf(exitBatch[p]) \ committed)] \in Counts
      <3>1. exitBatch[p] \in 0..Len(batches)
        BY <2>1
      <3> QED
        BY <1>0, <2>1, <3>1, RecordsOfType, CountsType
    <2>11. MemType'
      BY <1>0, <1>4, <2>1, <2>2 DEF FallbackCommits, TypeInv, TypeOK, MemType
    <2>12. CountType'
      BY <1>0, <1>4, <2>1, <2>2 DEF FallbackCommits, TypeInv, TypeOK, CountType
    <2>13. LifeType'
      BY <1>0, <1>4, <2>1, <2>2 DEF FallbackCommits, TypeInv, TypeOK, LifeType
    <2>14. DrainType'
      BY <1>0, <1>4, <2>1, <2>2 DEF FallbackCommits, TypeInv, TypeOK,
         DrainType, MemType, DrainPcs
    <2>15. ConnType'
      BY <1>0, <1>4, <2>1, <2>2 DEF FallbackCommits, TypeInv, TypeOK, ConnType
    <2>16. ExitType'
      BY <1>0, <1>4, <2>1, <2>2 DEF FallbackCommits, TypeInv, TypeOK, ExitType,
         MemType, ExitPcs
    <2>17. NetType'
      BY <1>0, <1>4, <2>1, <2>2 DEF FallbackCommits, TypeInv, TypeOK,
         NetType, MemType, ConnType
    <2>18. HistType'
      BY <1>0, <1>4, <2>1, <2>2 DEF FallbackCommits, TypeInv, TypeOK, HistType
    <2>19. HasBatch'
      BY <1>0, <1>4, <2>1, <2>2 DEF FallbackCommits, TypeInv, TypeOK, HasBatch,
         Busy, MemType, DrainType, ExitType
    <2> QED
      BY <2>11, <2>12, <2>13, <2>14, <2>15, <2>16, <2>17, <2>18, <2>19 DEF
         TypeInv, TypeOK
  <1>5. ASSUME FallbackFails(p) PROVE TypeInv'
    <2>1. /\ RecordsOf(exitBatch[p]) \subseteq Records /\ 0 \in 0..Len(batches)
      BY <1>0, RecordsOfType DEF ExitType, MemType
    <2>11. MemType'
      BY <1>0, <1>5, <2>1 DEF FallbackFails, Fault, TypeInv, TypeOK, MemType
    <2>12. CountType'
      BY <1>0, <1>5, <2>1 DEF FallbackFails, Fault, TypeInv, TypeOK, CountType
    <2>13. LifeType'
      BY <1>0, <1>5, <2>1 DEF FallbackFails, Fault, TypeInv, TypeOK, LifeType
    <2>14. DrainType'
      BY <1>0, <1>5, <2>1 DEF FallbackFails, Fault, TypeInv, TypeOK, DrainType,
         MemType, DrainPcs
    <2>15. ConnType'
      BY <1>0, <1>5, <2>1 DEF FallbackFails, Fault, TypeInv, TypeOK, ConnType
    <2>16. ExitType'
      BY <1>0, <1>5, <2>1 DEF FallbackFails, Fault, TypeInv, TypeOK, ExitType,
         MemType, ExitPcs
    <2>17. NetType'
      BY <1>0, <1>5, <2>1 DEF FallbackFails, Fault, TypeInv, TypeOK,
         NetType, MemType, ConnType
    <2>18. HistType'
      BY <1>0, <1>5, <2>1 DEF FallbackFails, Fault, TypeInv, TypeOK, HistType
    <2>19. HasBatch'
      BY <1>0, <1>5, <2>1 DEF FallbackFails, Fault, TypeInv, TypeOK, HasBatch,
         Busy, MemType, DrainType, ExitType
    <2> QED
      BY <2>11, <2>12, <2>13, <2>14, <2>15, <2>16, <2>17, <2>18, <2>19 DEF
         TypeInv, TypeOK
  <1>6. ASSUME ExitCommits(p) PROVE TypeInv'
    <2>1. /\ exitBatch[p] \in 1..Len(batches) /\ exitAck[p] \in Counts
          /\ batches[exitBatch[p]].sequence + 1 \in Nat \ {0}
      <3>1. exitBatch[p] \in 1..Len(batches) /\ exitAck[p] \in Counts
        BY <1>6 DEF ExitCommits, TypeInv, TypeOK, ExitType, HasBatch
      <3> QED
        BY <1>0, <3>1, BatchType
    <2>2. /\ MemType' /\ Len(batches) <= Len(batches')
          /\ exitPc' \in [Exits -> ExitPcs]
          /\ exitBatch' \in [Exits -> 0..Len(batches')]
          /\ exitPc'[p] \in {"persist", "commit"} => exitBatch'[p] # 0
          /\ \A o \in Exits \ {p} :
               exitPc'[o] = exitPc[o] /\ exitBatch'[o] = exitBatch[o]
      <3>1. /\ ExitStep(p, queue, 0, batches[exitBatch[p]].sequence + 1)
            /\ 0 \in 0..Len(batches)
        BY <1>0, <1>6 DEF ExitCommits, MemType
      <3> QED
        BY <1>0, <2>1, <3>1, ExitStepType
    <2>3. CountType'
      <3>1. /\ accepted \in Nat /\ exitAck[p].accepted \in Nat
            /\ duplicates \in Nat /\ exitAck[p].duplicates \in Nat
        BY <2>1 DEF TypeInv, TypeOK, CountType, Counts
      <3>2. /\ accepted' = accepted + exitAck[p].accepted
            /\ duplicates' = duplicates + exitAck[p].duplicates
            /\ nextSequence' = batches[exitBatch[p]].sequence + 1
        BY <1>6 DEF ExitCommits, CommitCounts
      <3> QED
        <4>1. /\ accepted + exitAck[p].accepted \in Nat
              /\ duplicates + exitAck[p].duplicates \in Nat
          BY <3>1
        <4> QED
          BY <2>1, <3>2, <4>1 DEF CountType
    <2>11. MemType'
      BY <1>0, <1>6, <2>2, <2>3 DEF ExitCommits, TypeInv, TypeOK, MemType
    <2>12. CountType'
      BY <1>0, <1>6, <2>2, <2>3 DEF ExitCommits, TypeInv, TypeOK, CountType
    <2>13. LifeType'
      BY <1>0, <1>6, <2>2, <2>3 DEF ExitCommits, TypeInv, TypeOK, LifeType
    <2>14. DrainType'
      BY <1>0, <1>6, <2>2, <2>3 DEF ExitCommits, TypeInv, TypeOK, DrainType,
         MemType, DrainPcs
    <2>15. ConnType'
      BY <1>0, <1>6, <2>2, <2>3 DEF ExitCommits, TypeInv, TypeOK, ConnType
    <2>16. ExitType'
      BY <1>0, <1>6, <2>2, <2>3 DEF ExitCommits, TypeInv, TypeOK, ExitType,
         MemType, ExitPcs
    <2>17. NetType'
      <3>1. Len(batches) \in Nat /\ Len(batches') \in Nat /\ Len(batches) <= Len(batches')
        BY <1>0, <1>6, <2>2, <2>3 DEF ExitCommits, TypeInv, TypeOK, MemType
      <3> QED
        BY <1>0, <1>6, <2>2, <2>3, <3>1, NetTypeKept DEF ExitCommits, TypeInv, TypeOK
    <2>18. HistType'
      BY <1>0, <1>6, <2>2, <2>3 DEF ExitCommits, TypeInv, TypeOK, HistType
    <2>19. HasBatch'
      BY <1>0, <1>6, <2>2, <2>3 DEF ExitCommits, TypeInv, TypeOK, HasBatch,
         Busy, MemType, DrainType, ExitType
    <2> QED
      BY <2>11, <2>12, <2>13, <2>14, <2>15, <2>16, <2>17, <2>18, <2>19 DEF
         TypeInv, TypeOK
  <1>7. ASSUME CloseFinishes(p) PROVE TypeInv'
    <2>1. "closed" \in SocketStates
      BY DEF SocketStates
    <2>11. MemType'
      BY <1>0, <1>7, <2>1 DEF CloseFinishes, RejectAck, Hangup, TypeInv,
         TypeOK, MemType
    <2>12. CountType'
      BY <1>0, <1>7, <2>1 DEF CloseFinishes, RejectAck, Hangup, TypeInv,
         TypeOK, CountType
    <2>13. LifeType'
      BY <1>0, <1>7, <2>1 DEF CloseFinishes, RejectAck, Hangup, TypeInv,
         TypeOK, LifeType
    <2>14. DrainType'
      BY <1>0, <1>7, <2>1 DEF CloseFinishes, RejectAck, Hangup, TypeInv,
         TypeOK, DrainType, MemType, DrainPcs
    <2>15. ConnType'
      BY <1>0, <1>7, <2>1 DEF CloseFinishes, RejectAck, Hangup, TypeInv,
         TypeOK, ConnType
    <2>16. ExitType'
      BY <1>0, <1>7, <2>1 DEF CloseFinishes, RejectAck, Hangup, TypeInv,
         TypeOK, ExitType, MemType, ExitPcs
    <2>17. NetType'
      BY <1>0, <1>7, <2>1 DEF CloseFinishes, RejectAck, Hangup, TypeInv, TypeOK,
         NetType, MemType, ConnType
    <2>18. HistType'
      BY <1>0, <1>7, <2>1 DEF CloseFinishes, RejectAck, Hangup, TypeInv,
         TypeOK, HistType
    <2>19. HasBatch'
      BY <1>0, <1>7, <2>1 DEF CloseFinishes, RejectAck, Hangup, TypeInv,
         TypeOK, HasBatch, Busy, MemType, DrainType, ExitType, NoLostWakeup
    <2> QED
      BY <2>11, <2>12, <2>13, <2>14, <2>15, <2>16, <2>17, <2>18, <2>19 DEF
         TypeInv, TypeOK
  <1> QED
    BY <1>1, <1>2, <1>3, <1>4, <1>5, <1>6, <1>7

-----------------------------------------------------------------------------
(* The drain is never left waiting *)

(* One turn of the drain loop ends where nothing is awaited from a socket.  *)
LEMMA DrainStepPc ==
    ASSUME NEW q, NEW b, NEW seq
    PROVE  /\ DrainStep(q, b, seq) => drainPc' \in {"done", "send", "ticket"}
           /\ FlushCall(q) => \/ UNCHANGED drainPc
                              \/ drainPc = "idle" /\ drainPc' \in {"done", "send", "ticket"}
  BY DEF DrainStep, FlushCall

(* Every step keeps the waiter, the current socket and drainPc in agreement. *)
LEMMA WakeupStep ==
    ASSUME TypeInv, NoLostWakeup, [Next]_vars
    PROVE  NoLostWakeup'
  <1>0. /\ sockets \in Seq(SocketStates) /\ socket \in 0..Len(sockets)
        /\ ackWaiter \in 0..Len(sockets)
        /\ toServer \subseteq [gen: 1..Len(sockets), batch: 1..Len(batches)]
    BY DEF TypeInv, TypeOK, ConnType, NetType
  <1>1. ASSUME UNCHANGED connVars, UNCHANGED lifeVars,
               \/ UNCHANGED drainPc
               \/ drainPc \notin {"ack", "opening"} /\ drainPc' \notin {"ack", "opening"}
        PROVE  NoLostWakeup'
    BY <1>1 DEF NoLostWakeup
  <1>2. ASSUME UNCHANGED connVars, accepting' \in BOOLEAN, UNCHANGED closed,
               \/ UNCHANGED drainPc
               \/ drainPc \notin {"ack", "opening"} /\ drainPc' \notin {"ack", "opening"}
        PROVE  NoLostWakeup'
    BY <1>2 DEF NoLostWakeup
  <1>3. CASE UNCHANGED vars
    BY <1>1, <1>3 DEF vars
  <1>4. ASSUME NEW r \in Records, WriteDropped(r) \/ WriteBuffered(r) \/ WriteFlushes(r)
        PROVE  NoLostWakeup'
    BY <1>1, <1>4, DrainStepPc DEF WriteDropped, WriteBuffered, WriteFlushes
  <1>5. CASE Flush \/ FlushTimerFires \/ DelayElapses \/ DrainCommits \/ DrainFinally
    BY <1>1, <1>5, DrainStepPc DEF Flush, FlushTimerFires, DelayElapses,
       DrainCommits,
       DrainFinally, Settled
  <1>6. ASSUME NEW p \in Exits, FlushOnExit(p) PROVE NoLostWakeup'
    BY <1>1, <1>6, DrainStepPc DEF FlushOnExit, ExitBegins
  <1>7. ASSUME NEW p \in Exits, NEW r \in Records, FlushOnExitWith(p, r)
        PROVE  NoLostWakeup'
    BY <1>1, <1>7, DrainStepPc DEF FlushOnExitWith, ExitBegins
  <1>8. ASSUME NEW p \in Exits, Close(p) PROVE NoLostWakeup'
    BY <1>2, <1>8, DrainStepPc DEF Close
  <1>9. ASSUME NEW p \in Exits,
               FallbackCommits(p) \/ FallbackFails(p) \/ ExitCommits(p)
        PROVE  NoLostWakeup'
    BY <1>1, <1>9 DEF FallbackCommits, FallbackFails, ExitCommits
  <1>10. CASE TicketFails \/ SendRefused \/ SendThrows \/ DrainRefusesAck
    BY <1>1, <1>10 DEF TicketFails, SendRefused, SendThrows, DrainRefusesAck
  <1>11. CASE TicketArrives
    BY <1>0, <1>11 DEF TicketArrives, NoLostWakeup, SocketStates
  <1>12. CASE SocketOpens
    BY <1>0, <1>12 DEF SocketOpens, NoLostWakeup
  <1>13. CASE OpenFails
    BY <1>0, <1>13 DEF OpenFails, Hangup, NoLostWakeup
  <1>14. CASE PeerCloses
    BY <1>0, <1>14 DEF PeerCloses, IsOpen, NoLostWakeup
  <1>15. CASE ConnectionFails
    BY <1>0, <1>15 DEF ConnectionFails, IsOpen, RejectAck, Hangup, NoLostWakeup
  <1>16. CASE SendBatch
    BY <1>0, <1>16 DEF SendBatch, IsOpen, NoLostWakeup
  <1>17. CASE AckTimeout
    BY <1>0, <1>17 DEF AckTimeout, RejectAck, NoLostWakeup
  <1>18. CASE DrainFails
    BY <1>0, <1>18 DEF DrainFails, Hangup, NoLostWakeup
  <1>19. ASSUME NEW g \in 1..Len(sockets), SocketClosed(g) PROVE NoLostWakeup'
    BY <1>0, <1>19 DEF SocketClosed, RejectAck, NoLostWakeup
  <1>20. ASSUME NEW m \in toClient, OnAck(m) PROVE NoLostWakeup'
    BY <1>0, <1>20 DEF OnAck, IsOpen, RejectAck, Hangup, NoLostWakeup
  <1>21. ASSUME NEW p \in Exits, CloseFinishes(p) PROVE NoLostWakeup'
    BY <1>0, <1>21 DEF CloseFinishes, RejectAck, Hangup, NoLostWakeup
  <1>22. ASSUME NEW m \in toServer, ServerCommits(m) \/ ServerMiscounts(m)
         PROVE  NoLostWakeup'
    BY <1>1, <1>22 DEF ServerCommits, ServerMiscounts
  <1> QED
    BY <1>3, <1>4, <1>5, <1>6, <1>7, <1>8, <1>9, <1>10, <1>11, <1>12, <1>13,
       <1>14, <1>15, <1>16, <1>17, <1>18, <1>19, <1>20, <1>21, <1>22
       DEF Next, Calls, Progress, Faults

LEMMA TypeStep ==
    ASSUME TypeInv, NoLostWakeup, [Next]_vars
    PROVE  TypeInv'
  <1>1. CASE UNCHANGED vars
    <2>11. MemType'
      BY <1>1 DEF vars, TypeInv, TypeOK, MemType
    <2>12. CountType'
      BY <1>1 DEF vars, TypeInv, TypeOK, CountType
    <2>13. LifeType'
      BY <1>1 DEF vars, TypeInv, TypeOK, LifeType
    <2>14. DrainType'
      BY <1>1 DEF vars, TypeInv, TypeOK, DrainType, MemType, DrainPcs
    <2>15. ConnType'
      BY <1>1 DEF vars, TypeInv, TypeOK, ConnType
    <2>16. ExitType'
      BY <1>1 DEF vars, TypeInv, TypeOK, ExitType, MemType, ExitPcs
    <2>17. NetType'
      <3>1. Len(batches) \in Nat /\ Len(batches') \in Nat /\ Len(batches) <= Len(batches')
        BY <1>1 DEF vars, TypeInv, TypeOK, MemType
      <3> QED
        BY <1>1, <3>1, NetTypeKept DEF vars, TypeInv, TypeOK
    <2>18. HistType'
      BY <1>1 DEF vars, TypeInv, TypeOK, HistType
    <2>19. HasBatch'
      BY <1>1 DEF vars, TypeInv, TypeOK, HasBatch, Busy, MemType, DrainType,
         ExitType
    <2> QED
      BY <2>11, <2>12, <2>13, <2>14, <2>15, <2>16, <2>17, <2>18, <2>19 DEF
         TypeInv, TypeOK
  <1>2. ASSUME NEW r \in Records, WriteDropped(r) \/ WriteBuffered(r) \/ WriteFlushes(r)
        PROVE  TypeInv'
    BY <1>2, WriteType
  <1>3. CASE Flush \/ FlushTimerFires \/ DelayElapses \/ DrainCommits
    BY <1>3, FlushType
  <1>4. CASE TicketFails \/ TicketArrives \/ SocketOpens \/ OpenFails \/ PeerCloses
             \/ ConnectionFails \/ SendBatch \/ SendRefused \/ SendThrows
             \/ AckTimeout \/ DrainRefusesAck \/ DrainFails \/ DrainFinally
    BY <1>4, DrainTypeStep
  <1>5. ASSUME NEW g \in 1..Len(sockets), SocketClosed(g) PROVE TypeInv'
    BY <1>5, EventType
  <1>6. ASSUME NEW m \in toClient, OnAck(m) PROVE TypeInv'
    BY <1>6, EventType
  <1>7. ASSUME NEW m \in toServer, ServerCommits(m) \/ ServerMiscounts(m)
        PROVE  TypeInv'
    BY <1>7, EventType
  <1>8. ASSUME NEW p \in Exits,
               \/ FlushOnExit(p) \/ Close(p) \/ FallbackCommits(p)
               \/ FallbackFails(p) \/ ExitCommits(p) \/ CloseFinishes(p)
        PROVE  TypeInv'
    BY <1>8, ExitTypeStep
  <1>9. ASSUME NEW p \in Exits, NEW r \in Records, FlushOnExitWith(p, r)
        PROVE  TypeInv'
    BY <1>9, ExitTypeStep
  <1> QED
    BY <1>1, <1>2, <1>3, <1>4, <1>5, <1>6, <1>7, <1>8, <1>9
       DEF Next, Calls, Progress, Faults

(* In every reachable state every variable holds a value of its type, for   *)
(* any queue bound, batch size, number of callers and number of failures:    *)
(* the queue within maxQueueSize, the local batch of a coroutine that will   *)
(* read it never null.                                                      *)
THEOREM TypeCorrect == Spec => []TypeOK
  <1>1. Init => TypeInv /\ NoLostWakeup
    BY TypeInit DEF Init, NoLostWakeup
  <1>2. TypeInv /\ NoLostWakeup /\ [Next]_vars => TypeInv' /\ NoLostWakeup'
    BY TypeStep, WakeupStep
  <1>3. TypeInv => TypeOK
    BY DEF TypeInv
  <1> QED
    BY <1>1, <1>2, <1>3, PTL DEF Spec

(* No reachable state has the drain waiting for a callback that can no       *)
(* longer come: the acknowledgement it awaits has a waiter on the current    *)
(* generation, the socket whose onopen it awaits is the current one.         *)
THEOREM WakeupCorrect == Spec => []NoLostWakeup
  <1>1. Init => TypeInv /\ NoLostWakeup
    BY TypeInit DEF Init, NoLostWakeup
  <1>2. TypeInv /\ NoLostWakeup /\ [Next]_vars => TypeInv' /\ NoLostWakeup'
    BY TypeStep, WakeupStep
  <1> QED
    BY <1>1, <1>2, PTL DEF Spec

HIDE DEF memVars, countVars, lifeVars, drainVars, connVars, exitVars, netVars,
         histVars


(***************************************************************************)
(* Part 2: the delivery contract, without an exit fallback                 *)
(***************************************************************************)
-----------------------------------------------------------------------------
(* The inductive invariant *)

(* Batches are created one at a time: the one in flight is the newest, and *)
(* nextSequence is the number the next one needs.                          *)
InOrder ==
    /\ inFlight \in {0, Len(batches)}
    /\ \A i \in 1..Len(batches) :
         batches[i].sequence = i /\ Len(batches[i].records) > 0
    /\ nextSequence = IF inFlight = 0 THEN Len(batches) + 1 ELSE Len(batches)

(* Every batch but the one in flight is in the database.                   *)
Released == \A i \in 1..Len(batches) : i # inFlight => RecordsOf(i) \subseteq committed

(* An acknowledgement that accounts for its batch follows the commit, on    *)
(* its way and in the hands of the drain.                                  *)
AcksAreTrue ==
    /\ \A m \in toClient :
         Accounts(m.batch, m.counts) => RecordsOf(m.batch) \subseteq committed
    /\ drainPc = "commit" /\ Accounts(drainBatch, drainAck)
         => RecordsOf(drainBatch) \subseteq committed

(* Nobody but the drain holds a batch, and it holds the one in flight.      *)
DrainHolds ==
    /\ Busy(drainPc) => drainBatch = inFlight
    /\ \A p \in Exits : exitPc[p] \notin {"persist", "commit"}

(* What was written, or awaited by a caller of flush(), is in memory, in     *)
(* the database or dropped; once the drain is done, no longer in memory.     *)
Accounted ==
    /\ issued \cup promised \subseteq Pending \cup committed \cup dropped
    /\ drainPc = "done" => promised \subseteq committed \cup dropped

DeliveryInv == InOrder /\ Released /\ AcksAreTrue /\ DrainHolds /\ Accounted

-----------------------------------------------------------------------------
(* Sequences *)

(* splice(0, n) keeps every element on one side or the other.               *)
LEMMA SpliceElements ==
    ASSUME NEW S, NEW q \in Seq(S), NEW n \in 0..Len(q)
    PROVE  ToSet(q) = ToSet(SubSeq(q, 1, n)) \cup ToSet(SubSeq(q, n + 1, Len(q)))
  <1>1. /\ DOMAIN q = 1..Len(q) /\ Len(q) \in Nat
        /\ DOMAIN SubSeq(q, 1, n) = 1..n
        /\ DOMAIN SubSeq(q, n + 1, Len(q)) = 1..(Len(q) - n)
        /\ \A i \in 1..n : SubSeq(q, 1, n)[i] = q[i]
        /\ \A i \in 1..(Len(q) - n) : SubSeq(q, n + 1, Len(q))[i] = q[n + i]
    OBVIOUS
  <1>2. ASSUME NEW x \in ToSet(q)
        PROVE  x \in ToSet(SubSeq(q, 1, n)) \cup ToSet(SubSeq(q, n + 1, Len(q)))
    <2>1. PICK i \in 1..Len(q) : x = q[i]
      BY <1>1 DEF ToSet
    <2>2. CASE i <= n
      BY <1>1, <2>1, <2>2 DEF ToSet
    <2>3. CASE i > n
      <3>1. i - n \in 1..(Len(q) - n) /\ n + (i - n) = i
        BY <1>1, <2>3
      <3>2. SubSeq(q, n + 1, Len(q))[i - n] = x
        BY <1>1, <2>1, <3>1
      <3> QED
        BY <1>1, <3>1, <3>2 DEF ToSet
    <2> QED
      BY <1>1, <2>1, <2>2, <2>3
  <1>3. /\ ToSet(SubSeq(q, 1, n)) \subseteq ToSet(q)
        /\ ToSet(SubSeq(q, n + 1, Len(q))) \subseteq ToSet(q)
    BY <1>1 DEF ToSet
  <1> QED
    BY <1>2, <1>3

(* push appends an element, shift gives up the first one.                   *)
LEMMA AppendElements ==
    ASSUME NEW S, NEW q \in Seq(S), NEW x \in S
    PROVE  ToSet(Append(q, x)) = ToSet(q) \cup {x}
  <1>1. /\ DOMAIN Append(q, x) = 1..(Len(q) + 1) /\ DOMAIN q = 1..Len(q)
        /\ Len(q) \in Nat /\ Append(q, x)[Len(q) + 1] = x
        /\ \A i \in 1..Len(q) : Append(q, x)[i] = q[i]
    OBVIOUS
  <1>2. ToSet(q) \cup {x} \subseteq ToSet(Append(q, x))
    BY <1>1 DEF ToSet
  <1>3. ASSUME NEW i \in 1..(Len(q) + 1)
        PROVE  Append(q, x)[i] \in ToSet(q) \cup {x}
    BY <1>1 DEF ToSet
  <1> QED
    BY <1>1, <1>2, <1>3 DEF ToSet

LEMMA TailElements ==
    ASSUME NEW S, NEW q \in Seq(S), q # <<>>
    PROVE  ToSet(Tail(q)) \cup {Head(q)} = ToSet(q)
  <1>1. /\ Len(q) \in Nat \ {0} /\ DOMAIN q = 1..Len(q) /\ Head(q) = q[1]
        /\ DOMAIN Tail(q) = 1..(Len(q) - 1)
        /\ \A i \in 1..(Len(q) - 1) : Tail(q)[i] = q[i + 1]
    OBVIOUS
  <1>2. ToSet(Tail(q)) \cup {Head(q)} \subseteq ToSet(q)
    BY <1>1 DEF ToSet
  <1>3. ASSUME NEW i \in 1..Len(q) PROVE q[i] \in ToSet(Tail(q)) \cup {Head(q)}
    <2>1. CASE i = 1
      BY <1>1, <2>1
    <2>2. CASE i # 1
      <3>1. i - 1 \in 1..(Len(q) - 1) /\ (i - 1) + 1 = i
        BY <1>1, <2>2
      <3>2. Tail(q)[i - 1] = q[i]
        BY <1>1, <3>1
      <3> QED
        BY <1>1, <3>1, <3>2 DEF ToSet
    <2> QED
      BY <2>1, <2>2
  <1> QED
    BY <1>1, <1>2, <1>3 DEF ToSet

(* enqueue: what is displaced is all that leaves the queue.                 *)
LEMMA EnqueueElements ==
    ASSUME MemType, NEW r \in Records
    PROVE  ToSet(QueueWith(r)) \cup Displaced = ToSet(queue) \cup {r}
  <1>1. queue \in Seq(Records) /\ (Full => queue # <<>>)
    BY MaxQueueAssumption DEF MemType, Full
  <1>2. CASE Full
    <2>1. Tail(queue) \in Seq(Records) /\ Displaced = {Head(queue)}
      BY <1>1, <1>2 DEF Displaced
    <2> QED
      <3>0. \A s \in Seq(Records) : ToSet(Append(s, r)) = ToSet(s) \cup {r}
        BY AppendElements
      <3>1. ToSet(Append(Tail(queue), r)) = ToSet(Tail(queue)) \cup {r}
        BY <2>1, <3>0
      <3>2. ToSet(Tail(queue)) \cup {Head(queue)} = ToSet(queue)
        BY <1>1, <1>2, TailElements
      <3> QED
        BY <1>2, <2>1, <3>1, <3>2 DEF QueueWith
  <1>3. CASE ~Full
    BY <1>1, <1>3, AppendElements DEF QueueWith, Displaced
  <1> QED
    BY <1>2, <1>3

-----------------------------------------------------------------------------
(* The steps the actions are built from *)

(* createBatch splits the queue into the batch it appends and the rest.     *)
LEMMA TakeBatchDelivers ==
    ASSUME TypeInv, InOrder, NEW q \in Seq(Records), Len(q) <= MaxQueue,
           NEW b \in {0, Len(batches)}, NEW seq, b = 0 => seq = Len(batches) + 1,
           b # 0 \/ q # <<>>, TakeBatch(q, b, seq)
    PROVE  /\ inFlight' = Len(batches') /\ inFlight' # 0
           /\ IF b = 0 THEN Len(batches') = Len(batches) + 1 ELSE Len(batches') = Len(batches)
           /\ \A i \in 1..Len(batches) : batches'[i] = batches[i]
           /\ \A i \in 1..Len(batches') :
                batches'[i].sequence = i /\ Len(batches'[i].records) > 0
           /\ Pending' = RecordsOf(b) \cup ToSet(q)
  <1>0. /\ batches \in Seq(Batch) /\ Len(batches) \in Nat
        /\ \A i \in 1..Len(batches) :
             batches[i].sequence = i /\ Len(batches[i].records) > 0
    BY DEF TypeInv, TypeOK, MemType, InOrder
  <1>1. CASE b # 0
    <2>1. inFlight' = b /\ queue' = q /\ batches' = batches /\ b = Len(batches)
      BY <1>1 DEF TakeBatch
    <2> QED
      BY <1>0, <1>1, <2>1 DEF Pending, RecordsOf
  <1>2. CASE b = 0
    <2> DEFINE n == Least(BatchSize, Len(q))
               new == [sequence |-> seq, records |-> SubSeq(q, 1, n)]
    <2>1. n \in 0..Len(q) /\ n > 0
      <3>1. BatchSize \in Nat /\ Len(q) \in Nat /\ BatchSize > 0 /\ Len(q) > 0
        BY <1>2, BatchSizeAssumption
      <3> QED
        BY <3>1, LeastType
    <2>2. /\ batches' = Append(batches, new) /\ inFlight' = Len(batches) + 1
          /\ queue' = SubSeq(q, n + 1, Len(q))
      BY <1>2 DEF TakeBatch
    <2> HIDE DEF n
    <2>3. /\ SubSeq(q, 1, n) \in Seq(Records) /\ Len(SubSeq(q, 1, n)) = n
          /\ ToSet(q) = ToSet(SubSeq(q, 1, n)) \cup ToSet(SubSeq(q, n + 1, Len(q)))
      BY <2>1, SpliceType, SpliceElements
    <2>4. new.sequence = Len(batches) + 1 /\ Len(new.records) > 0
      BY <1>2, <2>1, <2>3
    <2>5. new.records = SubSeq(q, 1, n)
      OBVIOUS
    <2> HIDE DEF new
    <2>6. /\ Len(batches') = Len(batches) + 1 /\ batches'[Len(batches) + 1] = new
          /\ \A i \in 1..Len(batches) : batches'[i] = batches[i]
      BY <1>0, <2>2
    <2>7. \A i \in 1..Len(batches') :
            batches'[i].sequence = i /\ Len(batches'[i].records) > 0
      <3>1. \A i \in 1..Len(batches') : i \in 1..Len(batches) \/ i = Len(batches) + 1
        BY <1>0, <2>6
      <3> QED
        BY <1>0, <2>4, <2>6, <3>1
    <2>8. Pending' = ToSet(q)
      <3>1. inFlight' # 0 /\ batches'[inFlight'].records = SubSeq(q, 1, n)
        BY <1>0, <2>2, <2>5, <2>6
      <3>2. Pending' = ToSet(SubSeq(q, 1, n)) \cup ToSet(SubSeq(q, n + 1, Len(q)))
        BY <2>2, <3>1 DEF Pending, RecordsOf
      <3> QED
        BY <2>3, <3>2
    <2> QED
      BY <1>0, <1>2, <2>2, <2>6, <2>7, <2>8 DEF RecordsOf
  <1> QED
    BY <1>1, <1>2

(* One turn of the drain loop keeps what it was given, the batch b and the   *)
(* queue q, in memory, and is done only when that is nothing.               *)
LEMMA DrainStepDelivers ==
    ASSUME TypeInv, InOrder, NEW q \in Seq(Records), Len(q) <= MaxQueue,
           NEW b \in {0, Len(batches)}, NEW seq, b = 0 => seq = Len(batches) + 1,
           DrainStep(q, b, seq)
    PROVE  /\ inFlight' \in {0, Len(batches')}
           /\ \A i \in 1..Len(batches') :
                batches'[i].sequence = i /\ Len(batches'[i].records) > 0
           /\ (IF inFlight' = 0 THEN Len(batches') + 1 ELSE Len(batches'))
                = (IF b = 0 THEN Len(batches) + 1 ELSE Len(batches))
           /\ \A i \in 1..Len(batches) : batches'[i] = batches[i]
           /\ \A i \in 1..Len(batches') :
                i # inFlight' => i \in 1..Len(batches) /\ i # b
           /\ Pending' = RecordsOf(b) \cup ToSet(q)
           /\ drainPc' \in {"done", "send", "ticket"}
           /\ drainPc' = "done" => Pending' = {}
           /\ drainPc' # "done" => drainBatch' = inFlight'
  <1>0. /\ batches \in Seq(Batch) /\ Len(batches) \in Nat
        /\ \A i \in 1..Len(batches) :
             batches[i].sequence = i /\ Len(batches[i].records) > 0
    BY DEF TypeInv, TypeOK, MemType, InOrder
  <1>1. CASE /\ b = 0 /\ q = <<>> /\ drainPc' = "done"
             /\ inFlight' = 0 /\ queue' = q /\ UNCHANGED batches
    <2>1. ToSet(q) = {} /\ ToSet(queue') = {}
      BY <1>1 DEF ToSet
    <2> QED
      BY <1>0, <1>1, <2>1 DEF Pending, RecordsOf
  <1>2. CASE /\ (b # 0 \/ q # <<>>) /\ TakeBatch(q, b, seq)
             /\ drainBatch' = inFlight'
             /\ drainPc' = IF IsOpen THEN "send" ELSE "ticket"
    BY <1>0, <1>2, TakeBatchDelivers
  <1> QED
    BY <1>1, <1>2 DEF DrainStep

-----------------------------------------------------------------------------
(* The steps of the transport *)

USE DEF memVars, countVars, lifeVars, drainVars, connVars, exitVars, netVars,
        histVars

(* A step that leaves memory alone keeps the invariant unless it brings an   *)
(* acknowledgement, a batch or the end of the drain.                        *)
LEMMA QuietStep ==
    ASSUME TypeInv, DeliveryInv,
           UNCHANGED <<queue, inFlight, batches, nextSequence, issued, dropped>>,
           committed \subseteq committed', promised' \subseteq promised,
           Busy(drainPc') => Busy(drainPc) /\ drainBatch' = drainBatch,
           drainPc' = "commit" => drainPc = "commit" /\ drainAck' = drainAck,
           drainPc' = "done" => drainPc = "done",
           toClient' \subseteq toClient,
           \A p \in Exits : exitPc'[p] \notin {"persist", "commit"}
    PROVE  DeliveryInv'
  <1>1. InOrder'
    BY DEF DeliveryInv, InOrder
  <1>2. \A b : RecordsOf(b)' = RecordsOf(b)
    BY DEF RecordsOf
  <1>3. Pending' = Pending
    BY DEF Pending, RecordsOf
  <1>4. Released'
    BY <1>2 DEF DeliveryInv, Released
  <1>5. DrainHolds'
    BY DEF DeliveryInv, DrainHolds
  <1>6. \A b, counts : Accounts(b, counts)' = Accounts(b, counts)
    BY DEF Accounts
  <1>7. AcksAreTrue'
    <2>1. \A m \in toClient' :
            Accounts(m.batch, m.counts)' => RecordsOf(m.batch)' \subseteq committed'
      BY <1>2, <1>6 DEF DeliveryInv, AcksAreTrue
    <2>2. ASSUME drainPc' = "commit", Accounts(drainBatch, drainAck)'
          PROVE  RecordsOf(drainBatch)' \subseteq committed'
      <3>1. drainBatch' = drainBatch /\ drainAck' = drainAck /\ drainPc = "commit"
        BY <2>2 DEF Busy
      <3> QED
        BY <2>2, <3>1 DEF DeliveryInv, AcksAreTrue, Accounts, RecordsOf
    <2>3. \A m \in toClient' :
            Accounts(m.batch, m.counts)' = Accounts(m.batch, m.counts)
      BY <1>6
    <2> QED
      BY <2>1, <2>2 DEF AcksAreTrue
  <1>8. Accounted'
    BY <1>3 DEF DeliveryInv, Accounted
  <1> QED
    BY <1>1, <1>4, <1>5, <1>7, <1>8 DEF DeliveryInv

(* A turn of the drain loop over the batch b and the queue q keeps the       *)
(* invariant when what leaves memory is in the database or dropped.         *)
LEMMA DrainTurn ==
    ASSUME TypeInv, DeliveryInv,
           NEW q \in Seq(Records), Len(q) <= MaxQueue,
           NEW b \in {0, inFlight}, NEW seq, b = 0 => seq = Len(batches) + 1,
           DrainStep(q, b, seq),
           b = inFlight \/ RecordsOf(inFlight) \subseteq committed,
           nextSequence' = IF b = 0 THEN Len(batches) + 1 ELSE Len(batches),
           UNCHANGED <<committed, toClient>>, dropped \subseteq dropped',
           issued' \cup promised' \subseteq
              RecordsOf(b) \cup ToSet(q) \cup committed \cup dropped',
           \A p \in Exits : exitPc'[p] \notin {"persist", "commit"}
    PROVE  DeliveryInv'
  <1>0. b \in {0, Len(batches)} /\ InOrder
    BY DEF DeliveryInv, InOrder
  <1>1. /\ inFlight' \in {0, Len(batches')}
        /\ \A i \in 1..Len(batches') :
             batches'[i].sequence = i /\ Len(batches'[i].records) > 0
        /\ (IF inFlight' = 0 THEN Len(batches') + 1 ELSE Len(batches'))
             = (IF b = 0 THEN Len(batches) + 1 ELSE Len(batches))
        /\ \A i \in 1..Len(batches) : batches'[i] = batches[i]
        /\ \A i \in 1..Len(batches') : i # inFlight' => i \in 1..Len(batches) /\ i # b
        /\ Pending' = RecordsOf(b) \cup ToSet(q)
        /\ drainPc' \in {"done", "send", "ticket"}
        /\ drainPc' = "done" => Pending' = {}
        /\ drainPc' # "done" => drainBatch' = inFlight'
    BY <1>0, DrainStepDelivers
  <1>2. InOrder'
    BY <1>1 DEF InOrder
  <1>3. ASSUME NEW i \in 1..Len(batches')
        PROVE  i # inFlight' => RecordsOf(i)' \subseteq committed'
    <2>1. CASE i # inFlight'
      <3>1. i \in 1..Len(batches) /\ i # b /\ RecordsOf(i)' = RecordsOf(i)
        BY <1>1, <2>1 DEF RecordsOf
      <3>2. RecordsOf(i) \subseteq committed
        BY <3>1 DEF DeliveryInv, Released
      <3> QED
        BY <3>1, <3>2
    <2> QED
      BY <2>1
  <1>4. Released'
    BY <1>3 DEF Released, RecordsOf
  <1>5. AcksAreTrue'
    <2>1. ASSUME NEW m \in toClient'
          PROVE  Accounts(m.batch, m.counts)' => RecordsOf(m.batch)' \subseteq committed'
      <3>1. m \in toClient /\ m.batch \in 1..Len(batches)
        BY DEF TypeInv, TypeOK, NetType
      <3>2. batches'[m.batch] = batches[m.batch]
        BY <1>1, <3>1
      <3> QED
        BY <3>1, <3>2 DEF DeliveryInv, AcksAreTrue, Accounts, RecordsOf
    <2> QED
      BY <1>1, <2>1 DEF AcksAreTrue, Accounts, RecordsOf
  <1>6. DrainHolds'
    BY <1>1 DEF DrainHolds, Busy
  <1>7. Accounted'
    BY <1>1 DEF Accounted
  <1> QED
    BY <1>2, <1>4, <1>5, <1>6, <1>7 DEF DeliveryInv

(* write(), flush(), flushOnExit() and close() with the queue q they reach:  *)
(* either they leave the drain alone or its first turn is taken.            *)
LEMMA CallStep ==
    ASSUME TypeInv, DeliveryInv,
           NEW q \in Seq(Records), Len(q) <= MaxQueue,
           \/ /\ drainPc # "idle" /\ queue' = q
              /\ UNCHANGED <<inFlight, batches, drainPc, drainBatch, attempts>>
           \/ drainPc = "idle" /\ DrainStep(q, inFlight, nextSequence),
           UNCHANGED <<committed, toClient, drainAck, nextSequence>>,
           dropped \subseteq dropped',
           issued' \cup promised' \subseteq
              RecordsOf(inFlight) \cup ToSet(q) \cup committed \cup dropped',
           Settled => promised' = promised,
           \A p \in Exits : exitPc'[p] \notin {"persist", "commit"}
    PROVE  DeliveryInv'
  <1>1. CASE /\ drainPc # "idle" /\ queue' = q
             /\ UNCHANGED <<inFlight, batches, drainPc, drainBatch, attempts>>
    <2>1. InOrder'
      BY <1>1 DEF DeliveryInv, InOrder
    <2>2. Released'
      BY <1>1 DEF DeliveryInv, Released, RecordsOf
    <2>3. AcksAreTrue'
      BY <1>1 DEF DeliveryInv, AcksAreTrue, Accounts, RecordsOf
    <2>4. DrainHolds'
      BY <1>1 DEF DeliveryInv, DrainHolds
    <2>5. Accounted'
      BY <1>1 DEF DeliveryInv, Accounted, Pending, RecordsOf, Settled
    <2> QED
      BY <2>1, <2>2, <2>3, <2>4, <2>5 DEF DeliveryInv
  <1>2. CASE drainPc = "idle" /\ DrainStep(q, inFlight, nextSequence)
    <2>1. /\ inFlight = 0 => nextSequence = Len(batches) + 1
          /\ nextSequence' = IF inFlight = 0 THEN Len(batches) + 1 ELSE Len(batches)
      BY DEF DeliveryInv, InOrder
    <2> QED
      BY <1>2, <2>1, DrainTurn
  <1> QED
    BY <1>1, <1>2

LEMMA DeliveryInit == ASSUME Init PROVE DeliveryInv
  <1>1. InOrder
    BY DEF Init, InOrder
  <1>2. Released /\ AcksAreTrue
    BY DEF Init, Released, AcksAreTrue
  <1>3. DrainHolds
    BY DEF Init, DrainHolds, Busy
  <1>4. Accounted
    BY DEF Init, Accounted
  <1> QED
    BY <1>1, <1>2, <1>3, <1>4 DEF DeliveryInv

LEMMA WriteDelivers ==
    ASSUME TypeInv, DeliveryInv, NEW r \in Records,
           WriteDropped(r) \/ WriteBuffered(r) \/ WriteFlushes(r)
    PROVE  DeliveryInv'
  <1>0. /\ QueueWith(r) \in Seq(Records) /\ Len(QueueWith(r)) <= MaxQueue
        /\ ToSet(QueueWith(r)) \cup Displaced = ToSet(queue) \cup {r}
    BY EnqueueType, EnqueueElements DEF TypeInv, TypeOK
  <1>1. CASE WriteDropped(r)
    <2>1. InOrder'
      BY <1>1 DEF WriteDropped, DeliveryInv, InOrder
    <2>2. Released'
      BY <1>1 DEF WriteDropped, DeliveryInv, Released, RecordsOf
    <2>3. AcksAreTrue'
      BY <1>1 DEF WriteDropped, DeliveryInv, AcksAreTrue, Accounts, RecordsOf
    <2>4. DrainHolds'
      BY <1>1 DEF WriteDropped, DeliveryInv, DrainHolds
    <2>5. Accounted'
      BY <1>1 DEF WriteDropped, DeliveryInv, Accounted, Pending, RecordsOf
    <2> QED
      BY <2>1, <2>2, <2>3, <2>4, <2>5 DEF DeliveryInv
  <1>2. CASE WriteBuffered(r)
    <2>1. InOrder'
      BY <1>2 DEF WriteBuffered, DeliveryInv, InOrder
    <2>2. Released'
      BY <1>2 DEF WriteBuffered, DeliveryInv, Released, RecordsOf
    <2>3. AcksAreTrue'
      BY <1>2 DEF WriteBuffered, DeliveryInv, AcksAreTrue, Accounts, RecordsOf
    <2>4. DrainHolds'
      BY <1>2 DEF WriteBuffered, DeliveryInv, DrainHolds
    <2>5. Pending' = RecordsOf(inFlight) \cup ToSet(QueueWith(r))
      BY <1>2 DEF WriteBuffered, Pending, RecordsOf
    <2>6. Accounted'
      BY <1>0, <1>2, <2>5 DEF WriteBuffered, DeliveryInv, Accounted, Pending
    <2> QED
      BY <2>1, <2>2, <2>3, <2>4, <2>6 DEF DeliveryInv
  <1>3. CASE WriteFlushes(r)
    <2>1. \/ /\ drainPc # "idle" /\ queue' = QueueWith(r)
             /\ UNCHANGED <<inFlight, batches, drainPc, drainBatch, attempts>>
          \/ drainPc = "idle" /\ DrainStep(QueueWith(r), inFlight, nextSequence)
      BY <1>3 DEF WriteFlushes, FlushCall
    <2>2. /\ issued' = issued \cup {r} /\ dropped' = dropped \cup Displaced
          /\ promised' \subseteq promised \cup Pending \cup {r}
          /\ Settled => promised' = promised
          /\ UNCHANGED <<committed, toClient, drainAck, nextSequence, exitPc>>
      BY <1>3 DEF WriteFlushes, Promise
    <2>3. issued' \cup promised' \subseteq
             RecordsOf(inFlight) \cup ToSet(QueueWith(r)) \cup committed \cup dropped'
      BY <1>0, <2>2 DEF DeliveryInv, Accounted, Pending
    <2>4. \A p \in Exits : exitPc'[p] \notin {"persist", "commit"}
      BY <2>2 DEF DeliveryInv, DrainHolds
    <2> QED
      BY <1>0, <2>1, <2>2, <2>3, <2>4, CallStep
  <1> QED
    BY <1>1, <1>2, <1>3

LEMMA FlushDelivers ==
    ASSUME TypeInv, DeliveryInv, Flush \/ FlushTimerFires \/ DelayElapses
    PROVE  DeliveryInv'
  <1>0. queue \in Seq(Records) /\ Len(queue) <= MaxQueue
    BY DEF TypeInv, TypeOK, MemType
  <1>1. ASSUME Flush \/ FlushTimerFires PROVE DeliveryInv'
    <2>1. \/ /\ drainPc # "idle" /\ queue' = queue
             /\ UNCHANGED <<inFlight, batches, drainPc, drainBatch, attempts>>
          \/ drainPc = "idle" /\ DrainStep(queue, inFlight, nextSequence)
      BY <1>1 DEF Flush, FlushTimerFires, FlushCall
    <2>2. /\ promised' \subseteq promised \cup Pending
          /\ Settled => promised' = promised
          /\ UNCHANGED <<issued, dropped, committed, toClient, drainAck,
                         nextSequence, exitPc>>
      BY <1>1 DEF Flush, FlushTimerFires, Promise
    <2>3. issued' \cup promised' \subseteq
             RecordsOf(inFlight) \cup ToSet(queue) \cup committed \cup dropped'
      BY <2>2 DEF DeliveryInv, Accounted, Pending
    <2>4. \A p \in Exits : exitPc'[p] \notin {"persist", "commit"}
      BY <2>2 DEF DeliveryInv, DrainHolds
    <2> QED
      BY <1>0, <2>1, <2>2, <2>3, <2>4, CallStep
  <1>2. ASSUME DelayElapses PROVE DeliveryInv'
    <2>1. /\ DrainStep(queue, inFlight, nextSequence)
          /\ UNCHANGED <<issued, promised, dropped, committed, toClient,
                         nextSequence, exitPc>>
      BY <1>2 DEF DelayElapses
    <2>2. /\ inFlight = 0 => nextSequence = Len(batches) + 1
          /\ nextSequence' = IF inFlight = 0 THEN Len(batches) + 1 ELSE Len(batches)
      BY <2>1 DEF DeliveryInv, InOrder
    <2>3. issued' \cup promised' \subseteq
             RecordsOf(inFlight) \cup ToSet(queue) \cup committed \cup dropped'
      BY <2>1 DEF DeliveryInv, Accounted, Pending
    <2>4. \A p \in Exits : exitPc'[p] \notin {"persist", "commit"}
      BY <2>1 DEF DeliveryInv, DrainHolds
    <2> QED
      BY <1>0, <2>1, <2>2, <2>3, <2>4, DrainTurn
  <1> QED
    BY <1>1, <1>2

(* commit(): an acknowledgement that accounts for the batch in flight is     *)
(* what lets it leave memory.                                               *)
LEMMA CommitDelivers ==
    ASSUME TypeInv, DeliveryInv, DrainCommits
    PROVE  DeliveryInv' /\ RecordsOf(inFlight) \subseteq committed
  <1>1. /\ drainBatch = inFlight /\ inFlight = Len(batches) /\ inFlight # 0
        /\ batches[drainBatch].sequence = Len(batches)
    BY DEF DrainCommits, TypeInv, TypeOK, HasBatch, DrainType, DeliveryInv,
       DrainHolds,
       InOrder, Busy
  <1>2. RecordsOf(inFlight) \subseteq committed
    BY <1>1 DEF DrainCommits, DeliveryInv, AcksAreTrue
  <1>3. /\ queue \in Seq(Records) /\ Len(queue) <= MaxQueue
        /\ DrainStep(queue, 0, batches[drainBatch].sequence + 1)
        /\ UNCHANGED <<issued, promised, dropped, committed, toClient, exitPc>>
        /\ nextSequence' = Len(batches) + 1
    BY <1>1 DEF DrainCommits, CommitCounts, TypeInv, TypeOK, MemType
  <1>4. issued' \cup promised' \subseteq
           RecordsOf(0) \cup ToSet(queue) \cup committed \cup dropped'
    BY <1>2, <1>3 DEF DeliveryInv, Accounted, Pending
  <1>5. \A p \in Exits : exitPc'[p] \notin {"persist", "commit"}
    BY <1>3 DEF DeliveryInv, DrainHolds
  <1> QED
    BY <1>1, <1>2, <1>3, <1>4, <1>5, DrainTurn

(* flushOnExit() and close() without a fallback are a flush().              *)
LEMMA ExitCallDelivers ==
    ASSUME TypeInv, DeliveryInv, ~Fallback, NEW p \in Exits,
           FlushOnExit(p) \/ Close(p) \/ \E r \in Records : FlushOnExitWith(p, r)
    PROVE  DeliveryInv'
  <1>0. /\ queue \in Seq(Records) /\ Len(queue) <= MaxQueue
        /\ exitPc \in [Exits -> ExitPcs]
    BY DEF TypeInv, TypeOK, MemType, ExitType
  <1>1. ASSUME exitPc' = [exitPc EXCEPT ![p] = "joined"]
        PROVE  \A o \in Exits : exitPc'[o] \notin {"persist", "commit"}
    BY <1>0, <1>1 DEF DeliveryInv, DrainHolds
  <1>2. ASSUME FlushOnExit(p) \/ Close(p) PROVE DeliveryInv'
    <2>1. \/ /\ drainPc # "idle" /\ queue' = queue
             /\ UNCHANGED <<inFlight, batches, drainPc, drainBatch, attempts>>
          \/ drainPc = "idle" /\ DrainStep(queue, inFlight, nextSequence)
      BY <1>2 DEF FlushOnExit, ExitBegins, Close, FlushCall
    <2>2. /\ promised' \subseteq promised \cup Pending
          /\ Settled => promised' = promised
          /\ exitPc' = [exitPc EXCEPT ![p] = "joined"]
          /\ UNCHANGED <<issued, dropped, committed, toClient, drainAck, nextSequence>>
      BY <1>2 DEF FlushOnExit, ExitBegins, Close, Promise
    <2>3. issued' \cup promised' \subseteq
             RecordsOf(inFlight) \cup ToSet(queue) \cup committed \cup dropped'
      BY <2>2 DEF DeliveryInv, Accounted, Pending
    <2> QED
      BY <1>0, <1>1, <2>1, <2>2, <2>3, CallStep
  <1>3. ASSUME NEW r \in Records, FlushOnExitWith(p, r) PROVE DeliveryInv'
    <2>0. /\ issued' = issued \cup {r}
          /\ exitPc' = [exitPc EXCEPT ![p] = "joined"]
          /\ UNCHANGED <<committed, toClient, drainAck, nextSequence>>
      BY <1>3 DEF FlushOnExitWith, ExitBegins
    <2>1. CASE /\ dropped' = dropped \cup Displaced
               /\ ExitBegins(p, QueueWith(r), Pending \cup {r})
      <3>0. /\ QueueWith(r) \in Seq(Records) /\ Len(QueueWith(r)) <= MaxQueue
            /\ ToSet(QueueWith(r)) \cup Displaced = ToSet(queue) \cup {r}
        BY EnqueueType, EnqueueElements DEF TypeInv, TypeOK
      <3>1. \/ /\ drainPc # "idle" /\ queue' = QueueWith(r)
               /\ UNCHANGED <<inFlight, batches, drainPc, drainBatch, attempts>>
            \/ drainPc = "idle" /\ DrainStep(QueueWith(r), inFlight, nextSequence)
        BY <2>1 DEF ExitBegins, FlushCall
      <3>2. /\ promised' \subseteq promised \cup Pending \cup {r}
            /\ Settled => promised' = promised
        BY <2>1 DEF ExitBegins, Promise
      <3>3. issued' \cup promised' \subseteq
               RecordsOf(inFlight) \cup ToSet(QueueWith(r)) \cup committed \cup dropped'
        BY <2>0, <2>1, <3>0, <3>2 DEF DeliveryInv, Accounted, Pending
      <3> QED
        BY <1>1, <2>0, <2>1, <3>0, <3>1, <3>2, <3>3, CallStep
    <2>2. CASE dropped' = dropped \cup {r} /\ ExitBegins(p, queue, Pending)
      <3>1. \/ /\ drainPc # "idle" /\ queue' = queue
               /\ UNCHANGED <<inFlight, batches, drainPc, drainBatch, attempts>>
            \/ drainPc = "idle" /\ DrainStep(queue, inFlight, nextSequence)
        BY <2>2 DEF ExitBegins, FlushCall
      <3>2. /\ promised' \subseteq promised \cup Pending
            /\ Settled => promised' = promised
        BY <2>2 DEF ExitBegins, Promise
      <3>3. issued' \cup promised' \subseteq
               RecordsOf(inFlight) \cup ToSet(queue) \cup committed \cup dropped'
        BY <2>0, <2>2, <3>2 DEF DeliveryInv, Accounted, Pending
      <3> QED
        BY <1>0, <1>1, <2>0, <2>2, <3>1, <3>2, <3>3, CallStep
    <2> QED
      BY <1>3, <2>1, <2>2 DEF FlushOnExitWith
  <1> QED
    BY <1>2, <1>3

(* Socket events, timers and failures: none of them touches memory.         *)
LEMMA ConnectionDelivers ==
    ASSUME TypeInv, NoLostWakeup, DeliveryInv,
           \/ TicketFails \/ TicketArrives \/ SocketOpens \/ OpenFails
           \/ PeerCloses \/ ConnectionFails \/ SendBatch \/ SendRefused
           \/ SendThrows \/ AckTimeout \/ DrainRefusesAck \/ DrainFails
           \/ DrainFinally
           \/ \E g \in 1..Len(sockets) : SocketClosed(g)
           \/ \E p \in Exits : CloseFinishes(p)
    PROVE  DeliveryInv'
  <1>0. /\ \A p \in Exits : exitPc[p] \notin {"persist", "commit"}
        /\ exitPc \in [Exits -> ExitPcs]
    BY DEF DeliveryInv, DrainHolds, TypeInv, TypeOK, ExitType
  <1>1. CASE TicketFails \/ TicketArrives \/ SocketOpens \/ OpenFails
    BY <1>0, <1>1, QuietStep
       DEF TicketFails, TicketArrives, SocketOpens, OpenFails, Hangup, Busy
  <1>2. CASE PeerCloses \/ SendBatch \/ SendRefused \/ SendThrows \/ DrainRefusesAck
    BY <1>0, <1>2, QuietStep
       DEF PeerCloses, SendBatch, SendRefused, SendThrows, DrainRefusesAck, Busy
  <1>3. CASE ConnectionFails \/ AckTimeout
    BY <1>0, <1>3, QuietStep
       DEF ConnectionFails, AckTimeout, RejectAck, Hangup, NoLostWakeup, Busy
  <1>4. CASE DrainFails
    BY <1>0, <1>4, QuietStep DEF DrainFails, Hangup, Busy
  <1>5. CASE DrainFinally
    <2>1. \A p \in Exits : exitPc'[p] \notin {"persist", "commit"}
      BY <1>0, <1>5 DEF DrainFinally
    <2> QED
      BY <1>5, <2>1, QuietStep DEF DrainFinally, Busy
  <1>6. ASSUME NEW g \in 1..Len(sockets), SocketClosed(g) PROVE DeliveryInv'
    BY <1>0, <1>6, QuietStep DEF SocketClosed, RejectAck, NoLostWakeup, Busy
  <1>7. ASSUME NEW p \in Exits, CloseFinishes(p) PROVE DeliveryInv'
    <2>1. \A o \in Exits : exitPc'[o] \notin {"persist", "commit"}
      BY <1>0, <1>7 DEF CloseFinishes
    <2> QED
      BY <1>7, <2>1, QuietStep DEF CloseFinishes, RejectAck, Hangup,
         NoLostWakeup, Busy
  <1> QED
    BY <1>1, <1>2, <1>3, <1>4, <1>5, <1>6, <1>7

(* An acknowledgement read is one that was on its way.                      *)
LEMMA AckDelivers ==
    ASSUME TypeInv, NoLostWakeup, DeliveryInv, NEW m \in toClient, OnAck(m)
    PROVE  DeliveryInv'
  <1>1. CASE ackWaiter = socket /\ m.batch = drainBatch
    <2>0. /\ drainAck' = m.counts /\ drainPc' = "commit" /\ toClient' \subseteq toClient
          /\ UNCHANGED <<memVars, countVars, drainBatch, exitVars, committed, histVars>>
          /\ Busy(drainPc)
      BY <1>1 DEF OnAck, IsOpen, NoLostWakeup, Busy
    <2>1. InOrder'
      BY <2>0 DEF DeliveryInv, InOrder
    <2>2. Released'
      BY <2>0 DEF DeliveryInv, Released, RecordsOf
    <2>3. AcksAreTrue'
      BY <1>1, <2>0 DEF DeliveryInv, AcksAreTrue, Accounts, RecordsOf
    <2>4. DrainHolds'
      BY <2>0 DEF DeliveryInv, DrainHolds
    <2>5. Accounted'
      BY <2>0 DEF DeliveryInv, Accounted, Pending, RecordsOf
    <2> QED
      BY <2>1, <2>2, <2>3, <2>4, <2>5 DEF DeliveryInv
  <1>2. CASE ~(ackWaiter = socket /\ m.batch = drainBatch)
    <2>1. \A p \in Exits : exitPc[p] \notin {"persist", "commit"}
      BY DEF DeliveryInv, DrainHolds
    <2> QED
      BY <1>2, <2>1, QuietStep DEF OnAck, RejectAck, Hangup, NoLostWakeup, Busy
  <1> QED
    BY <1>1, <1>2

(* The collector answers after the commit, or with counts that cannot        *)
(* account for a batch, no batch being empty.                               *)
LEMMA CollectorDelivers ==
    ASSUME TypeInv, DeliveryInv, NEW m \in toServer,
           ServerCommits(m) \/ ServerMiscounts(m)
    PROVE  DeliveryInv'
  <1>0. /\ UNCHANGED <<memVars, countVars, drainVars, exitVars, histVars>>
        /\ committed \subseteq committed'
        /\ m.batch \in 1..Len(batches)
    BY DEF ServerCommits, ServerMiscounts, TypeInv, TypeOK, NetType
  <1>1. InOrder'
    BY <1>0 DEF DeliveryInv, InOrder
  <1>2. Released'
    BY <1>0 DEF DeliveryInv, Released, RecordsOf
  <1>3. ASSUME NEW n \in toClient', n \notin toClient
        PROVE  Accounts(n.batch, n.counts) => RecordsOf(n.batch) \subseteq committed'
    <2>1. CASE ServerCommits(m)
      <3>1. n.batch = m.batch /\ committed' = committed \cup RecordsOf(m.batch)
        BY <1>3, <2>1 DEF ServerCommits, Answer
      <3> QED
        BY <3>1
    <2>2. CASE ServerMiscounts(m)
      <3>1. n.batch = m.batch /\ n.counts = NoCounts
        BY <1>3, <2>2 DEF ServerMiscounts, Answer
      <3>2. Len(batches[m.batch].records) > 0
        BY <1>0 DEF DeliveryInv, InOrder
      <3>3. ~Accounts(n.batch, n.counts)
        BY <3>1, <3>2 DEF Accounts, NoCounts
      <3> QED
        BY <3>3
    <2> QED
      BY <2>1, <2>2
  <1>4. AcksAreTrue'
    <2>1. \A n \in toClient' :
            Accounts(n.batch, n.counts) => RecordsOf(n.batch) \subseteq committed'
      BY <1>0, <1>3 DEF DeliveryInv, AcksAreTrue
    <2> QED
      BY <1>0, <2>1 DEF DeliveryInv, AcksAreTrue, Accounts, RecordsOf
  <1>5. DrainHolds'
    BY <1>0 DEF DeliveryInv, DrainHolds
  <1>6. Accounted'
    BY <1>0 DEF DeliveryInv, Accounted, Pending, RecordsOf
  <1> QED
    BY <1>1, <1>2, <1>4, <1>5, <1>6 DEF DeliveryInv

(* Every step keeps the invariant, and lets the batch in flight go only      *)
(* when it is committed.                                                    *)
LEMMA DeliveryStep ==
    ASSUME TypeInv, NoLostWakeup, DeliveryInv, ~Fallback, [Next]_vars
    PROVE  DeliveryInv'
  <1>1. CASE UNCHANGED vars
    BY <1>1, QuietStep DEF vars, DeliveryInv, DrainHolds
  <1>2. ASSUME NEW r \in Records, WriteDropped(r) \/ WriteBuffered(r) \/ WriteFlushes(r)
        PROVE  DeliveryInv'
    BY <1>2, WriteDelivers
  <1>3. CASE Flush \/ FlushTimerFires \/ DelayElapses
    BY <1>3, FlushDelivers
  <1>4. CASE DrainCommits
    BY <1>4, CommitDelivers
  <1>5. CASE TicketFails \/ TicketArrives \/ SocketOpens \/ OpenFails \/ PeerCloses
             \/ ConnectionFails \/ SendBatch \/ SendRefused \/ SendThrows
             \/ AckTimeout \/ DrainRefusesAck \/ DrainFails \/ DrainFinally
    BY <1>5, ConnectionDelivers
  <1>6. ASSUME NEW g \in 1..Len(sockets), SocketClosed(g) PROVE DeliveryInv'
    BY <1>6, ConnectionDelivers
  <1>7. ASSUME NEW m \in toClient, OnAck(m) PROVE DeliveryInv'
    BY <1>7, AckDelivers
  <1>8. ASSUME NEW m \in toServer, ServerCommits(m) \/ ServerMiscounts(m)
        PROVE  DeliveryInv'
    BY <1>8, CollectorDelivers
  <1>9. ASSUME NEW p \in Exits, FlushOnExit(p) \/ Close(p) PROVE DeliveryInv'
    BY <1>9, ExitCallDelivers
  <1>10. ASSUME NEW p \in Exits, NEW r \in Records, FlushOnExitWith(p, r)
         PROVE  DeliveryInv'
    BY <1>10, ExitCallDelivers
  <1>11. ASSUME NEW p \in Exits, CloseFinishes(p) PROVE DeliveryInv'
    BY <1>11, ConnectionDelivers
  <1>12. ASSUME NEW p \in Exits,
                FallbackCommits(p) \/ FallbackFails(p) \/ ExitCommits(p)
         PROVE  DeliveryInv'
    BY <1>12 DEF FallbackCommits, FallbackFails, ExitCommits, DeliveryInv,
       DrainHolds
  <1> QED
    BY <1>1, <1>2, <1>3, <1>4, <1>5, <1>6, <1>7, <1>8, <1>9, <1>10, <1>11, <1>12
       DEF Next, Calls, Progress, Faults

LEMMA DeliveryInvariant == ASSUME ~Fallback PROVE Spec => [](TypeInv /\ NoLostWakeup /\ DeliveryInv)
  <1>1. Init => TypeInv /\ NoLostWakeup /\ DeliveryInv
    BY TypeInit, DeliveryInit DEF Init, NoLostWakeup
  <1>2. TypeInv /\ NoLostWakeup /\ DeliveryInv /\ [Next]_vars
          => TypeInv' /\ NoLostWakeup' /\ DeliveryInv'
    BY TypeStep, WakeupStep, DeliveryStep
  <1> QED
    BY <1>1, <1>2, PTL DEF Spec

-----------------------------------------------------------------------------
(* What the transport promises *)

(* A record handed to the transport is never lost: whatever the order of     *)
(* writes, flushes, closes, failures, retries and late callbacks, it is in    *)
(* memory, in the database or reported dropped.                             *)
THEOREM NothingLostWithoutFallback == ASSUME ~Fallback PROVE Spec => []NothingLost
  <1>1. DeliveryInv => NothingLost
    BY DEF DeliveryInv, Accounted, NothingLost
  <1> QED
    BY <1>1, DeliveryInvariant, PTL

(* At most one batch is not yet in the database, and the collector sees      *)
(* consecutive sequence numbers, one per batch.                             *)
THEOREM OneBatchWithoutFallback == ASSUME ~Fallback PROVE Spec => []OneBatchInFlight
  <1>1. TypeInv /\ DeliveryInv => OneBatchInFlight
    <2> SUFFICES ASSUME TypeInv, DeliveryInv, NEW i \in 1..Len(batches)
                 PROVE  /\ batches[i].sequence = i
                        /\ i < Len(batches) => ToSet(batches[i].records) \subseteq committed
      BY DEF OneBatchInFlight
    <2>1. /\ batches[i].sequence = i /\ inFlight \in {0, Len(batches)}
          /\ Len(batches) \in Nat /\ i # 0
      BY DEF TypeInv, TypeOK, MemType, DeliveryInv, InOrder
    <2>2. i < Len(batches) => i # inFlight
      BY <2>1
    <2>3. i # inFlight => RecordsOf(i) \subseteq committed
      BY DEF DeliveryInv, Released
    <2> QED
      BY <2>1, <2>2, <2>3 DEF RecordsOf
  <1> QED
    BY <1>1, DeliveryInvariant, PTL

(* A caller that joins a running drain is told it is done only when every    *)
(* record pending at its call is in the database or was reported dropped.    *)
THEOREM FlushWithoutFallback == ASSUME ~Fallback PROVE Spec => []FlushKeepsPromise
  <1>1. DeliveryInv => FlushKeepsPromise
    BY DEF DeliveryInv, Accounted, FlushKeepsPromise
  <1> QED
    BY <1>1, DeliveryInvariant, PTL

(* A turn of the drain loop that starts from the batch in flight keeps it.   *)
LEMMA DrainStepHolds ==
    ASSUME NEW q, NEW seq, inFlight # 0,
           DrainStep(q, inFlight, seq) \/ FlushCall(q)
    PROVE  inFlight' = inFlight
  BY DEF DrainStep, FlushCall, TakeBatch

LEMMA InFlightStep ==
    ASSUME TypeInv, NoLostWakeup, DeliveryInv, ~Fallback, [Next]_vars
    PROVE  \/ inFlight = 0 \/ inFlight' = inFlight
           \/ RecordsOf(inFlight) \subseteq committed
  <1> SUFFICES ASSUME inFlight # 0, inFlight' # inFlight
               PROVE  RecordsOf(inFlight) \subseteq committed
    OBVIOUS
  <1>1. CASE UNCHANGED vars
    BY <1>1 DEF vars
  <1>2. ASSUME NEW r \in Records, WriteDropped(r) \/ WriteBuffered(r) \/ WriteFlushes(r)
        PROVE  FALSE
    BY <1>2, DrainStepHolds DEF WriteDropped, WriteBuffered, WriteFlushes
  <1>3. CASE Flush \/ FlushTimerFires \/ DelayElapses
    BY <1>3, DrainStepHolds DEF Flush, FlushTimerFires, DelayElapses
  <1>4. CASE DrainCommits
    BY <1>4, CommitDelivers
  <1>5. CASE TicketFails \/ TicketArrives \/ SocketOpens \/ OpenFails \/ PeerCloses
             \/ ConnectionFails \/ SendBatch \/ SendRefused \/ SendThrows
             \/ AckTimeout \/ DrainRefusesAck \/ DrainFails \/ DrainFinally
    BY <1>5 DEF TicketFails, TicketArrives, SocketOpens, OpenFails, PeerCloses,
       ConnectionFails, SendBatch, SendRefused, SendThrows, AckTimeout,
       DrainRefusesAck, DrainFails, DrainFinally
  <1>6. ASSUME NEW g \in 1..Len(sockets), SocketClosed(g) PROVE FALSE
    BY <1>6 DEF SocketClosed
  <1>7. ASSUME NEW m \in toClient, OnAck(m) PROVE FALSE
    BY <1>7 DEF OnAck
  <1>8. ASSUME NEW m \in toServer, ServerCommits(m) \/ ServerMiscounts(m)
        PROVE  FALSE
    BY <1>8 DEF ServerCommits, ServerMiscounts
  <1>9. ASSUME NEW p \in Exits, FlushOnExit(p) \/ Close(p) \/ CloseFinishes(p)
        PROVE  FALSE
    BY <1>9, DrainStepHolds DEF FlushOnExit, ExitBegins, Close, CloseFinishes
  <1>10. ASSUME NEW p \in Exits, NEW r \in Records, FlushOnExitWith(p, r)
         PROVE  FALSE
    BY <1>10, DrainStepHolds DEF FlushOnExitWith, ExitBegins
  <1>11. ASSUME NEW p \in Exits,
                FallbackCommits(p) \/ FallbackFails(p) \/ ExitCommits(p)
         PROVE  FALSE
    BY <1>11 DEF FallbackCommits, FallbackFails, ExitCommits, DeliveryInv,
       DrainHolds
  <1> QED
    BY <1>1, <1>2, <1>3, <1>4, <1>5, <1>6, <1>7, <1>8, <1>9, <1>10, <1>11
       DEF Next, Calls, Progress, Faults

(* No step, in particular no timeout, reconnect, close or late callback,      *)
(* discards the batch in flight before its records are in the database.      *)
THEOREM InFlightWithoutFallback == ASSUME ~Fallback PROVE Spec => InFlightIsKept
  <1>1. TypeInv /\ NoLostWakeup /\ DeliveryInv /\ [Next]_vars =>
          [inFlight # 0 /\ inFlight' # inFlight
             => RecordsOf(inFlight) \subseteq committed]_vars
    BY InFlightStep
  <1>2. Spec => [](TypeInv /\ NoLostWakeup /\ DeliveryInv) /\ [][Next]_vars
    BY DeliveryInvariant, PTL DEF Spec
  <1> QED
    BY <1>1, <1>2, PTL DEF InFlightIsKept

HIDE DEF memVars, countVars, lifeVars, drainVars, connVars, exitVars, netVars,
         histVars


(***************************************************************************)
(* Part 3: refinement and counters                                         *)
(***************************************************************************)
-----------------------------------------------------------------------------
(* Sequences *)

(* A batch goes to the front of what is left of the queue.                  *)
LEMMA SpliceConcat ==
    ASSUME NEW S, NEW q \in Seq(S), NEW n \in 0..Len(q)
    PROVE  SubSeq(q, 1, n) \o SubSeq(q, n + 1, Len(q)) = q
  <1>1. Len(q) \in Nat
    OBVIOUS
  <1>2. /\ 1 \in 1..(Len(q) + 1) /\ n \in (1 - 1)..Len(q) /\ Len(q) \in n..Len(q)
    BY <1>1
  <1>3. SubSeq(q, 1, n) \o SubSeq(q, n + 1, Len(q)) = SubSeq(q, 1, Len(q))
    BY <1>2, ConcatAdjacentSubSeq
  <1> QED
    BY <1>3, SubSeqFull

LEMMA ConcatAppend ==
    ASSUME NEW S, NEW f \in Seq(S), NEW q \in Seq(S), NEW r \in S
    PROVE  f \o Append(q, r) = Append(f \o q, r)
  <1>1. Append(q, r) = q \o <<r>> /\ <<r>> \in Seq(S) /\ f \o q \in Seq(S)
    BY AppendIsConcat, ConcatProperties
  <1>2. Append(f \o q, r) = (f \o q) \o <<r>>
    BY <1>1, AppendIsConcat
  <1> QED
    BY <1>1, <1>2, ConcatAssociative

(* The two parts of a concatenation.                                       *)
LEMMA ConcatParts ==
    ASSUME NEW S, NEW f \in Seq(S), NEW q \in Seq(S)
    PROVE  /\ SubSeq(f \o q, 1, Len(f)) = f
           /\ SubSeq(f \o q, Len(f) + 1, Len(f \o q)) = q
  <1>1. /\ f \o q \in Seq(S) /\ Len(f \o q) = Len(f) + Len(q)
        /\ Len(f) \in Nat /\ Len(q) \in Nat
        /\ \A i \in 1..(Len(f) + Len(q)) :
             (f \o q)[i] = IF i <= Len(f) THEN f[i] ELSE q[i - Len(f)]
    BY ConcatProperties
  <1>2. SubSeq(f \o q, 1, Len(f)) = f
    <2>1. \A i \in 1..Len(f) : (f \o q)[i] = f[i] /\ (f \o q)[i] \in S
      BY <1>1
    <2>2. /\ SubSeq(f \o q, 1, Len(f)) \in Seq(S)
          /\ Len(SubSeq(f \o q, 1, Len(f))) = Len(f)
          /\ \A i \in 1..Len(f) : SubSeq(f \o q, 1, Len(f))[i] = (f \o q)[i]
      BY <1>1
    <2> QED
      BY <2>1, <2>2, SeqEqual
  <1>3. SubSeq(f \o q, Len(f) + 1, Len(f \o q)) = q
    <2> DEFINE t == SubSeq(f \o q, Len(f) + 1, Len(f \o q))
    <2>1. /\ t \in Seq(S) /\ Len(t) = Len(q)
          /\ \A i \in 1..Len(q) : t[i] = (f \o q)[Len(f) + i]
      BY <1>1
    <2>2. ASSUME NEW i \in 1..Len(q) PROVE (f \o q)[Len(f) + i] = q[i]
      <3>1. Len(f) + i \in 1..(Len(f) + Len(q)) /\ ~(Len(f) + i <= Len(f))
            /\ (Len(f) + i) - Len(f) = i
        BY <1>1
      <3> QED
        BY <1>1, <3>1
    <2>3. \A i \in 1..Len(t) : t[i] = q[i]
      BY <2>1, <2>2
    <2> HIDE DEF t
    <2>4. t = q
      BY <2>1, <2>3, SeqEqual
    <2> QED
      BY <2>4 DEF t
  <1> QED
    BY <1>2, <1>3

(* The element a full queue gives up, as a place among those pending.       *)
LEMMA ConcatTail ==
    ASSUME NEW S, NEW f \in Seq(S), NEW q \in Seq(S), q # <<>>
    PROVE  /\ Len(f) + 1 \in 1..Len(f \o q)
           /\ (f \o q)[Len(f) + 1] = Head(q)
           /\ Delivery!Without(f \o q, Len(f) + 1) = f \o Tail(q)
  <1>1. /\ f \o q \in Seq(S) /\ Len(f \o q) = Len(f) + Len(q)
        /\ Len(f) \in Nat /\ Len(q) \in Nat \ {0}
        /\ \A i \in 1..(Len(f) + Len(q)) :
             (f \o q)[i] = IF i <= Len(f) THEN f[i] ELSE q[i - Len(f)]
    BY ConcatProperties, EmptySeq
  <1>2. Len(f) + 1 \in 1..(Len(f) + Len(q)) /\ (Len(f) + 1) - Len(f) = 1
        /\ (Len(f) + 1) - 1 = Len(f)
    BY <1>1
  <1>3. (f \o q)[Len(f) + 1] = Head(q)
    BY <1>1, <1>2
  <1>4. SubSeq(f \o q, 1, Len(f)) = f
    BY ConcatParts
  <1>5. SubSeq(f \o q, (Len(f) + 1) + 1, Len(f \o q)) = Tail(q)
    <2> DEFINE h == f \o <<Head(q)>>
    <2>1. <<Head(q)>> \in Seq(S) /\ Tail(q) \in Seq(S)
      BY HeadTailProperties
    <2>2. q = <<Head(q)>> \o Tail(q)
      <3>1. 1 \in 1..Len(q) /\ Len(q) \in 1..Len(q) /\ 1 + 1 = 2 /\ q[1] = Head(q)
        BY <1>1
      <3>2. SubSeq(q, 1, Len(q)) = <<q[1]>> \o SubSeq(q, 1 + 1, Len(q))
        BY <3>1, SubSeqRecursiveFirst
      <3> QED
        BY <3>1, <3>2, SubSeqFull, TailIsSubSeq
    <2>3. h \in Seq(S) /\ Len(h) = Len(f) + 1
      BY <1>1, <2>1
    <2>4. f \o q = h \o Tail(q)
      BY <2>1, <2>2, ConcatAssociative
    <2> HIDE DEF h
    <2> QED
      BY <2>1, <2>3, <2>4, ConcatParts
  <1> QED
    BY <1>1, <1>2, <1>3, <1>4, <1>5 DEF Delivery!Without

(* What has no element twice has none in both parts either.                 *)
LEMMA SpliceInjective ==
    ASSUME NEW S, NEW q \in Seq(S), NEW n \in 0..Len(q), IsInjective(q)
    PROVE  /\ IsInjective(SubSeq(q, 1, n)) /\ IsInjective(SubSeq(q, n + 1, Len(q)))
           /\ ToSet(SubSeq(q, 1, n)) \cap ToSet(SubSeq(q, n + 1, Len(q))) = {}
           /\ ToSet(SubSeq(q, 1, n)) \subseteq ToSet(q)
           /\ ToSet(SubSeq(q, n + 1, Len(q))) \subseteq ToSet(q)
  <1> DEFINE front == SubSeq(q, 1, n)
             rest == SubSeq(q, n + 1, Len(q))
  <1>1. /\ DOMAIN q = 1..Len(q) /\ Len(q) \in Nat /\ n \in Nat /\ n <= Len(q)
        /\ DOMAIN front = 1..n /\ DOMAIN rest = 1..(Len(q) - n)
        /\ \A i \in 1..n : front[i] = q[i]
        /\ \A i \in 1..(Len(q) - n) : rest[i] = q[n + i]
    OBVIOUS
  <1> HIDE DEF front, rest
  <1>2. /\ \A i \in 1..n : i \in DOMAIN q
        /\ \A i \in 1..(Len(q) - n) : n + i \in DOMAIN q
    BY <1>1
  <1>3. IsInjective(front)
    BY <1>1, <1>2 DEF IsInjective
  <1>4. IsInjective(rest)
    <2> SUFFICES ASSUME NEW i \in 1..(Len(q) - n), NEW j \in 1..(Len(q) - n), rest[i] = rest[j]
                 PROVE  i = j
      BY <1>1 DEF IsInjective
    <2>1. n + i = n + j
      BY <1>1, <1>2 DEF IsInjective
    <2> QED
      BY <1>1, <2>1
  <1>5. ASSUME NEW x \in ToSet(front), x \in ToSet(rest) PROVE FALSE
    <2>1. PICK i \in 1..n : x = front[i]
      BY <1>1 DEF ToSet
    <2>2. PICK j \in 1..(Len(q) - n) : x = rest[j]
      BY <1>1, <1>5 DEF ToSet
    <2>3. i = n + j
      <3>1. q[i] = q[n + j]
        BY <1>1, <2>1, <2>2
      <3>2. i \in DOMAIN q /\ n + j \in DOMAIN q
        BY <1>2
      <3> QED
        BY <3>1, <3>2 DEF IsInjective
    <2> QED
      BY <1>1, <2>3
  <1>6. ToSet(front) \subseteq ToSet(q) /\ ToSet(rest) \subseteq ToSet(q)
    BY <1>1, <1>2 DEF ToSet
  <1> QED
    BY <1>3, <1>4, <1>5, <1>6 DEF front, rest

(* ... and has as many elements as places.                                 *)
LEMMA InjectiveCardinality ==
    ASSUME NEW S, NEW q \in Seq(S), IsInjective(q)
    PROVE  IsFiniteSet(ToSet(q)) /\ Cardinality(ToSet(q)) = Len(q)
  <1>1. Len(q) \in Nat /\ DOMAIN q = 1..Len(q) /\ ToSet(q) = {q[i] : i \in 1..Len(q)}
    BY DEF ToSet
  <1>2. IsFiniteSet(1..Len(q)) /\ Cardinality(1..Len(q)) = Len(q)
    BY <1>1, FS_Interval
  <1>3. q \in Bijection(1..Len(q), ToSet(q))
    <2>1. q \in [1..Len(q) -> ToSet(q)]
      BY <1>1 DEF ToSet
    <2>2. \A t \in ToSet(q) : \E i \in 1..Len(q) : q[i] = t
      BY <1>1
    <2> QED
      BY <1>1, <2>1, <2>2 DEF Bijection, Injection, Surjection, IsInjective
  <1>4. ExistsBijection(1..Len(q), ToSet(q))
    BY <1>3 DEF ExistsBijection
  <1> QED
    BY <1>2, <1>4, FS_Bijection

(* enqueue: a new record leaves the queue without repetitions.             *)
LEMMA EnqueueInjective ==
    ASSUME MemType, IsInjective(queue), NEW r \in Records, r \notin ToSet(queue)
    PROVE  IsInjective(QueueWith(r))
  <1>1. queue \in Seq(Records) /\ (Full => queue # <<>>)
    BY MaxQueueAssumption DEF MemType, Full
  <1>2. ASSUME NEW s \in Seq(Records), IsInjective(s), r \notin ToSet(s)
        PROVE  IsInjective(Append(s, r))
    <2>1. /\ Len(s) \in Nat /\ DOMAIN s = 1..Len(s) /\ DOMAIN Append(s, r) = 1..(Len(s) + 1)
          /\ Append(s, r)[Len(s) + 1] = r
          /\ \A i \in 1..Len(s) : Append(s, r)[i] = s[i] /\ s[i] # r
      BY <1>2 DEF ToSet
    <2>2. \A i \in 1..(Len(s) + 1) : i \in 1..Len(s) \/ i = Len(s) + 1
      BY <2>1
    <2> QED
      BY <1>2, <2>1, <2>2 DEF IsInjective
  <1>3. CASE Full
    <2>1. /\ Tail(queue) \in Seq(Records) /\ Tail(queue) = SubSeq(queue, 1 + 1, Len(queue))
          /\ 1 \in 0..Len(queue)
      <3>1. 1 + 1 = 2 /\ 1 \in 0..Len(queue)
        BY <1>1, <1>3, EmptySeq
      <3> QED
        BY <1>1, <1>3, <3>1, HeadTailProperties, TailIsSubSeq
    <2>2. IsInjective(Tail(queue)) /\ ToSet(Tail(queue)) \subseteq ToSet(queue)
      <3>1. /\ IsInjective(SubSeq(queue, 1 + 1, Len(queue)))
            /\ ToSet(SubSeq(queue, 1 + 1, Len(queue))) \subseteq ToSet(queue)
        BY <1>1, <2>1, SpliceInjective, Zenon
      <3> QED
        BY <2>1, <3>1, Zenon
    <2> QED
      BY <1>2, <1>3, <2>1, <2>2 DEF QueueWith
  <1>4. CASE ~Full
    BY <1>1, <1>2, <1>4 DEF QueueWith
  <1> QED
    BY <1>3, <1>4


-----------------------------------------------------------------------------
(* The invariant *)

(* A record is queued once or is in one batch, once; only what was handed   *)
(* to the transport is, and only what is in a batch reaches the database.   *)
OnePlace ==
    /\ IsInjective(queue) /\ ToSet(queue) \subseteq issued
    /\ \A i \in 1..Len(batches) :
         /\ IsInjective(batches[i].records)
         /\ ToSet(batches[i].records) \subseteq issued
         /\ ToSet(batches[i].records) \cap ToSet(queue) = {}
    /\ \A i, j \in 1..Len(batches) :
         i # j => ToSet(batches[i].records) \cap ToSet(batches[j].records) = {}
    /\ \A r \in committed : \E i \in 1..Len(batches) : r \in ToSet(batches[i].records)

(* The counters account for the batches released.                          *)
Balanced == IsFiniteSet(ReleasedRecords) /\ CountersBalance

(* What AckDelivery sees as pending when the batch b precedes the queue q.  *)
Upfront(b, q) == (IF b = 0 THEN <<>> ELSE batches[b].records) \o q

(* A call leaves the drain alone, or it takes a turn of the drain loop, with *)
(* the batch b in flight and the queue q.                                  *)
Turn(b, q) ==
    \/ b = inFlight /\ queue' = q /\ UNCHANGED <<inFlight, batches>>
    \/ \E seq : DrainStep(q, b, seq)

(* Either way nothing moves but the records that form the next batch.       *)
Moved(b, q) ==
    \/ queue' = q /\ batches' = batches /\ inFlight' = b
    \/ \E n \in 0..Len(q) : \E seq :
          /\ b = 0 /\ inFlight' = Len(batches) + 1
          /\ batches' = Append(batches, [sequence |-> seq, records |-> SubSeq(q, 1, n)])
          /\ queue' = SubSeq(q, n + 1, Len(q))

LEMMA TurnMoves ==
    ASSUME NEW b, NEW q \in Seq(Records), Turn(b, q)
    PROVE  Moved(b, q)
  <1>1. CASE b = inFlight /\ queue' = q /\ UNCHANGED <<inFlight, batches>>
    BY <1>1 DEF Moved
  <1>2. ASSUME NEW seq, DrainStep(q, b, seq) PROVE Moved(b, q)
    <2>1. CASE b = 0 /\ q = <<>> /\ inFlight' = 0 /\ queue' = q /\ UNCHANGED batches
      BY <2>1 DEF Moved
    <2>2. CASE TakeBatch(q, b, seq)
      <3>1. Least(BatchSize, Len(q)) \in 0..Len(q)
        <4>1. BatchSize \in Nat /\ Len(q) \in Nat
          BY BatchSizeAssumption
        <4> QED
          BY <4>1, LeastType
      <3> QED
        BY <2>2, <3>1 DEF TakeBatch, Moved
    <2> QED
      BY <1>2, <2>1, <2>2 DEF DrainStep
  <1> QED
    BY <1>1, <1>2 DEF Turn

(* What is pending in the sense of AckDelivery stays what it was.           *)
LEMMA MovedPending ==
    ASSUME TypeInv, NEW b \in 0..Len(batches), NEW q \in Seq(Records), Moved(b, q)
    PROVE  Upfront(inFlight, queue)' = Upfront(b, q)
  <1>0. batches \in Seq(Batch) /\ Len(batches) \in Nat
    BY DEF TypeInv, TypeOK, MemType
  <1>1. CASE queue' = q /\ batches' = batches /\ inFlight' = b
    BY <1>1 DEF Upfront
  <1>2. ASSUME NEW n \in 0..Len(q), NEW seq, b = 0, inFlight' = Len(batches) + 1,
               batches' = Append(batches, [sequence |-> seq, records |-> SubSeq(q, 1, n)]),
               queue' = SubSeq(q, n + 1, Len(q))
        PROVE  Upfront(inFlight, queue)' = Upfront(b, q)
    <2>1. batches'[inFlight'].records = SubSeq(q, 1, n) /\ inFlight' # 0
      BY <1>0, <1>2
    <2>2. Upfront(inFlight, queue)' = SubSeq(q, 1, n) \o SubSeq(q, n + 1, Len(q))
      BY <1>2, <2>1 DEF Upfront
    <2>3. Upfront(b, q) = q
      BY <1>2, ConcatEmptySeq DEF Upfront
    <2> QED
      BY <2>2, <2>3, SpliceConcat
  <1> QED
    BY <1>1, <1>2 DEF Moved

(* A turn over a queue without repetitions keeps every record in one place. *)
LEMMA MovedOnePlace ==
    ASSUME TypeInv, OnePlace, NEW b, NEW q \in Seq(Records), Moved(b, q),
           IsInjective(q), ToSet(q) \subseteq issued', issued \subseteq issued',
           \A i \in 1..Len(batches) : ToSet(batches[i].records) \cap ToSet(q) = {},
           committed' = committed
    PROVE  OnePlace'
  <1>0. batches \in Seq(Batch) /\ Len(batches) \in Nat
    BY DEF TypeInv, TypeOK, MemType
  <1>1. CASE queue' = q /\ batches' = batches
    BY <1>1 DEF OnePlace
  <1>2. ASSUME NEW n \in 0..Len(q), NEW seq,
               batches' = Append(batches, [sequence |-> seq, records |-> SubSeq(q, 1, n)]),
               queue' = SubSeq(q, n + 1, Len(q))
        PROVE  OnePlace'
    <2>1. /\ Len(batches') = Len(batches) + 1
          /\ batches'[Len(batches) + 1].records = SubSeq(q, 1, n)
          /\ \A i \in 1..Len(batches) : batches'[i] = batches[i]
          /\ \A i \in 1..Len(batches') : i \in 1..Len(batches) \/ i = Len(batches) + 1
          /\ 1..Len(batches) \subseteq 1..Len(batches')
      BY <1>0, <1>2
    <2>2. /\ IsInjective(SubSeq(q, 1, n)) /\ IsInjective(queue')
          /\ ToSet(SubSeq(q, 1, n)) \cap ToSet(queue') = {}
          /\ ToSet(SubSeq(q, 1, n)) \subseteq ToSet(q)
          /\ ToSet(queue') \subseteq ToSet(q)
      BY <1>2, SpliceInjective
    <2>3. \A i \in 1..Len(batches') :
            /\ IsInjective(batches'[i].records)
            /\ ToSet(batches'[i].records) \subseteq issued'
            /\ ToSet(batches'[i].records) \cap ToSet(queue') = {}
      BY <2>1, <2>2 DEF OnePlace
    <2>4. \A i, j \in 1..Len(batches') :
            i # j => ToSet(batches'[i].records) \cap ToSet(batches'[j].records) = {}
      BY <2>1, <2>2 DEF OnePlace
    <2>5. \A r \in committed' :
            \E i \in 1..Len(batches') : r \in ToSet(batches'[i].records)
      BY <2>1 DEF OnePlace
    <2>6. ToSet(queue') \subseteq issued'
      BY <2>2
    <2> QED
      BY <2>2, <2>3, <2>4, <2>5, <2>6 DEF OnePlace
  <1> QED
    BY <1>1, <1>2 DEF Moved

(* It releases nothing, or the batch that b no longer is.                  *)
LEMMA MovedReleases ==
    ASSUME TypeInv, NEW b \in 0..Len(batches), NEW q \in Seq(Records), Moved(b, q)
    PROVE  ReleasedRecords' = UNION {RecordsOf(i) : i \in (1..Len(batches)) \ {b}}
  <1>0. batches \in Seq(Batch) /\ Len(batches) \in Nat
    BY DEF TypeInv, TypeOK, MemType
  <1>1. ReleasedRecords' = UNION {RecordsOf(i)' : i \in {j \in 1..Len(batches') : j # inFlight'}}
    BY DEF ReleasedRecords
  <1>2. /\ {j \in 1..Len(batches') : j # inFlight'} = (1..Len(batches)) \ {b}
        /\ \A i \in 1..Len(batches) : batches'[i] = batches[i]
    <2>1. CASE batches' = batches /\ inFlight' = b
      BY <2>1
    <2>2. ASSUME NEW n \in 0..Len(q), NEW seq, b = 0, inFlight' = Len(batches) + 1,
                 batches' = Append(batches, [sequence |-> seq, records |-> SubSeq(q, 1, n)])
          PROVE  <1>2
      BY <1>0, <2>2
    <2> QED
      BY <2>1, <2>2 DEF Moved
  <1>3. \A i \in (1..Len(batches)) \ {b} : RecordsOf(i)' = RecordsOf(i)
    BY <1>2 DEF RecordsOf
  <1> QED
    BY <1>1, <1>2, <1>3


-----------------------------------------------------------------------------
(* The five kinds of step *)

USE DEF memVars, countVars, lifeVars, drainVars, connVars, exitVars, netVars,
        histVars

(* Calls, timers and socket events that write and deliver nothing.          *)
Rests ==
    /\ Turn(inFlight, queue)
    /\ UNCHANGED <<issued, dropped, committed, accepted, duplicates>>

(* A record refused: too large, or after close().                           *)
Refuses(r) ==
    /\ Turn(inFlight, queue) /\ r \notin issued
    /\ issued' = issued \cup {r} /\ dropped' = dropped \cup {r}
    /\ UNCHANGED <<committed, accepted, duplicates>>

(* A record enqueued, perhaps in the place of the oldest one queued.         *)
Takes(r) ==
    /\ Turn(inFlight, QueueWith(r)) /\ r \notin issued
    /\ issued' = issued \cup {r} /\ dropped' = dropped \cup Displaced
    /\ UNCHANGED <<committed, accepted, duplicates>>

(* commit(): the batch in flight, stored by now, leaves memory.             *)
Releases ==
    /\ inFlight # 0 /\ ToSet(batches[inFlight].records) \subseteq committed
    /\ Turn(0, queue)
    /\ accepted' + duplicates' = accepted + duplicates + Len(batches[inFlight].records)
    /\ UNCHANGED <<issued, dropped, committed>>

(* The collector commits a batch.                                          *)
Commits(i) ==
    /\ committed' = committed \cup ToSet(batches[i].records)
    /\ UNCHANGED <<queue, inFlight, batches, issued, dropped, accepted, duplicates>>

LEMMA CallKinds ==
    ASSUME ~Fallback, Calls
    PROVE  Rests \/ \E r \in Records : Refuses(r) \/ Takes(r)
  <1>1. ASSUME NEW r \in Records, WriteDropped(r) PROVE Refuses(r)
    BY <1>1 DEF WriteDropped, Refuses, Turn
  <1>2. ASSUME NEW r \in Records, WriteBuffered(r) PROVE Takes(r)
    BY <1>2 DEF WriteBuffered, Takes, Turn
  <1>3. ASSUME NEW r \in Records, WriteFlushes(r) PROVE Takes(r)
    BY <1>3 DEF WriteFlushes, FlushCall, Takes, Turn
  <1>4. CASE Flush
    BY <1>4 DEF Flush, FlushCall, Rests, Turn
  <1>5. ASSUME NEW p \in Exits, FlushOnExit(p) \/ Close(p) PROVE Rests
    BY <1>5 DEF FlushOnExit, ExitBegins, FlushCall, Close, Rests, Turn
  <1>6. ASSUME NEW p \in Exits, NEW r \in Records, FlushOnExitWith(p, r)
        PROVE  Refuses(r) \/ Takes(r)
    <2>1. CASE dropped' = dropped \cup Displaced /\ ExitBegins(p, QueueWith(r), Pending \cup {r})
      BY <1>6, <2>1 DEF FlushOnExitWith, ExitBegins, FlushCall, Takes, Turn
    <2>2. CASE dropped' = dropped \cup {r} /\ ExitBegins(p, queue, Pending)
      BY <1>6, <2>2 DEF FlushOnExitWith, ExitBegins, FlushCall, Refuses, Turn
    <2> QED
      BY <1>6, <2>1, <2>2 DEF FlushOnExitWith
  <1> QED
    BY <1>1, <1>2, <1>3, <1>4, <1>5, <1>6 DEF Calls

LEMMA CommitKind ==
    ASSUME TypeInv, DeliveryInv, DrainCommits
    PROVE  Releases
  <1>1. drainBatch = inFlight /\ inFlight # 0
    BY DEF DrainCommits, TypeInv, HasBatch, DeliveryInv, DrainHolds, Busy
  <1>2. ToSet(batches[inFlight].records) \subseteq committed
    BY <1>1, CommitDelivers DEF RecordsOf
  <1>3. accepted' + duplicates' = accepted + duplicates + Len(batches[inFlight].records)
    <2>1. /\ accepted' = accepted + drainAck.accepted
          /\ duplicates' = duplicates + drainAck.duplicates
          /\ drainAck.accepted + drainAck.duplicates = Len(batches[inFlight].records)
      BY <1>1 DEF DrainCommits, CommitCounts, Accounts
    <2>2. /\ accepted \in Nat /\ duplicates \in Nat
          /\ drainAck.accepted \in Nat /\ drainAck.duplicates \in Nat
      BY DEF TypeInv, TypeOK, CountType, DrainType, Counts
    <2>3. \A a, b, c, d \in Nat : (a + b) + (c + d) = (a + c) + (b + d)
      OBVIOUS
    <2>4. (accepted + drainAck.accepted) + (duplicates + drainAck.duplicates)
            = (accepted + duplicates) + (drainAck.accepted + drainAck.duplicates)
      BY <2>2, <2>3
    <2> QED
      BY <2>1, <2>4
  <1>4. Turn(0, queue) /\ UNCHANGED <<issued, dropped, committed>>
    BY DEF DrainCommits, Turn
  <1> QED
    BY <1>1, <1>2, <1>3, <1>4 DEF Releases

LEMMA StepKinds ==
    ASSUME TypeInv, DeliveryInv, ~Fallback, [Next]_vars
    PROVE  \/ Rests \/ Releases
           \/ \E r \in Records : Refuses(r) \/ Takes(r)
           \/ \E i \in 1..Len(batches) : Commits(i)
  <1>1. CASE UNCHANGED vars
    BY <1>1 DEF vars, Rests, Turn
  <1>2. CASE Calls
    BY <1>2, CallKinds
  <1>3. CASE FlushTimerFires \/ DelayElapses
    BY <1>3 DEF FlushTimerFires, DelayElapses, Rests, Turn
  <1>4. CASE DrainCommits
    BY <1>4, CommitKind
  <1>5. CASE TicketFails \/ TicketArrives \/ SocketOpens \/ OpenFails \/ PeerCloses
             \/ ConnectionFails \/ SendBatch \/ SendRefused \/ SendThrows
             \/ AckTimeout \/ DrainRefusesAck \/ DrainFails \/ DrainFinally
    BY <1>5 DEF TicketFails, TicketArrives, SocketOpens, OpenFails, PeerCloses,
       ConnectionFails, SendBatch, SendRefused, SendThrows, AckTimeout,
       DrainRefusesAck, DrainFails, DrainFinally, Hangup, Rests, Turn
  <1>6. ASSUME NEW g \in 1..Len(sockets), SocketClosed(g) PROVE Rests
    BY <1>6 DEF SocketClosed, Rests, Turn
  <1>7. ASSUME NEW m \in toClient, OnAck(m) PROVE Rests
    BY <1>7 DEF OnAck, Hangup, Rests, Turn
  <1>8. ASSUME NEW m \in toServer, ServerMiscounts(m) PROVE Rests
    BY <1>8 DEF ServerMiscounts, Rests, Turn
  <1>9. ASSUME NEW p \in Exits, CloseFinishes(p) PROVE Rests
    BY <1>9 DEF CloseFinishes, Hangup, Rests, Turn
  <1>10. ASSUME NEW p \in Exits,
                FallbackCommits(p) \/ FallbackFails(p) \/ ExitCommits(p)
         PROVE  FALSE
    BY <1>10 DEF FallbackCommits, FallbackFails, ExitCommits, DeliveryInv, DrainHolds
  <1>11. ASSUME NEW m \in toServer, ServerCommits(m)
         PROVE  \E i \in 1..Len(batches) : Commits(i)
    <2>1. m.batch \in 1..Len(batches)
      BY DEF TypeInv, TypeOK, NetType
    <2>2. Commits(m.batch)
      BY <1>11, <2>1 DEF ServerCommits, Commits, RecordsOf
    <2> QED
      BY <2>1, <2>2
  <1> QED
    BY <1>1, <1>2, <1>3, <1>4, <1>5, <1>6, <1>7, <1>8, <1>9, <1>10, <1>11
       DEF Next, Progress, Faults

-----------------------------------------------------------------------------
(* The invariant is kept *)

LEMMA QueueType ==
    ASSUME TypeInv
    PROVE  /\ queue \in Seq(Records) /\ inFlight \in 0..Len(batches)
           /\ batches \in Seq(Batch) /\ Len(batches) \in Nat
           /\ \A i \in 1..Len(batches) : batches[i].records \in Seq(Records)
  <1>1. /\ queue \in Seq(Records) /\ inFlight \in 0..Len(batches)
        /\ batches \in Seq(Batch) /\ Len(batches) \in Nat
    BY DEF TypeInv, TypeOK, MemType
  <1>2. \A i \in 1..Len(batches) : batches[i] \in Batch
    BY <1>1, ElementOfSeq
  <1> QED
    BY <1>1, <1>2 DEF Batch

(* flushOnExit takes a turn of its loop as the drain does.                 *)
LEMMA ExitStepMoves ==
    ASSUME NEW p, NEW b, NEW q \in Seq(Records), NEW seq, ExitStep(p, q, b, seq)
    PROVE  Moved(b, q)
  <1>1. CASE b = 0 /\ q = <<>> /\ inFlight' = 0 /\ queue' = q /\ UNCHANGED batches
    BY <1>1 DEF Moved
  <1>2. CASE TakeBatch(q, b, seq)
    <2>1. Least(BatchSize, Len(q)) \in 0..Len(q)
      <3>1. BatchSize \in Nat /\ Len(q) \in Nat
        BY BatchSizeAssumption
      <3> QED
        BY <3>1, LeastType
    <2> QED
      BY <1>2, <2>1 DEF TakeBatch, Moved
  <1> QED
    BY <1>1, <1>2 DEF ExitStep

(* What a step does to memory, with an exit fallback or without: a turn of   *)
(* a loop, a record enqueued, a batch stored in part or whole.             *)
Turns ==
    /\ \E b : Moved(b, queue)
    /\ issued \subseteq issued' /\ committed' = committed
Enqueues(r) ==
    /\ r \notin issued /\ issued' = issued \cup {r} /\ committed' = committed
    /\ Moved(inFlight, QueueWith(r))
Stores(i) ==
    /\ committed' \subseteq committed \cup ToSet(batches[i].records)
    /\ UNCHANGED <<queue, inFlight, batches, issued>>

LEMMA CallMemory ==
    ASSUME TypeInv, Calls
    PROVE  Turns \/ \E r \in Records : Enqueues(r)
  <1>0. queue \in Seq(Records) /\ \A r \in Records : QueueWith(r) \in Seq(Records)
    BY QueueType, EnqueueType DEF TypeInv, TypeOK
  <1>1. ASSUME NEW q \in Seq(Records), FlushCall(q) PROVE Moved(inFlight, q)
    <2>1. Turn(inFlight, q)
      BY <1>1 DEF FlushCall, Turn
    <2> QED
      BY <2>1, TurnMoves
  <1>2. ASSUME NEW q \in Seq(Records), NEW p, NEW owed, ExitBegins(p, q, owed)
        PROVE  Moved(inFlight, q)
    BY <1>1, <1>2, ExitStepMoves DEF ExitBegins
  <1>3. ASSUME NEW r \in Records, WriteDropped(r) PROVE Turns
    BY <1>3 DEF WriteDropped, Turns, Moved
  <1>4. ASSUME NEW r \in Records, WriteBuffered(r) PROVE Enqueues(r)
    BY <1>4 DEF WriteBuffered, Enqueues, Moved
  <1>5. ASSUME NEW r \in Records, WriteFlushes(r) PROVE Enqueues(r)
    BY <1>0, <1>1, <1>5 DEF WriteFlushes, Enqueues
  <1>6. CASE Flush
    BY <1>0, <1>1, <1>6 DEF Flush, Turns
  <1>7. ASSUME NEW p \in Exits, FlushOnExit(p) PROVE Turns
    BY <1>0, <1>2, <1>7 DEF FlushOnExit, Turns
  <1>8. ASSUME NEW p \in Exits, Close(p) PROVE Turns
    <2>1. Moved(inFlight, queue)
      <3>1. CASE ExitStep(p, queue, inFlight, nextSequence)
        BY <1>0, <3>1, ExitStepMoves
      <3>2. CASE UNCHANGED memVars
        BY <3>2 DEF Moved
      <3>3. CASE DrainStep(queue, inFlight, nextSequence)
        BY <1>0, <3>3, TurnMoves DEF Turn
      <3> QED
        BY <1>8, <3>1, <3>2, <3>3 DEF Close
    <2> QED
      BY <1>8, <2>1 DEF Close, Turns
  <1>9. ASSUME NEW p \in Exits, NEW r \in Records, FlushOnExitWith(p, r)
        PROVE  Turns \/ Enqueues(r)
    <2>1. CASE ExitBegins(p, QueueWith(r), Pending \cup {r})
      BY <1>0, <1>2, <1>9, <2>1 DEF FlushOnExitWith, Enqueues
    <2>2. CASE ExitBegins(p, queue, Pending)
      BY <1>0, <1>2, <1>9, <2>2 DEF FlushOnExitWith, Turns
    <2> QED
      BY <1>9, <2>1, <2>2 DEF FlushOnExitWith
  <1> QED
    BY <1>3, <1>4, <1>5, <1>6, <1>7, <1>8, <1>9 DEF Calls

LEMMA MemorySteps ==
    ASSUME TypeInv, [Next]_vars
    PROVE  \/ Turns
           \/ \E r \in Records : Enqueues(r)
           \/ \E i \in 1..Len(batches) : Stores(i)
  <1>0. queue \in Seq(Records)
    BY QueueType
  <1>1. CASE UNCHANGED vars
    BY <1>1 DEF vars, Turns, Moved
  <1>2. CASE Calls
    BY <1>2, CallMemory
  <1>3. CASE FlushTimerFires \/ DelayElapses
    <2>1. Turn(inFlight, queue)
      BY <1>3 DEF FlushTimerFires, DelayElapses, Turn
    <2> QED
      BY <1>0, <1>3, <2>1, TurnMoves DEF FlushTimerFires, DelayElapses, Turns
  <1>4. CASE DrainCommits
    <2>1. Turn(0, queue)
      BY <1>4 DEF DrainCommits, Turn
    <2> QED
      BY <1>0, <1>4, <2>1, TurnMoves DEF DrainCommits, Turns
  <1>5. CASE TicketFails \/ TicketArrives \/ SocketOpens \/ OpenFails \/ PeerCloses
             \/ ConnectionFails \/ SendBatch \/ SendRefused \/ SendThrows
             \/ AckTimeout \/ DrainRefusesAck \/ DrainFails \/ DrainFinally
    BY <1>5 DEF TicketFails, TicketArrives, SocketOpens, OpenFails, PeerCloses,
       ConnectionFails, SendBatch, SendRefused, SendThrows, AckTimeout,
       DrainRefusesAck, DrainFails, DrainFinally, Hangup, Turns, Moved
  <1>6. ASSUME NEW g \in 1..Len(sockets), SocketClosed(g) PROVE Turns
    BY <1>6 DEF SocketClosed, Turns, Moved
  <1>7. ASSUME NEW m \in toClient, OnAck(m) PROVE Turns
    BY <1>7 DEF OnAck, Hangup, Turns, Moved
  <1>8. ASSUME NEW m \in toServer, ServerMiscounts(m) PROVE Turns
    BY <1>8 DEF ServerMiscounts, Turns, Moved
  <1>9. ASSUME NEW p \in Exits, CloseFinishes(p) PROVE Turns
    BY <1>9 DEF CloseFinishes, Hangup, Turns, Moved
  <1>10. ASSUME NEW p \in Exits, ExitCommits(p) PROVE Turns
    <2>1. ExitStep(p, queue, 0, batches[exitBatch[p]].sequence + 1)
      BY <1>10 DEF ExitCommits
    <2>2. Moved(0, queue)
      BY <1>0, <2>1, ExitStepMoves
    <2> QED
      BY <1>10, <2>2 DEF ExitCommits, Turns
  <1>11. ASSUME NEW p \in Exits, FallbackCommits(p) \/ FallbackFails(p)
         PROVE  \E i \in 1..Len(batches) : Stores(i)
    <2>1. exitBatch[p] \in 1..Len(batches)
      <3>1. exitBatch[p] # 0
        BY <1>11 DEF FallbackCommits, FallbackFails, TypeInv, HasBatch
      <3>2. exitBatch[p] \in 0..Len(batches) /\ Len(batches) \in Nat
        BY QueueType DEF TypeInv, TypeOK, ExitType
      <3> QED
        BY <3>1, <3>2
    <2>2. RecordsOf(exitBatch[p]) = ToSet(batches[exitBatch[p]].records)
      BY <2>1 DEF RecordsOf
    <2>3. Stores(exitBatch[p])
      BY <1>11, <2>2 DEF FallbackCommits, FallbackFails, Stores
    <2> QED
      BY <2>1, <2>3
  <1>12. ASSUME NEW m \in toServer, ServerCommits(m)
         PROVE  \E i \in 1..Len(batches) : Stores(i)
    <2>1. m.batch \in 1..Len(batches)
      BY DEF TypeInv, TypeOK, NetType
    <2>2. Stores(m.batch)
      BY <1>12, <2>1 DEF ServerCommits, Stores, RecordsOf
    <2> QED
      BY <2>1, <2>2
  <1> QED
    BY <1>1, <1>2, <1>3, <1>4, <1>5, <1>6, <1>7, <1>8, <1>9, <1>10, <1>11, <1>12
       DEF Next, Progress, Faults

LEMMA OnePlaceStep ==
    ASSUME TypeInv, OnePlace, [Next]_vars
    PROVE  OnePlace'
  <1>0. /\ queue \in Seq(Records) /\ inFlight \in 0..Len(batches)
        /\ IsInjective(queue) /\ ToSet(queue) \subseteq issued
        /\ \A i \in 1..Len(batches) : ToSet(batches[i].records) \cap ToSet(queue) = {}
    BY QueueType DEF OnePlace
  <1>1. CASE Turns
    <2>1. PICK b : Moved(b, queue)
      BY <1>1 DEF Turns
    <2> QED
      BY <1>0, <1>1, <2>1, MovedOnePlace DEF Turns
  <1>2. ASSUME NEW r \in Records, Enqueues(r) PROVE OnePlace'
    <2>1. /\ QueueWith(r) \in Seq(Records)
          /\ ToSet(QueueWith(r)) \subseteq ToSet(queue) \cup {r}
      BY EnqueueType, EnqueueElements DEF TypeInv, TypeOK
    <2>2. /\ Moved(inFlight, QueueWith(r))
          /\ r \notin issued /\ issued' = issued \cup {r} /\ committed' = committed
      BY <1>2 DEF Enqueues
    <2>3. IsInjective(QueueWith(r))
      BY <1>0, <2>2, EnqueueInjective DEF TypeInv, TypeOK
    <2>4. \A i \in 1..Len(batches) : ToSet(batches[i].records) \cap ToSet(QueueWith(r)) = {}
      BY <1>0, <2>1, <2>2 DEF OnePlace
    <2> QED
      BY <1>0, <2>1, <2>2, <2>3, <2>4, MovedOnePlace
  <1>3. ASSUME NEW i \in 1..Len(batches), Stores(i) PROVE OnePlace'
    BY <1>3 DEF Stores, OnePlace
  <1> QED
    BY <1>1, <1>2, <1>3, MemorySteps

LEMMA BalancedStep ==
    ASSUME TypeInv, DeliveryInv, OnePlace, Balanced, ~Fallback, [Next]_vars
    PROVE  Balanced'
  <1>0. /\ queue \in Seq(Records) /\ inFlight \in 0..Len(batches)
        /\ ReleasedRecords = UNION {RecordsOf(i) : i \in (1..Len(batches)) \ {inFlight}}
    <2>1. {j \in 1..Len(batches) : j # inFlight} = (1..Len(batches)) \ {inFlight}
      OBVIOUS
    <2> QED
      BY <2>1, QueueType DEF ReleasedRecords
  <1>1. ASSUME NEW q \in Seq(Records), Turn(inFlight, q), UNCHANGED <<accepted, duplicates>>
        PROVE  Balanced'
    <2>1. ReleasedRecords' = ReleasedRecords
      BY <1>0, <1>1, TurnMoves, MovedReleases
    <2> QED
      BY <1>1, <2>1 DEF Balanced, CountersBalance
  <1>2. CASE Rests
    BY <1>0, <1>1, <1>2 DEF Rests
  <1>3. ASSUME NEW r \in Records, Refuses(r) PROVE Balanced'
    BY <1>0, <1>1, <1>3 DEF Refuses
  <1>4. ASSUME NEW r \in Records, Takes(r) PROVE Balanced'
    <2>1. QueueWith(r) \in Seq(Records)
      BY EnqueueType DEF TypeInv, TypeOK
    <2> QED
      BY <1>1, <1>4, <2>1 DEF Takes
  <1>5. CASE Releases
    <2> DEFINE done == ToSet(batches[inFlight].records)
    <2>1. inFlight \in 1..Len(batches) /\ batches[inFlight].records \in Seq(Records)
      BY <1>0, <1>5, QueueType DEF Releases
    <2>2. IsFiniteSet(done) /\ Cardinality(done) = Len(batches[inFlight].records)
      BY <2>1, InjectiveCardinality DEF OnePlace
    <2>3. ReleasedRecords' = ReleasedRecords \cup done
      <3>1. 0 \in 0..Len(batches) /\ (1..Len(batches)) \ {0} = 1..Len(batches)
        BY <2>1, QueueType
      <3>2. ReleasedRecords' = UNION {RecordsOf(i) : i \in 1..Len(batches)}
        BY <1>0, <1>5, <3>1, TurnMoves, MovedReleases DEF Releases
      <3>3. 1..Len(batches) = ((1..Len(batches)) \ {inFlight}) \cup {inFlight}
        BY <2>1
      <3>4. RecordsOf(inFlight) = done
        BY <1>5 DEF Releases, RecordsOf
      <3> QED
        BY <1>0, <3>2, <3>3, <3>4
    <2>4. ReleasedRecords \cap done = {}
      <3>1. ASSUME NEW i \in (1..Len(batches)) \ {inFlight} PROVE RecordsOf(i) \cap done = {}
        <4>1. i # 0 /\ i \in 1..Len(batches) /\ i # inFlight
          BY QueueType
        <4>2. RecordsOf(i) = ToSet(batches[i].records)
          BY <4>1 DEF RecordsOf
        <4> QED
          BY <2>1, <4>1, <4>2 DEF OnePlace
      <3> HIDE DEF done
      <3> QED
        BY <1>0, <3>1
    <2>5. /\ IsFiniteSet(ReleasedRecords')
          /\ Cardinality(ReleasedRecords') = Cardinality(ReleasedRecords) + Cardinality(done)
      <3> HIDE DEF done
      <3>1. IsFiniteSet(ReleasedRecords)
        BY DEF Balanced
      <3>2. Cardinality({}) = 0
        BY FS_EmptySet
      <3>3. /\ Cardinality(ReleasedRecords) \in Nat /\ Cardinality(done) \in Nat
        BY <2>2, <3>1, FS_CardinalityType
      <3>4. /\ IsFiniteSet(ReleasedRecords \cup done)
            /\ Cardinality(ReleasedRecords \cup done) =
                 Cardinality(ReleasedRecords) + Cardinality(done)
                   - Cardinality(ReleasedRecords \cap done)
        BY <2>2, <3>1, FS_Union
      <3>5. \A a, b \in Nat : a + b - 0 = a + b
        OBVIOUS
      <3>6. /\ IsFiniteSet(ReleasedRecords')
            /\ Cardinality(ReleasedRecords') =
                 Cardinality(ReleasedRecords) + Cardinality(done) - 0
        BY <2>3, <2>4, <3>2, <3>4, Zenon
      <3> QED
        BY <3>3, <3>5, <3>6, Zenon
    <2> QED
      BY <1>5, <2>2, <2>5 DEF Releases, Balanced, CountersBalance
  <1>6. ASSUME NEW i \in 1..Len(batches), Commits(i) PROVE Balanced'
    <2>1. ReleasedRecords' = ReleasedRecords
      BY <1>6 DEF Commits, ReleasedRecords, RecordsOf
    <2> QED
      BY <1>6, <2>1 DEF Commits, Balanced, CountersBalance
  <1> QED
    BY <1>2, <1>3, <1>4, <1>5, <1>6, StepKinds


LEMMA OnePlaceInit == Init => OnePlace /\ Balanced
  <1> SUFFICES ASSUME Init PROVE OnePlace /\ Balanced
    OBVIOUS
  <1>1. OnePlace
    BY DEF Init, OnePlace, IsInjective, ToSet
  <1>2. ReleasedRecords = {}
    BY DEF Init, ReleasedRecords
  <1>3. Balanced
    BY <1>2, FS_EmptySet DEF Init, Balanced, CountersBalance
  <1> QED
    BY <1>1, <1>3

WholeInv == TypeInv /\ DeliveryInv /\ OnePlace /\ Balanced

LEMMA WholeInvariant == ASSUME ~Fallback PROVE Spec => []WholeInv
  <1>1. TypeInv /\ DeliveryInv /\ OnePlace /\ Balanced /\ [Next]_vars => OnePlace' /\ Balanced'
    BY OnePlaceStep, BalancedStep
  <1> QED
    BY <1>1, OnePlaceInit, DeliveryInvariant, PTL DEF Spec, WholeInv

-----------------------------------------------------------------------------
(* The refinement *)

(* The sequences a step of AckDelivery is about.                           *)
LEMMA PendingParts ==
    ASSUME TypeInv
    PROVE  /\ (IF inFlight = 0 THEN <<>> ELSE batches[inFlight].records) \in Seq(Records)
           /\ Upfront(inFlight, queue) \in Seq(Records)
  <1>1. (IF inFlight = 0 THEN <<>> ELSE batches[inFlight].records) \in Seq(Records)
    <2>1. CASE inFlight = 0
      BY <2>1, EmptySeq
    <2>2. CASE inFlight # 0
      <3>1. inFlight \in 1..Len(batches)
        BY <2>2, QueueType
      <3> QED
        BY <2>2, <3>1, QueueType
    <2> QED
      BY <2>1, <2>2
  <1> QED
    BY <1>1, QueueType, ConcatProperties DEF Upfront

(* Enqueueing appends, after giving up a record not in the database.        *)
LEMMA TakesRefines ==
    ASSUME TypeInv, OnePlace, NEW r \in Records, Takes(r)
    PROVE  Delivery!Next
  <1> DEFINE f == IF inFlight = 0 THEN <<>> ELSE batches[inFlight].records
  <1>0. /\ f \in Seq(Records) /\ queue \in Seq(Records) /\ QueueWith(r) \in Seq(Records)
        /\ inFlight \in 0..Len(batches) /\ (Full => queue # <<>>)
    BY PendingParts, QueueType, EnqueueType, MaxQueueAssumption
       DEF TypeInv, TypeOK, MemType, Full
  <1>1. Upfront(inFlight, queue)' = f \o QueueWith(r)
    BY <1>0, TurnMoves, MovedPending DEF Takes, Upfront
  <1>2. /\ r \notin issued /\ issued' = issued \cup {r} /\ committed' = committed
        /\ dropped' = dropped \cup Displaced
    BY DEF Takes
  <1>3. CASE ~Full
    <2>1. Upfront(inFlight, queue)' = Append(Upfront(inFlight, queue), r)
      <3>1. QueueWith(r) = Append(queue, r)
        BY <1>3 DEF QueueWith
      <3> HIDE DEF f
      <3>2. f \o Append(queue, r) = Append(f \o queue, r)
        BY <1>0, ConcatAppend
      <3>3. Upfront(inFlight, queue) = f \o queue
        BY DEF Upfront, f
      <3> QED
        BY <1>1, <3>1, <3>2, <3>3
    <2>2. dropped' = dropped
      BY <1>2, <1>3 DEF Displaced
    <2>3. Delivery!Accept(r)
      BY <1>2, <2>1, <2>2 DEF Delivery!Accept, Upfront
    <2> QED
      BY <2>3 DEF Delivery!Next
  <1>4. CASE Full
    <2> DEFINE k == Len(f) + 1
    <2>1. /\ k \in 1..Len(f \o queue) /\ (f \o queue)[k] = Head(queue)
          /\ Delivery!Without(f \o queue, k) = f \o Tail(queue)
      <3> HIDE DEF f
      <3> QED
        BY <1>0, <1>4, ConcatTail
    <2>2. f \o QueueWith(r) = Append(f \o Tail(queue), r)
      <3>1. QueueWith(r) = Append(Tail(queue), r) /\ Tail(queue) \in Seq(Records)
        BY <1>0, <1>4, HeadTailProperties DEF QueueWith
      <3> HIDE DEF f
      <3> QED
        BY <1>0, <3>1, ConcatAppend
    <2>3. Head(queue) \notin committed
      <3>1. Head(queue) \in ToSet(queue)
        BY <1>0, <1>4, TailElements
      <3> QED
        BY <3>1 DEF OnePlace
    <2>4. dropped' = dropped \cup {Head(queue)}
      BY <1>2, <1>4 DEF Displaced
    <2> HIDE DEF k
    <2>5. Delivery!Displace(r, k)
      BY <1>1, <1>2, <2>1, <2>2, <2>3, <2>4 DEF Delivery!Displace, Upfront
    <2> QED
      BY <2>1, <2>5 DEF Delivery!Next
  <1> QED
    BY <1>3, <1>4

(* commit() releases the batch in flight.                                  *)
LEMMA ReleasesRefines ==
    ASSUME TypeInv, DeliveryInv, Releases
    PROVE  Delivery!Next
  <1> DEFINE f == batches[inFlight].records
  <1>0. /\ inFlight \in 1..Len(batches) /\ inFlight # 0
        /\ f \in Seq(Records) /\ queue \in Seq(Records) /\ Len(f) > 0
    BY QueueType DEF Releases, DeliveryInv, InOrder
  <1>1. Upfront(inFlight, queue)' = queue
    <2>1. 0 \in 0..Len(batches) /\ Upfront(0, queue) = queue
      BY <1>0, QueueType, ConcatEmptySeq DEF Upfront
    <2> QED
      BY <1>0, <2>1, TurnMoves, MovedPending DEF Releases
  <1>2. ToSet(f) \subseteq committed /\ UNCHANGED <<issued, dropped, committed>>
    BY DEF Releases
  <1>3. Upfront(inFlight, queue) = f \o queue
    BY <1>0 DEF Upfront
  <1> HIDE DEF f
  <1>4. /\ SubSeq(f \o queue, 1, Len(f)) = f
        /\ SubSeq(f \o queue, Len(f) + 1, Len(f \o queue)) = queue
        /\ Len(f) \in 1..Len(f \o queue)
    <2>1. Len(f \o queue) = Len(f) + Len(queue) /\ Len(queue) \in Nat /\ Len(f) \in Nat
      BY <1>0, ConcatProperties
    <2> QED
      BY <1>0, <2>1, ConcatParts
  <1>5. Delivery!Release(Len(f))
    BY <1>0, <1>1, <1>2, <1>3, <1>4 DEF Delivery!Release, Delivery!ToSet, ToSet, Upfront
  <1> QED
    BY <1>0, <1>3, <1>4, <1>5 DEF Delivery!Next, Upfront

(* The collector commits the batch in flight, or one it has already.        *)
LEMMA CommitsRefines ==
    ASSUME TypeInv, DeliveryInv, NEW i \in 1..Len(batches), Commits(i)
    PROVE  Delivery!Next \/ UNCHANGED Delivery!vars
  <1>1. CASE i # inFlight
    <2>1. ToSet(batches[i].records) \subseteq committed
      <3>1. i # 0
        BY QueueType
      <3> QED
        BY <1>1, <3>1 DEF DeliveryInv, Released, RecordsOf
    <2> QED
      BY <2>1 DEF Commits, Delivery!vars
  <1>2. CASE i = inFlight
    <2> DEFINE f == batches[inFlight].records
    <2>0. /\ inFlight # 0 /\ f \in Seq(Records) /\ queue \in Seq(Records) /\ Len(f) > 0
      BY <1>2, QueueType DEF DeliveryInv, InOrder
    <2>1. /\ Upfront(inFlight, queue)' = Upfront(inFlight, queue)
          /\ Upfront(inFlight, queue) = f \o queue
          /\ committed' = committed \cup ToSet(f) /\ UNCHANGED <<issued, dropped>>
      BY <1>2, <2>0 DEF Upfront, Commits
    <2> HIDE DEF f
    <2>2. SubSeq(f \o queue, 1, Len(f)) = f /\ Len(f) \in 1..Len(f \o queue)
      <3>1. Len(f \o queue) = Len(f) + Len(queue) /\ Len(queue) \in Nat /\ Len(f) \in Nat
        BY <2>0, ConcatProperties
      <3> QED
        BY <2>0, <3>1, ConcatParts
    <2>3. Delivery!Commit(Len(f))
      BY <2>1, <2>2 DEF Delivery!Commit, Delivery!ToSet, ToSet, Upfront
    <2> QED
      BY <2>1, <2>2, <2>3 DEF Delivery!Next, Upfront
  <1> QED
    BY <1>1, <1>2

LEMMA StepRefines ==
    ASSUME TypeInv, DeliveryInv, OnePlace, ~Fallback, [Next]_vars
    PROVE  Delivery!Next \/ UNCHANGED Delivery!vars
  <1>0. queue \in Seq(Records) /\ inFlight \in 0..Len(batches)
    BY QueueType
  <1>1. ASSUME Turn(inFlight, queue)
        PROVE  Upfront(inFlight, queue)' = Upfront(inFlight, queue)
    BY <1>0, <1>1, TurnMoves, MovedPending
  <1>2. CASE Rests
    BY <1>1, <1>2 DEF Rests, Upfront, Delivery!vars
  <1>3. ASSUME NEW r \in Records, Refuses(r) PROVE Delivery!Next
    <2>1. Delivery!Refuse(r)
      BY <1>1, <1>3 DEF Refuses, Upfront, Delivery!Refuse
    <2> QED
      BY <2>1 DEF Delivery!Next
  <1> QED
    BY <1>2, <1>3, TakesRefines, ReleasesRefines, CommitsRefines, StepKinds

-----------------------------------------------------------------------------
(* The transport implements AckDelivery: every step of it, a drain turn, a   *)
(* retry, a late acknowledgement or a close, refuses, accepts, displaces,    *)
(* commits or releases records as the contract allows, or changes nothing    *)
(* the contract speaks of.                                                 *)
THEOREM ContractIsImplemented == ASSUME ~Fallback PROVE Spec => ImplementsAckDelivery
  <1>1. Init => Delivery!Init
    BY EmptySeq DEF Init, Delivery!Init
  <1>2. WholeInv /\ [Next]_vars => [Delivery!Next]_Delivery!vars
    BY StepRefines DEF WholeInv
  <1> QED
    BY <1>1, <1>2, WholeInvariant, PTL DEF Spec, ImplementsAckDelivery, Delivery!Spec

(* accepted and duplicates of snapshot() together count the records of the   *)
(* batches released, also after lost acknowledgements and replays.          *)
THEOREM CountersWithoutFallback == ASSUME ~Fallback PROVE Spec => []CountersBalance
  <1>1. WholeInv => CountersBalance
    BY DEF WholeInv, Balanced
  <1> QED
    BY <1>1, WholeInvariant, PTL



(***************************************************************************)
(* Part 4: replays are exact, whatever the options                         *)
(***************************************************************************)
-----------------------------------------------------------------------------
(* Credit: accepted counts a record once.  Every record of the database is  *)
(* on the account of one holder: counted in accepted, in the counts of an    *)
(* acknowledgement under way, or in the counts a coroutine has been handed   *)
(* and not yet added.                                                      *)

Counted == <<"counted">>
WithDrain == <<"drain">>
WithExit(p) == <<"exit", p>>
OnWire(m) == <<"wire", m>>

LEMMA HoldersDiffer ==
    /\ Counted # WithDrain
    /\ \A p : WithExit(p) # Counted /\ WithExit(p) # WithDrain
    /\ \A m : OnWire(m) # Counted /\ OnWire(m) # WithDrain
    /\ \A p, m : OnWire(m) # WithExit(p)
    /\ \A p, q : WithExit(p) = WithExit(q) => p = q
    /\ \A m, n : OnWire(m) = OnWire(n) => m = n
  BY DEF Counted, WithDrain, WithExit, OnWire

Holding(C, owner, h) == {r \in C : owner[r] = h}
Held(owner, h) == Holding(committed, owner, h)

(* No holder claims more records than are on its account.                  *)
Covers(owner) ==
    /\ accepted <= Cardinality(Held(owner, Counted))
    /\ drainAck.accepted <= Cardinality(Held(owner, WithDrain))
    /\ \A p \in Exits : exitAck[p].accepted <= Cardinality(Held(owner, WithExit(p)))
    /\ \A m \in toClient : m.counts.accepted <= Cardinality(Held(owner, OnWire(m)))

Credit == IsFiniteSet(committed) /\ \E owner : Covers(owner)

(* New records go on one account, which grows by them.                     *)
LEMMA Grant ==
    ASSUME NEW C, IsFiniteSet(C), NEW N, IsFiniteSet(N), N \cap C = {}, NEW o, NEW h
    PROVE  \E o2 :
             /\ Cardinality(N) <= Cardinality(Holding(C \cup N, o2, h))
             /\ \A g : Cardinality(Holding(C, o, g)) <= Cardinality(Holding(C \cup N, o2, g))
  <1> DEFINE o2 == [r \in C \cup N |-> IF r \in N THEN h ELSE o[r]]
  <1>0. IsFiniteSet(C \cup N)
    BY FS_Union
  <1>1. N \subseteq Holding(C \cup N, o2, h)
    BY DEF Holding
  <1>2. \A g : Holding(C, o, g) \subseteq Holding(C \cup N, o2, g)
    BY DEF Holding
  <1>3. \A g : IsFiniteSet(Holding(C \cup N, o2, g))
    <2> TAKE g
    <2>1. Holding(C \cup N, o2, g) \subseteq C \cup N
      BY DEF Holding
    <2> HIDE DEF o2
    <2> QED
      BY <1>0, <2>1, FS_Subset
  <1> HIDE DEF o2
  <1>4. Cardinality(N) <= Cardinality(Holding(C \cup N, o2, h))
    BY <1>1, <1>3, FS_Subset
  <1>5. ASSUME NEW g
        PROVE  Cardinality(Holding(C, o, g)) <= Cardinality(Holding(C \cup N, o2, g))
    BY <1>2, <1>3, FS_Subset
  <1> QED
    BY <1>4, <1>5

(* One account is closed in favour of another.                             *)
LEMMA Transfer ==
    ASSUME IsFiniteSet(committed), NEW o, NEW f, NEW t, f # t
    PROVE  \E o2 :
             /\ Cardinality(Held(o2, t)) = Cardinality(Held(o, t)) + Cardinality(Held(o, f))
             /\ \A g : g # f /\ g # t => Held(o2, g) = Held(o, g)
  <1> DEFINE o2 == [r \in committed |-> IF o[r] = f THEN t ELSE o[r]]
             T == Held(o, t)
             F == Held(o, f)
  <1>1. /\ Held(o2, t) = T \cup F /\ T \cap F = {}
        /\ T \subseteq committed /\ F \subseteq committed
    BY DEF Held, Holding
  <1>2. \A g : g # f /\ g # t => Held(o2, g) = Held(o, g)
    BY DEF Held, Holding
  <1>3. Cardinality(Held(o2, t)) = Cardinality(T) + Cardinality(F)
    <2> HIDE DEF o2, T, F
    <2>1. IsFiniteSet(T) /\ IsFiniteSet(F)
      BY <1>1, FS_Subset
    <2>2. Cardinality(T) \in Nat /\ Cardinality(F) \in Nat
      BY <2>1, FS_CardinalityType
    <2>3. Cardinality(T \cup F) = Cardinality(T) + Cardinality(F) - Cardinality(T \cap F)
      BY <2>1, FS_Union
    <2>4. Cardinality(T \cap F) = 0
      BY <1>1, FS_EmptySet
    <2> QED
      BY <1>1, <2>2, <2>3, <2>4
  <1> HIDE DEF o2
  <1> QED
    BY <1>2, <1>3

-----------------------------------------------------------------------------
(* The steps that move credit *)

(* Nothing is stored; counts are dropped or empty ones appear.             *)
Idles ==
    /\ committed' = committed /\ accepted' = accepted /\ exitAck' = exitAck
    /\ drainAck' \in {drainAck, NoCounts}
    /\ \A m \in toClient' : m \in toClient \/ m.counts = NoCounts

(* An acknowledgement is handed to the drain.                              *)
Receives(m) ==
    /\ committed' = committed /\ accepted' = accepted /\ exitAck' = exitAck
    /\ drainAck' = m.counts /\ toClient' = toClient \ {m}

(* commit() of the drain and of an exit.                                   *)
DrainCounts ==
    /\ committed' = committed /\ accepted' = accepted + drainAck.accepted
    /\ exitAck' = exitAck /\ drainAck' = NoCounts /\ toClient' = toClient
ExitCounts(p) ==
    /\ committed' = committed /\ accepted' = accepted + exitAck[p].accepted
    /\ exitAck' = [exitAck EXCEPT ![p] = NoCounts]
    /\ drainAck' = drainAck /\ toClient' = toClient

(* The database stores records of the batch i and answers the exit p, the   *)
(* socket, or nobody.                                                      *)
StoresFor(i) == committed' = committed \cup RecordsOf(i)
AnswersExit(p, i) ==
    /\ StoresFor(i)
    /\ exitAck'[p].accepted = Cardinality(RecordsOf(i) \ committed)
    /\ \A q \in Exits : q # p => exitAck'[q] = exitAck[q]
    /\ UNCHANGED <<accepted, drainAck, toClient>>
AnswersSocket(i) ==
    /\ StoresFor(i)
    /\ \E m : /\ toClient' \in {toClient, toClient \cup {m}}
              /\ m.counts.accepted = Cardinality(RecordsOf(i) \ committed)
    /\ UNCHANGED <<accepted, drainAck, exitAck>>

LEMMA CreditSteps ==
    ASSUME TypeInv, [Next]_vars
    PROVE  \/ Idles \/ DrainCounts
           \/ \E m \in toClient : Receives(m)
           \/ \E p \in Exits : ExitCounts(p)
           \/ \E i \in 1..Len(batches) : AnswersSocket(i) \/ \E p \in Exits : AnswersExit(p, i)
  <1>1. CASE UNCHANGED vars
    BY <1>1 DEF vars, Idles
  <1>2. CASE Calls
    <2>1. ASSUME NEW r \in Records, WriteDropped(r) \/ WriteBuffered(r) \/ WriteFlushes(r)
          PROVE  Idles
      BY <2>1 DEF WriteDropped, WriteBuffered, WriteFlushes, Idles
    <2>2. CASE Flush
      BY <2>2 DEF Flush, Idles
    <2>3. ASSUME NEW p \in Exits, FlushOnExit(p) \/ Close(p) PROVE Idles
      BY <2>3 DEF FlushOnExit, Close, Idles
    <2>4. ASSUME NEW p \in Exits, NEW r \in Records, FlushOnExitWith(p, r) PROVE Idles
      BY <2>4 DEF FlushOnExitWith, Idles
    <2> QED
      BY <1>2, <2>1, <2>2, <2>3, <2>4 DEF Calls
  <1>3. CASE FlushTimerFires \/ DelayElapses
    BY <1>3 DEF FlushTimerFires, DelayElapses, Idles
  <1>4. CASE DrainCommits
    BY <1>4 DEF DrainCommits, CommitCounts, DrainCounts
  <1>5. CASE TicketFails \/ TicketArrives \/ SocketOpens \/ OpenFails \/ PeerCloses
             \/ ConnectionFails \/ SendBatch \/ SendRefused \/ SendThrows
             \/ AckTimeout \/ DrainRefusesAck \/ DrainFails \/ DrainFinally
    BY <1>5 DEF TicketFails, TicketArrives, SocketOpens, OpenFails, PeerCloses,
       ConnectionFails, SendBatch, SendRefused, SendThrows, AckTimeout,
       DrainRefusesAck, DrainFails, DrainFinally, Hangup, Idles
  <1>6. ASSUME NEW g \in 1..Len(sockets), SocketClosed(g) PROVE Idles
    BY <1>6 DEF SocketClosed, Idles
  <1>7. ASSUME NEW m \in toClient, OnAck(m) PROVE Idles \/ Receives(m)
    BY <1>7 DEF OnAck, Hangup, Idles, Receives
  <1>8. ASSUME NEW m \in toServer, ServerMiscounts(m) PROVE Idles
    BY <1>8 DEF ServerMiscounts, Answer, Idles
  <1>9. ASSUME NEW p \in Exits, CloseFinishes(p) PROVE Idles
    BY <1>9 DEF CloseFinishes, Hangup, Idles
  <1>10. ASSUME NEW p \in Exits, ExitCommits(p) PROVE ExitCounts(p)
    BY <1>10 DEF ExitCommits, CommitCounts, ExitCounts
  <1>11. ASSUME NEW p \in Exits, FallbackCommits(p) \/ FallbackFails(p)
         PROVE  \/ Idles
                \/ \E i \in 1..Len(batches) : AnswersSocket(i) \/ AnswersExit(p, i)
    <2>1. exitBatch[p] \in 1..Len(batches)
      <3>1. exitBatch[p] # 0
        BY <1>11 DEF FallbackCommits, FallbackFails, TypeInv, HasBatch
      <3>2. exitBatch[p] \in 0..Len(batches) /\ Len(batches) \in Nat
        BY QueueType DEF TypeInv, TypeOK, ExitType
      <3> QED
        BY <3>1, <3>2
    <2>2. CASE FallbackCommits(p)
      <3>1. AnswersExit(p, exitBatch[p])
        <4>1. exitAck \in [Exits -> Counts]
          BY DEF TypeInv, TypeOK, ExitType
        <4> QED
          BY <2>2, <4>1 DEF FallbackCommits, AnswersExit, StoresFor
      <3> QED
        BY <2>1, <3>1
    <2>3. CASE FallbackFails(p)
      <3>1. UNCHANGED <<accepted, drainAck, exitAck, toClient>>
        BY <2>3 DEF FallbackFails
      <3>2. CASE committed' = committed
        BY <3>1, <3>2 DEF Idles
      <3>3. CASE committed' = committed \cup RecordsOf(exitBatch[p])
        <4> DEFINE n == Cardinality(RecordsOf(exitBatch[p]) \ committed)
                   m == [counts |-> [accepted |-> n]]
        <4>1. m.counts.accepted = n
          OBVIOUS
        <4> HIDE DEF m
        <4>2. AnswersSocket(exitBatch[p])
          BY <3>1, <3>3, <4>1 DEF AnswersSocket, StoresFor
        <4> QED
          BY <2>1, <4>2
      <3> QED
        BY <2>3, <3>2, <3>3 DEF FallbackFails
    <2> QED
      BY <1>11, <2>2, <2>3
  <1>12. ASSUME NEW m \in toServer, ServerCommits(m)
         PROVE  \E i \in 1..Len(batches) : AnswersSocket(i)
    <2>1. m.batch \in 1..Len(batches)
      BY DEF TypeInv, TypeOK, NetType
    <2>2. /\ StoresFor(m.batch) /\ UNCHANGED <<accepted, drainAck, exitAck>>
      BY <1>12 DEF ServerCommits, StoresFor
    <2> DEFINE new == RecordsOf(m.batch) \ committed
               counts == [accepted |-> Cardinality(new),
                          duplicates |-> Len(batches[m.batch].records) - Cardinality(new)]
               a == [batch |-> m.batch, counts |-> counts]
    <2>3. toClient' \in {toClient, toClient \cup {a}}
      BY <1>12 DEF ServerCommits, Answer
    <2>4. a.counts.accepted = Cardinality(new)
      OBVIOUS
    <2> HIDE DEF a
    <2>5. AnswersSocket(m.batch)
      BY <2>2, <2>3, <2>4 DEF AnswersSocket
    <2> QED
      BY <2>1, <2>5
  <1> QED
    BY <1>1, <1>2, <1>3, <1>4, <1>5, <1>6, <1>7, <1>8, <1>9, <1>10, <1>11, <1>12
       DEF Next, Progress, Faults

LEMMA CreditStep ==
    ASSUME TypeInv, OnePlace, Credit, [Next]_vars
    PROVE  Credit'
  <1> PICK o : Covers(o)
    BY DEF Credit
  <1>0. /\ IsFiniteSet(committed)
        /\ accepted \in Nat /\ drainAck.accepted \in Nat
        /\ \A p \in Exits : exitAck[p].accepted \in Nat
        /\ exitAck \in [Exits -> Counts] /\ NoCounts.accepted = 0
        /\ \A m \in toClient : m.counts.accepted \in Nat
    BY DEF Credit, TypeInv, TypeOK, CountType, DrainType, ExitType, NetType, Counts, NoCounts
  <1>1. \A h : Cardinality(Held(o, h)) \in Nat
    <2> TAKE h
    <2>1. Held(o, h) \subseteq committed
      BY DEF Held, Holding
    <2> QED
      BY <1>0, <2>1, FS_Subset, FS_CardinalityType
  <1>2. \A owner, h : Held(owner, h)' = Holding(committed', owner, h)
    BY DEF Held
  <1>3. CASE Idles
    <2>1. Covers(o)'
      <3>1. \A h : Held(o, h)' = Held(o, h)
        BY <1>2, <1>3 DEF Idles, Held
      <3>2. accepted' <= Cardinality(Held(o, Counted)')
        BY <1>3, <3>1 DEF Idles, Covers
      <3>3. drainAck'.accepted <= Cardinality(Held(o, WithDrain)')
        BY <1>0, <1>1, <1>3, <3>1 DEF Idles, Covers
      <3>4. \A p \in Exits : exitAck'[p].accepted <= Cardinality(Held(o, WithExit(p))')
        BY <1>3, <3>1 DEF Idles, Covers
      <3>5. \A m \in toClient' : m.counts.accepted <= Cardinality(Held(o, OnWire(m))')
        BY <1>0, <1>1, <1>3, <3>1 DEF Idles, Covers
      <3> QED
        BY <3>2, <3>3, <3>4, <3>5 DEF Covers
    <2> QED
      BY <1>0, <1>3, <2>1 DEF Idles, Credit
  <1>4. ASSUME committed' = committed,
               NEW f, NEW t, f # t,
               NEW o2, Cardinality(Held(o2, t)) = Cardinality(Held(o, t)) + Cardinality(Held(o, f)),
               \A g : g # f /\ g # t => Held(o2, g) = Held(o, g)
        PROVE  /\ Cardinality(Held(o2, t)') = Cardinality(Held(o, t)) + Cardinality(Held(o, f))
               /\ \A g : g # f /\ g # t => Held(o2, g)' = Held(o, g)
               /\ \A g : Cardinality(Held(o2, g)') \in Nat
    <2>1. \A g : Held(o2, g)' = Held(o2, g)
      BY <1>2, <1>4 DEF Held
    <2>2. \A g : Cardinality(Held(o2, g)) \in Nat
      <3> TAKE g
      <3>1. Held(o2, g) \subseteq committed
        BY DEF Held, Holding
      <3> QED
        BY <1>0, <3>1, FS_Subset, FS_CardinalityType
    <2> QED
      BY <1>4, <2>1, <2>2
  <1>5. ASSUME NEW m \in toClient, Receives(m) PROVE Credit'
    <2>0. committed' = committed /\ OnWire(m) # WithDrain
      BY <1>5, HoldersDiffer DEF Receives
    <2>1. PICK o2 :
            /\ Cardinality(Held(o2, WithDrain))
                 = Cardinality(Held(o, WithDrain)) + Cardinality(Held(o, OnWire(m)))
            /\ \A g : g # OnWire(m) /\ g # WithDrain => Held(o2, g) = Held(o, g)
      BY <1>0, <2>0, Transfer
    <2>2. /\ Cardinality(Held(o2, WithDrain)')
                = Cardinality(Held(o, WithDrain)) + Cardinality(Held(o, OnWire(m)))
          /\ \A g : g # OnWire(m) /\ g # WithDrain => Held(o2, g)' = Held(o, g)
          /\ \A g : Cardinality(Held(o2, g)') \in Nat
      BY <1>4, <2>0, <2>1
    <2>3. accepted' <= Cardinality(Held(o2, Counted)')
      BY <1>5, <2>2, HoldersDiffer DEF Receives, Covers
    <2>4. drainAck'.accepted <= Cardinality(Held(o2, WithDrain)')
      <3>1. /\ drainAck' = m.counts /\ m.counts.accepted \in Nat
            /\ m.counts.accepted <= Cardinality(Held(o, OnWire(m)))
        BY <1>0, <1>5 DEF Receives, Covers
      <3>2. Cardinality(Held(o, OnWire(m))) \in Nat /\ Cardinality(Held(o, WithDrain)) \in Nat
        BY <1>1
      <3> QED
        BY <2>2, <3>1, <3>2
    <2>5. \A p \in Exits : exitAck'[p].accepted <= Cardinality(Held(o2, WithExit(p))')
      BY <1>5, <2>2, HoldersDiffer DEF Receives, Covers
    <2>6. \A n \in toClient' : n.counts.accepted <= Cardinality(Held(o2, OnWire(n))')
      BY <1>5, <2>2, HoldersDiffer DEF Receives, Covers
    <2> QED
      BY <1>0, <2>0, <2>3, <2>4, <2>5, <2>6 DEF Credit, Covers
  <1>6. CASE DrainCounts
    <2>0. committed' = committed /\ WithDrain # Counted
      BY <1>6, HoldersDiffer DEF DrainCounts
    <2>1. PICK o2 :
            /\ Cardinality(Held(o2, Counted))
                 = Cardinality(Held(o, Counted)) + Cardinality(Held(o, WithDrain))
            /\ \A g : g # WithDrain /\ g # Counted => Held(o2, g) = Held(o, g)
      BY <1>0, <2>0, Transfer
    <2>2. /\ Cardinality(Held(o2, Counted)')
                = Cardinality(Held(o, Counted)) + Cardinality(Held(o, WithDrain))
          /\ \A g : g # WithDrain /\ g # Counted => Held(o2, g)' = Held(o, g)
          /\ \A g : Cardinality(Held(o2, g)') \in Nat
      BY <1>4, <2>0, <2>1
    <2>3. accepted' <= Cardinality(Held(o2, Counted)')
      <3>1. /\ accepted' = accepted + drainAck.accepted
            /\ accepted <= Cardinality(Held(o, Counted))
            /\ drainAck.accepted <= Cardinality(Held(o, WithDrain))
        BY <1>6 DEF DrainCounts, Covers
      <3>2. Cardinality(Held(o, Counted)) \in Nat /\ Cardinality(Held(o, WithDrain)) \in Nat
        BY <1>1
      <3> QED
        BY <1>0, <2>2, <3>1, <3>2
    <2>4. drainAck'.accepted <= Cardinality(Held(o2, WithDrain)')
      BY <1>0, <1>6, <2>2 DEF DrainCounts
    <2>5. \A p \in Exits : exitAck'[p].accepted <= Cardinality(Held(o2, WithExit(p))')
      BY <1>6, <2>2, HoldersDiffer DEF DrainCounts, Covers
    <2>6. \A n \in toClient' : n.counts.accepted <= Cardinality(Held(o2, OnWire(n))')
      BY <1>6, <2>2, HoldersDiffer DEF DrainCounts, Covers
    <2> QED
      BY <1>0, <2>0, <2>3, <2>4, <2>5, <2>6 DEF Credit, Covers
  <1>7. ASSUME NEW p \in Exits, ExitCounts(p) PROVE Credit'
    <2>0. committed' = committed /\ WithExit(p) # Counted
      BY <1>7, HoldersDiffer DEF ExitCounts
    <2>1. PICK o2 :
            /\ Cardinality(Held(o2, Counted))
                 = Cardinality(Held(o, Counted)) + Cardinality(Held(o, WithExit(p)))
            /\ \A g : g # WithExit(p) /\ g # Counted => Held(o2, g) = Held(o, g)
      BY <1>0, <2>0, Transfer
    <2>2. /\ Cardinality(Held(o2, Counted)')
                = Cardinality(Held(o, Counted)) + Cardinality(Held(o, WithExit(p)))
          /\ \A g : g # WithExit(p) /\ g # Counted => Held(o2, g)' = Held(o, g)
          /\ \A g : Cardinality(Held(o2, g)') \in Nat
      BY <1>4, <2>0, <2>1
    <2>3. accepted' <= Cardinality(Held(o2, Counted)')
      <3>1. /\ accepted' = accepted + exitAck[p].accepted
            /\ accepted <= Cardinality(Held(o, Counted))
            /\ exitAck[p].accepted <= Cardinality(Held(o, WithExit(p)))
        BY <1>7 DEF ExitCounts, Covers
      <3>2. /\ Cardinality(Held(o, Counted)) \in Nat
            /\ Cardinality(Held(o, WithExit(p))) \in Nat
            /\ accepted \in Nat /\ exitAck[p].accepted \in Nat
        BY <1>0, <1>1
      <3> QED
        BY <2>2, <3>1, <3>2
    <2>4. drainAck'.accepted <= Cardinality(Held(o2, WithDrain)')
      BY <1>7, <2>2, HoldersDiffer DEF ExitCounts, Covers
    <2>5. ASSUME NEW q \in Exits
          PROVE  exitAck'[q].accepted <= Cardinality(Held(o2, WithExit(q))')
      <3>1. CASE q = p
        <4>1. exitAck'[q].accepted = 0
          BY <1>0, <1>7, <3>1 DEF ExitCounts
        <4> QED
          BY <2>2, <4>1
      <3>2. CASE q # p
        <4>1. exitAck'[q] = exitAck[q]
          BY <1>0, <1>7, <3>2 DEF ExitCounts
        <4> QED
          BY <2>2, <3>2, <4>1, HoldersDiffer DEF Covers
      <3> QED
        BY <3>1, <3>2
    <2>6. \A n \in toClient' : n.counts.accepted <= Cardinality(Held(o2, OnWire(n))')
      BY <1>7, <2>2, HoldersDiffer DEF ExitCounts, Covers
    <2> QED
      BY <1>0, <2>0, <2>3, <2>4, <2>5, <2>6 DEF Credit, Covers
  <1>8. ASSUME NEW i \in 1..Len(batches), StoresFor(i), NEW h
        PROVE  /\ IsFiniteSet(committed')
               /\ \E o2 :
                    /\ Cardinality(RecordsOf(i) \ committed) <= Cardinality(Held(o2, h)')
                    /\ \A g : Cardinality(Held(o, g)) <= Cardinality(Held(o2, g)')
                    /\ \A g : Cardinality(Held(o2, g)') \in Nat
    <2> DEFINE N == RecordsOf(i) \ committed
    <2>1. IsFiniteSet(N)
      <3>1. IsFiniteSet(RecordsOf(i))
        BY QueueType, InjectiveCardinality DEF OnePlace, RecordsOf
      <3> QED
        BY <3>1, FS_Subset
    <2>2. committed' = committed \cup N /\ N \cap committed = {}
      BY <1>8 DEF StoresFor
    <2> HIDE DEF N
    <2>3. IsFiniteSet(committed')
      BY <1>0, <2>1, <2>2, FS_Union
    <2>4. PICK o2 :
             /\ Cardinality(N) <= Cardinality(Holding(committed', o2, h))
             /\ \A g : Cardinality(Holding(committed, o, g)) <= Cardinality(Holding(committed', o2, g))
      BY <1>0, <2>1, <2>2, Grant
    <2>5. \A g : Cardinality(Held(o2, g)') \in Nat
      <3> TAKE g
      <3>1. Held(o2, g)' \subseteq committed'
        BY DEF Held, Holding
      <3> QED
        BY <2>3, <3>1, FS_Subset, FS_CardinalityType
    <2> QED
      BY <2>3, <2>4, <2>5 DEF Held, N
  <1>9. \A a, b, c : a \in Nat /\ b \in Nat /\ c \in Nat /\ a <= b /\ b <= c => a <= c
    OBVIOUS
  <1>10. ASSUME NEW i \in 1..Len(batches), NEW p \in Exits, AnswersExit(p, i) PROVE Credit'
    <2>1. /\ StoresFor(i) /\ accepted' = accepted /\ drainAck' = drainAck /\ toClient' = toClient
          /\ exitAck'[p].accepted = Cardinality(RecordsOf(i) \ committed)
          /\ \A q \in Exits : q # p => exitAck'[q] = exitAck[q]
      BY <1>10 DEF AnswersExit
    <2>2. PICK o2 :
            /\ Cardinality(RecordsOf(i) \ committed) <= Cardinality(Held(o2, WithExit(p))')
            /\ \A g : Cardinality(Held(o, g)) <= Cardinality(Held(o2, g)')
            /\ \A g : Cardinality(Held(o2, g)') \in Nat
      BY <1>8, <2>1
    <2>3. accepted' <= Cardinality(Held(o2, Counted)')
      BY <1>0, <1>1, <1>9, <2>1, <2>2 DEF Covers
    <2>4. drainAck'.accepted <= Cardinality(Held(o2, WithDrain)')
      BY <1>0, <1>1, <1>9, <2>1, <2>2 DEF Covers
    <2>5. \A q \in Exits : exitAck'[q].accepted <= Cardinality(Held(o2, WithExit(q))')
      BY <1>0, <1>1, <1>9, <2>1, <2>2 DEF Covers
    <2>6. \A n \in toClient' : n.counts.accepted <= Cardinality(Held(o2, OnWire(n))')
      BY <1>0, <1>1, <1>9, <2>1, <2>2 DEF Covers
    <2>7. IsFiniteSet(committed')
      BY <1>8, <2>1
    <2> QED
      BY <2>3, <2>4, <2>5, <2>6, <2>7 DEF Credit, Covers
  <1>11. ASSUME NEW i \in 1..Len(batches), AnswersSocket(i) PROVE Credit'
    <2>1. /\ StoresFor(i) /\ accepted' = accepted /\ drainAck' = drainAck /\ exitAck' = exitAck
      BY <1>11 DEF AnswersSocket
    <2>2. PICK m : /\ toClient' \in {toClient, toClient \cup {m}}
                   /\ m.counts.accepted = Cardinality(RecordsOf(i) \ committed)
      BY <1>11 DEF AnswersSocket
    <2>3. PICK o2 :
            /\ Cardinality(RecordsOf(i) \ committed) <= Cardinality(Held(o2, OnWire(m))')
            /\ \A g : Cardinality(Held(o, g)) <= Cardinality(Held(o2, g)')
            /\ \A g : Cardinality(Held(o2, g)') \in Nat
      BY <1>8, <2>1
    <2>4. accepted' <= Cardinality(Held(o2, Counted)')
      BY <1>0, <1>1, <1>9, <2>1, <2>3 DEF Covers
    <2>5. drainAck'.accepted <= Cardinality(Held(o2, WithDrain)')
      BY <1>0, <1>1, <1>9, <2>1, <2>3 DEF Covers
    <2>6. \A q \in Exits : exitAck'[q].accepted <= Cardinality(Held(o2, WithExit(q))')
      BY <1>0, <1>1, <1>9, <2>1, <2>3 DEF Covers
    <2>7. ASSUME NEW n \in toClient'
          PROVE  n.counts.accepted <= Cardinality(Held(o2, OnWire(n))')
      <3>1. CASE n \in toClient
        BY <1>0, <1>1, <1>9, <2>3, <3>1 DEF Covers
      <3>2. CASE n = m
        BY <2>2, <2>3, <3>2
      <3> QED
        BY <2>2, <3>1, <3>2
    <2>8. IsFiniteSet(committed')
      BY <1>8, <2>1
    <2> QED
      BY <2>4, <2>5, <2>6, <2>7, <2>8 DEF Credit, Covers
  <1> QED
    BY <1>3, <1>5, <1>6, <1>7, <1>10, <1>11, CreditSteps

LEMMA CreditInit == ASSUME Init PROVE OnePlace /\ Credit
  <1>1. IsFiniteSet(committed) /\ \A h : Held(<<>>, h) = {}
    BY FS_EmptySet DEF Init, Held, Holding
  <1>2. \A h : Cardinality(Held(<<>>, h)) = 0
    BY <1>1, FS_EmptySet
  <1>3. accepted = 0 /\ drainAck.accepted = 0 /\ toClient = {}
    BY DEF Init, NoCounts
  <1>4. \A p \in Exits : exitAck[p].accepted = 0
    BY DEF Init, NoCounts
  <1>5. Covers(<<>>)
    BY <1>2, <1>3, <1>4 DEF Covers
  <1> QED
    BY <1>1, <1>5, OnePlaceInit DEF Credit

(* Beside an exit fallback as without one, a record is in one batch only,    *)
(* so a replay carries the batch id the record had, and accepted counts it   *)
(* once, however the acknowledgements of socket and fallback interleave, are *)
(* lost or answer a replay.                                                *)
THEOREM ExactReplays == Spec => []ReplaysAreExact
  <1>1. Init => TypeInv /\ NoLostWakeup /\ OnePlace /\ Credit
    BY TypeInit, CreditInit DEF Init, NoLostWakeup
  <1>2. TypeInv /\ NoLostWakeup /\ OnePlace /\ Credit /\ [Next]_vars
          => TypeInv' /\ NoLostWakeup' /\ OnePlace' /\ Credit'
    BY TypeStep, WakeupStep, OnePlaceStep, CreditStep
  <1>3. ASSUME TypeInv, OnePlace, Credit PROVE ReplaysAreExact
    <2>1. ASSUME NEW i \in 1..Len(batches), NEW j \in 1..Len(batches), i # j
          PROVE  RecordsOf(i) \cap RecordsOf(j) = {}
      <3>1. i # 0 /\ j # 0
        BY QueueType, <1>3
      <3> QED
        BY <1>3, <2>1, <3>1 DEF OnePlace, RecordsOf
    <2>2. accepted <= Cardinality(committed)
      <3>1. PICK o : Covers(o)
        BY <1>3 DEF Credit
      <3>2. Held(o, Counted) \subseteq committed /\ IsFiniteSet(committed)
        BY <1>3 DEF Held, Holding, Credit
      <3>3. /\ Cardinality(Held(o, Counted)) <= Cardinality(committed)
            /\ Cardinality(Held(o, Counted)) \in Nat /\ Cardinality(committed) \in Nat
        BY <3>2, FS_Subset, FS_CardinalityType
      <3>4. accepted \in Nat /\ accepted <= Cardinality(Held(o, Counted))
        BY <1>3, <3>1 DEF Covers, TypeInv, TypeOK, CountType
      <3> QED
        BY <3>3, <3>4
    <2> QED
      BY <2>1, <2>2 DEF ReplaysAreExact, NoRecordInTwoBatches, AcceptedNotOvercounted
  <1> QED
    BY <1>1, <1>2, <1>3, PTL DEF Spec
=============================================================================
