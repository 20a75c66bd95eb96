------------------------ MODULE BrowserStreamProofs ------------------------
(***************************************************************************)
(* Safety of BrowserStream for every size of its queue and batches, any    *)
(* number of records and any number of failures.                           *)
(***************************************************************************)
EXTENDS BrowserStream, FiniteSetTheorems, SequenceTheorems, TLAPS

USE MaxQueueAssumption, BatchSizeAssumption, BoundAssumption
USE DEF optionVars, flushVars, connVars, exitVars, connFrame, sharedFrame

-----------------------------------------------------------------------------
(* Options and flags *)

Flags ==
    /\ mode \in Modes /\ beacon \in BOOLEAN /\ closed \in BOOLEAN
    /\ closing \in BOOLEAN /\ flushTimer \in BOOLEAN /\ wedged \in BOOLEAN
    /\ shared \in BOOLEAN /\ stranded \in BOOLEAN

LEMMA FlagsStep == ASSUME Flags, [Next]_vars PROVE Flags' /\ UNCHANGED optionVars
  <1>1. CASE UNCHANGED vars
    BY <1>1, Zenon DEF Flags, vars
  <1>2. CASE Calls
    <2>1. CASE Write \/ WriteIgnored
      BY <2>1, Zenon DEF Flags, Write, WriteIgnored, Schedule
    <2>2. CASE Flush \/ CloseFlushes
      BY <2>2, Zenon DEF Flags, Flush, CloseFlushes, NextBatch, FactoryThrows
    <2>3. ASSUME NEW rs, ExitBeacons(rs) \/ ExitReports(rs)
          PROVE  Flags' /\ UNCHANGED optionVars
      BY <2>3, Zenon DEF Flags, ExitBeacons, ExitReports, ExitFrame
    <2>4. CASE CloseNow
      BY <2>4, Zenon DEF Flags, CloseNow
    <2> QED
      BY <1>2, <2>1, <2>2, <2>3, <2>4, Zenon DEF Calls, PageHidden, FlushOnExitWith
  <1>3. ASSUME NEW q, FlushEnds(q), UNCHANGED <<optionVars, wedged>>
        PROVE  Flags' /\ UNCHANGED optionVars
    BY <1>3, Zenon DEF Flags, FlushEnds, Schedule
  <1>4. ASSUME NEW w, BatchSent(w) PROVE Flags' /\ UNCHANGED optionVars
    BY <1>3, <1>4, Zenon DEF Flags, BatchSent, FlushEnds
  <1>5. CASE SocketSends \/ SharedSends \/ SendThrows \/ FlushFails
    BY <1>3, <1>4, <1>5, Zenon
       DEF Flags, SocketSends, SharedSends, SendThrows, FlushFails, FlushEnds
  <1>6. CASE Events
    <2>1. CASE TimerFires
      BY <2>1, Zenon DEF Flags, TimerFires, NextBatch, FactoryThrows
    <2>2. CASE SocketOpens \/ ConnectFails \/ SharedConnects \/ SharedConnectFails
      BY <2>2, Zenon DEF Flags, SocketOpens, ConnectFails, SharedConnects, SharedConnectFails
    <2>3. CASE SharedSent \/ InnerWrote \/ SendRejects
      BY <1>4, <2>3, Zenon DEF Flags, SharedSent, InnerWrote, SendRejects
    <2>4. CASE YieldElapses
      BY <1>3, <2>4, Zenon DEF Flags, YieldElapses, NextBatch, FactoryThrows, FlushEnds
    <2>5. ASSUME NEW g, PeerCloses(g) \/ SocketCloses(g)
          PROVE  Flags' /\ UNCHANGED optionVars
      BY <2>5, Zenon DEF Flags, PeerCloses, SocketCloses
    <2> QED
      BY <1>6, <2>1, <2>2, <2>3, <2>4, <2>5, Zenon DEF Events
  <1> QED
    BY <1>1, <1>2, <1>5, <1>6, Zenon DEF Next

(* Queued records always have somebody who will look at them.               *)
LEMMA ScheduleStep ==
    ASSUME Flags, QueueIsScheduled, [Next]_vars PROVE QueueIsScheduled'
  <1>1. CASE UNCHANGED vars
    BY <1>1 DEF QueueIsScheduled, vars
  <1>2. ASSUME NextBatch PROVE flushPc' # "idle"
    BY <1>2 DEF NextBatch, FactoryThrows
  <1>3. ASSUME NEW w, BatchSent(w) PROVE QueueIsScheduled'
    BY <1>3 DEF BatchSent, QueueIsScheduled
  <1>4. CASE Write
    BY <1>4 DEF Write, Schedule, QueueIsScheduled
  <1>5. CASE Flush \/ CloseFlushes \/ TimerFires
    BY <1>2, <1>5 DEF Flush, CloseFlushes, TimerFires, CanFlush, QueueIsScheduled
  <1>6. CASE PageHidden \/ FlushOnExitWith
    BY <1>6 DEF PageHidden, FlushOnExitWith, ExitBeacons, ExitReports, ExitFrame,
       QueueIsScheduled
  <1>7. CASE CloseNow \/ WriteIgnored
    BY <1>7 DEF CloseNow, WriteIgnored, QueueIsScheduled
  <1>8. CASE SocketSends \/ SharedSent \/ InnerWrote
    BY <1>3, <1>8 DEF SocketSends, SharedSent, InnerWrote, QueueIsScheduled
  <1>9. CASE SharedSends \/ SendThrows \/ SendRejects \/ SocketOpens \/ ConnectFails
             \/ SharedConnects \/ SharedConnectFails
    BY <1>9 DEF SharedSends, SendThrows, SendRejects, SocketOpens, ConnectFails,
       SharedConnects, SharedConnectFails, QueueIsScheduled
  <1>10. CASE FlushFails
    BY <1>10 DEF FlushFails, FlushEnds, Schedule, QueueIsScheduled, Flags
  <1>11. CASE YieldElapses
    BY <1>2, <1>11 DEF YieldElapses, QueueIsScheduled
  <1>12. ASSUME NEW g \in 1..Len(sockets), PeerCloses(g) \/ SocketCloses(g)
         PROVE  QueueIsScheduled'
    BY <1>12 DEF PeerCloses, SocketCloses, QueueIsScheduled
  <1> QED
    BY <1>1, <1>4, <1>5, <1>6, <1>7, <1>8, <1>9, <1>10, <1>11, <1>12
       DEF Next, Calls, Events

-----------------------------------------------------------------------------
(* Sockets *)

(* The sockets the server may still hear from.                             *)
Live == {g \in 1..Len(sockets) : sockets[g] \in {"connecting", "open"}}

SocketType ==
    /\ flushPc \in FlushPcs /\ sockets \in Seq(SocketStates)
    /\ socket \in 0..Len(sockets) /\ connecting \in 0..Len(sockets)
    /\ orphaned \in Nat

(* A socket that connects is the one the flush waits for, and at most as    *)
(* many live ones are not the current one as a late onclose has orphaned.   *)
SocketState ==
    /\ connecting # 0 =>
          flushPc = "connect" /\ mode = "socket" /\ socket \in {0, connecting}
    /\ \A g \in 1..Len(sockets) : sockets[g] = "connecting" => g = connecting
    /\ Cardinality(Live \ {socket}) <= orphaned

SocketInv == SocketType /\ SocketState

(* Fewer live sockets, or the same.                                        *)
LEMMA FewerLive ==
    ASSUME SocketInv, sockets' \in Seq(SocketStates),
           Live' \ {socket'} \subseteq Live \ {socket}
    PROVE  Cardinality(Live' \ {socket'}) <= orphaned
  <1>1. IsFiniteSet(Live \ {socket})
    <2>1. IsFiniteSet(1..Len(sockets)) /\ Live \ {socket} \subseteq 1..Len(sockets)
      BY FS_Interval DEF SocketInv, SocketType, Live
    <2> QED
      BY <2>1, FS_Subset
  <1>2. /\ IsFiniteSet(Live' \ {socket'})
        /\ Cardinality(Live' \ {socket'}) <= Cardinality(Live \ {socket})
    BY <1>1, FS_Subset
  <1>3. Cardinality(Live' \ {socket'}) \in Nat /\ Cardinality(Live \ {socket}) \in Nat
    BY <1>1, <1>2, FS_CardinalityType
  <1> QED
    BY <1>2, <1>3 DEF SocketInv, SocketType, SocketState

(* A step that leaves the sockets alone.                                   *)
LEMMA SocketsStay ==
    ASSUME SocketInv, UNCHANGED <<mode, sockets, socket, connecting, orphaned>>,
           flushPc' \in FlushPcs, connecting = 0 \/ flushPc' = "connect"
    PROVE  SocketInv'
  BY DEF SocketInv, SocketType, SocketState, Live

(* this.socket is closed and forgotten.                                    *)
LEMMA SocketsDrop ==
    ASSUME SocketInv, UNCHANGED <<mode, connecting, orphaned>>, socket' = 0,
           sockets' = IF socket = 0 THEN sockets ELSE [sockets EXCEPT ![socket] = "closing"],
           flushPc' \in FlushPcs, connecting = 0 \/ flushPc' = "connect"
    PROVE  SocketInv'
  <1>1. SocketType'
    BY DEF SocketInv, SocketType, SocketStates
  <1>2. /\ Len(sockets') = Len(sockets)
        /\ \A g \in 1..Len(sockets) :
             sockets'[g] = IF g = socket THEN "closing" ELSE sockets[g]
    BY DEF SocketInv, SocketType
  <1>3. Live' \ {socket'} \subseteq Live \ {socket}
    BY <1>2 DEF Live
  <1>4. Cardinality(Live' \ {socket'}) <= orphaned
    BY <1>1, <1>3, FewerLive DEF SocketType
  <1> QED
    BY <1>1, <1>2, <1>4 DEF SocketInv, SocketState

(* The flush reaches for its destination, perhaps over a new socket.        *)
LEMMA NextBatchSockets ==
    ASSUME SocketInv, connecting = 0, NextBatch, UNCHANGED mode
    PROVE  SocketInv'
  <1>1. CASE UNCHANGED <<sockets, socket, connecting, orphaned>>
    <2>1. flushPc' \in FlushPcs
      BY DEF NextBatch, FactoryThrows, FlushPcs
    <2> QED
      BY <1>1, <2>1, SocketsStay
  <1>2. CASE /\ mode = "socket" /\ NeedsSocket
             /\ sockets' = Append(sockets, "connecting")
             /\ socket' = Len(sockets) + 1 /\ connecting' = Len(sockets) + 1
             /\ flushPc' = "connect" /\ UNCHANGED orphaned
    <2>1. SocketType'
      BY <1>2 DEF SocketInv, SocketType, SocketStates, FlushPcs
    <2>2. /\ Len(sockets') = Len(sockets) + 1 /\ sockets'[Len(sockets) + 1] = "connecting"
          /\ \A g \in 1..Len(sockets) : sockets'[g] = sockets[g] /\ sockets[g] # "connecting"
          /\ \A g \in 1..Len(sockets') : g \in 1..Len(sockets) \/ g = Len(sockets) + 1
      BY <1>2 DEF SocketInv, SocketType, SocketState
    <2>3. socket \notin Live
      BY <1>2, <2>2 DEF Live, NeedsSocket, IsOpen
    <2>4. Live' \ {socket'} \subseteq Live \ {socket}
      BY <1>2, <2>2, <2>3 DEF Live
    <2>5. Cardinality(Live' \ {socket'}) <= orphaned
      BY <2>1, <2>4, FewerLive DEF SocketType
    <2> QED
      BY <1>2, <2>1, <2>2, <2>5 DEF SocketInv, SocketState
  <1> QED
    BY <1>1, <1>2 DEF NextBatch, FactoryThrows

LEMMA FlushEndsSockets ==
    ASSUME SocketInv, connecting = 0, NEW q, FlushEnds(q), UNCHANGED mode
    PROVE  SocketInv'
  <1>1. flushPc' \in FlushPcs
    BY DEF FlushEnds, FlushPcs
  <1>2. CASE closing
    BY <1>1, <1>2, SocketsDrop DEF FlushEnds
  <1>3. CASE ~closing
    BY <1>1, <1>3, SocketsStay DEF FlushEnds
  <1> QED
    BY <1>2, <1>3

(* onclose: what it forgets beside its own socket, it orphans.              *)
LEMMA SocketClosesStep ==
    ASSUME SocketInv, NEW g \in 1..Len(sockets), SocketCloses(g)
    PROVE  SocketInv'
  <1>1. SocketType'
    BY DEF SocketInv, SocketType, SocketCloses, SocketStates, FlushPcs
  <1>2. /\ Len(sockets') = Len(sockets) /\ sockets[g] = "closing"
        /\ \A h \in 1..Len(sockets) : sockets'[h] = IF h = g THEN "closed" ELSE sockets[h]
    BY DEF SocketInv, SocketType, SocketCloses
  <1>3. Live' = Live /\ g \notin Live
    BY <1>2 DEF Live
  <1>4. Cardinality(Live' \ {socket'}) <= orphaned'
    <2>1. CASE socket \in {0, g}
      <3>1. Live' \ {socket'} \subseteq Live \ {socket}
        BY <1>3, <2>1 DEF SocketCloses
      <3>2. orphaned' = orphaned
        BY <2>1 DEF SocketCloses, SocketInv, SocketType
      <3>3. sockets' \in Seq(SocketStates)
        BY <1>1 DEF SocketType
      <3> QED
        BY <3>1, <3>2, <3>3, FewerLive
    <2>2. CASE socket \notin {0, g}
      <3>0. orphaned' = orphaned + 1 /\ socket' = 0 /\ orphaned \in Nat
        BY <2>2 DEF SocketCloses, SocketInv, SocketType
      <3>1. IsFiniteSet(Live) /\ IsFiniteSet(Live \ {socket})
        <4>1. IsFiniteSet(1..Len(sockets)) /\ Live \subseteq 1..Len(sockets)
          BY FS_Interval DEF SocketInv, SocketType, Live
        <4> QED
          BY <4>1, FS_Subset
      <3>2. Cardinality(Live) <= Cardinality(Live \ {socket}) + 1
        <4>1. CASE socket \in Live
          <5>1. Cardinality(Live \ {socket}) = Cardinality(Live) - 1
            BY <3>1, <4>1, FS_RemoveElement
          <5> QED
            BY <3>1, <5>1, FS_CardinalityType
        <4>2. CASE socket \notin Live
          <5>1. Live \ {socket} = Live
            BY <4>2
          <5> QED
            BY <3>1, <5>1, FS_CardinalityType
        <4> QED
          BY <4>1, <4>2
      <3>3. Live' \ {socket'} = Live
        BY <1>3, <3>0 DEF Live
      <3>4. Cardinality(Live) \in Nat /\ Cardinality(Live \ {socket}) \in Nat
            /\ Cardinality(Live \ {socket}) <= orphaned
        BY <3>1, FS_CardinalityType DEF SocketInv, SocketState
      <3>5. Cardinality(Live) <= orphaned + 1
        BY <3>0, <3>2, <3>4
      <3> QED
        BY <3>0, <3>3, <3>5
    <2> QED
      BY <2>1, <2>2
  <1>5. /\ connecting' # 0 =>
             flushPc' = "connect" /\ mode' = "socket" /\ socket' \in {0, connecting'}
        /\ \A h \in 1..Len(sockets') : sockets'[h] = "connecting" => h = connecting'
    BY <1>2 DEF SocketCloses, SocketInv, SocketState
  <1> QED
    BY <1>1, <1>4, <1>5 DEF SocketInv, SocketState

LEMMA SocketOpensStep == ASSUME SocketInv, SocketOpens PROVE SocketInv'
  <1>1. SocketType'
    BY DEF SocketInv, SocketType, SocketOpens, SocketStates, FlushPcs
  <1>2. /\ Len(sockets') = Len(sockets) /\ sockets[connecting] = "connecting"
        /\ \A h \in 1..Len(sockets) :
             sockets'[h] = IF h = connecting THEN "open" ELSE sockets[h]
    BY DEF SocketInv, SocketType, SocketOpens
  <1>3. Live' = Live /\ socket' = socket /\ orphaned' = orphaned
    BY <1>2 DEF Live, SocketOpens
  <1> QED
    BY <1>1, <1>2, <1>3 DEF SocketInv, SocketState, SocketOpens

LEMMA ConnectFailsStep == ASSUME SocketInv, ConnectFails PROVE SocketInv'
  <1>1. SocketType'
    BY DEF SocketInv, SocketType, ConnectFails, SocketStates, FlushPcs
  <1>2. /\ Len(sockets') = Len(sockets)
        /\ \A h \in 1..Len(sockets) :
             sockets'[h] = IF h = connecting THEN "closing" ELSE sockets[h]
    BY DEF SocketInv, SocketType, ConnectFails
  <1>3. Live' \ {socket'} \subseteq Live \ {socket}
    BY <1>2 DEF Live, ConnectFails, SocketInv, SocketState
  <1>4. Cardinality(Live' \ {socket'}) <= orphaned'
    BY <1>1, <1>3, FewerLive DEF SocketType, ConnectFails
  <1> QED
    BY <1>1, <1>2, <1>4 DEF SocketInv, SocketState, ConnectFails

LEMMA PeerClosesStep ==
    ASSUME SocketInv, NEW g \in 1..Len(sockets), PeerCloses(g)
    PROVE  SocketInv'
  <1>1. SocketType'
    BY DEF SocketInv, SocketType, PeerCloses, SocketStates, FlushPcs
  <1>2. /\ Len(sockets') = Len(sockets)
        /\ \A h \in 1..Len(sockets) :
             sockets'[h] = IF h = g THEN "closing" ELSE sockets[h]
    BY DEF SocketInv, SocketType, PeerCloses
  <1>3. Live' \ {socket'} \subseteq Live \ {socket}
    BY <1>2 DEF Live, PeerCloses
  <1>4. Cardinality(Live' \ {socket'}) <= orphaned'
    BY <1>1, <1>3, FewerLive DEF SocketType, PeerCloses
  <1> QED
    BY <1>1, <1>2, <1>4 DEF SocketInv, SocketState, PeerCloses

LEMMA SocketStep == ASSUME SocketInv, [Next]_vars, UNCHANGED optionVars PROVE SocketInv'
  <1>0. flushPc \in FlushPcs /\ (connecting # 0 => flushPc = "connect" /\ mode = "socket")
    BY DEF SocketInv, SocketType, SocketState
  <1>1. CASE UNCHANGED vars
    BY <1>0, <1>1, SocketsStay DEF vars
  <1>2. CASE Write \/ WriteIgnored
    BY <1>0, <1>2, SocketsStay DEF Write, WriteIgnored
  <1>3. CASE PageHidden \/ FlushOnExitWith
    BY <1>0, <1>3, SocketsStay
       DEF PageHidden, FlushOnExitWith, ExitBeacons, ExitReports, ExitFrame
  <1>4. CASE Flush \/ CloseFlushes
    BY <1>0, <1>4, NextBatchSockets DEF Flush, CloseFlushes, CanFlush
  <1>5. CASE CloseNow
    BY <1>0, <1>5, SocketsDrop DEF CloseNow
  <1>6. CASE TimerFires
    <2>1. CASE CanFlush /\ NextBatch
      BY <1>0, <2>1, NextBatchSockets DEF CanFlush
    <2>2. CASE UNCHANGED <<flushVars, connVars, faults>>
      BY <1>0, <2>2, SocketsStay
    <2> QED
      BY <1>6, <2>1, <2>2 DEF TimerFires
  <1>7. CASE SharedConnects \/ SharedConnectFails
    BY <1>0, <1>7, SocketsStay DEF SharedConnects, SharedConnectFails, FlushPcs
  <1>8. ASSUME NEW w, BatchSent(w), flushPc # "connect" PROVE SocketInv'
    <2>1. CASE flushPc' = "yield" /\ UNCHANGED connVars
      BY <1>0, <1>8, <2>1, SocketsStay DEF FlushPcs
    <2>2. CASE FlushEnds(<<>>)
      BY <1>0, <1>8, <2>2, FlushEndsSockets
    <2> QED
      BY <1>8, <2>1, <2>2 DEF BatchSent
  <1>9. CASE SocketSends \/ SharedSent
    BY <1>8, <1>9 DEF SocketSends, SharedSent
  <1>10. CASE InnerWrote
    <2>1. CASE UNCHANGED <<flushPc, connVars>>
      BY <1>0, <2>1, SocketsStay
    <2>2. CASE BatchSent(<<batch[batchAt]>>)
      BY <1>8, <1>10, <2>2 DEF InnerWrote
    <2> QED
      BY <1>10, <2>1, <2>2 DEF InnerWrote
  <1>11. CASE SendRejects \/ SharedSends \/ SendThrows
    BY <1>0, <1>11, SocketsStay DEF SendRejects, SharedSends, SendThrows, FlushPcs
  <1>12. CASE YieldElapses
    BY <1>0, <1>12, NextBatchSockets, FlushEndsSockets DEF YieldElapses
  <1>13. CASE FlushFails
    BY <1>0, <1>13, FlushEndsSockets DEF FlushFails
  <1> QED
    BY <1>1, <1>2, <1>3, <1>4, <1>5, <1>6, <1>7, <1>9, <1>10, <1>11, <1>12, <1>13,
       SocketOpensStep, ConnectFailsStep, PeerClosesStep, SocketClosesStep
       DEF Next, Calls, Events

LEMMA SocketInit == Init => SocketInv
  <1> SUFFICES ASSUME Init PROVE SocketInv
    OBVIOUS
  <1>1. SocketType
    BY DEF Init, SocketType, FlushPcs
  <1>2. Live \ {socket} = {}
    BY DEF Init, Live
  <1>3. Cardinality(Live \ {socket}) = 0
    BY <1>2, FS_EmptySet
  <1> QED
    BY <1>1, <1>3 DEF Init, SocketInv, SocketState

LEMMA SocketsAreOne == SocketInv => OneSocket
  <1> SUFFICES ASSUME SocketInv PROVE OneSocket
    OBVIOUS
  <1> DEFINE Opened == {g \in 1..Len(sockets) : sockets[g] = "open"}
  <1>1. IsFiniteSet(Live \ {socket})
    <2>1. IsFiniteSet(1..Len(sockets)) /\ Live \ {socket} \subseteq 1..Len(sockets)
      BY FS_Interval DEF SocketInv, SocketType, Live
    <2> QED
      BY <2>1, FS_Subset
  <1>2. /\ IsFiniteSet((Live \ {socket}) \cup {socket})
        /\ Cardinality((Live \ {socket}) \cup {socket}) <= Cardinality(Live \ {socket}) + 1
    <2>1. socket \notin Live \ {socket}
      OBVIOUS
    <2>2. /\ IsFiniteSet((Live \ {socket}) \cup {socket})
          /\ Cardinality((Live \ {socket}) \cup {socket}) = Cardinality(Live \ {socket}) + 1
      BY <1>1, <2>1, FS_AddElement, Zenon
    <2>3. Cardinality(Live \ {socket}) \in Nat
      BY <1>1, FS_CardinalityType
    <2> QED
      BY <2>2, <2>3
  <1>3. Opened \subseteq (Live \ {socket}) \cup {socket}
    BY DEF Live
  <1>4. IsFiniteSet(Opened) /\ Cardinality(Opened) <= Cardinality((Live \ {socket}) \cup {socket})
    BY <1>2, <1>3, FS_Subset
  <1>5. /\ Cardinality(Opened) \in Nat /\ Cardinality(Live \ {socket}) \in Nat
        /\ Cardinality((Live \ {socket}) \cup {socket}) \in Nat
    BY <1>1, <1>2, <1>4, FS_CardinalityType
  <1>6. Cardinality(Live \ {socket}) <= orphaned /\ orphaned \in Nat
    BY DEF SocketInv, SocketState, SocketType
  <1>7. Cardinality(Opened) <= 1 + orphaned
    BY <1>2, <1>4, <1>5, <1>6
  <1> QED
    BY <1>7 DEF OneSocket

-----------------------------------------------------------------------------
(* What a step does to the records *)

(* The flush holds a batch between its peek and its end; an inner transport *)
(* has been given the ones before batchAt.                                 *)
Control ==
    /\ batch = <<>> <=> flushPc \in {"idle", "yield"}
    /\ batch = <<>> \/ mode # "transport" => batchAt = 0
    /\ batch # <<>> /\ mode = "transport" => batchAt \in 1..Len(batch)

Rests == UNCHANGED <<queue, batch, batchAt, wire, written, dropped, exitVars, ignored>>

Peeks ==
    /\ batch = <<>> /\ queue # <<>>
    /\ batch' = SubSeq(queue, 1, Least(BatchSize, Len(queue)))
    /\ batchAt' = IF mode = "transport" THEN 1 ELSE 0
    /\ UNCHANGED <<queue, wire, written, dropped, exitVars, ignored>>

Finishes ==
    /\ batch # <<>> /\ batch' = <<>> /\ batchAt' = 0
    /\ queue' = Drained
    /\ \/ mode # "transport" /\ wire' = wire \o batch
       \/ /\ mode = "transport" /\ batchAt = Len(batch)
          /\ wire' = wire \o <<batch[batchAt]>>
    /\ UNCHANGED <<written, dropped, exitVars, ignored>>

GivesOne ==
    /\ mode = "transport" /\ batchAt < Len(batch)
    /\ wire' = Append(wire, batch[batchAt])
    /\ batchAt' = batchAt + 1
    /\ UNCHANGED <<queue, batch, written, dropped, exitVars, ignored>>

Abandons ==
    /\ batch' = <<>> /\ batchAt' = 0
    /\ UNCHANGED <<queue, wire, written, dropped, exitVars, ignored>>

Buffers ==
    /\ written < MaxWrites /\ written' = written + 1
    /\ LET longer == Append(queue, written')
           excess == Excess(Len(longer))
       IN  /\ queue' = SubSeq(longer, excess + 1, Len(longer))
           /\ dropped' = dropped + excess
    /\ UNCHANGED <<batch, batchAt, wire, exitVars, ignored>>

Ignores ==
    /\ written < MaxWrites /\ written' = written + 1
    /\ ignored' = ignored \cup {written'}
    /\ UNCHANGED <<queue, batch, batchAt, wire, dropped, exitVars>>

(* A page teardown, with the record of a flushOnExit() among rs.            *)
Leaves(rs) ==
    /\ \/ rs = {} /\ written' = written
       \/ rs = {written'} /\ written < MaxWrites /\ written' = written + 1
    /\ \/ /\ beaconed' = beaconed \cup ToSet(queue) \cup rs
          /\ queue' = <<>> /\ told' = told
          /\ cleared' = cleared + (IF batch = <<>> THEN 0 ELSE Len(queue))
       \/ told' = told \cup rs /\ UNCHANGED <<queue, beaconed, cleared>>
    /\ UNCHANGED <<batch, batchAt, wire, dropped, ignored>>

Kinds ==
    \/ Rests \/ Peeks \/ Finishes \/ GivesOne \/ Abandons \/ Buffers \/ Ignores
    \/ \E rs : Leaves(rs)

(* The head of the loop, idle or after a pause, peeks the next batch.       *)
LEMMA PeekKind ==
    ASSUME Control, NextBatch, flushPc \in {"idle", "yield"}, mode \in Modes, UNCHANGED mode,
           queue \in Seq(1..written),
           UNCHANGED <<queue, wire, written, dropped, exitVars, ignored>>
    PROVE  Peeks /\ Control'
  <1>1. /\ batch = <<>> /\ batchAt = 0 /\ queue # <<>>
        /\ batch' = SubSeq(queue, 1, Least(BatchSize, Len(queue)))
        /\ flushPc' \notin {"idle", "yield"}
    BY DEF Control, NextBatch, FactoryThrows
  <1>2. batchAt' = IF mode = "transport" THEN 1 ELSE 0
    BY <1>1 DEF NextBatch, FactoryThrows
  <1>3. Len(queue) \in Nat \ {0}
    BY <1>1, EmptySeq
  <1>4. Least(BatchSize, Len(queue)) \in 1..Len(queue)
    BY <1>3 DEF Least
  <1>5. Len(batch') = Least(BatchSize, Len(queue))
    BY <1>1, <1>3, <1>4
  <1>6. batch' # <<>> /\ 1 \in 1..Len(batch')
    BY <1>4, <1>5
  <1> QED
    BY <1>1, <1>2, <1>6 DEF Peeks, Control

LEMMA EndKind ==
    ASSUME NEW q, FlushEnds(q) PROVE batch' = <<>> /\ batchAt' = 0 /\ flushPc' = "idle"
  BY DEF FlushEnds

LEMMA StepKind ==
    ASSUME Flags, SocketInv, Control, queue \in Seq(1..written), [Next]_vars,
           UNCHANGED optionVars
    PROVE  Kinds /\ Control'
  <1>0. mode \in Modes /\ (connecting # 0 => flushPc = "connect")
    BY DEF Flags, SocketInv, SocketState
  <1>1. ASSUME UNCHANGED <<batch, batchAt>>, flushPc \in {"idle", "yield"} <=> flushPc' \in {"idle", "yield"}
        PROVE  Control'
    BY <1>1 DEF Control
  <1>2. ASSUME NextBatch, flushPc \in {"idle", "yield"},
               UNCHANGED <<queue, wire, written, dropped, exitVars, ignored>>
        PROVE  Kinds /\ Control'
    BY <1>0, <1>2, PeekKind DEF Kinds
  <1>3. ASSUME batch' = <<>>, batchAt' = 0, flushPc' \in {"idle", "yield"} PROVE Control'
    BY <1>3 DEF Control
  <1>4. CASE UNCHANGED vars
    BY <1>1, <1>4 DEF vars, Kinds, Rests
  <1>5. CASE Write
    BY <1>1, <1>5 DEF Write, Hand, Kinds, Buffers
  <1>6. CASE WriteIgnored
    BY <1>1, <1>6 DEF WriteIgnored, Hand, Kinds, Ignores
  <1>7. CASE Flush \/ CloseFlushes
    BY <1>2, <1>7 DEF Flush, CloseFlushes, CanFlush
  <1>8. CASE PageHidden
    <2>1. Leaves({})
      BY <1>8 DEF PageHidden, ExitBeacons, ExitReports, ExitFrame, Leaves
    <2> QED
      BY <1>1, <1>8, <2>1 DEF PageHidden, ExitBeacons, ExitReports, ExitFrame, Kinds
  <1>9. CASE FlushOnExitWith
    <2>1. Leaves({written'})
      BY <1>9 DEF FlushOnExitWith, Hand, ExitBeacons, ExitReports, ExitFrame, Leaves
    <2> QED
      BY <1>1, <1>9, <2>1 DEF FlushOnExitWith, ExitBeacons, ExitReports, ExitFrame, Kinds
  <1>10. CASE CloseNow
    BY <1>1, <1>10 DEF CloseNow, Kinds, Rests
  <1>11. CASE TimerFires
    <2>1. CASE CanFlush /\ NextBatch
      BY <1>2, <1>11, <2>1 DEF TimerFires, CanFlush
    <2>2. CASE UNCHANGED <<flushVars, connVars, faults>>
      BY <1>1, <1>11, <2>2 DEF TimerFires, Kinds, Rests
    <2> QED
      BY <1>11, <2>1, <2>2 DEF TimerFires
  <1>12. CASE SocketOpens \/ ConnectFails
    BY <1>0, <1>1, <1>12 DEF SocketOpens, ConnectFails, Kinds, Rests
  <1>13. CASE SharedConnects \/ SharedConnectFails \/ SharedSends \/ SendThrows \/ SendRejects
    BY <1>1, <1>13 DEF SharedConnects, SharedConnectFails, SharedSends, SendThrows, SendRejects,
       Kinds, Rests
  <1>14. ASSUME NEW w, BatchSent(w) PROVE batch' = <<>> /\ batchAt' = 0 /\ flushPc' \in {"idle", "yield"}
    BY <1>14, EndKind DEF BatchSent
  <1>15. CASE SocketSends \/ SharedSent
    BY <1>3, <1>14, <1>15 DEF SocketSends, SharedSent, BatchSent, Control, Kinds, Finishes
  <1>16. CASE InnerWrote
    <2>1. CASE batchAt = Len(batch)
      <3>1. BatchSent(<<batch[batchAt]>>)
        BY <1>16, <2>1 DEF InnerWrote
      <3> QED
        BY <1>3, <1>14, <1>16, <2>1, <3>1 DEF InnerWrote, BatchSent, Control, Kinds, Finishes
    <2>2. CASE batchAt # Len(batch)
      <3>1. GivesOne /\ UNCHANGED <<flushPc, mode>>
        BY <1>16, <2>2, Zenon DEF InnerWrote, GivesOne
      <3>2. batch # <<>> /\ batchAt \in 1..Len(batch)
        BY <1>16 DEF InnerWrote, Control
      <3>3. batchAt' \in 1..Len(batch')
        BY <3>1, <3>2 DEF GivesOne
      <3> QED
        BY <3>1, <3>2, <3>3 DEF GivesOne, Control, Kinds
    <2> QED
      BY <1>16, <2>1, <2>2 DEF InnerWrote
  <1>17. CASE YieldElapses
    <2>1. CASE NextBatch
      BY <1>2, <1>17, <2>1 DEF YieldElapses
    <2>2. CASE FlushEnds(<<>>)
      BY <1>3, <1>17, <2>2, EndKind DEF YieldElapses, Kinds, Abandons
    <2> QED
      BY <1>17, <2>1, <2>2 DEF YieldElapses
  <1>18. CASE FlushFails
    BY <1>3, <1>18, EndKind DEF FlushFails, Kinds, Abandons
  <1>19. ASSUME NEW g \in 1..Len(sockets), PeerCloses(g) \/ SocketCloses(g)
         PROVE  Kinds /\ Control'
    BY <1>0, <1>1, <1>19 DEF PeerCloses, SocketCloses, Kinds, Rests
  <1> QED
    BY <1>4, <1>5, <1>6, <1>7, <1>8, <1>9, <1>10, <1>11, <1>12, <1>13, <1>15, <1>16, <1>17,
       <1>18, <1>19 DEF Next, Calls, Events

-----------------------------------------------------------------------------
(* Types of the records' variables *)

DataType ==
    /\ written \in 0..MaxWrites
    /\ queue \in Seq(1..written) /\ Len(queue) <= MaxQueue
    /\ batch \in Seq(1..written) /\ Len(batch) <= BatchSize
    /\ batchAt \in 0..Len(batch)
    /\ wire \in Seq(1..written)
    /\ beaconed \subseteq 1..written /\ told \subseteq 1..written
    /\ ignored \subseteq 1..written
    /\ dropped \in Nat /\ cleared \in Nat

(* write() keeps the records from the one after excess on.                 *)
LEMMA BufferedQueue ==
    ASSUME DataType, Buffers
    PROVE  LET excess == Excess(Len(queue) + 1) IN
           /\ written' = written + 1 /\ excess \in {0, 1}
           /\ excess = 1 => Len(queue) = MaxQueue
           /\ excess = 0 => Len(queue) < MaxQueue
           /\ dropped' = dropped + excess
           /\ queue' \in Seq(1..written')
           /\ Len(queue') = Len(queue) + 1 - excess
           /\ \A i \in 1..Len(queue') :
                 queue'[i] = IF i + excess = Len(queue) + 1 THEN written'
                             ELSE queue[i + excess]
  <1> DEFINE longer == Append(queue, written')
             excess == Excess(Len(queue) + 1)
  <1>1. written' = written + 1 /\ written \in Nat /\ queue \in Seq(1..written)
    BY DEF DataType, Buffers
  <1>2. queue \in Seq(1..written') /\ written' \in 1..written'
    BY <1>1, SeqMonotonic
  <1>3. longer \in Seq(1..written') /\ Len(longer) = Len(queue) + 1 /\ Len(queue) \in Nat
    BY <1>2
  <1>4. \A i \in 1..Len(longer) :
           longer[i] = IF i = Len(queue) + 1 THEN written' ELSE queue[i]
    BY <1>2
  <1>5. /\ excess \in {0, 1} /\ excess <= Len(longer)
        /\ excess = 1 => Len(queue) = MaxQueue
        /\ excess = 0 => Len(queue) < MaxQueue
    BY <1>3 DEF Excess, DataType
  <1>6. dropped' = dropped + excess /\ queue' = SubSeq(longer, excess + 1, Len(longer))
    BY <1>3 DEF Buffers
  <1>7. /\ queue' \in Seq(1..written') /\ Len(queue') = Len(longer) - excess
        /\ \A i \in 1..Len(queue') : queue'[i] = longer[i + excess]
    <2> HIDE DEF longer, excess
    <2>1. /\ Len(queue') = Len(longer) - excess
          /\ \A i \in 1..Len(queue') : queue'[i] = longer[i + excess]
      BY <1>3, <1>5, <1>6
    <2>2. \A i \in excess + 1 .. Len(longer) : i \in 1..Len(longer) /\ longer[i] \in 1..written'
      <3>1. \A i \in excess + 1 .. Len(longer) : i \in 1..Len(longer)
        BY <1>3, <1>5
      <3> QED
        BY <1>3, <3>1, ElementOfSeq
    <2>3. queue' \in Seq(1..written')
      <3>1. excess + 1 \in Int /\ Len(longer) \in Int
        BY <1>3, <1>5
      <3>2. \A i \in excess + 1 .. Len(longer) : longer[i] \in 1..written'
        BY <2>2
      <3> QED
        BY <1>6, <3>1, <3>2, SubSeqProperties
    <2> QED
      BY <2>1, <2>3
  <1>8. \A i \in 1..Len(queue') : i + excess \in 1..Len(longer)
    <2> HIDE DEF longer, excess
    <2> QED
      BY <1>3, <1>5, <1>7
  <1>9. Len(queue') = Len(queue) + 1 - excess
    <2> HIDE DEF longer, excess
    <2> QED
      BY <1>3, <1>5, <1>7
  <1>10. \A i \in 1..Len(queue') :
            queue'[i] = IF i + excess = Len(queue) + 1 THEN written' ELSE queue[i + excess]
    <2> HIDE DEF longer, excess
    <2> QED
      BY <1>4, <1>7, <1>8
  <1> HIDE DEF longer
  <1> QED
    BY <1>1, <1>5, <1>6, <1>7, <1>9, <1>10

LEMMA DrainedType ==
    ASSUME NEW n \in Nat, queue \in Seq(1..n), batch \in Seq(1..n)
    PROVE  /\ Drained \in Seq(1..n) /\ Len(Drained) <= Len(queue)
           /\ Len(Drained) = IF Len(batch) <= Len(queue) THEN Len(queue) - Len(batch) ELSE 0
           /\ \A i \in 1..Len(Drained) :
                 i + Len(batch) \in 1..Len(queue) /\ Drained[i] = queue[i + Len(batch)]
  <1>1. Len(queue) \in Nat /\ Len(batch) \in Nat
    OBVIOUS
  <1>2. \A i \in 1..Len(queue) : queue[i] \in 1..n
    OBVIOUS
  <1>3. Len(Drained) = IF Len(batch) <= Len(queue) THEN Len(queue) - Len(batch) ELSE 0
    <2>1. Drained = SubSeq(queue, Len(batch) + 1, Len(queue))
      BY DEF Drained
    <2>2. /\ Len(batch) + 1 \in Int /\ Len(queue) \in Int
          /\ \A i \in Len(batch) + 1 .. Len(queue) : queue[i] \in 1..n
      BY <1>1, <1>2
    <2>3. Len(Drained) = IF Len(batch) + 1 <= Len(queue)
                         THEN Len(queue) - (Len(batch) + 1) + 1 ELSE 0
      BY <2>1, <2>2, SubSeqProperties
    <2> QED
      BY <1>1, <2>3
  <1>4. \A i \in 1..Len(Drained) :
           i + Len(batch) \in 1..Len(queue) /\ Drained[i] = queue[i + Len(batch)]
    BY <1>1, <1>3 DEF Drained
  <1>5. Drained \in Seq(1..n)
    BY <1>1, <1>2 DEF Drained
  <1> QED
    BY <1>1, <1>3, <1>4, <1>5

LEMMA PeekedBatch ==
    ASSUME DataType, Peeks
    PROVE  /\ batch' \in Seq(1..written) /\ Len(batch') \in 1..Len(queue)
           /\ Len(batch') <= BatchSize
           /\ \A i \in 1..Len(batch') : batch'[i] = queue[i]
  <1> DEFINE n == Least(BatchSize, Len(queue))
  <1>1. queue \in Seq(1..written) /\ Len(queue) \in Nat \ {0}
    BY EmptySeq DEF DataType, Peeks
  <1>2. n \in 1..Len(queue) /\ n <= BatchSize
    BY <1>1 DEF Least
  <1>3. batch' = SubSeq(queue, 1, n)
    BY DEF Peeks
  <1> HIDE DEF n
  <1>4. Len(batch') = n /\ \A i \in 1..n : batch'[i] = queue[i]
    BY <1>1, <1>2, <1>3
  <1>5. batch' \in Seq(1..written)
    <2>1. \A i \in 1..n : i \in 1..Len(queue)
      BY <1>1, <1>2
    <2>2. \A i \in 1..n : queue[i] \in 1..written
      BY <1>1, <2>1, ElementOfSeq
    <2> QED
      BY <1>2, <1>3, <2>2, SubSeqProperties
  <1> QED
    BY <1>2, <1>4, <1>5

LEMMA DataTypeStep == ASSUME DataType, Control, Kinds PROVE DataType'
  <1>0. /\ written \in Nat /\ Len(batch) \in Nat /\ Len(queue) \in Nat
        /\ \A i \in 1..Len(batch) : batch[i] \in 1..written
    BY DEF DataType
  <1>1. CASE Rests
    BY <1>1 DEF DataType, Rests
  <1>2. CASE Peeks
    BY <1>2, PeekedBatch DEF DataType, Peeks
  <1>3. CASE Abandons
    BY <1>3 DEF DataType, Abandons
  <1>4. CASE Finishes
    <2>1. batchAt = Len(batch) /\ mode = "transport" => batchAt \in 1..Len(batch)
      BY <1>4 DEF Control, Finishes
    <2>2. wire' \in Seq(1..written)
      <3>1. CASE wire' = wire \o batch
        BY <3>1, ConcatProperties DEF DataType
      <3>2. CASE mode = "transport" /\ batchAt = Len(batch) /\ wire' = wire \o <<batch[batchAt]>>
        <4>1. <<batch[batchAt]>> \in Seq(1..written)
          BY <1>0, <2>1, <3>2
        <4> QED
          BY <3>2, <4>1, ConcatProperties DEF DataType
      <3> QED
        BY <1>4, <3>1, <3>2 DEF Finishes
    <2>3. queue' \in Seq(1..written) /\ Len(queue') <= MaxQueue
      BY <1>0, <1>4, DrainedType DEF DataType, Finishes
    <2>4. batch' \in Seq(1..written) /\ Len(batch') = 0 /\ batchAt' \in 0..Len(batch')
      BY <1>4 DEF Finishes
    <2> QED
      <3>1. UNCHANGED <<written, dropped, exitVars, ignored>> /\ Len(batch') <= BatchSize
        BY <1>4, <2>4 DEF Finishes
      <3> QED
        BY <2>2, <2>3, <2>4, <3>1 DEF DataType
  <1>5. CASE GivesOne
    <2>1. batchAt \in 1..Len(batch)
      BY <1>0, <1>5 DEF GivesOne, Control, DataType
    <2>2. wire' \in Seq(1..written)
      BY <1>0, <1>5, <2>1 DEF DataType, GivesOne
    <2>3. batchAt' \in 0..Len(batch')
      BY <1>0, <1>5, <2>1 DEF GivesOne
    <2> QED
      BY <1>5, <2>2, <2>3 DEF DataType, GivesOne
  <1>6. ASSUME written < MaxWrites, written' = written + 1, UNCHANGED <<batch, batchAt, wire>>
        PROVE  /\ written' \in 0..MaxWrites /\ 1..written \subseteq 1..written'
               /\ written' \in 1..written'
               /\ batch' \in Seq(1..written') /\ wire' \in Seq(1..written')
               /\ queue \in Seq(1..written')
    <2>1. 1..written \subseteq 1..written' /\ written' \in 1..written' /\ written' \in 0..MaxWrites
      BY <1>0, <1>6
    <2> QED
      BY <1>6, <2>1, SeqMonotonic DEF DataType
  <1>7. CASE Buffers
    <2>1. /\ written < MaxWrites /\ written' = written + 1
          /\ UNCHANGED <<batch, batchAt, wire, exitVars, ignored>>
      BY <1>7 DEF Buffers
    <2>2. /\ written' \in 0..MaxWrites /\ 1..written \subseteq 1..written'
          /\ batch' \in Seq(1..written') /\ wire' \in Seq(1..written')
      BY <1>6, <2>1
    <2>3. queue' \in Seq(1..written') /\ Len(queue') <= MaxQueue /\ dropped' \in Nat
      BY <1>0, <1>7, BufferedQueue DEF DataType
    <2> QED
      BY <2>1, <2>2, <2>3 DEF DataType
  <1>8. CASE Ignores
    BY <1>6, <1>8 DEF DataType, Ignores
  <1>9. ASSUME NEW rs, Leaves(rs) PROVE DataType'
    <2>1. ToSet(queue) \subseteq 1..written
      BY DEF DataType, ToSet
    <2>2. CASE rs = {} /\ written' = written
      <3>1. beaconed' \subseteq 1..written /\ told' \subseteq 1..written
        BY <1>9, <2>1, <2>2 DEF Leaves, DataType
      <3>2. queue' \in Seq(1..written) /\ Len(queue') <= MaxQueue /\ cleared' \in Nat
        <4>1. \/ queue' = queue /\ cleared' = cleared
              \/ queue' = <<>> /\ cleared' = cleared + (IF batch = <<>> THEN 0 ELSE Len(queue))
          BY <1>9 DEF Leaves
        <4>2. CASE queue' = queue /\ cleared' = cleared
          BY <4>2 DEF DataType
        <4>3. CASE queue' = <<>> /\ cleared' = cleared + (IF batch = <<>> THEN 0 ELSE Len(queue))
          BY <1>0, <4>3 DEF DataType
        <4> QED
          BY <4>1, <4>2, <4>3
      <3> QED
        BY <1>9, <2>2, <3>1, <3>2 DEF Leaves, DataType
    <2>3. CASE rs = {written'} /\ written < MaxWrites /\ written' = written + 1
      <3>0. UNCHANGED <<batch, batchAt, wire, dropped, ignored>>
        BY <1>9 DEF Leaves
      <3>1. /\ written' \in 0..MaxWrites /\ 1..written \subseteq 1..written'
            /\ written' \in 1..written'
            /\ batch' \in Seq(1..written') /\ wire' \in Seq(1..written')
            /\ queue \in Seq(1..written')
        BY <1>6, <2>3, <3>0
      <3>2. beaconed' \subseteq 1..written' /\ told' \subseteq 1..written'
        BY <1>9, <2>1, <2>3, <3>1 DEF Leaves, DataType
      <3>3. queue' \in Seq(1..written') /\ Len(queue') <= MaxQueue /\ cleared' \in Nat
        <4>1. \/ queue' = queue /\ cleared' = cleared
              \/ queue' = <<>> /\ cleared' = cleared + (IF batch = <<>> THEN 0 ELSE Len(queue))
          BY <1>9 DEF Leaves
        <4>2. CASE queue' = queue /\ cleared' = cleared
          BY <3>1, <4>2 DEF DataType
        <4>3. CASE queue' = <<>> /\ cleared' = cleared + (IF batch = <<>> THEN 0 ELSE Len(queue))
          BY <1>0, <4>3 DEF DataType
        <4> QED
          BY <4>1, <4>2, <4>3
      <3> QED
        BY <3>0, <3>1, <3>2, <3>3 DEF DataType
    <2> QED
      BY <1>9, <2>2, <2>3 DEF Leaves
  <1> QED
    BY <1>1, <1>2, <1>3, <1>4, <1>5, <1>7, <1>8, <1>9 DEF Kinds

-----------------------------------------------------------------------------
(* Order *)

Rising(s) == \A i, j \in 1..Len(s) : i < j => s[i] < s[j]
Before(s, t) == \A i \in 1..Len(s), j \in 1..Len(t) : s[i] < t[j]

(* Where the queue still has a record at a batch's position, it is that one *)
(* or a later one: what drain removes is nothing the batch comes after.     *)
OrderInv ==
    /\ Rising(queue) /\ Rising(batch)
    /\ \A i \in 1..Len(batch) : i <= Len(queue) => batch[i] <= queue[i]
    /\ mode # "transport" => Rising(wire) /\ Before(wire, batch) /\ Before(wire, queue)

LEMMA Values ==
    ASSUME DataType
    PROVE  /\ written \in Nat /\ Len(queue) \in Nat /\ Len(batch) \in Nat /\ Len(wire) \in Nat
           /\ \A i \in 1..Len(queue) : queue[i] \in 1..written
           /\ \A i \in 1..Len(batch) : batch[i] \in 1..written
           /\ \A i \in 1..Len(wire) : wire[i] \in 1..written
  BY ElementOfSeq DEF DataType

LEMMA OrderPeek ==
    ASSUME DataType, OrderInv, Peeks, UNCHANGED mode PROVE OrderInv'
  <1>1. /\ Len(batch') \in 1..Len(queue) /\ \A i \in 1..Len(batch') : batch'[i] = queue[i]
        /\ UNCHANGED <<queue, wire>>
    BY PeekedBatch DEF Peeks
  <1>2. Len(queue) \in Nat /\ \A i \in 1..Len(queue) : queue[i] \in Nat
    BY Values
  <1>3. \A i \in 1..Len(batch') : i \in 1..Len(queue)
    BY <1>1, <1>2
  <1>4. Rising(batch') /\ (Before(wire, queue) => Before(wire, batch'))
    BY <1>1, <1>3 DEF OrderInv, Rising, Before
  <1>5. \A i \in 1..Len(batch') : i <= Len(queue) => batch'[i] <= queue[i]
    BY <1>1, <1>2, <1>3
  <1> QED
    BY <1>1, <1>4, <1>5 DEF OrderInv

LEMMA OrderFinish ==
    ASSUME DataType, OrderInv, Finishes, UNCHANGED mode PROVE OrderInv'
  <1>1. /\ Len(queue') \in Nat
        /\ \A i \in 1..Len(queue') :
              i + Len(batch) \in 1..Len(queue) /\ queue'[i] = queue[i + Len(batch)]
    <2>1. queue' \in Seq(1..written)
      BY DrainedType, Values DEF Finishes, DataType
    <2>2. \A i \in 1..Len(queue') :
              i + Len(batch) \in 1..Len(queue) /\ queue'[i] = queue[i + Len(batch)]
      BY DrainedType, Values DEF Finishes, DataType
    <2> QED
      BY <2>1, <2>2
  <1>2. Rising(queue')
    BY <1>1, Values DEF OrderInv, Rising
  <1>3. batch' = <<>> /\ Len(batch') = 0
    BY DEF Finishes
  <1>4. ASSUME mode # "transport"
        PROVE  Rising(wire') /\ Before(wire', queue')
    <2>1. wire' = wire \o batch
      BY <1>4 DEF Finishes
    <2>2. /\ Len(wire') = Len(wire) + Len(batch)
          /\ \A i \in 1..Len(wire') :
                wire'[i] = IF i <= Len(wire) THEN wire[i] ELSE batch[i - Len(wire)]
      BY <2>1, ConcatProperties DEF DataType
    <2>3. \A i \in 1..Len(wire') : i \in 1..Len(wire) \/ i - Len(wire) \in 1..Len(batch)
      BY <2>2, Values
    <2>4. Rising(wire')
      <3> SUFFICES ASSUME NEW i \in 1..Len(wire'), NEW j \in 1..Len(wire'), i < j
                   PROVE  wire'[i] < wire'[j]
        BY DEF Rising
      <3>1. CASE j \in 1..Len(wire)
        <4>1. i \in 1..Len(wire) /\ wire'[i] = wire[i] /\ wire'[j] = wire[j]
          BY <2>2, <3>1, Values
        <4> QED
          BY <1>4, <3>1, <4>1 DEF OrderInv, Rising
      <3>2. CASE i \in 1..Len(wire) /\ j - Len(wire) \in 1..Len(batch)
        <4>1. wire'[i] = wire[i] /\ wire'[j] = batch[j - Len(wire)]
          BY <2>2, <3>2, Values
        <4> QED
          BY <1>4, <3>2, <4>1 DEF OrderInv, Before
      <3>3. CASE i - Len(wire) \in 1..Len(batch) /\ j - Len(wire) \in 1..Len(batch)
        <4>1. wire'[i] = batch[i - Len(wire)] /\ wire'[j] = batch[j - Len(wire)]
              /\ i - Len(wire) < j - Len(wire)
          BY <2>2, <3>3, Values
        <4> QED
          BY <3>3, <4>1 DEF OrderInv, Rising
      <3> QED
        BY <2>3, <3>1, <3>2, <3>3
    <2>5. \A i \in 1..Len(batch), j \in 1..Len(queue') : batch[i] < queue'[j]
      <3> SUFFICES ASSUME NEW i \in 1..Len(batch), NEW j \in 1..Len(queue')
                   PROVE  batch[i] < queue'[j]
        OBVIOUS
      <3>1. i \in 1..Len(queue) /\ i < j + Len(batch)
        BY <1>1, Values
      <3>2. batch[i] <= queue[i]
        BY <3>1 DEF OrderInv
      <3>3. queue[i] < queue[j + Len(batch)]
        BY <1>1, <3>1 DEF OrderInv, Rising
      <3>4. batch[i] \in Nat /\ queue[i] \in Nat /\ queue[j + Len(batch)] \in Nat
        BY <1>1, <3>1, Values
      <3> QED
        BY <1>1, <3>2, <3>3, <3>4
    <2>6. \A i \in 1..Len(wire), j \in 1..Len(queue') : wire[i] < queue'[j]
      BY <1>1, <1>4 DEF OrderInv, Before
    <2>7. ASSUME NEW i \in 1..Len(wire'), NEW j \in 1..Len(queue')
          PROVE  wire'[i] < queue'[j]
      <3>1. CASE i \in 1..Len(wire)
        BY <2>2, <2>6, <3>1, Values
      <3>2. CASE i - Len(wire) \in 1..Len(batch)
        <4>1. wire'[i] = batch[i - Len(wire)]
          BY <2>2, <3>2, Values
        <4> QED
          BY <2>5, <3>2, <4>1
      <3> QED
        BY <2>3, <3>1, <3>2
    <2> QED
      BY <2>4, <2>7 DEF Before
  <1>5. /\ Rising(batch') /\ Before(wire', batch')
        /\ \A i \in 1..Len(batch') : i <= Len(queue') => batch'[i] <= queue'[i]
    BY <1>3 DEF Rising, Before
  <1> QED
    BY <1>2, <1>4, <1>5 DEF OrderInv

LEMMA OrderBuffer ==
    ASSUME DataType, OrderInv, Buffers, UNCHANGED mode PROVE OrderInv'
  <1> DEFINE excess == Excess(Len(queue) + 1)
  <1>1. /\ written' = written + 1 /\ excess \in {0, 1}
        /\ Len(queue') = Len(queue) + 1 - excess
        /\ \A i \in 1..Len(queue') :
              queue'[i] = IF i + excess = Len(queue) + 1 THEN written' ELSE queue[i + excess]
    BY BufferedQueue
  <1>2. UNCHANGED <<batch, wire>>
    BY DEF Buffers
  <1> HIDE DEF excess
  <1>3. \A i \in 1..Len(queue') :
           i + excess = Len(queue) + 1 \/ i + excess \in 1..Len(queue)
    BY <1>1, Values
  <1>4. Rising(queue')
    <2> SUFFICES ASSUME NEW i \in 1..Len(queue'), NEW j \in 1..Len(queue'), i < j
                 PROVE  queue'[i] < queue'[j]
      BY DEF Rising
    <2>1. i + excess \in 1..Len(queue)
      BY <1>1, <1>3, Values
    <2>2. queue'[i] = queue[i + excess] /\ queue[i + excess] \in 1..written
      BY <1>1, <2>1, Values
    <2>3. CASE j + excess = Len(queue) + 1
      BY <1>1, <2>2, <2>3, Values
    <2>4. CASE j + excess \in 1..Len(queue)
      <3>1. queue'[j] = queue[j + excess]
        BY <1>1, <2>4, Values
      <3>2. i + excess < j + excess
        BY <1>1
      <3> QED
        BY <2>1, <2>2, <2>4, <3>1, <3>2 DEF OrderInv, Rising
    <2> QED
      BY <1>3, <2>3, <2>4
  <1>5. ASSUME NEW i \in 1..Len(queue'), NEW v \in 1..written,
               \A j \in 1..Len(queue) : j >= i => v <= queue[j]
        PROVE  v <= queue'[i]
    <2>1. CASE i + excess = Len(queue) + 1
      BY <1>1, <2>1, Values
    <2>2. CASE i + excess \in 1..Len(queue)
      <3>1. queue'[i] = queue[i + excess] /\ i + excess >= i
        BY <1>1, <2>2, Values
      <3> QED
        BY <1>5, <2>2, <3>1
    <2> QED
      BY <1>3, <2>1, <2>2
  <1>6. ASSUME NEW i \in 1..Len(batch), i <= Len(queue') PROVE batch[i] <= queue'[i]
    <2>1. ASSUME NEW j \in 1..Len(queue), j >= i PROVE batch[i] <= queue[j]
      <3>1. i \in 1..Len(queue) /\ batch[i] <= queue[i]
        BY <2>1, Values DEF OrderInv
      <3>2. i < j => queue[i] < queue[j]
        BY <3>1 DEF OrderInv, Rising
      <3> QED
        BY <2>1, <3>1, <3>2, Values
    <2>2. i \in 1..Len(queue') /\ batch[i] \in 1..written
      BY <1>1, <1>6, Values
    <2> QED
      BY <1>5, <2>1, <2>2
  <1>7. ASSUME NEW i \in 1..Len(wire), NEW j \in 1..Len(queue'), Before(wire, queue)
        PROVE  wire[i] < queue'[j]
    <2>1. CASE j + excess = Len(queue) + 1
      BY <1>1, <2>1, Values
    <2>2. CASE j + excess \in 1..Len(queue)
      <3>1. queue'[j] = queue[j + excess]
        BY <1>1, <2>2, Values
      <3> QED
        BY <1>7, <2>2, <3>1 DEF Before
    <2> QED
      BY <1>3, <2>1, <2>2
  <1>8. Before(wire, queue) => Before(wire, queue')
    BY <1>7 DEF Before
  <1> QED
    BY <1>2, <1>4, <1>6, <1>8 DEF OrderInv

LEMMA OrderStep ==
    ASSUME DataType, OrderInv, Kinds, UNCHANGED mode PROVE OrderInv'
  <1>1. CASE Rests \/ Ignores
    BY <1>1 DEF OrderInv, Rests, Ignores
  <1>2. CASE Abandons
    <2>1. Len(batch') = 0 /\ UNCHANGED <<queue, wire>>
      BY <1>2 DEF Abandons
    <2> QED
      BY <2>1 DEF OrderInv, Rising, Before
  <1>3. CASE GivesOne
    BY <1>3 DEF OrderInv, GivesOne
  <1>4. ASSUME NEW rs, Leaves(rs) PROVE OrderInv'
    <2>1. UNCHANGED <<batch, wire>> /\ (queue' = queue \/ queue' = <<>>)
      BY <1>4 DEF Leaves
    <2>2. CASE queue' = queue
      BY <2>1, <2>2 DEF OrderInv
    <2>3. CASE queue' = <<>>
      <3>0. Len(queue') = 0
        BY <2>3
      <3>1. Rising(queue') /\ Before(wire, queue')
        BY <3>0 DEF Rising, Before
      <3>2. \A i \in 1..Len(batch) : ~(i <= Len(queue'))
        BY <3>0, Values
      <3> QED
        BY <2>1, <3>1, <3>2 DEF OrderInv
    <2> QED
      BY <2>1, <2>2, <2>3
  <1> QED
    BY <1>1, <1>2, <1>3, <1>4, OrderPeek, OrderFinish, OrderBuffer DEF Kinds

-----------------------------------------------------------------------------
(* Losses *)

(* If the batch left now: the records drain would remove, those that would  *)
(* be gone by then, and how many records drain looks for in vain.           *)
Removable == {queue[i] : i \in {k \in 1..Len(queue) : k <= Len(batch)}}
Doomed == (Gone \cup Removable) \ ToSet(batch)
Slack == IF Len(queue) < Len(batch) THEN Len(batch) - Len(queue) ELSE 0

LossInv ==
    /\ Cardinality(Gone) <= dropped + cleared
    /\ batch # <<>> => Cardinality(Doomed) + Slack <= dropped + cleared
    /\ mode = "transport" =>
          \A i \in 1..Len(batch) : i < batchAt => batch[i] \in ToSet(wire)

LEMMA Smaller ==
    ASSUME NEW S, NEW T, IsFiniteSet(S), T \subseteq S
    PROVE  /\ Cardinality(T) \in Nat /\ Cardinality(S) \in Nat
           /\ Cardinality(T) <= Cardinality(S)
  BY FS_Subset, FS_CardinalityType

LEMMA OneLarger ==
    ASSUME NEW S, NEW T, NEW x, IsFiniteSet(S), T \subseteq S \cup {x}
    PROVE  /\ Cardinality(T) \in Nat /\ Cardinality(S) \in Nat
           /\ Cardinality(T) <= Cardinality(S) + 1
  <1>1. CASE x \in S
    <2>1. T \subseteq S
      BY <1>1
    <2> QED
      BY <2>1, Smaller
  <1>2. CASE x \notin S
    <2>1. /\ IsFiniteSet(S \cup {x}) /\ Cardinality(S \cup {x}) = Cardinality(S) + 1
      BY <1>2, FS_AddElement, Zenon
    <2>2. Cardinality(T) \in Nat /\ Cardinality(T) <= Cardinality(S \cup {x})
      BY <2>1, Smaller
    <2>3. Cardinality(S) \in Nat
      BY FS_CardinalityType
    <2> QED
      BY <2>1, <2>2, <2>3
  <1> QED
    BY <1>1, <1>2

LEMMA ElementsOf ==
    ASSUME NEW S, NEW s \in Seq(S) PROVE ToSet(s) = {s[i] : i \in 1..Len(s)} /\ ToSet(s) \subseteq S
  BY ElementOfSeq DEF ToSet

LEMMA AppendedElements ==
    ASSUME NEW S, NEW s \in Seq(S), NEW t \in Seq(S)
    PROVE  ToSet(s \o t) = ToSet(s) \cup ToSet(t)
  <1>1. /\ s \o t \in Seq(S) /\ Len(s \o t) = Len(s) + Len(t)
        /\ \A i \in 1..Len(s) + Len(t) : (s \o t)[i] = IF i <= Len(s) THEN s[i] ELSE t[i - Len(s)]
    BY ConcatProperties
  <1>2. Len(s) \in Nat /\ Len(t) \in Nat
    OBVIOUS
  <1>3. \A i \in 1..Len(s) : i \in 1..Len(s) + Len(t) /\ (s \o t)[i] = s[i]
    BY <1>1, <1>2
  <1>4. \A i \in 1..Len(t) : i + Len(s) \in 1..Len(s) + Len(t) /\ (s \o t)[i + Len(s)] = t[i]
    BY <1>1, <1>2
  <1>5. \A i \in 1..Len(s) + Len(t) :
           \/ i \in 1..Len(s) /\ (s \o t)[i] = s[i]
           \/ i - Len(s) \in 1..Len(t) /\ (s \o t)[i] = t[i - Len(s)]
    BY <1>1, <1>2
  <1>6. /\ ToSet(s) = {s[i] : i \in 1..Len(s)} /\ ToSet(t) = {t[i] : i \in 1..Len(t)}
        /\ ToSet(s \o t) = {(s \o t)[i] : i \in 1..Len(s) + Len(t)}
    BY <1>1, ElementsOf
  <1> QED
    BY <1>3, <1>4, <1>5, <1>6

LEMMA LossSets ==
    ASSUME DataType
    PROVE  /\ IsFiniteSet(Gone) /\ IsFiniteSet(Doomed)
           /\ Cardinality(Gone) \in Nat /\ Cardinality(Doomed) \in Nat /\ Slack \in Nat
           /\ Removable \subseteq ToSet(queue)
           /\ ToSet(queue) = {queue[i] : i \in 1..Len(queue)}
           /\ ToSet(batch) = {batch[i] : i \in 1..Len(batch)}
           /\ dropped \in Nat /\ cleared \in Nat
  <1>1. /\ ToSet(queue) = {queue[i] : i \in 1..Len(queue)} /\ ToSet(queue) \subseteq 1..written
        /\ ToSet(batch) = {batch[i] : i \in 1..Len(batch)}
    BY ElementsOf DEF DataType
  <1>2. Removable \subseteq ToSet(queue)
    BY <1>1 DEF Removable
  <1>3. Gone \subseteq 1..written /\ Doomed \subseteq 1..written
    BY <1>1, <1>2 DEF Gone, Doomed
  <1>4. IsFiniteSet(1..written)
    BY FS_Interval DEF DataType
  <1>5. IsFiniteSet(Gone) /\ IsFiniteSet(Doomed)
    BY <1>3, <1>4, FS_Subset
  <1>6. Slack \in Nat
    BY Values DEF Slack
  <1> QED
    BY <1>1, <1>2, <1>5, <1>6, FS_CardinalityType DEF DataType

(* The first two conjuncts of LossInv, when nothing more is lost.           *)
LEMMA NothingMoreLost ==
    ASSUME DataType, LossInv, Gone' \subseteq Gone, Doomed' \subseteq Doomed,
           Slack' = Slack, UNCHANGED <<batch, dropped, cleared>>
    PROVE  /\ Cardinality(Gone') <= dropped' + cleared'
           /\ batch' # <<>> => Cardinality(Doomed') + Slack' <= dropped' + cleared'
  <1>1. /\ Cardinality(Gone') \in Nat /\ Cardinality(Gone') <= Cardinality(Gone)
        /\ Cardinality(Doomed') \in Nat /\ Cardinality(Doomed') <= Cardinality(Doomed)
    BY LossSets, Smaller
  <1> QED
    BY <1>1, LossSets DEF LossInv

LEMMA LossPeek ==
    ASSUME DataType, LossInv, Peeks, UNCHANGED mode, DataType' PROVE LossInv'
  <1>1. /\ batch' \in Seq(1..written) /\ Len(batch') \in 1..Len(queue)
        /\ \A i \in 1..Len(batch') : batch'[i] = queue[i]
    BY PeekedBatch
  <1>2. /\ Gone' = Gone
        /\ queue' = queue /\ dropped' + cleared' = dropped + cleared /\ wire' = wire
    BY DEF Peeks, Gone
  <1>3. Slack' = 0
    BY <1>1, <1>2, Values DEF Slack
  <1>4. ToSet(batch') = {batch'[i] : i \in 1..Len(batch')}
    BY <1>1, ElementsOf
  <1>5. Removable' \subseteq ToSet(batch')
    <2>1. \A i \in 1..Len(queue) : i <= Len(batch') => i \in 1..Len(batch')
      BY <1>1, Values
    <2> QED
      BY <1>1, <1>2, <1>4, <2>1 DEF Removable
  <1>6. Doomed' \subseteq Gone
    BY <1>2, <1>5 DEF Doomed
  <1>7. Cardinality(Doomed') \in Nat /\ Cardinality(Doomed') <= Cardinality(Gone)
    BY <1>6, LossSets, Smaller
  <1>8. Cardinality(Gone) <= dropped + cleared /\ Cardinality(Gone) \in Nat
    BY LossSets DEF LossInv
  <1>9. \A i \in 1..Len(batch') : mode = "transport" => ~(i < batchAt')
    BY <1>1, Values DEF Peeks
  <1>10. Cardinality(Doomed') + Slack' <= dropped' + cleared'
    BY <1>2, <1>3, <1>7, <1>8, LossSets
  <1> QED
    BY <1>2, <1>8, <1>9, <1>10 DEF LossInv

LEMMA LossFinish ==
    ASSUME DataType, Control, LossInv, Finishes, UNCHANGED mode, DataType' PROVE LossInv'
  <1>1. batch' = <<>> /\ Len(batch') = 0 /\ UNCHANGED <<written, dropped, exitVars, ignored>>
    BY DEF Finishes
  <1>2. ToSet(batch) \cup ToSet(wire) \subseteq ToSet(wire')
    <2>1. CASE wire' = wire \o batch
      BY <2>1, AppendedElements DEF DataType
    <2>2. CASE /\ mode = "transport" /\ batchAt = Len(batch)
               /\ wire' = wire \o <<batch[batchAt]>>
      <3>0. batchAt \in 1..Len(batch)
        BY <2>2 DEF Control, Finishes
      <3>1. <<batch[batchAt]>> \in Seq(1..written) /\ ToSet(<<batch[batchAt]>>) = {batch[batchAt]}
        BY <3>0, Values DEF ToSet
      <3>2. ToSet(wire') = ToSet(wire) \cup {batch[batchAt]}
        <4>1. wire \in Seq(1..written) /\ <<batch[batchAt]>> \in Seq(1..written)
          BY <3>1 DEF DataType
        <4>2. ToSet(wire \o <<batch[batchAt]>>) = ToSet(wire) \cup ToSet(<<batch[batchAt]>>)
          BY <4>1, AppendedElements, Zenon
        <4> QED
          BY <2>2, <3>1, <4>2
      <3>3. \A i \in 1..Len(batch) : i < batchAt \/ i = batchAt
        BY <2>2, Values
      <3> QED
        BY <2>2, <3>2, <3>3, LossSets DEF LossInv
    <2> QED
      BY <2>1, <2>2 DEF Finishes
  <1>3. ToSet(queue) \subseteq ToSet(queue') \cup Removable
    <2>1. \A i \in 1..Len(queue) :
             \/ i <= Len(batch)
             \/ i - Len(batch) \in 1..Len(queue') /\ queue'[i - Len(batch)] = queue[i]
      <3>1. /\ queue' \in Seq(1..written)
            /\ Len(queue') = IF Len(batch) <= Len(queue) THEN Len(queue) - Len(batch) ELSE 0
            /\ \A j \in 1..Len(queue') : queue'[j] = queue[j + Len(batch)]
        BY DrainedType, Values DEF Finishes, DataType
      <3>2. \A i \in 1..Len(queue) : ~(i <= Len(batch)) =>
               i - Len(batch) \in 1..Len(queue') /\ (i - Len(batch)) + Len(batch) = i
        BY <3>1, Values
      <3> QED
        BY <3>1, <3>2
    <2>2. ToSet(queue') = {queue'[i] : i \in 1..Len(queue')}
      BY ElementsOf DEF DataType
    <2> QED
      <3> SUFFICES ASSUME NEW i \in 1..Len(queue) PROVE queue[i] \in ToSet(queue') \cup Removable
        BY LossSets
      <3>1. CASE i <= Len(batch)
        BY <3>1 DEF Removable
      <3>2. CASE i - Len(batch) \in 1..Len(queue') /\ queue'[i - Len(batch)] = queue[i]
        BY <2>2, <3>2
      <3> QED
        BY <2>1, <3>1, <3>2
  <1>4. Gone' \subseteq Doomed
    BY <1>1, <1>2, <1>3 DEF Gone, Doomed
  <1>5. /\ Cardinality(Gone') \in Nat /\ Cardinality(Gone') <= Cardinality(Doomed)
    BY <1>4, LossSets, Smaller
  <1>6. Cardinality(Doomed) + Slack <= dropped + cleared
    BY DEF LossInv, Finishes
  <1>7. Cardinality(Gone') <= dropped' + cleared'
    BY <1>1, <1>5, <1>6, LossSets
  <1> QED
    BY <1>1, <1>7 DEF LossInv

LEMMA LossBuffer ==
    ASSUME DataType, LossInv, Buffers, UNCHANGED mode, DataType' PROVE LossInv'
  <1> DEFINE excess == Excess(Len(queue) + 1)
  <1>1. /\ written' = written + 1 /\ excess \in {0, 1} /\ dropped' = dropped + excess
        /\ Len(queue') = Len(queue) + 1 - excess
        /\ \A i \in 1..Len(queue') :
              queue'[i] = IF i + excess = Len(queue) + 1 THEN written' ELSE queue[i + excess]
    BY BufferedQueue
  <1>2. UNCHANGED <<batch, batchAt, wire, exitVars, ignored, mode>>
    BY DEF Buffers
  <1>3. /\ ToSet(queue') = {queue'[i] : i \in 1..Len(queue')}
        /\ ToSet(queue) = {queue[i] : i \in 1..Len(queue)}
        /\ ToSet(batch') = ToSet(batch)
    BY <1>2, ElementsOf DEF DataType
  <1>4. 1..written' \subseteq 1..written \cup {written'}
    BY <1>1, Values
  <1> HIDE DEF excess
  <1>5. CASE excess = 0
    <2>1. /\ Len(queue') = Len(queue) + 1 /\ queue'[Len(queue) + 1] = written'
          /\ Len(queue) + 1 \in 1..Len(queue')
          /\ \A i \in 1..Len(queue) : i \in 1..Len(queue') /\ queue'[i] = queue[i]
          /\ \A i \in 1..Len(queue') : i = Len(queue) + 1 \/ i \in 1..Len(queue)
          /\ dropped' = dropped
      <3>1. Len(queue') = Len(queue) + 1 /\ dropped' = dropped
        BY <1>1, <1>5, Values, LossSets
      <3>2. /\ \A i \in 1..Len(queue) : i \in 1..Len(queue') /\ i + 0 = i /\ i # Len(queue) + 1
            /\ \A i \in 1..Len(queue') : i = Len(queue) + 1 \/ i \in 1..Len(queue)
            /\ Len(queue) + 1 \in 1..Len(queue') /\ Len(queue) + 1 + 0 = Len(queue) + 1
        BY <3>1, Values
      <3> QED
        BY <1>1, <1>5, <3>1, <3>2
    <2>2. ToSet(queue) \cup {written'} \subseteq ToSet(queue')
      BY <1>3, <2>1
    <2>3. Gone' \subseteq Gone
      BY <1>2, <1>4, <2>2 DEF Gone
    <2>4. CASE Len(queue) < Len(batch)
      <3>1. Removable' \subseteq Removable \cup {written'}
        BY <1>2, <2>1 DEF Removable
      <3>2. Doomed' \subseteq Doomed \cup {written'}
        BY <1>3, <2>3, <3>1 DEF Doomed
      <3>3. Slack' = Slack - 1
        BY <1>2, <2>1, <2>4, Values DEF Slack
      <3>4. /\ Cardinality(Gone') \in Nat /\ Cardinality(Gone') <= Cardinality(Gone)
        BY <2>3, LossSets, Smaller
      <3>5. /\ Cardinality(Doomed') \in Nat /\ Cardinality(Doomed') <= Cardinality(Doomed) + 1
        BY <3>2, LossSets, OneLarger
      <3>6. Cardinality(Gone') <= dropped' + cleared'
        BY <1>2, <2>1, <3>4, LossSets DEF LossInv
      <3>7. batch' # <<>> => Cardinality(Doomed') + Slack' <= dropped' + cleared'
        BY <1>2, <2>1, <3>3, <3>5, LossSets DEF LossInv
      <3> QED
        BY <1>2, <3>6, <3>7 DEF LossInv
    <2>5. CASE ~(Len(queue) < Len(batch))
      <3>0. \A i \in 1..Len(queue') : i <= Len(batch) => i \in 1..Len(queue)
        BY <2>1, <2>5, Values
      <3>1. Removable' \subseteq Removable
        BY <1>2, <2>1, <3>0 DEF Removable
      <3>2. Doomed' \subseteq Doomed
        BY <1>3, <2>3, <3>1 DEF Doomed
      <3>3. Slack' = Slack
        BY <1>2, <2>1, <2>5, Values DEF Slack
      <3>4. /\ Cardinality(Gone') <= dropped' + cleared'
            /\ batch' # <<>> => Cardinality(Doomed') + Slack' <= dropped' + cleared'
        BY <1>2, <2>1, <2>3, <3>2, <3>3, NothingMoreLost
      <3> QED
        BY <1>2, <3>4 DEF LossInv
    <2> QED
      BY <2>4, <2>5
  <1>6. CASE excess = 1
    <2>1. /\ Len(queue') = Len(queue) /\ dropped' = dropped + 1
          /\ \A i \in 1..Len(queue) :
                queue'[i] = IF i = Len(queue) THEN written' ELSE queue[i + 1]
          /\ \A i \in 1..Len(queue) : i # 1 => i - 1 \in 1..Len(queue) /\ queue'[i - 1] = queue[i]
      <3>1. Len(queue') = Len(queue) /\ dropped' = dropped + 1
        BY <1>1, <1>6, Values
      <3>2. ASSUME NEW i \in 1..Len(queue)
            PROVE  queue'[i] = IF i = Len(queue) THEN written' ELSE queue[i + 1]
        <4>1. i \in 1..Len(queue') /\ (i + 1 = Len(queue) + 1 <=> i = Len(queue))
          BY <3>1, Values
        <4> QED
          BY <1>1, <1>6, <4>1
      <3>3. ASSUME NEW i \in 1..Len(queue), i # 1
            PROVE  i - 1 \in 1..Len(queue) /\ queue'[i - 1] = queue[i]
        <4>1. i - 1 \in 1..Len(queue) /\ i - 1 # Len(queue) /\ (i - 1) + 1 = i
          BY <3>3, Values
        <4> QED
          BY <3>2, <4>1
      <3> QED
        BY <3>1, <3>2, <3>3
    <2>2. Slack' = Slack
      BY <1>2, <2>1 DEF Slack
    <2>3. CASE Len(queue) = 0
      <3>1. ToSet(queue) = {} /\ ToSet(queue') = {} /\ Removable' = {}
        BY <1>3, <2>1, <2>3 DEF Removable
      <3>2. Gone' \subseteq Gone \cup {written'}
        BY <1>2, <1>4, <3>1 DEF Gone
      <3>3. Doomed' \subseteq Doomed \cup {written'}
        BY <1>3, <3>1, <3>2 DEF Doomed
      <3> QED
        <4>1. /\ Cardinality(Gone') \in Nat /\ Cardinality(Gone') <= Cardinality(Gone) + 1
              /\ Cardinality(Doomed') \in Nat /\ Cardinality(Doomed') <= Cardinality(Doomed) + 1
          BY <3>2, <3>3, LossSets, OneLarger
        <4>2. Cardinality(Gone') <= dropped' + cleared'
          BY <1>2, <2>1, <4>1, LossSets DEF LossInv
        <4>3. batch' # <<>> => Cardinality(Doomed') + Slack' <= dropped' + cleared'
          BY <1>2, <2>1, <2>2, <4>1, LossSets DEF LossInv
        <4> QED
          BY <1>2, <4>2, <4>3 DEF LossInv
    <2>4. CASE Len(queue) # 0
      <3>0. 1 \in 1..Len(queue) /\ Len(queue) \in 1..Len(queue)
        BY <2>4, Values
      <3>1. written' \in ToSet(queue') /\ ToSet(queue) \subseteq ToSet(queue') \cup {queue[1]}
        <4>1. written' \in ToSet(queue')
          BY <1>3, <2>1, <3>0
        <4>2. ASSUME NEW i \in 1..Len(queue) PROVE queue[i] \in ToSet(queue') \cup {queue[1]}
          BY <1>3, <2>1, <4>2
        <4> QED
          BY <1>3, <4>1, <4>2
      <3>2. Gone' \subseteq Gone \cup {queue[1]}
        BY <1>2, <1>4, <3>1 DEF Gone
      <3>3. /\ Cardinality(Gone') \in Nat /\ Cardinality(Gone') <= Cardinality(Gone) + 1
        BY <3>2, LossSets, OneLarger
      <3>4. Cardinality(Gone') <= dropped' + cleared'
        BY <1>2, <2>1, <3>3, LossSets DEF LossInv
      <3>5. ASSUME batch # <<>> PROVE Cardinality(Doomed') + Slack' <= dropped' + cleared'
        <4> DEFINE k == IF Len(queue) < Len(batch) THEN Len(queue) ELSE Len(batch)
        <4>1. Len(batch) \in Nat \ {0}
          BY <3>5, EmptySeq DEF DataType
        <4>2. k \in 1..Len(queue) /\ 1 <= Len(batch)
          BY <3>0, <4>1, Values
        <4>3. queue[1] \in Removable
          BY <3>0, <4>2 DEF Removable
        <4>4. ASSUME NEW i \in 1..Len(queue), i <= Len(batch), i # k
              PROVE  i + 1 \in 1..Len(queue) /\ i + 1 <= Len(batch) /\ i # Len(queue)
          <5>1. i < k /\ k <= Len(queue) /\ k <= Len(batch)
            BY <4>1, <4>4, Values
          <5> HIDE DEF k
          <5> QED
            BY <4>2, <5>1, <4>1, Values
        <4>5. Removable' \subseteq Removable \cup {queue'[k]}
          <5>1. ASSUME NEW i \in 1..Len(queue), i <= Len(batch)
                PROVE  queue'[i] \in Removable \cup {queue'[k]}
            <6>1. CASE i = k
              BY <6>1
            <6>2. CASE i # k
              <7>1. i + 1 \in 1..Len(queue) /\ i + 1 <= Len(batch) /\ i # Len(queue)
                BY <4>4, <5>1, <6>2
              <7>2. queue'[i] = queue[i + 1]
                BY <2>1, <7>1
              <7> QED
                BY <7>1, <7>2 DEF Removable
            <6> QED
              BY <6>1, <6>2
          <5> HIDE DEF k
          <5> QED
            BY <1>2, <2>1, <5>1 DEF Removable
        <4> HIDE DEF k
        <4>6. Doomed' \subseteq Doomed \cup {queue'[k]}
          BY <1>3, <3>2, <4>3, <4>5 DEF Doomed
        <4>7. /\ Cardinality(Doomed') \in Nat /\ Cardinality(Doomed') <= Cardinality(Doomed) + 1
          BY <4>6, LossSets, OneLarger
        <4> QED
          BY <1>2, <2>1, <2>2, <3>5, <4>7, LossSets DEF LossInv
      <3> QED
        BY <1>2, <3>4, <3>5 DEF LossInv
    <2> QED
      BY <2>3, <2>4
  <1> QED
    BY <1>1, <1>5, <1>6

LEMMA LossLeave ==
    ASSUME DataType, LossInv, NEW rs, Leaves(rs), UNCHANGED mode, DataType' PROVE LossInv'
  <1>1. /\ UNCHANGED <<batch, batchAt, wire, dropped, ignored, mode>>
        /\ 1..written' \subseteq 1..written \cup rs
    BY Values DEF Leaves
  <1>2. CASE told' = told \cup rs /\ UNCHANGED <<queue, beaconed, cleared>>
    <2>1. Gone' \subseteq Gone
      BY <1>1, <1>2 DEF Gone
    <2>2. Removable' = Removable /\ Slack' = Slack
      BY <1>1, <1>2 DEF Removable, Slack
    <2>3. Doomed' \subseteq Doomed
      BY <1>1, <2>1, <2>2 DEF Doomed
    <2> QED
      BY <1>1, <1>2, <2>1, <2>2, <2>3, NothingMoreLost DEF LossInv
  <1>3. CASE /\ beaconed' = beaconed \cup ToSet(queue) \cup rs
             /\ queue' = <<>> /\ told' = told
             /\ cleared' = cleared + (IF batch = <<>> THEN 0 ELSE Len(queue))
    <2>1. Gone' \subseteq Gone
      BY <1>1, <1>3 DEF Gone
    <2>2. Len(queue') = 0 /\ Removable' = {}
      BY <1>3 DEF Removable
    <2>3. Doomed' \subseteq Doomed
      BY <1>1, <2>1, <2>2 DEF Doomed
    <2>4. /\ Cardinality(Gone') \in Nat /\ Cardinality(Gone') <= Cardinality(Gone)
          /\ Cardinality(Doomed') \in Nat /\ Cardinality(Doomed') <= Cardinality(Doomed)
      BY <2>1, <2>3, LossSets, Smaller
    <2>5. cleared' \in Nat /\ cleared' >= cleared
      BY <1>3, Values, LossSets
    <2>6. Cardinality(Gone') <= dropped' + cleared'
      BY <1>1, <2>4, <2>5, LossSets DEF LossInv
    <2>7. Slack' <= Slack + Len(queue) /\ Slack' \in Nat
      BY <1>1, <2>2, Values DEF Slack
    <2>8. batch' # <<>> => Cardinality(Doomed') + Slack' <= dropped' + cleared'
      <3> SUFFICES ASSUME batch # <<>> PROVE Cardinality(Doomed') + Slack' <= dropped' + cleared'
        BY <1>1
      <3>1. Cardinality(Doomed) + Slack <= dropped + cleared
        BY DEF LossInv
      <3>2. cleared' = cleared + Len(queue) /\ dropped' = dropped
        BY <1>1, <1>3
      <3>3. /\ Cardinality(Doomed) \in Nat /\ Slack \in Nat /\ dropped \in Nat
            /\ cleared \in Nat /\ Len(queue) \in Nat
        BY LossSets, Values
      <3> QED
        BY <2>4, <2>7, <3>1, <3>2, <3>3
    <2> QED
      BY <1>1, <2>6, <2>8 DEF LossInv
  <1> QED
    BY <1>2, <1>3 DEF Leaves

LEMMA LossStep ==
    ASSUME DataType, Control, LossInv, Kinds, UNCHANGED mode, DataType' PROVE LossInv'
  <1>1. CASE Rests
    BY <1>1 DEF Rests, LossInv, Doomed, Gone, Removable, Slack
  <1>2. CASE Abandons
    <2>1. batch' = <<>> /\ Len(batch') = 0 /\ Gone' = Gone /\ UNCHANGED <<dropped, cleared>>
      BY <1>2 DEF Abandons, Gone
    <2> QED
      BY <2>1 DEF LossInv
  <1>3. CASE GivesOne
    <2>0. batchAt \in 1..Len(batch)
      BY <1>3, Values DEF GivesOne, Control, DataType
    <2>1. ToSet(wire') = ToSet(wire) \cup {batch[batchAt]}
      <3>1. wire \in Seq(1..written) /\ batch[batchAt] \in 1..written
        BY <2>0, Values DEF DataType
      <3>2. /\ wire' \in Seq(1..written) /\ Len(wire') = Len(wire) + 1
            /\ wire'[Len(wire) + 1] = batch[batchAt]
            /\ \A i \in 1..Len(wire) : wire'[i] = wire[i]
        BY <1>3, <3>1, AppendProperties DEF GivesOne
      <3>3. /\ ToSet(wire) = {wire[i] : i \in 1..Len(wire)}
            /\ ToSet(wire') = {wire'[i] : i \in 1..Len(wire')}
        BY <3>1, <3>2, ElementsOf
      <3>4. \A i \in 1..Len(wire') : i \in 1..Len(wire) \/ i = Len(wire) + 1
        BY <3>2, Values
      <3>5. 1..Len(wire) \subseteq 1..Len(wire') /\ Len(wire) + 1 \in 1..Len(wire')
        BY <3>2, Values
      <3> QED
        BY <3>2, <3>3, <3>4, <3>5
    <2>2. UNCHANGED <<queue, batch, written, dropped, exitVars, ignored, mode>>
      BY <1>3 DEF GivesOne
    <2>3. Gone' \subseteq Gone /\ Removable' = Removable /\ Slack' = Slack
      BY <2>1, <2>2 DEF Gone, Removable, Slack
    <2>4. Doomed' \subseteq Doomed
      BY <2>2, <2>3 DEF Doomed
    <2>5. \A i \in 1..Len(batch) : i < batchAt' => i < batchAt \/ i = batchAt
      BY <1>3, <2>0, Values DEF GivesOne
    <2>6. mode' = "transport" =>
            \A i \in 1..Len(batch') : i < batchAt' => batch'[i] \in ToSet(wire')
      BY <2>1, <2>2, <2>5 DEF LossInv
    <2> QED
      BY <2>2, <2>3, <2>4, <2>6, NothingMoreLost DEF LossInv
  <1>4. CASE Ignores
    <2>1. /\ UNCHANGED <<queue, batch, batchAt, wire, dropped, exitVars, mode>>
          /\ 1..written' \subseteq 1..written \cup {written'}
          /\ ignored' = ignored \cup {written'}
      BY <1>4, Values DEF Ignores
    <2>2. Gone' \subseteq Gone /\ Removable' = Removable /\ Slack' = Slack
      BY <2>1 DEF Gone, Removable, Slack
    <2>3. Doomed' \subseteq Doomed
      BY <2>1, <2>2 DEF Doomed
    <2> QED
      BY <2>1, <2>2, <2>3, NothingMoreLost DEF LossInv
  <1> QED
    BY <1>1, <1>2, <1>3, <1>4, LossPeek, LossFinish, LossBuffer, LossLeave DEF Kinds

-----------------------------------------------------------------------------
(* The theorems *)

FaultType == faults \in 0..MaxFaults

LEMMA FaultStep == ASSUME FaultType, [Next]_vars PROVE FaultType'
  <1>1. ASSUME UNCHANGED faults \/ Fault PROVE FaultType'
    BY <1>1 DEF FaultType, Fault
  <1>2. ASSUME NextBatch PROVE FaultType'
    BY <1>1, <1>2 DEF NextBatch, FactoryThrows
  <1>3. ASSUME NEW w, BatchSent(w) PROVE FaultType'
    BY <1>1, <1>3 DEF BatchSent
  <1>4. ASSUME NEW rs, ExitBeacons(rs) \/ ExitReports(rs) PROVE FaultType'
    BY <1>1, <1>4 DEF ExitBeacons, ExitReports
  <1>5. CASE Calls
    BY <1>1, <1>2, <1>4, <1>5
       DEF Calls, Write, WriteIgnored, Flush, PageHidden, FlushOnExitWith, CloseFlushes, CloseNow
  <1>6. CASE Events
    BY <1>1, <1>2, <1>3, <1>6
       DEF Events, TimerFires, SocketOpens, ConnectFails, SharedConnects, SharedConnectFails,
           SharedSent, InnerWrote, SendRejects, YieldElapses, PeerCloses, SocketCloses
  <1>7. CASE SocketSends \/ SharedSends \/ SendThrows \/ FlushFails \/ UNCHANGED vars
    BY <1>1, <1>3, <1>7 DEF SocketSends, SharedSends, SendThrows, FlushFails, vars
  <1> QED
    BY <1>5, <1>6, <1>7 DEF Next

StreamInv ==
    /\ Flags /\ SocketInv /\ Control /\ DataType /\ FaultType
    /\ OrderInv /\ LossInv /\ QueueIsScheduled

LEMMA StreamInit == Init => StreamInv
  <1> SUFFICES ASSUME Init PROVE StreamInv
    OBVIOUS
  <1>1. Flags
    BY Zenon DEF Init, Flags
  <1>2. Control /\ FaultType /\ QueueIsScheduled
    BY DEF Init, Control, FaultType, QueueIsScheduled
  <1>3. Len(queue) = 0 /\ Len(batch) = 0 /\ Len(wire) = 0
    BY DEF Init
  <1>4. DataType
    BY <1>3 DEF Init, DataType
  <1>5. OrderInv
    BY <1>3 DEF OrderInv, Rising, Before
  <1>6. LossInv
    <2>1. Gone = {}
      BY DEF Init, Gone
    <2>2. Cardinality(Gone) = 0
      BY <2>1, FS_EmptySet
    <2> QED
      BY <1>3, <2>2 DEF Init, LossInv
  <1> QED
    BY <1>1, <1>2, <1>4, <1>5, <1>6, SocketInit DEF StreamInv

LEMMA StreamStep == StreamInv /\ [Next]_vars => StreamInv'
  <1> SUFFICES ASSUME StreamInv, [Next]_vars PROVE StreamInv'
    OBVIOUS
  <1>0. /\ Flags /\ SocketInv /\ Control /\ DataType /\ FaultType
        /\ OrderInv /\ LossInv /\ QueueIsScheduled
    BY DEF StreamInv
  <1>1. Flags' /\ UNCHANGED optionVars
    BY <1>0, FlagsStep
  <1>2. SocketInv' /\ UNCHANGED mode
    BY <1>0, <1>1, SocketStep
  <1>3. Kinds /\ Control'
    BY <1>0, <1>1, StepKind DEF DataType
  <1>4. DataType'
    BY <1>0, <1>3, DataTypeStep
  <1>5. OrderInv'
    BY <1>0, <1>2, <1>3, OrderStep
  <1>6. LossInv'
    BY <1>0, <1>2, <1>3, <1>4, LossStep
  <1>7. FaultType' /\ QueueIsScheduled'
    BY <1>0, FaultStep, ScheduleStep
  <1> QED
    BY <1>1, <1>2, <1>3, <1>4, <1>5, <1>6, <1>7 DEF StreamInv

LEMMA StreamInvariant == Spec => []StreamInv
  BY StreamInit, StreamStep, PTL DEF Spec

(* The object between any two steps (browser-stream.ts): every field within *)
(* its type and the queue within its bound, a queued record has a flush or  *)
(* a timer that will look at it, and one socket is open unless the onclose  *)
(* of an old one made the transport forget the current one.                *)
THEOREM SoundStream == Spec => []StreamIsSound
  <1>1. StreamInv => StreamIsSound
    <2> SUFFICES ASSUME StreamInv PROVE StreamIsSound
      OBVIOUS
    <2>1. OneSocket /\ QueueIsScheduled
      BY SocketsAreOne DEF StreamInv
    <2>2. TypeOK
      BY DEF StreamInv, Flags, SocketInv, SocketType, DataType, FaultType, TypeOK
    <2> QED
      BY <2>1, <2>2 DEF StreamIsSound
  <1> QED
    BY <1>1, StreamInvariant, PTL

(* flush() and the trimming of the queue: however the queue moves while a   *)
(* flush awaits, every record of which nothing is left is in the counter of *)
(* dropped records, but for as many as a beacon took from under a flush.   *)
THEOREM CountedLoss == Spec => []LossIsCounted
  <1>1. StreamInv => LossIsCounted
    BY DEF StreamInv, LossInv, LossIsCounted
  <1> QED
    BY <1>1, StreamInvariant, PTL

(* flush() over the socket or the shared worker: records go out in the      *)
(* order of their writes and none twice, through any failures.             *)
THEOREM OrderedWire == Spec => []WireInOrder
  <1>1. StreamInv => WireInOrder
    BY DEF StreamInv, OrderInv, Rising, WireInOrder
  <1> QED
    BY <1>1, StreamInvariant, PTL
=============================================================================
