---------------------------- MODULE ProcessProofs ----------------------------
(***************************************************************************)
(* Theorems about what runs until a process ends, for every value of the   *)
(* constants, in five parts: the shutdown coordinator, the logger, the     *)
(* lifecycle handlers, the Loki exporter, and the four side by side as     *)
(* MCProcess runs them.                                                    *)
(***************************************************************************)
EXTENDS MCProcess, ListTheorems, FiniteSetTheorems, TLAPS

(***************************************************************************)
(* Part 1: the shutdown coordinator                                        *)
(***************************************************************************)

(* Which coroutine runs in which phase; the finish comes last.             *)
Control ==
    /\ phase = "running" => drainPc = "idle"
    /\ phase = "draining" => drainPc = "running"
    /\ phase = "forcing" => forcePc \in {"upgrades", "failed"}
    /\ phase = "stopped" <=> finishPc # "idle"
    /\ phase = "stopped" => forcePc \in {"idle", "ended"}
    /\ phase \in {"running", "draining"} => forcePc = "idle"
    /\ (forced = TRUE) <=> forcePc # "idle"
    /\ (timer = TRUE) <=> phase = "draining"

(* Each phase has its events to observe, and the flush waits for them all.  *)
ObserverState ==
    /\ phase = "running" => observing = 0
    /\ phase = "draining" => observing <= 1
    /\ phase = "forcing" => observing <= 3
    /\ finishPc \in {"flush", "ended"} => observing = 0
    /\ flushes = IF finishPc \in {"flush", "ended"} /\ flushOption # "none" THEN 1 ELSE 0

(* A server with a connection is not closed, and close() calls back when   *)
(* the server is.                                                          *)
ServerState ==
    /\ \A s \in active : listener[s] # "closed"
    /\ \A s \in Servers : closeResult[s] = "ok" => listener[s] = "closed"

(* Without a force nothing was destroyed, and only a complete drain stops.  *)
DrainState ==
    forcePc = "idle" =>
        /\ killed = {}
        /\ phase = "stopped" => \A s \in Servers : closeResult[s] = "ok"

ShutdownInv == TypeOK /\ Control /\ ObserverState /\ ServerState /\ DrainState

USE ServersAssumption, MaxFaultsAssumption, BoundsAssumption

-----------------------------------------------------------------------------
(* A set of servers has a size.                                            *)
LEMMA ServersSize ==
    ASSUME NEW U \in SUBSET Servers
    PROVE  Cardinality(U) \in Nat
  BY FS_Subset, FS_CardinalityType

LEMMA ShutdownInit == Init => ShutdownInv
  <1> SUFFICES ASSUME Init PROVE ShutdownInv
    OBVIOUS
  <1>1. /\ attached \in BOOLEAN /\ stdin \in BOOLEAN
        /\ forced \in BOOLEAN /\ timer \in BOOLEAN
    BY Zenon DEF Init
  <1>2. TypeOK
    BY <1>1 DEF Init, TypeOK, Phases
  <1>3. Control /\ ObserverState /\ ServerState /\ DrainState
    BY DEF Init, Control, ObserverState, ServerState, DrainState
  <1> QED
    BY <1>2, <1>3 DEF ShutdownInv

(* #beginForce, from a state in which it may run.                          *)
LEMMA ForceStep ==
    ASSUME ShutdownInv, NEW n \in {1, 2}, BeginForce(n),
           drainPc' \in {drainPc, "ended"}, n = 2 => phase = "draining"
    PROVE  ShutdownInv'
  <1>1. PICK D \in SUBSET Servers, K \in SUBSET Servers :
          \E U \in SUBSET (D \cup K) :
             /\ faults + Cardinality(U) + Cardinality(K) <= MaxFaults
             /\ ForceServers(D, U, K)
             /\ forcePc' \in {"upgrades", "failed"}
    BY DEF BeginForce
  <1>2. PICK U \in SUBSET (D \cup K) :
             /\ faults + Cardinality(U) + Cardinality(K) <= MaxFaults
             /\ ForceServers(D, U, K)
             /\ forcePc' \in {"upgrades", "failed"}
    BY <1>1
  <1>3. Cardinality(U) \in Nat /\ Cardinality(K) \in Nat
    <2>1. U \in SUBSET Servers
      OBVIOUS
    <2> QED
      BY <2>1, ServersSize
  <1>4. /\ phase \in {"running", "draining"} /\ phase' = "forcing"
        /\ forced' = TRUE /\ timer' = FALSE /\ finishPc' = "idle"
        /\ UNCHANGED <<flushOption, finishPc, attached, stdin, closeResult, flushes>>
    BY DEF BeginForce, CanForce, hookVars, ShutdownInv, TypeOK, Control, Phases
  <1>5. observing' \in 0..3
    BY DEF BeginForce, CanForce, Observe, ShutdownInv, TypeOK, ObserverState, Phases
  <1>6. TypeOK'
    <2>1. /\ listener' \in [Servers -> {"listening", "closing", "closed"}]
          /\ active' \subseteq Servers /\ killed' \subseteq Servers
          /\ immune' \subseteq Servers /\ faults' \in 0..MaxFaults
      BY <1>2, <1>3 DEF ForceServers, ShutdownInv, TypeOK
    <2>2. /\ attached' \in BOOLEAN /\ stdin' \in BOOLEAN
          /\ forced' \in BOOLEAN /\ timer' \in BOOLEAN
      BY <1>4, Zenon DEF ShutdownInv, TypeOK
    <2> QED
      BY <1>2, <1>4, <1>5, <2>1, <2>2 DEF ShutdownInv, TypeOK, Phases
  <1>7. Control' /\ ObserverState' /\ DrainState'
    BY <1>2, <1>4, <1>5 DEF ShutdownInv, TypeOK, Control, ObserverState, DrainState
  <1>8. ServerState'
    BY <1>2, <1>4 DEF ForceServers, ShutdownInv, TypeOK, ServerState
  <1> QED
    BY <1>6, <1>7, <1>8 DEF ShutdownInv

(* The drain begins, in the servers.                                       *)
LEMMA DrainStep ==
    ASSUME ShutdownInv, BeginDrain
    PROVE  ShutdownInv'
  <1>1. PICK F \in SUBSET Servers :
          /\ faults' = faults + Cardinality(F) /\ faults' <= MaxFaults
          /\ closeResult' = [s \in Servers |-> IF s \in F THEN "failed" ELSE "pending"]
          /\ listener' = [s \in Servers |-> IF listener[s] = "listening" /\ s \notin F
                                            THEN "closing" ELSE listener[s]]
    BY DEF BeginDrain
  <1>2. Cardinality(F) \in Nat
    BY ServersSize
  <1>3. /\ phase = "running" /\ phase' = "draining" /\ timer' = TRUE
        /\ drainPc' = "running"
        /\ UNCHANGED <<flushOption, forced, forcePc, finishPc, attached, stdin,
                       active, flushes, killed, immune>>
    BY DEF BeginDrain, hookVars
  <1>4. observing' \in 0..1
    BY DEF BeginDrain, Observe, ShutdownInv, ObserverState
  <1>5. TypeOK'
    <2>1. attached' \in BOOLEAN /\ stdin' \in BOOLEAN /\ forced' \in BOOLEAN
      BY <1>3, Zenon DEF ShutdownInv, TypeOK
    <2> QED
      BY <1>1, <1>2, <1>3, <1>4, <2>1 DEF ShutdownInv, TypeOK, Phases
  <1>6. Control' /\ ObserverState' /\ DrainState'
    BY <1>3, <1>4 DEF ShutdownInv, TypeOK, Control, ObserverState, DrainState
  <1>7. ServerState'
    BY <1>1, <1>3 DEF ShutdownInv, TypeOK, ServerState
  <1> QED
    BY <1>5, <1>6, <1>7 DEF ShutdownInv

(* #finish, from the drain that completed or from the end of a force.      *)
LEMMA FinishStep ==
    ASSUME ShutdownInv, NEW n \in {1, 2}, Finish(n),
           UNCHANGED <<flushOption, forced, hookVars, serverVars, flushes, killed,
                       immune, faults>>,
           \/ /\ phase = "draining" /\ DrainDone /\ n = 1
              /\ drainPc' = "ended" /\ forcePc' = forcePc
           \/ /\ phase = "forcing" /\ drainPc' = drainPc /\ forcePc' = "ended"
    PROVE  ShutdownInv'
  <1>1. /\ phase' = "stopped" /\ timer' = FALSE /\ finishPc' = "observers"
        /\ finishPc = "idle"
        /\ UNCHANGED <<attached, stdin, closeResult, listener, active>>
    BY DEF Finish, hookVars, serverVars, ShutdownInv, Control
  <1>2. observing' \in 0..5
    BY DEF Finish, Observe, ShutdownInv, TypeOK, ObserverState
  <1>3. TypeOK'
    <2>1. attached' \in BOOLEAN /\ stdin' \in BOOLEAN /\ forced' \in BOOLEAN
      BY <1>1, Zenon DEF ShutdownInv, TypeOK
    <2> QED
      BY <1>1, <1>2, <2>1 DEF ShutdownInv, TypeOK, Phases
  <1>4. Control'
    BY <1>1 DEF ShutdownInv, TypeOK, Control
  <1>5. ObserverState' /\ ServerState'
    BY <1>1 DEF ShutdownInv, TypeOK, ObserverState, ServerState
  <1>6. DrainState'
    BY <1>1 DEF ShutdownInv, TypeOK, Control, DrainState, DrainDone
  <1> QED
    BY <1>3, <1>4, <1>5, <1>6 DEF ShutdownInv

(* A request drains or forces, and the drain that settles finishes, forces  *)
(* or does nothing more.                                                   *)
LEMMA RequestStep ==
    ASSUME ShutdownInv, NEW force \in BOOLEAN, Request(force)
    PROVE  ShutdownInv'
  BY ForceStep, DrainStep DEF Request

LEMMA DrainSettlesStep ==
    ASSUME ShutdownInv, DrainSettles
    PROVE  ShutdownInv'
  <1>1. CASE ~StillDraining
    <2>1. /\ drainPc' = "ended" /\ phase # "draining" /\ phase # "running"
          /\ UNCHANGED <<flushOption, phase, forced, timer, forcePc, finishPc,
                         observing, attached, stdin, closeResult, listener,
                         active, flushes, killed, immune, faults>>
      BY <1>1 DEF DrainSettles, StillDraining, hookVars, serverVars, ShutdownInv, Control
    <2>2. attached' \in BOOLEAN /\ stdin' \in BOOLEAN /\ forced' \in BOOLEAN
          /\ timer' \in BOOLEAN
      BY <2>1, Zenon DEF ShutdownInv, TypeOK
    <2> QED
      BY <2>1, <2>2 DEF ShutdownInv, TypeOK, Control, ObserverState, ServerState,
                        DrainState
  <1>2. CASE StillDraining /\ ~DrainFailed
    <2>1. DrainDone
      BY <1>2 DEF DrainSettles
    <2> QED
      BY <1>2, <2>1, FinishStep DEF DrainSettles, StillDraining
  <1>3. CASE StillDraining /\ DrainFailed
    BY <1>3, ForceStep DEF DrainSettles, StillDraining
  <1> QED
    BY <1>1, <1>2, <1>3

(* The finish waits for the observers, flushes and resolves.               *)
LEMMA EndStep ==
    ASSUME ShutdownInv, ObserversSettle \/ ObserverEnds \/ Resolve
    PROVE  ShutdownInv'
  <1>1. /\ UNCHANGED <<flushOption, phase, forced, timer, drainPc, forcePc, attached,
                       stdin, closeResult, listener, active, killed, immune, faults>>
    BY DEF ObserversSettle, ObserverEnds, Resolve, hookVars, pcVars, serverVars
  <1>2. attached' \in BOOLEAN /\ stdin' \in BOOLEAN /\ forced' \in BOOLEAN
        /\ timer' \in BOOLEAN
    BY <1>1, Zenon DEF ShutdownInv, TypeOK
  <1>3. /\ finishPc' \in {"idle", "observers", "flush", "ended"}
        /\ finishPc' # "idle" <=> finishPc # "idle"
        /\ observing' \in 0..5 /\ flushes' \in 0..1
        /\ observing' <= observing
    BY DEF ObserversSettle, ObserverEnds, Resolve, pcVars, ShutdownInv, TypeOK,
           ObserverState
  <1>4. ObserverState'
    BY <1>1 DEF ObserversSettle, ObserverEnds, Resolve, pcVars, ShutdownInv, TypeOK,
           ObserverState
  <1>5. TypeOK'
    BY <1>1, <1>2, <1>3 DEF ShutdownInv, TypeOK
  <1>6. Control' /\ ServerState' /\ DrainState'
    BY <1>1, <1>3 DEF ShutdownInv, TypeOK, Control, ServerState, DrainState
  <1> QED
    BY <1>4, <1>5, <1>6 DEF ShutdownInv

(* The servers move on their own, and dispose() only detaches.             *)
LEMMA OutsideStep ==
    ASSUME ShutdownInv,
           \/ \E s \in Servers : Accept(s) \/ ConnectionsEnd(s) \/ ServerCloses(s)
           \/ Dispose
           \/ UNCHANGED vars
    PROVE  ShutdownInv'
  <1>1. UNCHANGED <<flushOption, phase, forced, timer, drainPc, forcePc, finishPc,
                    observing, flushes, killed, immune, faults>>
    BY DEF Accept, ConnectionsEnd, ServerCloses, Dispose, vars, outsideServers, pcVars
  <1>2. attached' \in BOOLEAN /\ stdin' \in BOOLEAN /\ forced' \in BOOLEAN
        /\ timer' \in BOOLEAN
    <2>1. CASE Dispose
      BY <1>1, <2>1, Zenon DEF Dispose, ShutdownInv, TypeOK
    <2>2. CASE UNCHANGED <<attached, stdin>>
      BY <1>1, <2>2, Zenon DEF ShutdownInv, TypeOK
    <2> QED
      BY <2>1, <2>2 DEF Accept, ConnectionsEnd, ServerCloses, outsideServers, vars, hookVars
  <1>3. /\ closeResult' \in [Servers -> {"none", "pending", "ok", "failed"}]
        /\ listener' \in [Servers -> {"listening", "closing", "closed"}]
        /\ active' \subseteq Servers
        /\ \A s \in Servers : closeResult[s] = "ok" => closeResult'[s] = "ok"
        /\ ServerState'
    <2>1. ASSUME NEW s \in Servers, Accept(s) PROVE <1>3
      BY <2>1 DEF Accept, ShutdownInv, TypeOK, ServerState
    <2>2. ASSUME NEW s \in Servers, ConnectionsEnd(s) PROVE <1>3
      BY <2>2 DEF ConnectionsEnd, ShutdownInv, TypeOK, ServerState
    <2>3. ASSUME NEW s \in Servers, ServerCloses(s) PROVE <1>3
      BY <2>3 DEF ServerCloses, outsideServers, ShutdownInv, TypeOK, ServerState
    <2>4. CASE Dispose \/ UNCHANGED vars
      BY <2>4 DEF Dispose, vars, serverVars, ShutdownInv, TypeOK, ServerState
    <2> QED
      BY <2>1, <2>2, <2>3, <2>4
  <1>4. TypeOK'
    BY <1>1, <1>2, <1>3 DEF ShutdownInv, TypeOK
  <1>5. Control' /\ ObserverState' /\ DrainState'
    BY <1>1, <1>3 DEF ShutdownInv, TypeOK, Control, ObserverState, DrainState
  <1> QED
    BY <1>3, <1>4, <1>5 DEF ShutdownInv

LEMMA ShutdownStep == ShutdownInv /\ [Next]_vars => ShutdownInv'
  <1> SUFFICES ASSUME ShutdownInv, [Next]_vars PROVE ShutdownInv'
    OBVIOUS
  <1>1. CASE Signal \/ StdinEnds
    <2>1. (phase = "draining") \in BOOLEAN
      OBVIOUS
    <2> QED
      BY <1>1, <2>1, RequestStep DEF Signal, StdinEnds
  <1>2. CASE Programmatic
    BY <1>2, RequestStep DEF Programmatic
  <1>3. CASE GraceTimerFires
    BY <1>3, RequestStep DEF GraceTimerFires
  <1>4. CASE ForceSettles
    BY <1>4, FinishStep DEF ForceSettles
  <1> QED
    BY <1>1, <1>2, <1>3, <1>4, DrainSettlesStep, EndStep, OutsideStep
       DEF Next, FlushSettles, FlushDeadline

-----------------------------------------------------------------------------
(* All that follows rests on one invariant.                                *)
LEMMA ShutdownInvariant == Spec => []ShutdownInv
  BY ShutdownInit, ShutdownStep, PTL DEF Spec

(* For any number of servers and failing calls, in any race of signals,     *)
(* requests, the grace timer and the drain (ShutdownCoordinator): the timer *)
(* lives as long as the drain, a result without force was earned, and the  *)
(* flush runs once, after every observer.                                  *)
THEOREM OrderlyShutdown == Spec => []ShutdownIsOrderly
  <1>1. ShutdownInv => TimerGuardsDrain
    BY DEF ShutdownInv, TypeOK, Control, TimerGuardsDrain
  <1>2. ShutdownInv => GracefulIsEarned
    BY DEF ShutdownInv, TypeOK, Control, DrainState, GracefulIsEarned
  <1>3. ShutdownInv => FlushComesLast
    BY DEF ShutdownInv, TypeOK, Control, ObserverState, DrainState, ServerState,
           FlushComesLast
  <1>4. ShutdownInv => ShutdownIsOrderly
    BY <1>1, <1>2, <1>3 DEF ShutdownInv, ShutdownIsOrderly
  <1> QED
    BY <1>4, ShutdownInvariant, PTL

(* The phase as the transition table has it.                               *)
TablePhase ==
    CASE phase = "forcing" -> "forced"
      [] phase = "stopped" -> (IF forced THEN "forced" ELSE "closed")
      [] OTHER -> phase

(* The coordinator implements SHUTDOWN_TRANSITIONS: each of its steps takes *)
(* one entry of the table or none.                                         *)
THEOREM TableIsImplemented == Spec => ImplementsTransitionTable
  <1>1. Init => Table!Init
    BY DEF Init, Table!Init
  <1>2. ShutdownInv /\ [Next]_vars => [Table!Next]_TablePhase
    <2> SUFFICES ASSUME ShutdownInv, [Next]_vars PROVE [Table!Next]_TablePhase
      OBVIOUS
    <2>1. forced \in BOOLEAN
      BY DEF ShutdownInv, TypeOK
    <2>2. \/ UNCHANGED <<phase, forced>>
          \/ phase = "running" /\ phase' = "draining"
          \/ phase \in {"running", "draining"} /\ phase' = "forcing"
          \/ phase = "draining" /\ phase' = "stopped" /\ forced = FALSE /\ forced' = FALSE
          \/ phase = "forcing" /\ phase' = "stopped" /\ forced = TRUE /\ forced' = TRUE
      <3>1. ASSUME NEW n \in {1, 2}, BeginForce(n) PROVE <2>2
        BY <3>1 DEF BeginForce, CanForce, ShutdownInv, TypeOK, Phases
      <3>2. CASE BeginDrain
        BY <3>2 DEF BeginDrain
      <3>3. CASE DrainSettles
        BY <2>1, <3>1, <3>3 DEF DrainSettles, StillDraining, Finish, ShutdownInv, Control
      <3>4. CASE ForceSettles
        BY <2>1, <3>4 DEF ForceSettles, Finish, ShutdownInv, Control
      <3>5. ASSUME NEW force, Request(force) PROVE <2>2
        BY <3>1, <3>2, <3>5 DEF Request
      <3>6. CASE Signal \/ StdinEnds \/ Programmatic \/ GraceTimerFires
        BY <3>5, <3>6 DEF Signal, StdinEnds, Programmatic, GraceTimerFires
      <3> QED
        BY <3>3, <3>4, <3>6
           DEF Next, vars, Dispose, ObserversSettle, ObserverEnds, FlushSettles,
               FlushDeadline, Resolve, Accept, ConnectionsEnd, ServerCloses, outsideServers
    <2> QED
      BY <2>1, <2>2 DEF TablePhase, Table!Next, Table!Transitions
  <1> QED
    BY <1>1, <1>2, ShutdownInvariant, PTL
       DEF Spec, ImplementsTransitionTable, Table!Spec, TablePhase


(***************************************************************************)
(* Part 2: the logger                                                      *)
(***************************************************************************)

(* A record that is not active has no write under way, and one that was    *)
(* never sent has had none at all.                                         *)
WriteState ==
    \A e \in Events :
        /\ e \notin activeRecords => writing[e] = {}
        /\ e \notin sent => routed[e] = {} /\ failed[e] = {}

(* What failed is reported by the time the record leaves the active ones.  *)
ReportState ==
    \A e \in (sent \ activeRecords) \ silenced :
        \A t \in failed[e] : <<e, t>> \in reported

RecordInv == WriteState /\ ReportState

(* A call owes only records that are sent, so that none of them comes back; *)
(* while it settles it awaits those of them that are still active.         *)
CallOK(c) ==
    /\ callPc[c] # "idle" => owed[c] \subseteq sent
    /\ callPc[c] # "idle" /\ option[c].kind # "flush" => owed[c] \subseteq handed[c]
    /\ callPc[c] = "settling" => owed[c] \cap activeRecords \subseteq awaited[c]
    /\ callPc[c] \in {"closing", "ended", "rejected"} /\ c \notin timedOut =>
          owed[c] \cap activeRecords = {}
SnapshotState == \A c \in Calls : CallOK(c)

LoggerInv == Log!TypeOK /\ RecordInv /\ SnapshotState

-----------------------------------------------------------------------------
LEMMA LoggerInit == ASSUME Log!Init PROVE LoggerInv
  <1>1. Log!NoOption \in Log!Options
    BY DEF Log!NoOption, Log!Options, Log!Kinds
  <1>2. Log!TypeOK
    BY <1>1 DEF Log!Init, Log!TypeOK
  <1> QED
    BY <1>2 DEF Log!Init, LoggerInv, RecordInv, WriteState, ReportState, SnapshotState, CallOK

(* The part of TypeOK about records.                                       *)
RecordType ==
    /\ unsent \subseteq Events /\ sent \subseteq Events /\ unsent \cap sent = {}
    /\ activeRecords \subseteq sent
    /\ writing \in [Events -> SUBSET Transports]
    /\ failed \in [Events -> SUBSET Transports]
    /\ routed \in [Events -> SUBSET Transports]

(* What it takes to emit events that were not sent before.                 *)
LEMMA EmitKeeps ==
    ASSUME LoggerInv, NEW E, E \subseteq unsent, NEW to,
           \A e \in E : to[e] \in SUBSET Transports,
           Log!Emit(E, to), UNCHANGED <<reported, silenced>>
    PROVE  /\ RecordType' /\ RecordInv'
           /\ sent \subseteq sent' /\ E \subseteq sent'
           /\ activeRecords' \cap sent = activeRecords
           /\ activeRecords' = activeRecords \cup (E \ QuietEvents)
  <1>1. RecordType'
    BY DEF LoggerInv, Log!TypeOK, Log!Emit, RecordType
  <1>2. WriteState'
    BY DEF LoggerInv, Log!TypeOK, RecordInv, WriteState, Log!Emit
  <1>3. ReportState'
    BY DEF LoggerInv, Log!TypeOK, RecordInv, WriteState, ReportState, Log!Emit
  <1> QED
    BY <1>1, <1>2, <1>3 DEF RecordInv, LoggerInv, Log!TypeOK, Log!Emit

(* A step that moves no call keeps what calls owe when no sent record       *)
(* becomes active.                                                         *)
LEMMA SnapshotKeeps ==
    ASSUME LoggerInv, UNCHANGED <<callPc, option, awaited, owed, handed, timedOut>>,
           sent \subseteq sent', activeRecords' \cap sent \subseteq activeRecords
    PROVE  SnapshotState'
  BY DEF LoggerInv, SnapshotState, CallOK

-----------------------------------------------------------------------------
LEMMA CreateStep ==
    ASSUME LoggerInv, NEW e \in Events, Log!Create(e)
    PROVE  LoggerInv'
  <1>1. Log!TypeOK'
    BY DEF LoggerInv, Log!TypeOK, Log!Create, Log!callVars
  <1>2. RecordInv'
    BY DEF LoggerInv, RecordInv, WriteState, ReportState, Log!Create
  <1>3. SnapshotState'
    BY SnapshotKeeps DEF Log!Create, Log!callVars
  <1> QED
    BY <1>1, <1>2, <1>3 DEF LoggerInv

LEMMA SendStep ==
    ASSUME LoggerInv, NEW e \in Events, Log!Send(e)
    PROVE  LoggerInv'
  <1>1. PICK to : to[e] \in SUBSET Transports /\ Log!Emit({e}, to)
    <2>1. PICK route \in Log!Routes \cup {{}} : Log!Emit({e}, [r \in Events |-> route])
      BY DEF Log!Send
    <2>2. [r \in Events |-> route][e] \in SUBSET Transports
      BY DEF Log!Routes
    <2> QED
      BY <2>1, <2>2
  <1>2. /\ RecordType' /\ RecordInv'
        /\ sent \subseteq sent' /\ activeRecords' \cap sent = activeRecords
    <2>1. {e} \subseteq unsent
      BY DEF Log!Send
    <2>2. \A x \in {e} : to[x] \in SUBSET Transports
      BY <1>1
    <2>3. UNCHANGED <<reported, silenced>>
      BY DEF Log!Send
    <2> QED
      BY <1>1, <2>1, <2>2, <2>3, EmitKeeps
  <1>3. Log!TypeOK'
    BY <1>2 DEF Log!Send, Log!callVars, LoggerInv, Log!TypeOK, RecordType
  <1>4. SnapshotState'
    BY <1>2, SnapshotKeeps DEF Log!Send, Log!callVars
  <1> QED
    BY <1>2, <1>3, <1>4 DEF LoggerInv

LEMMA WriteStep ==
    ASSUME LoggerInv, NEW e \in Events, NEW t \in Transports,
           NEW ok \in BOOLEAN, Log!WriteSettles(e, t, ok)
    PROVE  LoggerInv'
  <1>1. e \in activeRecords
    BY DEF LoggerInv, RecordInv, WriteState, Log!WriteSettles
  <1>2. /\ writing' = [writing EXCEPT ![e] = @ \ {t}]
        /\ failed' \in {failed, [failed EXCEPT ![e] = @ \cup {t}]}
        /\ failuresSeen' \in 0..MaxFailures
    BY DEF Log!WriteSettles, LoggerInv, Log!TypeOK
  <1>3. Log!TypeOK'
    BY <1>2 DEF LoggerInv, Log!TypeOK, Log!WriteSettles, Log!callVars
  <1>4. RecordInv'
    BY <1>1, <1>2 DEF LoggerInv, Log!TypeOK, RecordInv, WriteState, ReportState, Log!WriteSettles
  <1>5. SnapshotState'
    BY SnapshotKeeps DEF Log!WriteSettles, Log!callVars
  <1> QED
    BY <1>3, <1>4, <1>5 DEF LoggerInv

LEMMA TaskStep ==
    ASSUME LoggerInv, NEW e \in Events, Log!TaskEnds(e)
    PROVE  LoggerInv'
  <1>1. /\ activeRecords' = activeRecords \ {e} /\ writing[e] = {}
        /\ UNCHANGED <<unsent, sent, writing, failed, routed, callPc, option, awaited,
                       transportsDue, handed, owed, timedOut>>
        /\ reported \subseteq reported' /\ silenced \subseteq silenced'
        /\ e \in silenced' \/ \A t \in failed[e] : <<e, t>> \in reported'
        /\ failuresSeen' \in 0..MaxFailures /\ failures' \subseteq Calls
    BY DEF Log!TaskEnds, LoggerInv, Log!TypeOK
  <1>2. Log!TypeOK'
    BY <1>1 DEF LoggerInv, Log!TypeOK
  <1>3. RecordInv'
    BY <1>1 DEF LoggerInv, RecordInv, WriteState, ReportState
  <1>4. SnapshotState'
    BY <1>1, SnapshotKeeps
  <1> QED
    BY <1>2, <1>3, <1>4 DEF LoggerInv

-----------------------------------------------------------------------------
(* The steps of one call leave the others alone.                           *)
Elsewhere(c) ==
    \A d \in Calls \ {c} :
        /\ callPc'[d] = callPc[d] /\ option'[d] = option[d]
        /\ awaited'[d] = awaited[d] /\ owed'[d] = owed[d] /\ handed'[d] = handed[d]
        /\ d \in timedOut' => d \in timedOut
        /\ d \in timedOut => d \in timedOut'

LEMMA OneCallMoves ==
    ASSUME LoggerInv, NEW c \in Calls, Elsewhere(c), CallOK(c)',
           sent \subseteq sent', activeRecords' \cap sent \subseteq activeRecords
    PROVE  SnapshotState'
  <1> SUFFICES ASSUME NEW d \in Calls PROVE CallOK(d)'
    BY DEF SnapshotState
  <1>1. CASE d = c
    BY <1>1
  <1>2. CASE d # c
    <2>1. CallOK(d)
      BY DEF LoggerInv, SnapshotState
    <2> QED
      BY <1>2, <2>1 DEF Elsewhere, CallOK
  <1> QED
    BY <1>1, <1>2

LEMMA EmitAllKeeps ==
    ASSUME LoggerInv, \E to \in [unsent -> Log!Routes] : Log!Emit(unsent, to),
           UNCHANGED <<reported, silenced>>
    PROVE  /\ RecordType' /\ RecordInv'
           /\ sent \subseteq sent' /\ unsent \subseteq sent'
           /\ activeRecords' \cap sent = activeRecords
           /\ activeRecords' = activeRecords \cup (unsent \ QuietEvents)
  <1>1. PICK to \in [unsent -> Log!Routes] : Log!Emit(unsent, to)
    OBVIOUS
  <1>2. \A e \in unsent : to[e] \in SUBSET Transports
    BY DEF Log!Routes
  <1> QED
    BY <1>1, <1>2, EmitKeeps

LEMMA FlushStep ==
    ASSUME LoggerInv, NEW c \in Calls, Log!FlushBegins(c)
    PROVE  LoggerInv'
  <1>1. PICK o \in Log!Options :
          /\ o.kind = "flush"
          /\ option' = [option EXCEPT ![c] = o]
          /\ IF o.sendUnsent
             THEN /\ \E to \in [unsent -> Log!Routes] : Log!Emit(unsent, to)
                  /\ callPc' = [callPc EXCEPT ![c] = "sending"]
                  /\ awaited' = [awaited EXCEPT ![c] = unsent]
                  /\ owed' = [owed EXCEPT ![c] = Log!Unsettled]
                  /\ UNCHANGED transportsDue
             ELSE /\ callPc' = [callPc EXCEPT ![c] = "settling"]
                  /\ awaited' = [awaited EXCEPT ![c] = activeRecords]
                  /\ owed' = [owed EXCEPT ![c] = activeRecords]
                  /\ transportsDue' = [transportsDue EXCEPT ![c] = Transports]
                  /\ UNCHANGED Log!recordVars
    BY DEF Log!FlushBegins
  <1>2. UNCHANGED <<failures, handed, timedOut, reported, silenced, failuresSeen>>
    BY DEF Log!FlushBegins
  <1>3. Log!Unsettled \subseteq unsent \cup sent /\ Log!Unsettled \subseteq Events
    BY DEF Log!Unsettled, LoggerInv, Log!TypeOK
  <1>4. /\ RecordType' /\ RecordInv'
        /\ sent \subseteq sent' /\ activeRecords' \cap sent = activeRecords
        /\ o.sendUnsent => unsent \subseteq sent'
    <2>1. CASE o.sendUnsent
      BY <1>1, <1>2, <2>1, EmitAllKeeps
    <2>2. CASE ~o.sendUnsent
      BY <1>1, <1>2, <2>2 DEF Log!recordVars, LoggerInv, Log!TypeOK, RecordType, RecordInv,
                              WriteState, ReportState
    <2> QED
      BY <2>1, <2>2
  <1>5. Log!TypeOK'
    <2>1. RecordType' /\ awaited' \in [Calls -> SUBSET Events]
          /\ owed' \in [Calls -> SUBSET Events]
          /\ transportsDue' \in [Calls -> SUBSET Transports]
      BY <1>1, <1>3, <1>4 DEF LoggerInv, Log!TypeOK
    <2>2. callPc' \in [Calls -> {"idle", "sending", "settling", "closing", "ended", "rejected"}]
          /\ option' \in [Calls -> Log!Options]
      BY <1>1 DEF LoggerInv, Log!TypeOK
    <2> QED
      BY <1>2, <2>1, <2>2 DEF LoggerInv, Log!TypeOK, RecordType
  <1>6. SnapshotState'
    <2>1. Elsewhere(c)
      BY <1>1, <1>2 DEF LoggerInv, Log!TypeOK, Elsewhere
    <2>2. CallOK(c)'
      BY <1>1, <1>2, <1>3, <1>4 DEF LoggerInv, Log!TypeOK, CallOK, Log!recordVars
    <2> QED
      BY <1>4, <2>1, <2>2, OneCallMoves
  <1> QED
    BY <1>4, <1>5, <1>6 DEF LoggerInv

LEMMA ExitStep ==
    ASSUME LoggerInv, NEW c \in Calls, Log!ExitBegins(c)
    PROVE  LoggerInv'
  <1>1. /\ RecordType' /\ RecordInv'
        /\ sent \subseteq sent' /\ unsent \subseteq sent'
        /\ activeRecords' \cap sent = activeRecords
        /\ activeRecords' = activeRecords \cup (unsent \ QuietEvents)
    BY EmitAllKeeps DEF Log!ExitBegins
  <1>2. PICK o \in Log!Options : option' = [option EXCEPT ![c] = o]
    BY DEF Log!ExitBegins
  <1>3. Log!Unsettled \subseteq activeRecords' /\ activeRecords' \subseteq Events
        /\ activeRecords' \subseteq sent'
    BY <1>1 DEF Log!Unsettled, RecordType
  <1>4. Log!TypeOK'
    BY <1>1, <1>2, <1>3 DEF LoggerInv, Log!TypeOK, RecordType, Log!ExitBegins
  <1>5. SnapshotState'
    <2>1. Elsewhere(c)
      BY <1>2 DEF LoggerInv, Log!TypeOK, Elsewhere, Log!ExitBegins
    <2>2. CallOK(c)'
      BY <1>1, <1>3 DEF LoggerInv, Log!TypeOK, CallOK, Log!ExitBegins
    <2> QED
      BY <1>1, <2>1, <2>2, OneCallMoves
  <1> QED
    BY <1>1, <1>4, <1>5 DEF LoggerInv

(* What a call does once its sends are made.                               *)
LEMMA CallStep ==
    ASSUME LoggerInv, NEW c \in Calls,
           Log!UnsentSettles(c) \/ Log!CallSettles(c) \/ Log!CallTimesOut(c) \/ Log!CloseEnds(c)
    PROVE  LoggerInv'
  <1>1. UNCHANGED <<Log!recordVars, option, failures, handed, owed, reported, silenced,
                    failuresSeen>>
    BY DEF Log!UnsentSettles, Log!CallSettles, Log!CallTimesOut, Log!CloseEnds
  <1>2. PICK pc \in {"settling", "closing", "ended", "rejected"} :
          callPc' = [callPc EXCEPT ![c] = pc]
    BY DEF Log!UnsentSettles, Log!CallSettles, Log!AfterSettling, Log!CallTimesOut, Log!CloseEnds
  <1>3. /\ awaited' \in [Calls -> SUBSET Events]
        /\ transportsDue' \in [Calls -> SUBSET Transports]
        /\ timedOut' \subseteq Calls
    BY DEF LoggerInv, Log!TypeOK, Log!UnsentSettles, Log!CallSettles, Log!AfterSettling, Log!CallTimesOut,
           Log!CloseEnds
  <1>4. Log!TypeOK'
    BY <1>1, <1>2, <1>3 DEF Log!recordVars, LoggerInv, Log!TypeOK
  <1>5. RecordInv'
    BY <1>1 DEF Log!recordVars, LoggerInv, RecordInv, WriteState, ReportState
  <1>6. Elsewhere(c)
    BY <1>1, <1>2 DEF LoggerInv, Log!TypeOK, Elsewhere, Log!UnsentSettles, Log!CallSettles,
                      Log!CallTimesOut, Log!CloseEnds
  <1>7. CallOK(c)'
    <2>1. CallOK(c)
      BY DEF LoggerInv, SnapshotState
    <2>2. CASE Log!UnsentSettles(c)
      BY <1>1, <2>1, <2>2 DEF Log!UnsentSettles, CallOK, LoggerInv, Log!TypeOK, Log!recordVars
    <2>3. CASE Log!CallSettles(c)
      BY <1>1, <1>2, <2>1, <2>3
         DEF Log!CallSettles, Log!Settled, CallOK, LoggerInv, Log!TypeOK, Log!recordVars
    <2>4. CASE Log!CallTimesOut(c)
      <3>1. callPc[c] = "settling" /\ c \in timedOut' /\ callPc'[c] # "settling"
        BY <2>4 DEF Log!CallTimesOut, Log!TimesOut, LoggerInv, Log!TypeOK
      <3> QED
        BY <1>1, <2>1, <3>1 DEF CallOK, Log!recordVars
    <2>5. CASE Log!CloseEnds(c)
      BY <1>1, <2>1, <2>5 DEF Log!CloseEnds, CallOK, LoggerInv, Log!TypeOK, Log!recordVars
    <2> QED
      BY <2>2, <2>3, <2>4, <2>5
  <1>8. SnapshotState'
    BY <1>1, <1>6, <1>7, OneCallMoves DEF Log!recordVars
  <1> QED
    BY <1>4, <1>5, <1>8 DEF LoggerInv

LEMMA TransportStep ==
    ASSUME LoggerInv, NEW c \in Calls, NEW t \in Transports,
           NEW ok \in BOOLEAN, Log!TransportSettles(c, t, ok)
    PROVE  LoggerInv'
  <1>1. /\ UNCHANGED <<Log!recordVars, callPc, option, awaited, handed, owed, timedOut,
                       reported, silenced>>
        /\ transportsDue' \in [Calls -> SUBSET Transports]
        /\ failures' \subseteq Calls /\ failuresSeen' \in 0..MaxFailures
    BY DEF Log!TransportSettles, LoggerInv, Log!TypeOK
  <1>2. Log!TypeOK'
    BY <1>1 DEF LoggerInv, Log!TypeOK, Log!recordVars
  <1>3. RecordInv'
    BY <1>1 DEF Log!recordVars, LoggerInv, RecordInv, WriteState, ReportState
  <1>4. SnapshotState'
    BY <1>1, SnapshotKeeps DEF Log!recordVars
  <1> QED
    BY <1>2, <1>3, <1>4 DEF LoggerInv

LEMMA LoggerStep ==
    ASSUME LoggerInv, [Log!Next]_Log!vars
    PROVE  LoggerInv'
  <1>1. CASE UNCHANGED Log!vars
    BY <1>1 DEF Log!vars, Log!recordVars, Log!callVars, LoggerInv, Log!TypeOK, RecordInv, WriteState,
                ReportState, SnapshotState, CallOK
  <1>2. CASE Log!Next
    BY <1>2, CreateStep, SendStep, TaskStep, WriteStep, FlushStep, ExitStep, CallStep,
       TransportStep DEF Log!Next
  <1> QED
    BY <1>1, <1>2

-----------------------------------------------------------------------------
LEMMA LoggerInvariant == Log!Spec => []LoggerInv
  BY LoggerInit, LoggerStep, PTL DEF Log!Spec

(* Whatever the transports do and however many writes, flushes, exits and   *)
(* closes overlap (base-logger.ts): every failed write of a record that is *)
(* done with was reported, unless an error handler threw.                  *)
THEOREM FailuresReach ==
    Log!Spec => []Log!FailuresAreReported
  <1>1. LoggerInv => Log!FailuresAreReported
    BY DEF LoggerInv, Log!TypeOK, RecordInv, WriteState, ReportState, Log!FailuresAreReported
  <1> QED
    BY <1>1, LoggerInvariant, PTL

(* flushOnExit() and close() hand every record that was created and is not  *)
(* delivered to the transports' exit hooks, and a call of these or of       *)
(* flush() that was not timed out has waited for all it owes.              *)
THEOREM ExitsAreComplete ==
    Log!Spec => []Log!ExitMissesNothing
  <1>1. LoggerInv => Log!ExitMissesNothing
    BY DEF LoggerInv, Log!TypeOK, SnapshotState, CallOK, Log!ExitMissesNothing, Log!Unsettled
  <1> QED
    BY <1>1, LoggerInvariant, PTL


(***************************************************************************)
(* Part 3: the lifecycle handlers                                          *)
(***************************************************************************)

Typed ==
    /\ installed \in BOOLEAN /\ quietDrain \in BOOLEAN /\ beforeExits \in Nat
    /\ due \in [Life!Causes -> SUBSET Loggers] /\ registered \subseteq Loggers
    /\ signals \in Nat

(* Node: handlers are installed while a logger is registered, and listen    *)
(* unless the listener of beforeExit is at work.                           *)
Listening ==
    runtime = "node" /\ stopping = {} =>
       /\ registered # {} => installed
       /\ installed /\ ~quietDrain => beforeExits > 0

(* Node and Bun: a process that goes on after a signal is shutting down,    *)
(* and whom the signal found is flushed or still awaited.                  *)
Draining ==
    Life!HasProcess =>
       /\ Life!Running /\ signals > 0 => stopping # {} /\ registeredAtSignal \subseteq served \cup due["signal"]
       /\ Life!DrainedBeforeExit

LifecycleInv == Typed /\ Listening /\ Draining

-----------------------------------------------------------------------------
LEMMA LifecycleInit == Life!PlInit => LifecycleInv
  <1> SUFFICES ASSUME Life!PlInit PROVE LifecycleInv
    OBVIOUS
  <1>1. Typed
    <2>1. due \in [Life!Causes -> SUBSET Loggers]
      BY DEF Life!PlInit
    <2>2. installed \in BOOLEAN /\ quietDrain \in BOOLEAN
      BY Zenon DEF Life!PlInit
    <2> QED
      BY <2>1, <2>2 DEF Life!PlInit, Typed
  <1>2. Listening /\ Draining
    BY DEF Life!PlInit, Listening, Draining, Life!DrainedBeforeExit
  <1> QED
    BY <1>1, <1>2 DEF LifecycleInv

(* Installing and removing the handlers.                                   *)
LEMMA DetachedType == ASSUME Typed PROVE Life!Detached \in Nat
  BY DEF Typed, Life!Detached

LEMMA RegisterStep ==
    ASSUME LifecycleInv, NEW l \in Loggers, Life!Register(l)
    PROVE  LifecycleInv'
  <1>1. Typed'
    <2>1. installed' \in BOOLEAN
      BY Zenon DEF LifecycleInv, Typed, Life!Register, Life!NodeInstall, Life!BunInstall, Life!BrowserInstall,
         Life!DenoInstall
    <2>2. beforeExits' \in Nat
      BY DEF LifecycleInv, Typed, Life!Register, Life!NodeInstall, Life!BunInstall, Life!BrowserInstall,
         Life!DenoInstall
    <2> QED
      BY <2>1, <2>2 DEF LifecycleInv, Typed, Life!Register
  <1>2. Listening'
    <2> SUFFICES ASSUME runtime = "node", stopping = {}
                 PROVE  installed' /\ (installed' /\ ~quietDrain' => beforeExits' > 0)
      BY DEF Listening, Life!Register
    <2>1. Life!NodeInstall
      BY DEF Life!Register, Life!BunInstall, Life!BrowserInstall, Life!DenoInstall
    <2> QED
      BY <2>1 DEF Life!NodeInstall, Life!Register, LifecycleInv, Typed, Listening
  <1>3. Draining'
    BY DEF LifecycleInv, Draining, Life!Register, Life!HasProcess, Life!Running, Life!DrainedBeforeExit
  <1> QED
    BY <1>1, <1>2, <1>3 DEF LifecycleInv

LEMMA UnregisterStep ==
    ASSUME LifecycleInv, NEW l \in Loggers, Life!Unregister(l)
    PROVE  LifecycleInv'
  <1>0. Life!Detached \in Nat
    BY DetachedType DEF LifecycleInv
  <1>1. Typed'
    <2>1. installed' \in BOOLEAN
      BY Zenon DEF LifecycleInv, Typed, Life!Unregister, Life!NodeUnregister, Life!BunUnregister,
         Life!BrowserUnregister, Life!DenoUnregister, Life!NodeRemove, Life!BunRemove, Life!BrowserRemove
    <2>2. beforeExits' \in Nat
      BY <1>0 DEF LifecycleInv, Typed, Life!Unregister, Life!NodeUnregister, Life!BunUnregister,
         Life!BrowserUnregister, Life!DenoUnregister, Life!NodeRemove, Life!BunRemove, Life!BrowserRemove
    <2> QED
      BY <2>1, <2>2 DEF LifecycleInv, Typed, Life!Unregister
  <1>2. Listening'
    <2> SUFFICES ASSUME runtime = "node", stopping = {}
                 PROVE  /\ registered' # {} => installed'
                        /\ installed' /\ ~quietDrain' => beforeExits' > 0
      BY DEF Listening, Life!Unregister
    <2>1. Life!NodeUnregister(registered \ {l})
      BY DEF Life!Unregister, Life!BunUnregister, Life!BrowserUnregister, Life!DenoUnregister
    <2> QED
      BY <2>1 DEF Life!NodeUnregister, Life!NodeRemove, Life!Unregister, LifecycleInv, Listening
  <1>3. Draining'
    BY DEF LifecycleInv, Draining, Life!Unregister, Life!HasProcess, Life!Running, Life!DrainedBeforeExit
  <1> QED
    BY <1>1, <1>2, <1>3 DEF LifecycleInv

LEMMA QuietStep ==
    ASSUME LifecycleInv, Life!Quiet \/ Life!QuietDrainEnds
    PROVE  LifecycleInv'
  <1>0. Life!Detached \in Nat
    BY DetachedType DEF LifecycleInv
  <1>1. CASE Life!Quiet
    <2>1. Typed'
      <3>1. quietDrain' \in BOOLEAN
        BY <1>1, Zenon DEF LifecycleInv, Typed, Life!Quiet, Life!NodeBeforeExit, Life!BunBeforeExit,
           Life!DenoUnload, Life!BrowserTeardown
      <3>2. beforeExits' \in Nat /\ due' \in [Life!Causes -> SUBSET Loggers]
        BY <1>0, <1>1 DEF LifecycleInv, Typed, Life!Quiet, Life!NodeBeforeExit, Life!BunBeforeExit,
           Life!DenoUnload, Life!BrowserTeardown
      <3> QED
        BY <1>1, <3>1, <3>2 DEF LifecycleInv, Typed, Life!Quiet
    <2>2. Listening'
      <3> SUFFICES ASSUME runtime = "node"
                   PROVE  quietDrain' /\ stopping = {} /\ UNCHANGED <<registered, installed>>
        BY <1>1 DEF LifecycleInv, Listening, Life!Quiet
      <3> QED
        BY <1>1, Zenon DEF Life!Quiet, Life!NodeBeforeExit, Life!BunBeforeExit, Life!DenoUnload, Life!BrowserTeardown
    <2>3. Draining'
      <3>1. stopping # {} => stopping' # {}
        BY <1>1 DEF Life!Quiet, Life!NodeBeforeExit, Life!BunBeforeExit, Life!DenoUnload, Life!BrowserTeardown
      <3>2. due'["signal"] = due["signal"]
        BY <1>1 DEF LifecycleInv, Typed, Life!Causes, Life!Quiet, Life!NodeBeforeExit, Life!BunBeforeExit,
           Life!DenoUnload, Life!BrowserTeardown
      <3> QED
        BY <1>1, <3>1, <3>2
           DEF LifecycleInv, Draining, Life!Quiet, Life!HasProcess, Life!Running, Life!DrainedBeforeExit
    <2> QED
      BY <2>1, <2>2, <2>3 DEF LifecycleInv
  <1>2. CASE Life!QuietDrainEnds
    <2>1. Typed'
      <3>1. quietDrain' \in BOOLEAN
        BY <1>2, Zenon DEF Life!QuietDrainEnds
      <3>2. beforeExits' \in Nat
        BY <1>2 DEF LifecycleInv, Typed, Life!QuietDrainEnds, Life!NodeQuietDrainEnds,
           Life!BrowserGuardReleased
      <3> QED
        BY <1>2, <3>1, <3>2 DEF LifecycleInv, Typed, Life!QuietDrainEnds
    <2>2. Listening'
      <3> SUFFICES ASSUME runtime = "node", stopping = {}
                   PROVE  installed => beforeExits' > 0
        BY <1>2 DEF LifecycleInv, Listening, Life!QuietDrainEnds
      <3>1. Life!NodeQuietDrainEnds
        BY <1>2 DEF Life!QuietDrainEnds, Life!BrowserGuardReleased
      <3> QED
        BY <3>1 DEF Life!NodeQuietDrainEnds, LifecycleInv, Typed
    <2>3. Draining'
      BY <1>2 DEF LifecycleInv, Draining, Life!QuietDrainEnds, Life!HasProcess, Life!Running,
         Life!DrainedBeforeExit
    <2> QED
      BY <2>1, <2>2, <2>3 DEF LifecycleInv
  <1> QED
    BY <1>1, <1>2

(* A signal starts the drain, or it ends the process.                      *)
LEMMA SignalStep ==
    ASSUME LifecycleInv, Life!Signal
    PROVE  LifecycleInv'
  <1>0. Life!Detached \in Nat
    BY DetachedType DEF LifecycleInv
  <1>1. Typed'
    <2>1. installed' \in BOOLEAN
      BY Zenon DEF LifecycleInv, Typed, Life!Signal, Life!NodeSignal, Life!BunSignal, Life!DenoSignal,
         Life!DefaultSignal, Life!NodeRemove, Life!BunRemove
    <2>2. beforeExits' \in Nat
      BY <1>0 DEF LifecycleInv, Typed, Life!Signal, Life!NodeSignal, Life!BunSignal, Life!DenoSignal,
         Life!DefaultSignal, Life!NodeRemove, Life!BunRemove
    <2>3. due' \in [Life!Causes -> SUBSET Loggers]
      BY DEF LifecycleInv, Typed, Life!Signal, Life!NodeSignal, Life!BunSignal, Life!DenoSignal, Life!DefaultSignal
    <2> QED
      BY <2>1, <2>2, <2>3 DEF LifecycleInv, Typed, Life!Signal
  <1>2. Listening'
    <2>1. ASSUME runtime = "node"
          PROVE  stopping' # {} \/ UNCHANGED <<stopping, installed, beforeExits>>
      BY <2>1 DEF Life!Signal, Life!NodeSignal, Life!BunSignal, Life!DenoSignal, Life!DefaultSignal
    <2> QED
      BY <2>1 DEF Life!Signal, LifecycleInv, Listening
  <1>3. ASSUME Life!HasProcess PROVE Draining'
    <2>1. Life!Running /\ exited = "no"
      BY DEF Life!Signal, Life!Running
    <2>2. exited' \in {"no", "forced", "default"}
      BY <1>3, <2>1 DEF Life!Signal, Life!NodeSignal, Life!BunSignal, Life!DenoSignal, Life!DefaultSignal, Life!HasProcess
    <2>3. ASSUME exited' = "no"
          PROVE  /\ stopping = {} /\ stopping' # {}
                 /\ due' = [due EXCEPT !["signal"] = registered]
      BY <1>3, <2>3 DEF Life!Signal, Life!NodeSignal, Life!BunSignal, Life!DenoSignal, Life!DefaultSignal, Life!HasProcess
    <2>4. ASSUME exited' = "no" PROVE registeredAtSignal' \subseteq due'["signal"]
      <3>1. signals = 0
        BY <1>3, <2>1, <2>3, <2>4 DEF LifecycleInv, Draining, Typed
      <3>2. registeredAtSignal' = registered /\ due'["signal"] = registered
        BY <2>3, <2>4, <3>1 DEF Life!Signal, LifecycleInv, Typed, Life!Causes
      <3> QED
        BY <3>2
    <2> QED
      BY <2>2, <2>3, <2>4 DEF Draining, Life!Running, Life!DrainedBeforeExit
  <1> QED
    BY <1>1, <1>2, <1>3 DEF LifecycleInv, Draining, Life!HasProcess, Life!Signal

LEMMA SettleStep ==
    ASSUME LifecycleInv, NEW c \in Life!Causes, NEW l \in Loggers, Life!FlushSettles(c, l)
    PROVE  LifecycleInv'
  <1>1. due' \in [Life!Causes -> SUBSET Loggers] /\ registered' \subseteq registered
    BY DEF LifecycleInv, Typed, Life!FlushSettles
  <1>2. Typed'
    BY <1>1 DEF LifecycleInv, Typed, Life!FlushSettles
  <1>3. Listening'
    BY <1>1 DEF LifecycleInv, Listening, Life!FlushSettles
  <1>4. ASSUME Life!HasProcess PROVE Draining'
    <2>1. UNCHANGED exited
      BY <1>4 DEF Life!FlushSettles, Life!HasProcess
    <2>2. served \cup due["signal"] \subseteq served' \cup due'["signal"]
      BY DEF LifecycleInv, Typed, Life!FlushSettles, Life!Causes
    <2>3. exited = "no"
      BY DEF Life!FlushSettles, Life!Running
    <2> QED
      BY <1>4, <2>1, <2>2, <2>3
         DEF LifecycleInv, Draining, Life!FlushSettles, Life!Running, Life!DrainedBeforeExit
  <1> QED
    BY <1>2, <1>3, <1>4 DEF LifecycleInv, Draining, Life!HasProcess, Life!FlushSettles

LEMMA DrainEndStep ==
    ASSUME LifecycleInv, Life!SignalDrainEnds
    PROVE  LifecycleInv'
  <1>0. Life!Detached \in Nat
    BY DetachedType DEF LifecycleInv
  <1>1. Typed'
    <2>1. installed' \in BOOLEAN
      BY Zenon DEF LifecycleInv, Typed, Life!SignalDrainEnds, Life!NodeDrainEnds, Life!BunDrainEnds,
         Life!NodeRemove, Life!BunRemove
    <2>2. beforeExits' \in Nat
      BY <1>0 DEF LifecycleInv, Typed, Life!SignalDrainEnds, Life!NodeDrainEnds, Life!BunDrainEnds,
         Life!NodeRemove, Life!BunRemove
    <2> QED
      BY <2>1, <2>2 DEF LifecycleInv, Typed, Life!SignalDrainEnds
  <1>2. stopping' # {} /\ due["signal"] = {} /\ signals > 0 /\ Life!Running
    BY DEF Life!SignalDrainEnds, Life!NodeDrainEnds, Life!BunDrainEnds, Life!Drained
  <1>3. Listening'
    BY <1>2 DEF Listening
  <1>4. Draining'
    BY <1>2 DEF LifecycleInv, Draining, Life!SignalDrainEnds, Life!HasProcess, Life!Running,
       Life!DrainedBeforeExit
  <1> QED
    BY <1>1, <1>3, <1>4 DEF LifecycleInv

LEMMA LifecycleStep ==
    ASSUME LifecycleInv, [Life!PlNext]_Life!plVars
    PROVE  LifecycleInv'
  <1>1. CASE UNCHANGED Life!plVars
    BY <1>1 DEF Life!plVars, LifecycleInv, Typed, Listening, Draining, Life!HasProcess, Life!Running,
       Life!DrainedBeforeExit
  <1>2. ASSUME NEW l \in Loggers, Life!Register(l) \/ Life!Unregister(l) PROVE LifecycleInv'
    BY <1>2, RegisterStep, UnregisterStep
  <1>3. CASE Life!Quiet \/ Life!QuietDrainEnds
    BY <1>3, QuietStep
  <1>4. CASE Life!Signal
    BY <1>4, SignalStep
  <1>5. CASE Life!SignalDrainEnds
    BY <1>5, DrainEndStep
  <1>6. ASSUME NEW c \in Life!Causes, NEW l \in Loggers, Life!FlushSettles(c, l)
        PROVE  LifecycleInv'
    BY <1>6, SettleStep
  <1> QED
    BY <1>1, <1>2, <1>3, <1>4, <1>5, <1>6 DEF Life!PlNext

LEMMA LifecycleInvariant == Life!PlSpec => []LifecycleInv
  BY LifecycleInit, LifecycleStep, PTL DEF Life!PlSpec

-----------------------------------------------------------------------------
(* Node and Bun: a process that a signal ended in order has flushed every   *)
(* logger that the signal found, however many loggers come and go.         *)
THEOREM SignalsDrain == Life!PlSpec => []Life!SignalDrainsAll
  <1>1. LifecycleInv => Life!SignalDrainsAll
    BY DEF LifecycleInv, Draining, Life!SignalDrainsAll
  <1> QED
    BY <1>1, LifecycleInvariant, PTL

(* Node: as long as a logger is registered and nothing drains, beforeExit   *)
(* is listened to.                                                         *)
THEOREM QuiescenceIsHeard == Life!PlSpec => []Life!NextQuiescenceIsHeard
  <1>1. LifecycleInv => Life!NextQuiescenceIsHeard
    BY DEF LifecycleInv, Listening, Life!NextQuiescenceIsHeard
  <1> QED
    BY <1>1, LifecycleInvariant, PTL

-----------------------------------------------------------------------------
(* Types, and how many listeners beforeExit has                            *)

(* One listener for the handlers that are installed, and one that a drain   *)
(* attached after they had been removed: none of them while it runs.        *)
Listeners ==
    /\ beforeExits <= (IF installed THEN 1 ELSE 0) + (IF quietDrain THEN 0 ELSE 1)
    /\ ~Life!HasProcess => beforeExits = 0

LEMMA ListenersInit == Life!PlInit => Life!PlTypeOK /\ Listeners
  <1> SUFFICES ASSUME Life!PlInit PROVE Life!PlTypeOK /\ Listeners
    OBVIOUS
  <1>1. installed \in BOOLEAN /\ quietDrain \in BOOLEAN
    BY Zenon DEF Life!PlInit
  <1>2. due \in [Life!Causes -> SUBSET Loggers]
    BY DEF Life!PlInit
  <1> QED
    BY <1>1, <1>2 DEF Life!PlInit, Life!PlTypeOK, Listeners

(* What stays of the types when the flags and the listeners are looked      *)
(* after: the lists of loggers and the bounds.                             *)
ListsType ==
    /\ runtime \in Runtimes /\ registered \subseteq created /\ created \subseteq Loggers
    /\ stopping \subseteq Loggers \cup {Life!TheProcess}
    /\ due \in [Life!Causes -> SUBSET Loggers]
    /\ exited \in {"no", "default", "drained", "forced"}
    /\ signals \in 0..MaxSignals /\ quiets \in 0..MaxQuiet
    /\ registeredAtSignal \subseteq Loggers /\ served \subseteq Loggers

LEMMA RegisterLists ==
    ASSUME Life!PlTypeOK, NEW l \in Loggers, Life!Register(l) \/ Life!Unregister(l)
    PROVE  ListsType'
  BY DEF Life!PlTypeOK, ListsType, Life!Register, Life!Unregister

LEMMA QuietLists ==
    ASSUME Life!PlTypeOK, Life!Quiet \/ Life!QuietDrainEnds
    PROVE  ListsType'
  <1>1. CASE Life!Quiet
    <2>1. /\ due' = [due EXCEPT !["quiet"] = registered]
          /\ stopping' \in {stopping, {Life!TheProcess}}
      BY <1>1 DEF Life!Quiet, Life!NodeBeforeExit, Life!BunBeforeExit, Life!DenoUnload,
         Life!BrowserTeardown
    <2>2. /\ quiets' \in 0..MaxQuiet
          /\ UNCHANGED <<runtime, registered, created, exited, signals,
                         registeredAtSignal, served>>
      BY <1>1 DEF Life!PlTypeOK, Life!Quiet
    <2>3. stopping' \subseteq Loggers \cup {Life!TheProcess}
      BY <2>1 DEF Life!PlTypeOK
    <2>4. due' \in [Life!Causes -> SUBSET Loggers]
      BY <2>1 DEF Life!PlTypeOK
    <2> QED
      BY <2>2, <2>3, <2>4 DEF Life!PlTypeOK, ListsType
  <1>2. CASE Life!QuietDrainEnds
    BY <1>2 DEF Life!PlTypeOK, ListsType, Life!QuietDrainEnds
  <1> QED
    BY <1>1, <1>2

LEMMA SignalLists ==
    ASSUME Life!PlTypeOK, Life!Signal
    PROVE  ListsType'
  <1>1. /\ due' \in {due, [due EXCEPT !["signal"] = registered],
                     [due EXCEPT !["signal"] = @ \cup registered]}
        /\ stopping' \in {stopping, {Life!TheProcess}, stopping \cup registered}
        /\ exited' \in {exited, "forced", "default"}
    BY DEF Life!Signal, Life!NodeSignal, Life!BunSignal, Life!DenoSignal, Life!DefaultSignal
  <1>2. due' \in [Life!Causes -> SUBSET Loggers]
    BY <1>1 DEF Life!PlTypeOK, Life!Causes
  <1>3. /\ registeredAtSignal' \in {registered, registeredAtSignal}
        /\ served' \in {{}, served}
        /\ signals' \in 0..MaxSignals
        /\ UNCHANGED <<runtime, registered, created, quiets>>
    BY DEF Life!Signal, Life!PlTypeOK
  <1> QED
    BY <1>1, <1>2, <1>3 DEF Life!PlTypeOK, ListsType

LEMMA SettleLists ==
    ASSUME Life!PlTypeOK,
           \/ Life!SignalDrainEnds
           \/ \E c \in Life!Causes, l \in Loggers : Life!FlushSettles(c, l)
    PROVE  ListsType'
  BY DEF Life!PlTypeOK, ListsType, Life!SignalDrainEnds, Life!FlushSettles

(* The handlers come and go, and the listeners with them.                  *)
LEMMA HandlersStep ==
    ASSUME Life!PlTypeOK, Listeners,
           \/ Life!NodeInstall \/ Life!BunInstall \/ Life!BrowserInstall \/ Life!DenoInstall
           \/ Life!NodeRemove \/ Life!BunRemove \/ Life!BrowserRemove,
           UNCHANGED <<runtime, quietDrain>>
    PROVE  installed' \in BOOLEAN /\ beforeExits' \in 0..2 /\ Listeners'
  <1>0. installed \in BOOLEAN /\ quietDrain \in BOOLEAN /\ beforeExits \in Nat
    BY DEF Life!PlTypeOK
  <1>1. installed' \in BOOLEAN
    BY <1>0, Zenon DEF Life!NodeInstall, Life!BunInstall, Life!BrowserInstall,
       Life!DenoInstall, Life!NodeRemove, Life!BunRemove, Life!BrowserRemove
  <1>2. CASE Life!NodeInstall \/ Life!BunInstall
    BY <1>0, <1>1, <1>2 DEF Life!NodeInstall, Life!BunInstall, Listeners, Life!HasProcess
  <1>3. CASE Life!NodeRemove \/ Life!BunRemove
    BY <1>0, <1>1, <1>3 DEF Life!NodeRemove, Life!BunRemove, Life!Detached, Listeners,
       Life!HasProcess
  <1>4. CASE Life!BrowserInstall \/ Life!BrowserRemove \/ Life!DenoInstall
    <2>1. runtime \in {"browser", "deno"} /\ beforeExits' = beforeExits
      BY <1>4 DEF Life!BrowserInstall, Life!BrowserRemove, Life!DenoInstall
    <2>2. beforeExits = 0 /\ ~Life!HasProcess'
      BY <2>1 DEF Listeners, Life!HasProcess
    <2> QED
      BY <1>0, <1>1, <2>1, <2>2 DEF Listeners
  <1> QED
    BY <1>2, <1>3, <1>4

(* The same for a step that leaves the handlers and the guard alone.        *)
LEMMA HandlersStay ==
    ASSUME Life!PlTypeOK, Listeners, UNCHANGED <<runtime, installed, beforeExits, quietDrain>>
    PROVE  installed' \in BOOLEAN /\ beforeExits' \in 0..2 /\ Listeners'
  <1>1. installed' \in BOOLEAN
    BY Zenon DEF Life!PlTypeOK
  <1>2. beforeExits' \in 0..2 /\ Listeners'
    BY DEF Life!PlTypeOK, Listeners, Life!HasProcess
  <1> QED
    BY <1>1, <1>2

LEMMA QuietHandlers ==
    ASSUME Life!PlTypeOK, Listeners, Life!Quiet \/ Life!QuietDrainEnds
    PROVE  /\ installed' \in BOOLEAN /\ quietDrain' \in BOOLEAN
           /\ beforeExits' \in 0..2 /\ Listeners'
  <1>0. installed \in BOOLEAN /\ quietDrain \in BOOLEAN /\ beforeExits \in Nat
    BY DEF Life!PlTypeOK
  <1>1. UNCHANGED <<runtime, installed>>
    BY DEF Life!Quiet, Life!QuietDrainEnds
  <1>2. installed' \in BOOLEAN
    BY <1>0, <1>1, Zenon
  <1>3. CASE Life!Quiet /\ Life!NodeBeforeExit
    BY <1>0, <1>1, <1>2, <1>3
       DEF Life!NodeBeforeExit, Life!Detached, Listeners, Life!HasProcess
  <1>4. CASE Life!Quiet /\ Life!BunBeforeExit
    <2>1. quietDrain' \in BOOLEAN
      BY <1>0, <1>4, Zenon DEF Life!BunBeforeExit
    <2> QED
      BY <1>0, <1>1, <1>2, <1>4, <2>1
         DEF Life!BunBeforeExit, Life!Detached, Listeners, Life!HasProcess
  <1>5. CASE Life!Quiet /\ (Life!DenoUnload \/ Life!BrowserTeardown)
    <2>1. runtime \in {"browser", "deno"} /\ beforeExits' = beforeExits
      BY <1>5 DEF Life!DenoUnload, Life!BrowserTeardown
    <2>2. beforeExits = 0
      BY <2>1 DEF Listeners, Life!HasProcess
    <2>3. quietDrain' \in BOOLEAN
      BY <1>0, <1>5, Zenon DEF Life!DenoUnload, Life!BrowserTeardown
    <2> QED
      BY <1>0, <1>1, <1>2, <2>1, <2>2, <2>3 DEF Listeners
  <1>6. CASE Life!QuietDrainEnds
    <2>1. quietDrain /\ ~quietDrain' /\ quietDrain' \in BOOLEAN
      BY <1>6, Zenon DEF Life!QuietDrainEnds
    <2>2. CASE Life!NodeQuietDrainEnds
      <3>1. /\ beforeExits' \in {beforeExits, beforeExits + 1}
            /\ beforeExits' = beforeExits + 1 => installed
            /\ runtime = "node"
        BY <1>0, <2>2 DEF Life!NodeQuietDrainEnds
      <3>2. beforeExits' <= (IF installed THEN 1 ELSE 0) + 1 /\ beforeExits' \in Nat
        BY <1>0, <2>1, <3>1 DEF Listeners
      <3> QED
        BY <1>0, <1>1, <1>2, <2>1, <3>1, <3>2 DEF Listeners, Life!HasProcess
    <2>3. CASE Life!BrowserGuardReleased
      <3>1. runtime = "browser" /\ beforeExits' = beforeExits /\ beforeExits = 0
        BY <2>3 DEF Life!BrowserGuardReleased, Listeners, Life!HasProcess
      <3> QED
        BY <1>0, <1>1, <1>2, <2>1, <3>1 DEF Listeners, Life!HasProcess
    <2> QED
      BY <1>6, <2>2, <2>3 DEF Life!QuietDrainEnds
  <1> QED
    BY <1>3, <1>4, <1>5, <1>6 DEF Life!Quiet

LEMMA ListenersStep ==
    ASSUME Life!PlTypeOK, Listeners, [Life!PlNext]_Life!plVars
    PROVE  Life!PlTypeOK' /\ Listeners'
  <1>1. CASE UNCHANGED Life!plVars
    <2>1. /\ UNCHANGED <<runtime, installed, beforeExits, quietDrain>> /\ ListsType'
      BY <1>1 DEF Life!plVars, Life!PlTypeOK, ListsType
    <2>2. quietDrain' \in BOOLEAN
      BY <2>1, Zenon DEF Life!PlTypeOK
    <2> QED
      BY <2>1, <2>2, HandlersStay DEF Life!PlTypeOK, ListsType
  <1>2. ASSUME NEW l \in Loggers, Life!Register(l) \/ Life!Unregister(l)
        PROVE  Life!PlTypeOK' /\ Listeners'
    <2>1. UNCHANGED <<runtime, quietDrain>>
      BY <1>2 DEF Life!Register, Life!Unregister
    <2>2. \/ Life!NodeInstall \/ Life!BunInstall \/ Life!BrowserInstall \/ Life!DenoInstall
          \/ Life!NodeRemove \/ Life!BunRemove \/ Life!BrowserRemove
          \/ UNCHANGED <<installed, beforeExits>>
      BY <1>2 DEF Life!Register, Life!Unregister, Life!NodeUnregister, Life!BunUnregister,
         Life!BrowserUnregister, Life!DenoUnregister
    <2>3. installed' \in BOOLEAN /\ beforeExits' \in 0..2 /\ Listeners'
      BY <2>1, <2>2, HandlersStep, HandlersStay
    <2>4. quietDrain' \in BOOLEAN
      BY <2>1, Zenon DEF Life!PlTypeOK
    <2> QED
      BY <1>2, <2>3, <2>4, RegisterLists DEF Life!PlTypeOK, ListsType
  <1>3. CASE Life!Quiet \/ Life!QuietDrainEnds
    BY <1>3, QuietHandlers, QuietLists DEF Life!PlTypeOK, ListsType
  <1>4. CASE Life!Signal \/ Life!SignalDrainEnds
    <2>1. UNCHANGED <<runtime, quietDrain>>
      BY <1>4 DEF Life!Signal, Life!SignalDrainEnds
    <2>2. Life!NodeRemove \/ Life!BunRemove \/ UNCHANGED <<installed, beforeExits>>
      BY <1>4 DEF Life!Signal, Life!SignalDrainEnds, Life!NodeSignal, Life!BunSignal,
         Life!DenoSignal, Life!DefaultSignal, Life!NodeDrainEnds, Life!BunDrainEnds
    <2>3. installed' \in BOOLEAN /\ beforeExits' \in 0..2 /\ Listeners'
      BY <2>1, <2>2, HandlersStep, HandlersStay
    <2>4. quietDrain' \in BOOLEAN
      BY <2>1, Zenon DEF Life!PlTypeOK
    <2>5. ListsType'
      BY <1>4, SignalLists, SettleLists
    <2> QED
      BY <2>3, <2>4, <2>5 DEF Life!PlTypeOK, ListsType
  <1>5. ASSUME NEW c \in Life!Causes, NEW l \in Loggers, Life!FlushSettles(c, l)
        PROVE  Life!PlTypeOK' /\ Listeners'
    <2>1. UNCHANGED <<runtime, installed, beforeExits, quietDrain>>
      BY <1>5 DEF Life!FlushSettles
    <2>2. quietDrain' \in BOOLEAN
      BY <2>1, Zenon DEF Life!PlTypeOK
    <2>3. ListsType'
      BY <1>5, SettleLists
    <2> QED
      BY <2>1, <2>2, <2>3, HandlersStay DEF Life!PlTypeOK, ListsType
  <1> QED
    BY <1>1, <1>2, <1>3, <1>4, <1>5 DEF Life!PlNext


(***************************************************************************)
(* Part 4: the Loki exporter                                               *)
(***************************************************************************)

(* x has the fields of the transport.                                      *)
LkRec(x) ==
    /\ DOMAIN x = {"queue", "batch", "attempt", "sleeping", "outcome", "timer", "closed",
                   "exiting", "stored"}
    /\ x = [f \in DOMAIN x |-> x[f]]

Ascending(s) == \A i, j \in 1..Len(s) : i < j => s[i] < s[j]

(* What a stream stores first for each record is in the order of writing.  *)
FirstAt(q, i) == \A j \in 1..(i - 1) : q[j] # q[i]
InOrder(q) ==
    \A i, j \in 1..Len(q) : i < j /\ FirstAt(q, i) /\ FirstAt(q, j) => q[i] < q[j]

(* The fields have their types, and queue, batch and attempts their bounds. *)
FieldsType(x) ==
    /\ LkRec(x)
    /\ x.queue \in Seq(LkRecords) /\ Len(x.queue) <= Exporter!MaxQueue
    /\ x.batch \in Seq(LkRecords) /\ Len(x.batch) <= LkBatchSize
    /\ x.attempt \in 0..LkMaxRetries
    /\ x.outcome \in [LkRecords -> {"new", "open", "resolved", "rejected"}]
    /\ x.exiting \subseteq Exporter!LkExits
    /\ x.stored \in [LkStreams -> Seq(LkRecords)]

(* The batch was cut from the front of the queue.                          *)
Line(x) ==
    /\ Ascending(x.queue) /\ Ascending(x.batch)
    /\ \A b \in ToSet(x.batch), q \in ToSet(x.queue) : b < q

(* What is open is under way, and what is new is behind all of it.         *)
Promises(x) ==
    \A r \in LkRecords :
        /\ (x.outcome[r] = "open") <=> (r \in ToSet(x.queue) \cup ToSet(x.batch))
        /\ x.outcome[r] = "new" =>
             /\ \A p \in ToSet(x.queue) \cup ToSet(x.batch) : p < r
             /\ \A S \in LkStreams : \A p \in ToSet(x.stored[S]) : p < r

(* A stream is behind the queue; a batch is ahead of every stream until it  *)
(* is stored, and stored in each of its streams from then on.              *)
Streams(x) ==
    /\ \A S \in LkStreams :
          InOrder(x.stored[S]) /\ \A p \in ToSet(x.stored[S]), q \in ToSet(x.queue) : p < q
    /\ \/ \A S \in LkStreams : \A p \in ToSet(x.stored[S]), b \in ToSet(x.batch) : p < b
       \/ \A S \in LkStreams : ToSet(x.batch) \cap S \subseteq ToSet(x.stored[S])

Core(x) == FieldsType(x) /\ Line(x) /\ Promises(x) /\ Streams(x)

(* A queue nobody pushes has its timer.                                    *)
Attended(x) == x.queue # <<>> => x.timer \/ x.batch # <<>>

LkInv == Core(lk) /\ Attended(lk) /\ lkFaults \in 0..LkMaxFaults

(***************************************************************************)
(* Sequences of records                                                    *)
(***************************************************************************)

LEMMA ToSetIs ==
    ASSUME NEW X, NEW s \in Seq(X)
    PROVE  /\ ToSet(s) = {s[i] : i \in 1..Len(s)}
           /\ ToSet(s) \subseteq X
           /\ Len(s) \in Nat
           /\ s = <<>> <=> Len(s) = 0
           /\ s = <<>> <=> ToSet(s) = {}
  <1>1. DOMAIN s = 1..Len(s) /\ Len(s) \in Nat
    BY LenProperties
  <1>2. ToSet(s) = {s[i] : i \in 1..Len(s)}
    BY <1>1 DEF ToSet
  <1>3. ToSet(s) \subseteq X
    BY <1>2, ElementOfSeq
  <1>4. s = <<>> <=> Len(s) = 0
    BY EmptySeq
  <1>5. Len(s) # 0 => s[1] \in ToSet(s)
    BY <1>1, <1>2
  <1>6. Len(s) = 0 => ToSet(s) = {}
    BY <1>2
  <1> QED
    BY <1>1, <1>2, <1>3, <1>4, <1>5, <1>6

LEMMA MinOfTwo ==
    ASSUME NEW a \in Nat, NEW b \in Nat
    PROVE  LET m == Exporter!Min({a, b})
           IN  m \in {a, b} /\ m <= a /\ m <= b
  <1> DEFINE P(x) == x \in {a, b} /\ \A y \in {a, b} : x <= y
  <1>1. \E x : P(x)
    <2>1. CASE a <= b
      BY <2>1
    <2>2. CASE b <= a
      BY <2>2
    <2> QED
      BY <2>1, <2>2
  <1>2. Exporter!Min({a, b}) = CHOOSE x : P(x)
    BY DEF Exporter!Min
  <1>3. P(CHOOSE x : P(x))
    <2> HIDE DEF P
    <2> QED
      BY <1>1
  <1> QED
    BY <1>2, <1>3

LEMMA AscendingAppend ==
    ASSUME NEW s \in Seq(LkRecords), NEW r \in LkRecords, Ascending(s),
           \A p \in ToSet(s) : p < r
    PROVE  Ascending(Append(s, r))
  <1> DEFINE t == Append(s, r)
  <1>1. /\ Len(t) = Len(s) + 1 /\ Len(s) \in Nat
        /\ \A i \in 1..Len(s) : t[i] = s[i]
        /\ t[Len(s) + 1] = r
    BY AppendProperties, LenProperties
  <1>2. ToSet(s) = {s[i] : i \in 1..Len(s)}
    BY ToSetIs
  <1> HIDE DEF t
  <1> SUFFICES ASSUME NEW i \in 1..(Len(s) + 1), NEW j \in 1..(Len(s) + 1), i < j
               PROVE  t[i] < t[j]
    BY <1>1 DEF Ascending, t
  <1>3. i \in 1..Len(s) /\ (j \in 1..Len(s) \/ j = Len(s) + 1)
    BY <1>1
  <1>4. CASE j \in 1..Len(s)
    BY <1>1, <1>3, <1>4 DEF Ascending
  <1>5. CASE j = Len(s) + 1
    BY <1>1, <1>2, <1>3, <1>5
  <1> QED
    BY <1>3, <1>4, <1>5

LEMMA AscendingTail ==
    ASSUME NEW s \in Seq(LkRecords), s # <<>>, Ascending(s)
    PROVE  /\ Tail(s) \in Seq(LkRecords) /\ Ascending(Tail(s))
           /\ Len(Tail(s)) = Len(s) - 1
           /\ Head(s) \in LkRecords
           /\ Head(s) \in ToSet(s)
           /\ ToSet(Tail(s)) = ToSet(s) \ {Head(s)}
  <1> DEFINE t == Tail(s)
  <1>1. /\ t \in Seq(LkRecords) /\ Len(t) = Len(s) - 1 /\ Len(s) \in Nat /\ Len(s) # 0
        /\ \A i \in 1..Len(t) : t[i] = s[i + 1]
        /\ Head(s) = s[1] /\ s[1] \in LkRecords
    BY HeadTailProperties, LenProperties, EmptySeq, ElementOfSeq
  <1>2. /\ ToSet(s) = {s[i] : i \in 1..Len(s)}
        /\ ToSet(t) = {t[i] : i \in 1..Len(t)}
    BY <1>1, ToSetIs
  <1> HIDE DEF t
  <1>3. Ascending(t)
    <2> SUFFICES ASSUME NEW i \in 1..Len(t), NEW j \in 1..Len(t), i < j
                 PROVE  t[i] < t[j]
      BY DEF Ascending
    <2>1. i + 1 \in 1..Len(s) /\ j + 1 \in 1..Len(s) /\ i + 1 < j + 1
      BY <1>1
    <2>2. s[i + 1] < s[j + 1]
      BY <2>1 DEF Ascending
    <2> QED
      BY <2>2, <1>1
  <1>4. ASSUME NEW e \in ToSet(t)
        PROVE  e \in ToSet(s) \ {s[1]}
    <2>1. PICK i \in 1..Len(t) : e = t[i]
      BY <1>2
    <2>2. i + 1 \in 1..Len(s) /\ 1 \in 1..Len(s) /\ 1 < i + 1
      BY <1>1
    <2>3. s[1] < s[i + 1] /\ s[i + 1] \in LkRecords
      BY <2>2, ElementOfSeq DEF Ascending
    <2>4. s[1] \in Nat /\ s[i + 1] \in Nat
      BY <2>3, <1>1, ExporterAssumption
    <2>5. s[i + 1] # s[1]
      BY <2>3, <2>4
    <2> QED
      BY <1>1, <1>2, <2>1, <2>2, <2>5
  <1>5. ASSUME NEW e \in ToSet(s) \ {s[1]}
        PROVE  e \in ToSet(t)
    <2>1. PICK i \in 1..Len(s) : e = s[i]
      BY <1>2
    <2>2. i - 1 \in 1..Len(t) /\ (i - 1) + 1 = i
      BY <1>1, <2>1, <1>5
    <2> QED
      BY <1>1, <1>2, <2>1, <2>2
  <1>6. s[1] \in ToSet(s)
    BY <1>1, <1>2
  <1> QED
    BY <1>1, <1>3, <1>4, <1>5, <1>6 DEF t

LEMMA AscendingCut ==
    ASSUME NEW s \in Seq(LkRecords), Ascending(s), NEW n \in 0..Len(s)
    PROVE  LET b == SubSeq(s, 1, n)
               q == SubSeq(s, n + 1, Len(s))
           IN  /\ b \in Seq(LkRecords) /\ Len(b) = n /\ Ascending(b)
               /\ q \in Seq(LkRecords) /\ Len(q) = Len(s) - n /\ Ascending(q)
               /\ ToSet(b) \cup ToSet(q) = ToSet(s)
               /\ \A e \in ToSet(b), f \in ToSet(q) : e < f
  <1> DEFINE b == SubSeq(s, 1, n)
             q == SubSeq(s, n + 1, Len(s))
  <1>0. Len(s) \in Nat /\ n \in Nat /\ n <= Len(s)
    BY LenProperties
  <1>1. /\ b \in Seq(LkRecords) /\ Len(b) = n
        /\ \A i \in 1..n : b[i] = s[i]
    <2>1. /\ \A i \in 1..n : i \in 1..Len(s)
          /\ (IF 1 <= n THEN n - 1 + 1 ELSE 0) = n
      BY <1>0
    <2> QED
      BY <1>0, <2>1, SubSeqProperties
  <1>2. /\ q \in Seq(LkRecords) /\ Len(q) = Len(s) - n
        /\ \A i \in 1..(Len(s) - n) : q[i] = s[n + i]
    <2>1. /\ \A i \in (n + 1)..Len(s) : i \in 1..Len(s)
          /\ (IF n + 1 <= Len(s) THEN Len(s) - (n + 1) + 1 ELSE 0) = Len(s) - n
          /\ n + 1 \in Int
      BY <1>0
    <2>2. \A i \in 1..(Len(s) - n) : (n + 1) + i - 1 = n + i
      BY <1>0
    <2> QED
      BY <1>0, <2>1, <2>2, SubSeqProperties
  <1> HIDE DEF b, q
  <1>3. /\ ToSet(s) = {s[i] : i \in 1..Len(s)}
        /\ ToSet(b) = {b[i] : i \in 1..Len(b)}
        /\ ToSet(q) = {q[i] : i \in 1..Len(q)}
    BY <1>1, <1>2, ToSetIs
  <1>4. Ascending(b)
    BY <1>0, <1>1 DEF Ascending
  <1>5. Ascending(q)
    <2> SUFFICES ASSUME NEW i \in 1..(Len(s) - n), NEW j \in 1..(Len(s) - n), i < j
                 PROVE  q[i] < q[j]
      BY <1>2 DEF Ascending
    <2>1. n + i \in 1..Len(s) /\ n + j \in 1..Len(s) /\ n + i < n + j
      BY <1>0
    <2> QED
      BY <2>1, <1>2 DEF Ascending
  <1>6. ASSUME NEW e \in ToSet(b), NEW f \in ToSet(q)
        PROVE  e < f
    <2>1. PICK i \in 1..n : e = s[i]
      BY <1>1, <1>3
    <2>2. PICK j \in 1..(Len(s) - n) : f = s[n + j]
      BY <1>2, <1>3
    <2>3. i \in 1..Len(s) /\ n + j \in 1..Len(s) /\ i < n + j
      BY <1>0
    <2> QED
      BY <2>1, <2>2, <2>3 DEF Ascending
  <1>7. ToSet(b) \cup ToSet(q) \subseteq ToSet(s)
    <2>1. \A i \in 1..n : i \in 1..Len(s)
      BY <1>0
    <2>2. \A j \in 1..(Len(s) - n) : n + j \in 1..Len(s)
      BY <1>0
    <2>3. ToSet(b) \subseteq ToSet(s)
      BY <1>1, <1>3, <2>1
    <2>4. ToSet(q) \subseteq ToSet(s)
      BY <1>2, <1>3, <2>2
    <2> QED
      BY <2>3, <2>4
  <1>8. ASSUME NEW e \in ToSet(s)
        PROVE  e \in ToSet(b) \cup ToSet(q)
    <2>1. PICK i \in 1..Len(s) : e = s[i]
      BY <1>3
    <2>2. CASE i <= n
      BY <2>1, <2>2, <1>0, <1>1, <1>3
    <2>3. CASE i > n
      <3>1. i - n \in 1..(Len(s) - n) /\ n + (i - n) = i
        BY <2>3, <1>0
      <3> QED
        BY <2>1, <3>1, <1>2, <1>3
    <2> QED
      BY <2>2, <2>3, <1>0
  <1> QED
    BY <1>1, <1>2, <1>4, <1>5, <1>6, <1>7, <1>8 DEF b, q

(* What a sequence and the next one hold together.                         *)
LEMMA ConcatElements ==
    ASSUME NEW q \in Seq(LkRecords), NEW f \in Seq(LkRecords)
    PROVE  /\ q \o f \in Seq(LkRecords)
           /\ Len(q \o f) = Len(q) + Len(f)
           /\ \A i \in 1..Len(q) : (q \o f)[i] = q[i]
           /\ \A i \in 1..Len(f) : (q \o f)[Len(q) + i] = f[i]
           /\ ToSet(q \o f) = ToSet(q) \cup ToSet(f)
  <1> DEFINE t == q \o f
  <1>1. /\ t \in Seq(LkRecords) /\ Len(t) = Len(q) + Len(f)
        /\ Len(q) \in Nat /\ Len(f) \in Nat
        /\ \A i \in 1..Len(q) : t[i] = q[i]
        /\ \A i \in 1..Len(f) : t[Len(q) + i] = f[i]
    <2>1. /\ Len(q) \in Nat /\ Len(f) \in Nat
          /\ t \in Seq(LkRecords) /\ Len(t) = Len(q) + Len(f)
          /\ \A i \in 1..(Len(q) + Len(f)) :
                t[i] = IF i <= Len(q) THEN q[i] ELSE f[i - Len(q)]
      BY ConcatProperties, LenProperties
    <2> HIDE DEF t
    <2>2. \A i \in 1..Len(q) : i \in 1..(Len(q) + Len(f)) /\ i <= Len(q)
      BY <2>1
    <2>3. \A i \in 1..Len(f) :
             /\ Len(q) + i \in 1..(Len(q) + Len(f)) /\ ~ (Len(q) + i <= Len(q))
             /\ (Len(q) + i) - Len(q) = i
      BY <2>1
    <2> QED
      BY <2>1, <2>2, <2>3
  <1> HIDE DEF t
  <1>2. /\ ToSet(q) = {q[i] : i \in 1..Len(q)}
        /\ ToSet(f) = {f[i] : i \in 1..Len(f)}
        /\ ToSet(t) = {t[i] : i \in 1..Len(t)}
    BY <1>1, ToSetIs
  <1>3. \A i \in 1..Len(t) :
           i \in 1..Len(q) \/ (i - Len(q) \in 1..Len(f) /\ Len(q) + (i - Len(q)) = i)
    BY <1>1
  <1>4. /\ \A i \in 1..Len(q) : i \in 1..Len(t)
        /\ \A i \in 1..Len(f) : Len(q) + i \in 1..Len(t)
    BY <1>1
  <1>5. ToSet(t) = ToSet(q) \cup ToSet(f)
    <2>1. ToSet(t) \subseteq ToSet(q) \cup ToSet(f)
      <3> SUFFICES ASSUME NEW i \in 1..Len(t)
                   PROVE  t[i] \in ToSet(q) \cup ToSet(f)
        BY <1>2
      <3>1. CASE i \in 1..Len(q)
        BY <3>1, <1>1, <1>2
      <3>2. CASE i - Len(q) \in 1..Len(f) /\ Len(q) + (i - Len(q)) = i
        <4>1. t[i] = f[i - Len(q)]
          BY <3>2, <1>1
        <4> QED
          BY <4>1, <3>2, <1>2
      <3> QED
        BY <3>1, <3>2, <1>3
    <2>2. ToSet(q) \subseteq ToSet(t)
      BY <1>1, <1>2, <1>4
    <2>3. ToSet(f) \subseteq ToSet(t)
      BY <1>1, <1>2, <1>4
    <2> QED
      BY <2>1, <2>2, <2>3
  <1> QED
    BY <1>1, <1>5 DEF t

(* A stream stays in order when what joins it is in order and either all of *)
(* it comes later or the stream has it already.                            *)
LEMMA InOrderJoined ==
    ASSUME NEW q \in Seq(LkRecords), NEW f \in Seq(LkRecords), InOrder(q), Ascending(f),
           \/ \A p \in ToSet(q), b \in ToSet(f) : p < b
           \/ ToSet(f) \subseteq ToSet(q)
    PROVE  /\ q \o f \in Seq(LkRecords) /\ InOrder(q \o f)
           /\ ToSet(q \o f) = ToSet(q) \cup ToSet(f)
  <1> DEFINE t == q \o f
  <1>1. /\ t \in Seq(LkRecords) /\ Len(t) = Len(q) + Len(f)
        /\ Len(q) \in Nat /\ Len(f) \in Nat
        /\ \A i \in 1..Len(q) : t[i] = q[i]
        /\ \A i \in 1..Len(f) : t[Len(q) + i] = f[i]
        /\ ToSet(t) = ToSet(q) \cup ToSet(f)
    BY ConcatElements, LenProperties
  <1> HIDE DEF t
  <1>2. /\ ToSet(q) = {q[i] : i \in 1..Len(q)}
        /\ ToSet(f) = {f[i] : i \in 1..Len(f)}
    BY ToSetIs
  <1>3. \A i \in 1..Len(t) :
           i \in 1..Len(q) \/ (i - Len(q) \in 1..Len(f) /\ Len(q) + (i - Len(q)) = i)
    BY <1>1
  <1>4. ASSUME NEW i \in 1..Len(q), FirstAt(t, i)
        PROVE  FirstAt(q, i)
    <2>1. \A j \in 1..(i - 1) : j \in 1..Len(q)
      BY <1>1
    <2> QED
      BY <2>1, <1>4, <1>1 DEF FirstAt
  <1>5. ASSUME ToSet(f) \subseteq ToSet(q), NEW k \in 1..Len(f)
        PROVE  ~ FirstAt(t, Len(q) + k)
    <2>1. PICK j \in 1..Len(q) : f[k] = q[j]
      BY <1>2, <1>5
    <2>2. j \in 1..((Len(q) + k) - 1) /\ t[j] = t[Len(q) + k]
      BY <2>1, <1>1
    <2> QED
      BY <2>2 DEF FirstAt
  <1>6. ASSUME NEW i \in 1..Len(t), NEW j \in 1..Len(t), i < j,
               FirstAt(t, i), FirstAt(t, j)
        PROVE  t[i] < t[j]
    <2>1. CASE j \in 1..Len(q)
      <3>1. i \in 1..Len(q)
        BY <2>1, <1>1, <1>6
      <3>2. FirstAt(q, i) /\ FirstAt(q, j)
        BY <3>1, <2>1, <1>4, <1>6
      <3>3. q[i] < q[j]
        BY <3>1, <3>2, <2>1, <1>6 DEF InOrder
      <3> QED
        BY <3>1, <3>3, <2>1, <1>1
    <2>2. CASE j - Len(q) \in 1..Len(f) /\ Len(q) + (j - Len(q)) = j
      <3> DEFINE k == j - Len(q)
      <3>1. k \in 1..Len(f) /\ Len(q) + k = j /\ t[j] = f[k] /\ f[k] \in ToSet(f)
        BY <2>2, <1>1, <1>2
      <3> HIDE DEF k
      <3>2. ~ (ToSet(f) \subseteq ToSet(q))
        BY <3>1, <1>5, <1>6
      <3>3. \A p \in ToSet(q), b \in ToSet(f) : p < b
        BY <3>2
      <3>4. CASE i \in 1..Len(q)
        <4>1. t[i] = q[i] /\ q[i] \in ToSet(q)
          BY <3>4, <1>1, <1>2
        <4> QED
          BY <4>1, <3>1, <3>3
      <3>5. CASE i - Len(q) \in 1..Len(f) /\ Len(q) + (i - Len(q)) = i
        <4>1. t[i] = f[i - Len(q)] /\ i - Len(q) < k
          BY <3>5, <1>1, <1>6, <3>1
        <4>2. f[i - Len(q)] < f[k]
          BY <4>1, <3>1, <3>5 DEF Ascending
        <4> QED
          BY <4>1, <4>2, <3>1
      <3> QED
        BY <3>4, <3>5, <1>3
    <2> QED
      BY <2>1, <2>2, <1>3
  <1>7. InOrder(t)
    BY <1>6 DEF InOrder
  <1> QED
    BY <1>1, <1>7 DEF t

(***************************************************************************)
(* The methods                                                             *)
(***************************************************************************)

LEMMA ExporterWithout ==
    ASSUME NEW s \in Seq(LkRecords), NEW S, Ascending(s)
    PROVE  /\ Exporter!Without(s, S) \in Seq(LkRecords)
           /\ Ascending(Exporter!Without(s, S))
           /\ ToSet(Exporter!Without(s, S)) = ToSet(s) \ S
  <1> DEFINE Before == {p \in LkRecords \X LkRecords : p[1] < p[2]}
             w == Without(s, S)
  <1>1. Exporter!Without(s, S) = w
    BY DEF Exporter!Without, Without
  <1>2. w \in Seq(LkRecords) /\ ToSet(w) = ToSet(s) \ S
    BY WithoutProperties
  <1>3. \A i, j \in 1..Len(s) : i < j => <<s[i], s[j]>> \in Before
    BY ElementOfSeq DEF Ascending
  <1>4. \A i, j \in 1..Len(w) : i < j => <<w[i], w[j]>> \in Before
    <2> HIDE DEF Before
    <2> QED
      BY <1>3, WithoutKeepsOrder
  <1>5. Ascending(w)
    <2> HIDE DEF w
    <2> QED
      BY <1>4 DEF Ascending
  <1> HIDE DEF w
  <1> QED
    BY <1>1, <1>2, <1>5

(* The fields each method changes. *)
LEMMA AcceptsFields ==
    ASSUME NEW x, LkRec(x)
    PROVE  LET y == Exporter!Accepts(x)
           IN  /\ LkRec(y)
               /\ y.queue = x.queue /\ y.batch = x.batch /\ y.attempt = x.attempt
               /\ y.outcome = x.outcome /\ y.exiting = x.exiting /\ y.timer = x.timer
               /\ y.stored = [S \in LkStreams |->
                                x.stored[S] \o Exporter!Without(x.batch, LkRecords \ S)]
  BY DEF LkRec, Exporter!Accepts, Exporter!Stored

LEMMA SettleFields ==
    ASSUME NEW x, LkRec(x), NEW R, NEW how
    PROVE  LET y == Exporter!Settle(x, R, how)
           IN  /\ LkRec(y) /\ y.queue = x.queue /\ y.batch = x.batch
               /\ y.attempt = x.attempt /\ y.timer = x.timer
               /\ y.outcome = [r \in LkRecords |-> IF r \in R THEN how ELSE x.outcome[r]]
               /\ y.exiting = x.exiting /\ y.stored = x.stored
  BY DEF LkRec, Exporter!Settle

LEMMA ScheduleFields ==
    ASSUME NEW x, LkRec(x)
    PROVE  LET y == Exporter!ScheduleFlushLk(x)
           IN  /\ LkRec(y) /\ y.timer = (x.timer \/ ~x.closed)
               /\ y.queue = x.queue /\ y.batch = x.batch /\ y.attempt = x.attempt
               /\ y.outcome = x.outcome /\ y.exiting = x.exiting /\ y.stored = x.stored
  BY DEF LkRec, Exporter!ScheduleFlushLk

LEMMA EnqueueFields ==
    ASSUME NEW x, LkRec(x), NEW r
    PROVE  LET y == [x EXCEPT !.queue = Append(@, r), !.outcome[r] = "open"]
           IN  /\ LkRec(y) /\ y.queue = Append(x.queue, r) /\ y.batch = x.batch
               /\ y.attempt = x.attempt /\ y.outcome = [x.outcome EXCEPT ![r] = "open"]
               /\ y.exiting = x.exiting /\ y.stored = x.stored /\ y.closed = x.closed
  BY DEF LkRec

LEMMA MakeRoomFields ==
    ASSUME NEW x, LkRec(x), NEW r
    PROVE  LET s == Exporter!Settle(x, {Head(x.queue)}, "rejected")
               z == [s EXCEPT !.queue = Tail(@)]
           IN  [z EXCEPT !.queue = Append(@, r), !.outcome[r] = "open"]
                 = [s EXCEPT !.queue = Append(Tail(@), r), !.outcome[r] = "open"]
  BY DEF LkRec, Exporter!Settle

LEMMA RetryFields ==
    ASSUME NEW x, LkRec(x)
    PROVE  LET y == [x EXCEPT !.sleeping = TRUE, !.attempt = @ + 1]
           IN  /\ LkRec(y) /\ y.queue = x.queue /\ y.batch = x.batch
               /\ y.attempt = x.attempt + 1 /\ y.outcome = x.outcome
               /\ y.exiting = x.exiting /\ y.stored = x.stored
  BY DEF LkRec

LEMMA FinallyFields ==
    ASSUME NEW x, LkRec(x), NEW how
    PROVE  LET R == Exporter!ToSet(x.batch)
               y == [Exporter!Settle(x, R, how) EXCEPT !.batch = <<>>, !.sleeping = FALSE]
           IN  /\ LkRec(y) /\ y.queue = x.queue /\ y.batch = <<>> /\ y.attempt = x.attempt
               /\ y.outcome = [r \in LkRecords |-> IF r \in R THEN how ELSE x.outcome[r]]
               /\ y.exiting = x.exiting /\ y.stored = x.stored
  BY DEF LkRec, Exporter!Settle

LEMMA ResumeFields ==
    ASSUME NEW x, LkRec(x), NEW gaveUp
    PROVE  LET y == Exporter!ExitsResume(x, gaveUp)
           IN  /\ LkRec(y) /\ y.queue = x.queue /\ y.batch = x.batch
               /\ y.attempt = x.attempt
               /\ y.outcome = x.outcome /\ y.stored = x.stored /\ y.timer = x.timer
               /\ y.exiting \in {{}, x.exiting}
  BY DEF LkRec, Exporter!ExitsResume

LEMMA RejectFields ==
    ASSUME NEW x, LkRec(x)
    PROVE  LET y == [Exporter!Settle(x, {Head(x.queue)}, "rejected") EXCEPT
                        !.queue = Tail(@)]
           IN  /\ LkRec(y) /\ y.queue = Tail(x.queue) /\ y.batch = x.batch
               /\ y.attempt = x.attempt
               /\ y.outcome = [r \in LkRecords |->
                                 IF r = Head(x.queue) THEN "rejected" ELSE x.outcome[r]]
               /\ y.exiting = x.exiting /\ y.stored = x.stored /\ y.timer = x.timer
               /\ y.closed = x.closed
  BY DEF LkRec, Exporter!Settle

(* flush() leaves the promises alone, and the queue attended.              *)
LEMMA FlushKeeps ==
    ASSUME NEW x, Core(x)
    PROVE  /\ Core(Exporter!FlushLk(x)) /\ Attended(Exporter!FlushLk(x))
           /\ Exporter!FlushLk(x).exiting = x.exiting
  <1> DEFINE y == Exporter!FlushLk(x)
             n == Exporter!Min({LkBatchSize, Len(x.queue)})
  <1>1. CASE x.batch # <<>>
    <2>1. y = x
      BY <1>1 DEF Exporter!FlushLk
    <2> QED
      BY <2>1, <1>1 DEF Attended
  <1>2. CASE x.batch = <<>>
    <2>1. /\ LkRec(y)
          /\ y.batch = SubSeq(x.queue, 1, n)
          /\ y.queue = SubSeq(x.queue, n + 1, Len(x.queue))
          /\ y.attempt = 0 /\ y.outcome = x.outcome /\ y.stored = x.stored
          /\ y.exiting = x.exiting
      BY <1>2 DEF Core, FieldsType, LkRec, Exporter!FlushLk
    <2> HIDE DEF y
    <2>2. /\ x.queue \in Seq(LkRecords) /\ Ascending(x.queue) /\ Len(x.queue) \in Nat
          /\ Len(x.queue) <= Exporter!MaxQueue
      BY LenProperties DEF Core, FieldsType, Line
    <2>3. n \in 0..Len(x.queue) /\ n <= LkBatchSize /\ (n = 0 => Len(x.queue) = 0)
      <3>1. LkBatchSize \in Nat \ {0}
        BY ExporterAssumption
      <3>2. n \in {LkBatchSize, Len(x.queue)} /\ n <= LkBatchSize /\ n <= Len(x.queue)
        BY <2>2, <3>1, MinOfTwo
      <3> HIDE DEF n
      <3> QED
        BY <2>2, <3>1, <3>2
    <2> HIDE DEF n
    <2>4. /\ y.batch \in Seq(LkRecords) /\ Len(y.batch) = n /\ Ascending(y.batch)
          /\ y.queue \in Seq(LkRecords) /\ Len(y.queue) = Len(x.queue) - n
          /\ Ascending(y.queue)
          /\ ToSet(y.batch) \cup ToSet(y.queue) = ToSet(x.queue)
          /\ \A e \in ToSet(y.batch), f \in ToSet(y.queue) : e < f
      <3>1. LET b == SubSeq(x.queue, 1, n)
                q == SubSeq(x.queue, n + 1, Len(x.queue))
            IN  /\ b \in Seq(LkRecords) /\ Len(b) = n /\ Ascending(b)
                /\ q \in Seq(LkRecords) /\ Len(q) = Len(x.queue) - n /\ Ascending(q)
                /\ ToSet(b) \cup ToSet(q) = ToSet(x.queue)
                /\ \A e \in ToSet(b), f \in ToSet(q) : e < f
        BY <2>2, <2>3, AscendingCut
      <3> QED
        BY <2>1, <3>1
    <2>5. ToSet(x.batch) = {}
      BY <1>2, ToSetIs DEF Core, FieldsType
    <2>6. FieldsType(y)
      <3>1. Len(y.queue) <= Exporter!MaxQueue
        <4>1. Exporter!MaxQueue \in Nat
          BY ExporterAssumption DEF Exporter!MaxQueue
        <4> QED
          BY <4>1, <2>2, <2>3, <2>4
      <3>2. Len(y.batch) <= LkBatchSize /\ y.attempt \in 0..LkMaxRetries
        BY <2>1, <2>3, <2>4, ExporterAssumption
      <3> QED
        BY <3>1, <3>2, <2>1, <2>4 DEF Core, FieldsType
    <2>7. Line(y)
      BY <2>4 DEF Line
    <2>8. Promises(y)
      BY <2>1, <2>4, <2>5 DEF Core, Promises
    <2>9. Streams(y)
      <3>1. \A S \in LkStreams :
               /\ InOrder(y.stored[S])
               /\ \A p \in ToSet(y.stored[S]), q \in ToSet(y.queue) \cup ToSet(y.batch) : p < q
        BY <2>1, <2>4 DEF Core, Streams
      <3> QED
        BY <3>1 DEF Streams
    <2>10. Attended(y)
      <3>1. y.batch = <<>> => Len(x.queue) = 0 /\ n = 0
        BY <2>3, <2>4, EmptySeq
      <3>2. y.batch = <<>> => y.queue = <<>>
        BY <3>1, <2>4, EmptySeq
      <3> QED
        BY <3>2 DEF Attended
    <2> QED
      BY <2>1, <2>6, <2>7, <2>8, <2>9, <2>10 DEF Core, y
  <1> QED
    BY <1>1, <1>2

(* The timer, the flags and the exits do not matter to what is under way.  *)
LEMMA CoreSame ==
    ASSUME NEW x, NEW y, Core(x), LkRec(y),
           y.queue = x.queue, y.batch = x.batch, y.attempt \in 0..LkMaxRetries,
           y.outcome = x.outcome, y.exiting \subseteq Exporter!LkExits, y.stored = x.stored
    PROVE  Core(y)
  <1>1. FieldsType(y)
    BY DEF Core, FieldsType
  <1>2. Line(y)
    BY DEF Core, Line
  <1>3. Promises(y)
    BY DEF Core, Promises
  <1>4. Streams(y)
    BY DEF Core, Streams
  <1> QED
    BY <1>1, <1>2, <1>3, <1>4 DEF Core

(* Loki takes the batch: perhaps for the second time.                      *)
LEMMA AcceptsKeeps ==
    ASSUME NEW x, Core(x)
    PROVE  /\ Core(Exporter!Accepts(x)) /\ LkRec(Exporter!Accepts(x))
           /\ Exporter!Accepts(x).queue = x.queue
           /\ Exporter!Accepts(x).batch = x.batch
           /\ Exporter!Accepts(x).attempt = x.attempt
           /\ Exporter!Accepts(x).timer = x.timer
  <1> DEFINE y == Exporter!Accepts(x)
             B == ToSet(x.batch)
             F(S) == Exporter!Without(x.batch, LkRecords \ S)
  <1>1. /\ LkRec(y)
        /\ y.queue = x.queue /\ y.batch = x.batch /\ y.attempt = x.attempt
        /\ y.outcome = x.outcome /\ y.exiting = x.exiting /\ y.timer = x.timer
        /\ y.stored = [S \in LkStreams |-> x.stored[S] \o F(S)]
    <2>1. LkRec(x)
      BY DEF Core, FieldsType
    <2> QED
      BY <2>1, AcceptsFields
  <1> HIDE DEF y
  <1>2. x.batch \in Seq(LkRecords) /\ Ascending(x.batch) /\ B \subseteq LkRecords
    BY ToSetIs DEF Core, FieldsType, Line
  <1>3. ASSUME NEW S \in LkStreams
        PROVE  F(S) \in Seq(LkRecords) /\ Ascending(F(S)) /\ ToSet(F(S)) = B \cap S
    <2>1. F(S) \in Seq(LkRecords) /\ Ascending(F(S)) /\ ToSet(F(S)) = B \ (LkRecords \ S)
      BY <1>2, ExporterWithout
    <2> QED
      BY <1>2, <2>1
  <1> HIDE DEF F
  <1>4. ASSUME NEW S \in LkStreams
        PROVE  /\ y.stored[S] \in Seq(LkRecords) /\ InOrder(y.stored[S])
               /\ ToSet(y.stored[S]) = ToSet(x.stored[S]) \cup (B \cap S)
    <2>1. x.stored[S] \in Seq(LkRecords) /\ InOrder(x.stored[S])
      BY DEF Core, FieldsType, Streams
    <2>2. \/ \A p \in ToSet(x.stored[S]), b \in ToSet(F(S)) : p < b
          \/ ToSet(F(S)) \subseteq ToSet(x.stored[S])
      BY <1>3 DEF Core, Streams
    <2>3. y.stored[S] = x.stored[S] \o F(S)
      BY <1>1
    <2> QED
      BY <2>1, <2>2, <2>3, <1>3, InOrderJoined
  <1>5. FieldsType(y)
    BY <1>1, <1>4 DEF Core, FieldsType
  <1>6. Line(y)
    BY <1>1 DEF Core, Line
  <1>7. Promises(y)
    <2> SUFFICES ASSUME NEW r \in LkRecords
                 PROVE  /\ (y.outcome[r] = "open") <=>
                             (r \in ToSet(y.queue) \cup ToSet(y.batch))
                        /\ y.outcome[r] = "new" =>
                             /\ \A p \in ToSet(y.queue) \cup ToSet(y.batch) : p < r
                             /\ \A S \in LkStreams : \A p \in ToSet(y.stored[S]) : p < r
      BY DEF Promises
    <2>1. /\ (x.outcome[r] = "open") <=> (r \in ToSet(x.queue) \cup ToSet(x.batch))
          /\ x.outcome[r] = "new" =>
               /\ \A p \in ToSet(x.queue) \cup ToSet(x.batch) : p < r
               /\ \A S \in LkStreams : \A p \in ToSet(x.stored[S]) : p < r
      BY DEF Core, Promises
    <2> QED
      BY <2>1, <1>1, <1>4
  <1>8. Streams(y)
    <2>1. \A b \in B, q \in ToSet(x.queue) : b < q
      BY DEF Core, Line
    <2>2. \A S \in LkStreams :
             InOrder(y.stored[S]) /\ \A p \in ToSet(y.stored[S]), q \in ToSet(y.queue) : p < q
      <3> SUFFICES ASSUME NEW S \in LkStreams
                   PROVE  /\ InOrder(y.stored[S])
                          /\ \A p \in ToSet(y.stored[S]), q \in ToSet(y.queue) : p < q
        OBVIOUS
      <3>1. \A p \in ToSet(x.stored[S]), q \in ToSet(x.queue) : p < q
        BY DEF Core, Streams
      <3>2. /\ InOrder(y.stored[S]) /\ y.queue = x.queue
            /\ ToSet(y.stored[S]) = ToSet(x.stored[S]) \cup (B \cap S)
        BY <1>1, <1>4
      <3> QED
        BY <2>1, <3>1, <3>2
    <2>3. \A S \in LkStreams : ToSet(y.batch) \cap S \subseteq ToSet(y.stored[S])
      BY <1>1, <1>4
    <2> QED
      BY <2>2, <2>3 DEF Streams
  <1> QED
    BY <1>1, <1>5, <1>6, <1>7, <1>8 DEF Core, y

(* A batch whose promises are settled is done with.                        *)
LEMMA SettledKeeps ==
    ASSUME NEW x, Core(x), NEW how \in {"resolved", "rejected"}
    PROVE  LET y == Exporter!Finally(Exporter!Settle(x, Exporter!ToSet(x.batch), how))
           IN  Core(y) /\ Attended(y) /\ y.exiting \subseteq Exporter!LkExits
  <1> DEFINE B == ToSet(x.batch)
             z == [Exporter!Settle(x, Exporter!ToSet(x.batch), how) EXCEPT
                      !.batch = <<>>, !.sleeping = FALSE]
  <1>0. Exporter!ToSet(x.batch) = B
    BY DEF Exporter!ToSet, ToSet
  <1>1. /\ LkRec(z) /\ z.queue = x.queue /\ z.batch = <<>> /\ z.attempt = x.attempt
        /\ z.outcome = [r \in LkRecords |-> IF r \in B THEN how ELSE x.outcome[r]]
        /\ z.exiting = x.exiting /\ z.stored = x.stored
    <2>1. LkRec(x)
      BY DEF Core, FieldsType
    <2>2. /\ LkRec(z) /\ z.queue = x.queue /\ z.batch = <<>> /\ z.attempt = x.attempt
          /\ z.outcome = [r \in LkRecords |->
                            IF r \in Exporter!ToSet(x.batch) THEN how ELSE x.outcome[r]]
          /\ z.exiting = x.exiting /\ z.stored = x.stored
      BY <2>1, FinallyFields
    <2> HIDE DEF z
    <2> QED
      BY <1>0, <2>2
  <1>2. Exporter!Finally(Exporter!Settle(x, Exporter!ToSet(x.batch), how))
          = Exporter!FlushLk(z)
    BY DEF Exporter!Finally
  <1> HIDE DEF z
  <1>3. ToSet(z.batch) = {} /\ z.batch \in Seq(LkRecords) /\ Len(z.batch) = 0
    <2>1. <<>> \in Seq(LkRecords) /\ Len(<<>>) = 0
      BY EmptySeq
    <2> QED
      BY <1>1, <2>1, ToSetIs
  <1>4. FieldsType(z)
    <2>1. z.outcome \in [LkRecords -> {"new", "open", "resolved", "rejected"}]
      BY <1>1 DEF Core, FieldsType
    <2>2. Len(z.batch) <= LkBatchSize
      BY <1>3, ExporterAssumption
    <2> QED
      BY <1>1, <1>3, <2>1, <2>2 DEF Core, FieldsType
  <1>5. Line(z)
    BY <1>1, <1>3 DEF Core, Line, Ascending
  <1>6. Promises(z)
    <2>1. B \subseteq LkRecords /\ ToSet(x.queue) \subseteq LkRecords
      BY ToSetIs DEF Core, FieldsType
    <2>2. B \cap ToSet(x.queue) = {}
      <3> SUFFICES ASSUME NEW b \in B, b \in ToSet(x.queue) PROVE FALSE
        OBVIOUS
      <3>1. b < b /\ b \in Nat
        BY <2>1, ExporterAssumption DEF Core, Line
      <3> QED
        BY <3>1
    <2> SUFFICES ASSUME NEW r \in LkRecords
                 PROVE  /\ (z.outcome[r] = "open") <=>
                             (r \in ToSet(z.queue) \cup ToSet(z.batch))
                        /\ z.outcome[r] = "new" =>
                             /\ \A p \in ToSet(z.queue) \cup ToSet(z.batch) : p < r
                             /\ \A S \in LkStreams : \A p \in ToSet(z.stored[S]) : p < r
      BY DEF Promises
    <2>3. /\ (x.outcome[r] = "open") <=> (r \in ToSet(x.queue) \cup B)
          /\ x.outcome[r] = "new" =>
               /\ \A p \in ToSet(x.queue) \cup B : p < r
               /\ \A S \in LkStreams : \A p \in ToSet(x.stored[S]) : p < r
      BY DEF Core, Promises
    <2>4. z.outcome[r] = IF r \in B THEN how ELSE x.outcome[r]
      BY <1>1
    <2> HIDE DEF B
    <2> QED
      BY <2>2, <2>3, <2>4, <1>1, <1>3
  <1>7. Streams(z)
    BY <1>1, <1>3 DEF Core, Streams
  <1>8. Core(z)
    BY <1>4, <1>5, <1>6, <1>7 DEF Core
  <1>9. /\ Core(Exporter!FlushLk(z)) /\ Attended(Exporter!FlushLk(z))
        /\ Exporter!FlushLk(z).exiting = z.exiting
    BY <1>8, FlushKeeps
  <1> QED
    BY <1>2, <1>4, <1>9 DEF FieldsType

LEMMA ResumeKeeps ==
    ASSUME NEW x, Core(x), Attended(x), NEW gaveUp
    PROVE  Core(Exporter!ExitsResume(x, gaveUp)) /\ Attended(Exporter!ExitsResume(x, gaveUp))
  <1> DEFINE y == Exporter!ExitsResume(x, gaveUp)
  <1>1. /\ LkRec(y) /\ y.queue = x.queue /\ y.batch = x.batch /\ y.attempt = x.attempt
        /\ y.outcome = x.outcome /\ y.stored = x.stored /\ y.timer = x.timer
        /\ y.exiting \in {{}, x.exiting}
    <2>1. LkRec(x)
      BY DEF Core, FieldsType
    <2> QED
      BY <2>1, ResumeFields
  <1> HIDE DEF y
  <1>2. y.exiting \subseteq Exporter!LkExits /\ y.attempt \in 0..LkMaxRetries
    BY <1>1 DEF Core, FieldsType
  <1>3. Core(y)
    BY <1>1, <1>2, CoreSame
  <1>4. Attended(y)
    BY <1>1 DEF Attended
  <1> QED
    BY <1>3, <1>4 DEF y

(* The oldest waiting record makes room for the next.                      *)
LEMMA RejectKeeps ==
    ASSUME NEW x, Core(x), x.queue # <<>>
    PROVE  LET y == [Exporter!Settle(x, {Head(x.queue)}, "rejected") EXCEPT !.queue = Tail(@)]
           IN  /\ Core(y) /\ Len(y.queue) = Len(x.queue) - 1
               /\ \A r \in LkRecords : y.outcome[r] = "new" <=> x.outcome[r] = "new"
  <1> DEFINE h == Head(x.queue)
             y == [Exporter!Settle(x, {Head(x.queue)}, "rejected") EXCEPT !.queue = Tail(@)]
  <1>1. /\ LkRec(y) /\ y.queue = Tail(x.queue) /\ y.batch = x.batch
        /\ y.attempt = x.attempt
        /\ y.outcome = [r \in LkRecords |-> IF r = h THEN "rejected" ELSE x.outcome[r]]
        /\ y.exiting = x.exiting /\ y.stored = x.stored /\ y.timer = x.timer
        /\ y.closed = x.closed
    <2>1. LkRec(x)
      BY DEF Core, FieldsType
    <2> QED
      BY <2>1, RejectFields
  <1> HIDE DEF y
  <1>2. /\ x.queue \in Seq(LkRecords) /\ Len(x.queue) \in Nat
        /\ x.batch \in Seq(LkRecords) /\ Ascending(x.queue)
    BY LenProperties DEF Core, FieldsType, Line
  <1>3. /\ y.queue \in Seq(LkRecords) /\ Ascending(y.queue)
        /\ Len(y.queue) = Len(x.queue) - 1
        /\ h \in LkRecords /\ h \in ToSet(x.queue)
        /\ ToSet(y.queue) = ToSet(x.queue) \ {h}
    BY <1>1, <1>2, AscendingTail
  <1> HIDE DEF h
  <1>4. h \notin ToSet(x.batch)
    <2> SUFFICES ASSUME h \in ToSet(x.batch) PROVE FALSE
      OBVIOUS
    <2>1. h < h /\ h \in Nat
      BY <1>3, ExporterAssumption DEF Core, Line
    <2> QED
      BY <2>1
  <1>5. x.outcome[h] = "open"
    BY <1>3 DEF Core, Promises
  <1>6. \A r \in LkRecords :
           y.outcome[r] = IF r = h THEN "rejected" ELSE x.outcome[r]
    BY <1>1
  <1>7. FieldsType(y)
    <2>1. Len(y.queue) <= Exporter!MaxQueue
      <3>1. Exporter!MaxQueue \in Nat /\ Len(x.queue) <= Exporter!MaxQueue
        BY ExporterAssumption DEF Exporter!MaxQueue, Core, FieldsType
      <3> QED
        BY <3>1, <1>2, <1>3
    <2>2. y.outcome \in [LkRecords -> {"new", "open", "resolved", "rejected"}]
      BY <1>1 DEF Core, FieldsType
    <2> QED
      BY <2>1, <2>2, <1>1, <1>3 DEF Core, FieldsType
  <1>8. Line(y)
    BY <1>1, <1>3 DEF Core, Line
  <1>9. Promises(y)
    <2> SUFFICES ASSUME NEW r \in LkRecords
                 PROVE  /\ (y.outcome[r] = "open") <=>
                             (r \in ToSet(y.queue) \cup ToSet(y.batch))
                        /\ y.outcome[r] = "new" =>
                             /\ \A p \in ToSet(y.queue) \cup ToSet(y.batch) : p < r
                             /\ \A S \in LkStreams : \A p \in ToSet(y.stored[S]) : p < r
      BY DEF Promises
    <2>1. /\ (x.outcome[r] = "open") <=> (r \in ToSet(x.queue) \cup ToSet(x.batch))
          /\ x.outcome[r] = "new" =>
               /\ \A p \in ToSet(x.queue) \cup ToSet(x.batch) : p < r
               /\ \A S \in LkStreams : \A p \in ToSet(x.stored[S]) : p < r
      BY DEF Core, Promises
    <2>2. y.outcome[r] = IF r = h THEN "rejected" ELSE x.outcome[r]
      BY <1>6
    <2> QED
      BY <2>1, <2>2, <1>1, <1>3, <1>4
  <1>10. Streams(y)
    BY <1>1, <1>3 DEF Core, Streams
  <1>11. \A r \in LkRecords : y.outcome[r] = "new" <=> x.outcome[r] = "new"
    BY <1>5, <1>6
  <1> QED
    BY <1>3, <1>7, <1>8, <1>9, <1>10, <1>11 DEF Core, y

(***************************************************************************)
(* The steps                                                               *)
(***************************************************************************)

LEMMA EnqueueKeeps ==
    ASSUME NEW x, Core(x), NEW r \in LkRecords, x.outcome[r] = "new",
           \A q \in LkRecords : q < r => x.outcome[q] # "new",
           Len(x.queue) < Exporter!MaxQueue
    PROVE  Core([x EXCEPT !.queue = Append(@, r), !.outcome[r] = "open"])
  <1> DEFINE y == [x EXCEPT !.queue = Append(@, r), !.outcome[r] = "open"]
  <1>1. /\ LkRec(y) /\ y.queue = Append(x.queue, r) /\ y.batch = x.batch
        /\ y.attempt = x.attempt /\ y.outcome = [x.outcome EXCEPT ![r] = "open"]
        /\ y.exiting = x.exiting /\ y.stored = x.stored
    <2>1. LkRec(x)
      BY DEF Core, FieldsType
    <2> QED
      BY <2>1 DEF LkRec
  <1> HIDE DEF y
  <1>2. /\ x.queue \in Seq(LkRecords) /\ Ascending(x.queue) /\ Len(x.queue) \in Nat
        /\ ToSet(x.queue) \subseteq LkRecords
        /\ x.outcome \in [LkRecords -> {"new", "open", "resolved", "rejected"}]
    BY ToSetIs DEF Core, FieldsType, Line
  <1>3. /\ \A p \in ToSet(x.queue) \cup ToSet(x.batch) : p < r
        /\ \A S \in LkStreams : \A p \in ToSet(x.stored[S]) : p < r
    BY DEF Core, Promises
  <1>4. /\ y.queue \in Seq(LkRecords) /\ Len(y.queue) = Len(x.queue) + 1
        /\ Ascending(y.queue) /\ ToSet(y.queue) = ToSet(x.queue) \cup {r}
    BY <1>1, <1>2, <1>3, AscendingAppend, ToSetAppend, AppendProperties
  <1>5. \A q \in LkRecords : y.outcome[q] = IF q = r THEN "open" ELSE x.outcome[q]
    BY <1>1, <1>2
  <1>6. FieldsType(y)
    <2>1. Len(y.queue) <= Exporter!MaxQueue
      <3>1. Exporter!MaxQueue \in Nat
        BY ExporterAssumption DEF Exporter!MaxQueue
      <3> QED
        BY <3>1, <1>2, <1>4
    <2>2. y.outcome \in [LkRecords -> {"new", "open", "resolved", "rejected"}]
      BY <1>1, <1>2
    <2> QED
      BY <2>1, <2>2, <1>1, <1>4 DEF Core, FieldsType
  <1>7. Line(y)
    BY <1>1, <1>3, <1>4 DEF Core, Line
  <1>8. Promises(y)
    <2> SUFFICES ASSUME NEW n \in LkRecords
                 PROVE  /\ (y.outcome[n] = "open") <=>
                             (n \in ToSet(y.queue) \cup ToSet(y.batch))
                        /\ y.outcome[n] = "new" =>
                             /\ \A p \in ToSet(y.queue) \cup ToSet(y.batch) : p < n
                             /\ \A S \in LkStreams : \A p \in ToSet(y.stored[S]) : p < n
      BY DEF Promises
    <2>1. /\ (x.outcome[n] = "open") <=> (n \in ToSet(x.queue) \cup ToSet(x.batch))
          /\ x.outcome[n] = "new" =>
               /\ \A p \in ToSet(x.queue) \cup ToSet(x.batch) : p < n
               /\ \A S \in LkStreams : \A p \in ToSet(x.stored[S]) : p < n
      BY DEF Core, Promises
    <2>2. y.outcome[n] = IF n = r THEN "open" ELSE x.outcome[n]
      BY <1>5
    <2>3. n \in Nat /\ r \in Nat /\ (x.outcome[n] = "new" => ~ (n < r))
      BY ExporterAssumption
    <2>4. x.outcome[n] = "new" /\ n # r => r < n
      BY <2>3
    <2> QED
      BY <2>1, <2>2, <2>4, <1>1, <1>4
  <1>9. Streams(y)
    BY <1>1, <1>3, <1>4 DEF Core, Streams
  <1> QED
    BY <1>6, <1>7, <1>8, <1>9 DEF Core, y

LEMMA WriteKeeps ==
    ASSUME NEW r \in LkRecords, Core(lk), Attended(lk), Exporter!WriteLk(r)
    PROVE  Core(lk') /\ Attended(lk')
  <1> DEFINE full == Len(lk.queue) >= Exporter!MaxQueue
             h == Head(lk.queue)
             z == [Exporter!Settle(lk, {h}, "rejected") EXCEPT !.queue = Tail(@)]
             w == IF full THEN z ELSE lk
             x == [w EXCEPT !.queue = Append(@, r), !.outcome[r] = "open"]
  <1>0. /\ lk.outcome[r] = "new"
        /\ \A q \in LkRecords : q < r => lk.outcome[q] # "new"
    BY DEF Exporter!WriteLk
  <1>1. LkRec(lk)
    BY DEF Core, FieldsType
  <1>2. CASE lk.closed
    <2>1. lk' = Exporter!Settle(lk, {r}, "rejected")
      BY <1>2 DEF Exporter!WriteLk
    <2>2. /\ LkRec(lk') /\ lk'.queue = lk.queue /\ lk'.batch = lk.batch
          /\ lk'.attempt = lk.attempt /\ lk'.timer = lk.timer
          /\ lk'.outcome = [q \in LkRecords |-> IF q \in {r} THEN "rejected" ELSE lk.outcome[q]]
          /\ lk'.exiting = lk.exiting /\ lk'.stored = lk.stored
      BY <1>1, <2>1, SettleFields
    <2>3. \A q \in LkRecords : lk'.outcome[q] = IF q = r THEN "rejected" ELSE lk.outcome[q]
      BY <2>2
    <2>4. FieldsType(lk')
      <3>1. lk'.outcome \in [LkRecords -> {"new", "open", "resolved", "rejected"}]
        BY <2>2 DEF Core, FieldsType
      <3> QED
        BY <2>2, <3>1 DEF Core, FieldsType
    <2>5. Line(lk')
      BY <2>2 DEF Core, Line
    <2>6. Promises(lk')
      <3> SUFFICES ASSUME NEW n \in LkRecords
                   PROVE  /\ (lk'.outcome[n] = "open") <=>
                               (n \in ToSet(lk'.queue) \cup ToSet(lk'.batch))
                          /\ lk'.outcome[n] = "new" =>
                               /\ \A p \in ToSet(lk'.queue) \cup ToSet(lk'.batch) : p < n
                               /\ \A S \in LkStreams : \A p \in ToSet(lk'.stored[S]) : p < n
        BY DEF Promises
      <3>1. /\ (lk.outcome[n] = "open") <=> (n \in ToSet(lk.queue) \cup ToSet(lk.batch))
            /\ lk.outcome[n] = "new" =>
                 /\ \A p \in ToSet(lk.queue) \cup ToSet(lk.batch) : p < n
                 /\ \A S \in LkStreams : \A p \in ToSet(lk.stored[S]) : p < n
        BY DEF Core, Promises
      <3>2. lk'.outcome[n] = IF n = r THEN "rejected" ELSE lk.outcome[n]
        BY <2>3
      <3> QED
        BY <3>1, <3>2, <2>2, <1>0
    <2>7. Streams(lk')
      BY <2>2 DEF Core, Streams
    <2>8. Attended(lk')
      BY <2>2 DEF Attended
    <2> QED
      BY <2>4, <2>5, <2>6, <2>7, <2>8 DEF Core
  <1>3. CASE ~ lk.closed
    <2>1. Exporter!MaxQueue \in Nat /\ Exporter!MaxQueue > 0
      BY ExporterAssumption DEF Exporter!MaxQueue
    <2>2. lk.queue \in Seq(LkRecords) /\ Len(lk.queue) \in Nat
          /\ Len(lk.queue) <= Exporter!MaxQueue
      BY LenProperties DEF Core, FieldsType
    <2>3. /\ Core(w) /\ Len(w.queue) < Exporter!MaxQueue
          /\ w.closed = lk.closed
          /\ w.outcome[r] = "new"
          /\ \A q \in LkRecords : q < r => w.outcome[q] # "new"
      <3>1. CASE full
        <4>1. lk.queue # <<>>
          BY <3>1, <2>1, <2>2, EmptySeq
        <4>2. /\ Core(z) /\ Len(z.queue) = Len(lk.queue) - 1
              /\ \A q \in LkRecords : z.outcome[q] = "new" <=> lk.outcome[q] = "new"
          BY <4>1, RejectKeeps
        <4>3. z.closed = lk.closed
          BY <1>1, RejectFields
        <4> HIDE DEF z
        <4> QED
          BY <3>1, <4>2, <4>3, <1>0, <2>1, <2>2
      <3>2. CASE ~ full
        BY <3>2, <1>0, <2>1, <2>2
      <3> QED
        BY <3>1, <3>2
    <2>4. Core(x) /\ x.closed = lk.closed
      <3> HIDE DEF w
      <3>1. Core(x)
        BY <2>3, EnqueueKeeps
      <3>2. LkRec(w)
        BY <2>3 DEF Core, FieldsType
      <3>3. x.closed = w.closed
        BY <3>2, EnqueueFields
      <3> QED
        BY <3>1, <3>3, <2>3
    <2>5. lk' = IF Len(x.queue) >= LkBatchSize
                THEN Exporter!FlushLk(x) ELSE Exporter!ScheduleFlushLk(x)
      <3>1. x = [(IF full THEN Exporter!Settle(lk, {h}, "rejected") ELSE lk) EXCEPT
                    !.queue = Append(IF full THEN Tail(@) ELSE @, r), !.outcome[r] = "open"]
        <4>1. CASE full
          BY <4>1, <1>1, MakeRoomFields
        <4>2. CASE ~ full
          BY <4>2
        <4> QED
          BY <4>1, <4>2
      <3> HIDE DEF x
      <3> QED
        BY <3>1, <1>3 DEF Exporter!WriteLk
    <2> HIDE DEF x
    <2>6. CASE Len(x.queue) >= LkBatchSize
      BY <2>4, <2>5, <2>6, FlushKeeps
    <2>7. CASE ~ (Len(x.queue) >= LkBatchSize)
      <3>1. LkRec(x)
        BY <2>4 DEF Core, FieldsType
      <3>2. lk' = Exporter!ScheduleFlushLk(x)
        BY <2>5, <2>7
      <3>3. /\ LkRec(lk') /\ lk'.timer = (x.timer \/ ~x.closed)
            /\ lk'.queue = x.queue /\ lk'.batch = x.batch /\ lk'.attempt = x.attempt
            /\ lk'.outcome = x.outcome /\ lk'.exiting = x.exiting /\ lk'.stored = x.stored
        BY <3>1, <3>2, ScheduleFields
      <3>4. Core(lk')
        <4>1. lk'.attempt \in 0..LkMaxRetries /\ lk'.exiting \subseteq Exporter!LkExits
          BY <2>4, <3>3 DEF Core, FieldsType
        <4> QED
          BY <2>4, <3>3, <4>1, CoreSame
      <3>5. Attended(lk')
        BY <3>3, <2>4, <1>3 DEF Attended
      <3> QED
        BY <3>4, <3>5
    <2> QED
      BY <2>6, <2>7
  <1> QED
    BY <1>2, <1>3

LEMMA PushKeeps ==
    ASSUME Core(lk), Attended(lk), Exporter!PushOk
    PROVE  Core(lk') /\ Attended(lk')
  <1> DEFINE x == Exporter!Accepts(lk)
             y == Exporter!Finally(Exporter!Settle(x, Exporter!ToSet(x.batch), "resolved"))
  <1>1. Core(x) /\ x.batch = lk.batch
    BY AcceptsKeeps
  <1>2. lk' = Exporter!ExitsResume(y, FALSE)
    BY <1>1 DEF Exporter!PushOk
  <1> HIDE DEF x
  <1>3. Core(y) /\ Attended(y)
    BY <1>1, SettledKeeps
  <1> HIDE DEF y
  <1> QED
    BY <1>2, <1>3, ResumeKeeps

LEMMA PushFailsKeeps ==
    ASSUME NEW final \in BOOLEAN, Core(lk), Attended(lk), Exporter!PushFails(final)
    PROVE  Core(lk') /\ Attended(lk')
  <1> DEFINE gives(x) == (final /\ x = lk) \/ x.attempt >= LkMaxRetries
             over(x) == Exporter!Finally(Exporter!Settle(x, Exporter!ToSet(x.batch), "rejected"))
             again(x) == [x EXCEPT !.sleeping = TRUE, !.attempt = @ + 1]
  <1>1. PICK x \in {lk, Exporter!Accepts(lk)} :
           lk' = IF gives(x) THEN Exporter!ExitsResume(over(x), TRUE) ELSE again(x)
    BY DEF Exporter!PushFails
  <1>2. Core(x) /\ x.batch = lk.batch
    BY AcceptsKeeps
  <1>3. CASE gives(x)
    <2>1. lk' = Exporter!ExitsResume(over(x), TRUE)
      BY <1>1, <1>3
    <2>2. Core(over(x)) /\ Attended(over(x))
      BY <1>2, SettledKeeps
    <2> HIDE DEF over
    <2> QED
      BY <2>1, <2>2, ResumeKeeps
  <1>4. CASE ~ gives(x)
    <2>1. lk' = again(x) /\ ~ (x.attempt >= LkMaxRetries)
      BY <1>1, <1>4
    <2>2. LkRec(x) /\ x.attempt \in 0..LkMaxRetries
      BY <1>2 DEF Core, FieldsType
    <2>3. /\ LkRec(lk') /\ lk'.queue = x.queue /\ lk'.batch = x.batch
          /\ lk'.attempt = x.attempt + 1 /\ lk'.outcome = x.outcome
          /\ lk'.exiting = x.exiting /\ lk'.stored = x.stored
      BY <2>1, <2>2, RetryFields
    <2>4. lk'.attempt \in 0..LkMaxRetries
      BY <2>1, <2>2, <2>3, ExporterAssumption
    <2>5. lk'.exiting \subseteq Exporter!LkExits
      BY <1>2, <2>3 DEF Core, FieldsType
    <2>6. Core(lk')
      BY <1>2, <2>3, <2>4, <2>5, CoreSame
    <2>7. lk'.batch # <<>>
      BY <1>2, <2>3 DEF Exporter!PushFails
    <2> QED
      BY <2>6, <2>7 DEF Attended
  <1> QED
    BY <1>3, <1>4

(* The other steps set a flag, and may start a push.                       *)
LEMMA FlagKeeps ==
    ASSUME NEW y, Core(lk), LkRec(y), y.queue = lk.queue, y.batch = lk.batch,
           y.attempt = lk.attempt, y.outcome = lk.outcome, y.stored = lk.stored,
           y.exiting \subseteq Exporter!LkExits
    PROVE  Core(y) /\ Core(Exporter!FlushLk(y)) /\ Attended(Exporter!FlushLk(y))
  <1>1. y.attempt \in 0..LkMaxRetries
    BY DEF Core, FieldsType
  <1>2. Core(y)
    BY <1>1, CoreSame
  <1> QED
    BY <1>2, FlushKeeps

LEMMA TimerKeeps ==
    ASSUME Core(lk), Exporter!TimerFiresLk \/ Exporter!FlushCalled
    PROVE  Core(lk') /\ Attended(lk')
  <1>1. CASE Exporter!FlushCalled
    BY <1>1, FlushKeeps DEF Exporter!FlushCalled
  <1>2. CASE Exporter!TimerFiresLk
    <2> DEFINE y == [lk EXCEPT !.timer = FALSE]
    <2>1. LkRec(lk) /\ lk.exiting \subseteq Exporter!LkExits
      BY DEF Core, FieldsType
    <2>2. /\ LkRec(y) /\ y.queue = lk.queue /\ y.batch = lk.batch /\ y.attempt = lk.attempt
          /\ y.outcome = lk.outcome /\ y.stored = lk.stored /\ y.exiting = lk.exiting
      BY <2>1 DEF LkRec
    <2>3. lk' = Exporter!FlushLk(y)
      BY <1>2 DEF Exporter!TimerFiresLk
    <2> HIDE DEF y
    <2> QED
      BY <2>1, <2>2, <2>3, FlagKeeps
  <1> QED
    BY <1>1, <1>2

LEMMA SleepKeeps ==
    ASSUME Core(lk), Attended(lk), Exporter!SleepEnds
    PROVE  Core(lk') /\ Attended(lk')
  <1>1. LkRec(lk) /\ lk.exiting \subseteq Exporter!LkExits
    BY DEF Core, FieldsType
  <1>2. lk' = [lk EXCEPT !.sleeping = FALSE]
    BY DEF Exporter!SleepEnds
  <1>3. /\ LkRec(lk') /\ lk'.queue = lk.queue /\ lk'.batch = lk.batch
        /\ lk'.attempt = lk.attempt /\ lk'.outcome = lk.outcome /\ lk'.stored = lk.stored
        /\ lk'.exiting = lk.exiting /\ lk'.timer = lk.timer
    BY <1>1, <1>2 DEF LkRec
  <1>4. Core(lk')
    BY <1>1, <1>3, FlagKeeps
  <1> QED
    BY <1>3, <1>4 DEF Attended

LEMMA ExitKeeps ==
    ASSUME NEW e \in Exporter!LkExits, Core(lk), Attended(lk), Exporter!ExitLk(e)
    PROVE  Core(lk') /\ Attended(lk')
  <1> DEFINE x == [lk EXCEPT !.closed = @ \/ e = "close"]
             idle == [x EXCEPT !.timer = @ /\ e # "close"]
             y == [x EXCEPT !.exiting = @ \cup {e}]
  <1>1. LkRec(lk) /\ lk.exiting \subseteq Exporter!LkExits
    BY DEF Core, FieldsType
  <1>2. /\ LkRec(x) /\ x.queue = lk.queue /\ x.batch = lk.batch /\ x.attempt = lk.attempt
        /\ x.outcome = lk.outcome /\ x.stored = lk.stored /\ x.exiting = lk.exiting
    BY <1>1 DEF LkRec
  <1>3. /\ LkRec(idle) /\ idle.queue = x.queue /\ idle.batch = x.batch
        /\ idle.attempt = x.attempt /\ idle.outcome = x.outcome
        /\ idle.stored = x.stored /\ idle.exiting = x.exiting
    <2> HIDE DEF x
    <2> QED
      BY <1>2 DEF LkRec
  <1>4. /\ LkRec(y) /\ y.queue = x.queue /\ y.batch = x.batch
        /\ y.attempt = x.attempt /\ y.outcome = x.outcome
        /\ y.stored = x.stored /\ y.exiting = x.exiting \cup {e}
    <2> HIDE DEF x
    <2> QED
      BY <1>2 DEF LkRec
  <1>5. lk' = IF x.batch = <<>> /\ x.queue = <<>> THEN idle ELSE Exporter!FlushLk(y)
    BY DEF Exporter!ExitLk
  <1> HIDE DEF x, idle, y
  <1>6. CASE x.batch = <<>> /\ x.queue = <<>>
    <2>1. lk' = idle
      BY <1>5, <1>6
    <2>2. Core(lk')
      BY <2>1, <1>1, <1>2, <1>3, FlagKeeps
    <2>3. Attended(lk')
      BY <2>1, <1>3, <1>6 DEF Attended
    <2> QED
      BY <2>2, <2>3
  <1>7. CASE ~ (x.batch = <<>> /\ x.queue = <<>>)
    <2>1. lk' = Exporter!FlushLk(y)
      BY <1>5, <1>7
    <2>2. y.exiting \subseteq Exporter!LkExits
      BY <1>1, <1>2, <1>4
    <2> QED
      BY <2>1, <2>2, <1>2, <1>4, FlagKeeps
  <1> QED
    BY <1>6, <1>7

LEMMA LkInitHolds ==
    ASSUME Exporter!LkInit
    PROVE  LkInv
  <1>1. /\ lk.queue = <<>> /\ lk.batch = <<>> /\ lk.attempt = 0
        /\ lk.outcome = [r \in LkRecords |-> "new"] /\ lk.exiting = {}
        /\ lk.stored = [S \in LkStreams |-> <<>>] /\ LkRec(lk)
    BY DEF Exporter!LkInit, LkRec
  <1>2. /\ <<>> \in Seq(LkRecords) /\ Len(<<>>) = 0 /\ ToSet(<<>>) = {}
    <2>1. <<>> \in Seq(LkRecords)
      BY EmptySeq
    <2> QED
      BY <2>1, EmptySeq, ToSetIs
  <1>3. FieldsType(lk)
    <2>1. 0 <= LkBatchSize /\ 0 <= Exporter!MaxQueue /\ 0 \in 0..LkMaxRetries
      BY ExporterAssumption DEF Exporter!MaxQueue
    <2>2. lk.outcome \in [LkRecords -> {"new", "open", "resolved", "rejected"}]
      BY <1>1
    <2>3. lk.stored \in [LkStreams -> Seq(LkRecords)]
      BY <1>1, <1>2
    <2> QED
      BY <1>1, <1>2, <2>1, <2>2, <2>3 DEF FieldsType
  <1>4. Line(lk)
    BY <1>1, <1>2 DEF Line, Ascending
  <1>5. Promises(lk)
    BY <1>1, <1>2 DEF Promises
  <1>6. Streams(lk)
    BY <1>1, <1>2 DEF Streams, InOrder
  <1>7. Attended(lk) /\ lkFaults \in 0..LkMaxFaults
    BY <1>1, ExporterAssumption DEF Attended, Exporter!LkInit
  <1> QED
    BY <1>3, <1>4, <1>5, <1>6, <1>7 DEF LkInv, Core

LEMMA LkStepKeeps ==
    ASSUME LkInv, [Exporter!LkNext]_lkVars
    PROVE  LkInv'
  <1> USE DEF LkInv
  <1>0. lkFaults' \in 0..LkMaxFaults
    <2>1. Exporter!LkFault \/ lkFaults' = lkFaults
      BY DEF Exporter!LkNext, lkVars, Exporter!LkNoFault, Exporter!WriteLk,
         Exporter!TimerFiresLk, Exporter!FlushCalled, Exporter!PushOk, Exporter!SleepEnds,
         Exporter!PushFails, Exporter!ExitLk
    <2> QED
      BY <2>1, ExporterAssumption DEF Exporter!LkFault
  <1>1. CASE UNCHANGED lkVars
    BY <1>0, <1>1 DEF lkVars
  <1>2. ASSUME NEW r \in LkRecords, Exporter!WriteLk(r) PROVE LkInv'
    BY <1>0, <1>2, WriteKeeps
  <1>3. CASE Exporter!TimerFiresLk \/ Exporter!FlushCalled
    BY <1>0, <1>3, TimerKeeps
  <1>4. CASE Exporter!PushOk
    BY <1>0, <1>4, PushKeeps
  <1>5. CASE Exporter!SleepEnds
    BY <1>0, <1>5, SleepKeeps
  <1>6. ASSUME NEW final \in BOOLEAN, Exporter!PushFails(final) PROVE LkInv'
    BY <1>0, <1>6, PushFailsKeeps
  <1>7. ASSUME NEW e \in Exporter!LkExits, Exporter!ExitLk(e) PROVE LkInv'
    BY <1>0, <1>7, ExitKeeps
  <1> QED
    BY <1>1, <1>2, <1>3, <1>4, <1>5, <1>6, <1>7 DEF Exporter!LkNext

LEMMA LkInvHolds == Exporter!LkSpec => []LkInv
  <1>1. LkInv /\ [Exporter!LkNext]_Exporter!lkVars => LkInv'
    BY LkStepKeeps DEF Exporter!lkVars, lkVars
  <1> QED
    BY <1>1, LkInitHolds, PTL DEF Exporter!LkSpec

LEMMA LkInvShows ==
    ASSUME LkInv
    PROVE  Exporter!LkTypeOK /\ Exporter!OpenIsUnderWay /\ Exporter!StreamsInOrder
  <1>1. Exporter!LkTypeOK
    BY DEF LkInv, Core, FieldsType, Exporter!LkTypeOK
  <1>2. ASSUME NEW r \in LkRecords
        PROVE  (lk.outcome[r] = "open") = Exporter!Contains(lk.queue \o lk.batch, r)
    <2> DEFINE t == lk.queue \o lk.batch
    <2>1. lk.queue \in Seq(LkRecords) /\ lk.batch \in Seq(LkRecords)
      BY DEF LkInv, Core, FieldsType
    <2>2. t \in Seq(LkRecords) /\ ToSet(t) = ToSet(lk.queue) \cup ToSet(lk.batch)
      BY <2>1, ConcatElements
    <2> HIDE DEF t
    <2>3. Exporter!Contains(t, r) <=> r \in ToSet(t)
      BY <2>2, ToSetIs DEF Exporter!Contains
    <2>4. (lk.outcome[r] = "open") <=> r \in ToSet(t)
      BY <2>2 DEF LkInv, Core, Promises
    <2>5. (lk.outcome[r] = "open") <=> Exporter!Contains(t, r)
      BY <2>3, <2>4
    <2> QED
      BY <2>5 DEF t, Exporter!Contains
  <1>3. Exporter!OpenIsUnderWay
    BY <1>2 DEF LkInv, Attended, Exporter!OpenIsUnderWay
  <1>4. Exporter!StreamsInOrder
    <2> SUFFICES ASSUME NEW S \in LkStreams, NEW i \in DOMAIN lk.stored[S],
                        NEW j \in DOMAIN lk.stored[S], i < j,
                        FirstAt(lk.stored[S], i), FirstAt(lk.stored[S], j)
                 PROVE  lk.stored[S][i] < lk.stored[S][j]
      BY DEF Exporter!StreamsInOrder, FirstAt
    <2>1. lk.stored[S] \in Seq(LkRecords) /\ InOrder(lk.stored[S])
      BY DEF LkInv, Core, FieldsType, Streams
    <2>2. DOMAIN lk.stored[S] = 1..Len(lk.stored[S])
      BY <2>1, LenProperties
    <2> QED
      BY <2>1, <2>2 DEF InOrder
  <1> QED
    BY <1>1, <1>3, <1>4

(* The exporter holds a promise open exactly while its record is queued or  *)
(* pushed, leaves no queue without a push or a timer, and, however pushes   *)
(* fail and are repeated, stores what a stream sees first in the order of   *)
(* the writes (loki.ts, write and pushBatch).                               *)
THEOREM PromisesAreKept ==
    Exporter!LkSpec =>
        [](Exporter!LkTypeOK /\ Exporter!OpenIsUnderWay /\ Exporter!StreamsInOrder)
  BY LkInvHolds, LkInvShows, PTL


(***************************************************************************)
(* Part 5: the four side by side                                           *)
(***************************************************************************)

LEMMA AllIsThem ==
    AllSpec => Spec /\ Log!Spec /\ Life!PlSpec /\ Exporter!LkSpec
  <1>1. AllInit => Init /\ Log!Init /\ Life!PlInit /\ Exporter!LkInit
    BY DEF AllInit
  <1>2. [AllNext]_AllVars =>
          /\ [Next]_vars /\ [Log!Next]_Log!vars
          /\ [Life!PlNext]_Life!plVars /\ [Exporter!LkNext]_Exporter!lkVars
    <2> SUFFICES ASSUME [AllNext]_AllVars
                 PROVE  /\ [Next]_vars /\ [Log!Next]_Log!vars
                        /\ [Life!PlNext]_Life!plVars /\ [Exporter!LkNext]_Exporter!lkVars
      OBVIOUS
    <2>1. UNCHANGED logVars => UNCHANGED Log!vars
      BY DEF logVars, Log!vars, Log!recordVars, Log!callVars
    <2>2. UNCHANGED lifeVars => UNCHANGED Life!plVars
      BY DEF lifeVars, Life!plVars
    <2>3. UNCHANGED lkVars => UNCHANGED Exporter!lkVars
      BY DEF lkVars, Exporter!lkVars
    <2>4. CASE UNCHANGED AllVars
      <3>1. UNCHANGED vars /\ UNCHANGED logVars /\ UNCHANGED lifeVars /\ UNCHANGED lkVars
        BY <2>4 DEF AllVars
      <3> QED
        BY <3>1, <2>1, <2>2, <2>3
    <2>5. CASE AllNext
      <3>1. CASE Next /\ UNCHANGED <<logVars, lifeVars, lkVars>>
        BY <3>1, <2>1, <2>2, <2>3
      <3>2. CASE Log!Next /\ UNCHANGED <<vars, lifeVars, lkVars>>
        BY <3>2, <2>1, <2>2, <2>3
      <3>3. CASE Life!PlNext /\ UNCHANGED <<vars, logVars, lkVars>>
        BY <3>3, <2>1, <2>2, <2>3
      <3>4. CASE Exporter!LkNext /\ UNCHANGED <<vars, logVars, lifeVars>>
        BY <3>4, <2>1, <2>2, <2>3
      <3> QED
        BY <2>5, <3>1, <3>2, <3>3, <3>4 DEF AllNext
    <2> QED
      BY <2>4, <2>5
  <1> QED
    BY <1>1, <1>2, PTL DEF AllSpec, Spec, Log!Spec, Life!PlSpec, Exporter!LkSpec

(* Around the process exit no record slips between the logger's lists, each *)
(* failed write is reported, and the exporter keeps a promise open exactly  *)
(* while its record is under way, in order (base-logger.ts, loki.ts).      *)
THEOREM EverythingIsAccountedFor == AllSpec => []LogsAreAccountedFor
  <1>1. LoggerInv /\ Log!FailuresAreReported /\ Log!ExitMissesNothing
          /\ (Exporter!LkTypeOK /\ Exporter!OpenIsUnderWay /\ Exporter!StreamsInOrder)
          => LogsAreAccountedFor
    BY DEF LogsAreAccountedFor, LoggerInv
  <1> QED
    BY <1>1, AllIsThem, LoggerInvariant, FailuresReach, ExitsAreComplete, PromisesAreKept, PTL

(* A signal drains every logger it finds before the process ends, a drained *)
(* process listens for its next quiescence, and beforeExit never has more   *)
(* than two listeners (process-lifecycle.ts).                              *)
THEOREM EveryLoggerDrains == AllSpec => []EveryLoggerIsDrained
  <1>1. (Life!PlTypeOK /\ Listeners) /\ [Life!PlNext]_Life!plVars
          => (Life!PlTypeOK /\ Listeners)'
    BY ListenersStep
  <1>2. Life!PlSpec => [](Life!PlTypeOK /\ Listeners)
    BY <1>1, ListenersInit, PTL DEF Life!PlSpec
  <1>3. (Life!PlTypeOK /\ Listeners) /\ Life!SignalDrainsAll /\ Life!NextQuiescenceIsHeard
          => EveryLoggerIsDrained
    BY DEF EveryLoggerIsDrained
  <1> QED
    BY <1>2, <1>3, AllIsThem, SignalsDrain, QuiescenceIsHeard, PTL

(* The run of the four keeps the shutdown orderly, too (shutdown.ts).       *)
THEOREM ShutdownStaysOrderly == AllSpec => []ShutdownIsOrderly
  BY AllIsThem, OrderlyShutdown, PTL
=============================================================================
