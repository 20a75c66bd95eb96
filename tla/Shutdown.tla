------------------------------ MODULE Shutdown ------------------------------
(***************************************************************************)
(* ShutdownCoordinator (src/src/shutdown.ts) with the hooks and signal     *)
(* handlers createNodeHttpShutdown gives it (src/src/node-shutdown.ts).    *)
(* Three coroutines share the coordinator: the drain, the force and the    *)
(* finish; drainPc, forcePc and finishPc name their awaits.                *)
(*                                                                         *)
(* The phase is "stopped" exactly when #finished is set.  Attempts,        *)
(* triggers, messages and the list of errors are left out, and so are      *)
(* drain and force callbacks that throw before their first await: those of *)
(* createNodeHttpShutdown are async functions.                             *)
(***************************************************************************)
EXTENDS Naturals, FiniteSets

CONSTANTS
    Servers,   \* the HTTP servers to shut down
    MaxFaults  \* bound: calls of close or closeAllConnections that throw

ASSUME ServersAssumption == Servers # {} /\ IsFiniteSet(Servers)
ASSUME MaxFaultsAssumption == MaxFaults \in Nat

VARIABLES
    flushOption,  \* option: no flush hook, one with a deadline, one without
    phase,        \* #phase
    forced,       \* #forced
    timer,        \* whether the grace timer is armed
    drainPc,      \* the drain callback
    forcePc,      \* the force callback
    finishPc,     \* #finish
    observing,    \* size of #observerTasks
    attached,     \* whether the signal handlers are installed
    stdin,        \* whether the end of stdin is listened for
    closeResult,  \* the promise of closeServer for each server
    listener,     \* external: state of each server's listener
    active,       \* external: servers with connections still at work
    flushes,      \* history: calls of the flush hook
    killed,       \* history: servers whose connections were destroyed
    immune,       \* history: servers the force callback did not get to
    faults

hookVars == <<attached, stdin>>
pcVars == <<drainPc, forcePc, finishPc>>
serverVars == <<closeResult, listener, active>>
vars == <<flushOption, phase, forced, timer, pcVars, observing, hookVars,
          serverVars, flushes, killed, immune, faults>>

Phases == {"running", "draining", "forcing", "stopped"}

Init ==
    /\ flushOption \in {"none", "bounded", "unbounded"}
    /\ phase = "running" /\ forced = FALSE /\ timer = FALSE
    /\ drainPc = "idle" /\ forcePc = "idle" /\ finishPc = "idle"
    /\ observing = 0
    /\ attached \in BOOLEAN /\ stdin \in {FALSE, attached}
    /\ closeResult = [s \in Servers |-> "none"]
    /\ listener \in [Servers -> {"listening", "closed"}] /\ active = {}
    /\ flushes = 0 /\ killed = {} /\ immune = {} /\ faults = 0

(* Promise.all: the first rejection settles it. *)
DrainFailed == \E s \in Servers : closeResult[s] = "failed"

(* Mutation of DrainDone: one server is enough. *)
MutantDrainDone == \E s \in Servers : closeResult[s] = "ok"

DrainDone == \A s \in Servers : closeResult[s] = "ok"

(* A settled promise resumes its coroutine before the next event.          *)
Quiet ==
    /\ ~(drainPc = "running" /\ (DrainFailed \/ DrainDone))
    /\ ~(finishPc = "observers" /\ observing = 0)

-----------------------------------------------------------------------------
(* Transitions and the end *)

(* n events for onEvent: each may leave a promise that settles later.      *)
Observe(n) == \E k \in 0..n : observing' = observing + k

(* Mutation of Finish: the grace timer stays armed. *)
MutantFinish(events) ==
    /\ phase' = "stopped" /\ Observe(events)
    /\ finishPc' = "observers"
    /\ UNCHANGED timer

(* #finish up to its first await, with the events reported on the way.     *)
Finish(events) ==
    /\ phase' = "stopped" /\ timer' = FALSE /\ Observe(events)
    /\ finishPc' = "observers"

(* Mutation of ObserversSettle: the flush does not wait for the observers. *)
MutantObserversSettle ==
    /\ finishPc = "observers"
    /\ IF flushOption = "none"
       THEN finishPc' = "ended" /\ UNCHANGED flushes
       ELSE finishPc' = "flush" /\ flushes' = flushes + 1
    /\ UNCHANGED <<flushOption, phase, forced, timer, drainPc, forcePc,
                   observing, hookVars, serverVars, killed, immune, faults>>

(* Every observer of the snapshot is done: the flush, if there is one.     *)
ObserversSettle ==
    /\ finishPc = "observers" /\ observing = 0
    /\ IF flushOption = "none"
       THEN finishPc' = "ended" /\ UNCHANGED flushes
       ELSE finishPc' = "flush" /\ flushes' = flushes + 1
    /\ UNCHANGED <<flushOption, phase, forced, timer, drainPc, forcePc,
                   observing, hookVars, serverVars, killed, immune, faults>>

ObserverEnds ==
    /\ observing > 0 /\ Quiet
    /\ observing' = observing - 1
    /\ UNCHANGED <<flushOption, phase, forced, timer, pcVars, hookVars,
                   serverVars, flushes, killed, immune, faults>>

(* #finish resolves the completion, which wait() returns. *)
Resolve ==
    /\ finishPc = "flush" /\ Quiet
    /\ finishPc' = "ended"
    /\ UNCHANGED <<flushOption, phase, forced, timer, drainPc, forcePc,
                   observing, hookVars, serverVars, flushes, killed, immune,
                   faults>>

FlushSettles == Resolve

(* Mutation of FlushDeadline: it is not armed. *)
MutantFlushDeadline == flushOption = "none" /\ Resolve

FlushDeadline == flushOption = "bounded" /\ Resolve

-----------------------------------------------------------------------------
(* Force *)

(* close() then closeAllConnections() at every server of D.  A close() that *)
(* throws, as for the servers of U, is swallowed; closeAllConnections() of  *)
(* the servers of K, one at most, throws and ends the loop over the rest.   *)
ForceServers(D, U, K) ==
    LET closing == (D \cup K) \ U
    IN  /\ listener' = [s \in Servers |->
                          IF listener[s] = "listening" /\ s \in closing
                          THEN "closing" ELSE listener[s]]
        /\ active' = active \ D
        /\ killed' = killed \cup (active \cap D)
        /\ immune' = (Servers \ D) \cup U
        /\ faults' = faults + Cardinality(U) + Cardinality(K)

(* Mutation of CanForce: a stopped coordinator is not looked for. *)
MutantCanForce == phase # "forcing"

CanForce == phase \notin {"forcing", "stopped"}

(* #beginForce up to the first await of the force callback.                *)
BeginForce(events) ==
    /\ CanForce
    /\ forced' = TRUE /\ timer' = FALSE
    /\ phase' = "forcing" /\ Observe(events)
    /\ \E D, K \in SUBSET Servers : \E U \in SUBSET (D \cup K) :
          /\ D \cap K = {}
          /\ IF K = {} THEN D = Servers ELSE Cardinality(K) = 1
          /\ faults + Cardinality(U) + Cardinality(K) <= MaxFaults
          /\ ForceServers(D, U, K)
          /\ forcePc' = IF K = {} THEN "upgrades" ELSE "failed"
    /\ UNCHANGED <<flushOption, finishPc, hookVars, closeResult, flushes>>

(* forceCloseUpgrades resolves, or the callback rejects, which is reported: *)
(* either way the shutdown ends as a forced one.                           *)
ForceSettles ==
    /\ forcePc \in {"upgrades", "failed"} /\ Quiet
    /\ phase = "forcing"
    /\ forcePc' = "ended"
    /\ Finish(2)
    /\ UNCHANGED <<flushOption, forced, drainPc, hookVars, serverVars, flushes,
                   killed, immune, faults>>

-----------------------------------------------------------------------------
(* Drain *)

(* Mutation of BeginDrain: the grace timer is not armed. *)
MutantBeginDrain ==
    /\ phase = "running"
    /\ phase' = "draining" /\ Observe(1)
    /\ drainPc' = "running"
    /\ closeResult' = [s \in Servers |-> "pending"]
    /\ listener' = [s \in Servers |-> IF listener[s] = "listening"
                                      THEN "closing" ELSE listener[s]]
    /\ UNCHANGED <<flushOption, forced, timer, forcePc, finishPc, hookVars,
                   active, flushes, killed, immune, faults>>

(* #beginDrain calls close() at every server; those of F throw.            *)
BeginDrain ==
    /\ phase = "running"
    /\ phase' = "draining" /\ Observe(1)
    /\ timer' = TRUE
    /\ drainPc' = "running"
    /\ \E F \in SUBSET Servers :
          /\ faults' = faults + Cardinality(F) /\ faults' <= MaxFaults
          /\ closeResult' = [s \in Servers |-> IF s \in F THEN "failed" ELSE "pending"]
          /\ listener' = [s \in Servers |-> IF listener[s] = "listening" /\ s \notin F
                                            THEN "closing" ELSE listener[s]]
    /\ UNCHANGED <<flushOption, forced, forcePc, finishPc, hookVars, active,
                   flushes, killed, immune>>

(* Mutation of StillDraining: a drain that ends late is not told apart. *)
MutantStillDraining == TRUE

StillDraining == phase = "draining"

(* The drain settles.  If a force won meanwhile nothing happens; otherwise  *)
(* it finishes, or a failure is reported and forces.                       *)
DrainSettles ==
    /\ drainPc = "running" /\ (DrainFailed \/ DrainDone)
    /\ drainPc' = "ended"
    /\ \/ /\ ~StillDraining
          /\ UNCHANGED <<flushOption, phase, forced, timer, forcePc, finishPc,
                         observing, hookVars, serverVars, flushes, killed,
                         immune, faults>>
       \/ /\ StillDraining /\ ~DrainFailed
          /\ Finish(1)
          /\ UNCHANGED <<flushOption, forced, forcePc, hookVars, serverVars,
                         flushes, killed, immune, faults>>
       \/ StillDraining /\ DrainFailed /\ BeginForce(2)

-----------------------------------------------------------------------------
(* Requests *)

Request(force) ==
    /\ Quiet
    /\ \/ phase = "running" /\ ~force /\ BeginDrain
       \/ /\ phase = "draining" \/ force
          /\ BeginForce(1) /\ UNCHANGED drainPc

(* The handlers force exactly when a drain is under way.                   *)
Signal == attached /\ Request(phase = "draining")
StdinEnds == stdin /\ Request(phase = "draining")

(* The handle's request(trigger, force).                                   *)
Programmatic == \E force \in BOOLEAN : Request(force)

GraceTimerFires == timer /\ Request(TRUE)

Dispose ==
    /\ attached /\ Quiet
    /\ attached' = FALSE /\ stdin' = FALSE
    /\ UNCHANGED <<flushOption, phase, forced, timer, pcVars, observing,
                   serverVars, flushes, killed, immune, faults>>

-----------------------------------------------------------------------------
(* The servers, external: close() calls back once the last connection is    *)
(* gone, and with an error when the server was not listening.              *)

outsideServers == <<flushOption, phase, forced, timer, pcVars, observing,
                    hookVars, flushes, killed, immune, faults>>

Accept(s) ==
    /\ listener[s] = "listening" /\ s \notin active /\ Quiet
    /\ active' = active \cup {s}
    /\ UNCHANGED <<outsideServers, closeResult, listener>>

ConnectionsEnd(s) ==
    /\ s \in active /\ Quiet
    /\ active' = active \ {s}
    /\ UNCHANGED <<outsideServers, closeResult, listener>>

ServerCloses(s) ==
    /\ s \notin active /\ Quiet
    /\ \/ /\ listener[s] = "closing"
          /\ listener' = [listener EXCEPT ![s] = "closed"]
          /\ closeResult' = [closeResult EXCEPT ![s] = IF @ = "pending" THEN "ok" ELSE @]
       \/ /\ listener[s] = "closed" /\ closeResult[s] = "pending"
          /\ closeResult' = [closeResult EXCEPT ![s] = "failed"]
          /\ UNCHANGED listener
    /\ UNCHANGED <<outsideServers, active>>

-----------------------------------------------------------------------------
Next ==
    \/ Signal \/ StdinEnds \/ Programmatic \/ GraceTimerFires \/ Dispose
    \/ DrainSettles \/ ForceSettles
    \/ ObserversSettle \/ ObserverEnds \/ FlushSettles \/ FlushDeadline
    \/ \E s \in Servers : Accept(s) \/ ConnectionsEnd(s) \/ ServerCloses(s)

Spec == Init /\ [][Next]_vars

(* Timers fire, settled promises resume their coroutines, and the force     *)
(* callback, which has no deadline, is taken to settle.  Connections, the   *)
(* flush and the observers owe nothing.                                    *)
Progress ==
    /\ WF_vars(GraceTimerFires) /\ WF_vars(DrainSettles) /\ WF_vars(ForceSettles)
    /\ WF_vars(ObserversSettle) /\ WF_vars(FlushDeadline)
(* The same, when every observer settles too. *)
ObservedProgress == Progress /\ WF_vars(ObserverEnds)

-----------------------------------------------------------------------------
(* Properties *)

(* Every variable keeps its type.                                          *)
TypeOK ==
    /\ flushOption \in {"none", "bounded", "unbounded"}
    /\ phase \in Phases /\ forced \in BOOLEAN /\ timer \in BOOLEAN
    /\ drainPc \in {"idle", "running", "ended"}
    /\ forcePc \in {"idle", "upgrades", "failed", "ended"}
    /\ finishPc \in {"idle", "observers", "flush", "ended"}
    /\ observing \in 0..5
    /\ attached \in BOOLEAN /\ stdin \in BOOLEAN
    /\ closeResult \in [Servers -> {"none", "pending", "ok", "failed"}]
    /\ listener \in [Servers -> {"listening", "closing", "closed"}]
    /\ active \subseteq Servers
    /\ flushes \in 0..1 /\ killed \subseteq Servers /\ immune \subseteq Servers
    /\ faults \in 0..MaxFaults

(* The result forced = false of ShutdownResult is earned: no force began,   *)
(* no connection was destroyed and every close() called back without error. *)
GracefulIsEarned ==
    phase = "stopped" /\ ~forced =>
        /\ forcePc = "idle" /\ killed = {}
        /\ \A s \in Servers : closeResult[s] = "ok"

(* The flush comes last and once: no observer still writes a lifecycle      *)
(* record ("lifecycle logger observer finishes before flush"), and only a   *)
(* forced shutdown flushes while a server has connections.                 *)
FlushComesLast ==
    finishPc \in {"flush", "ended"} =>
        /\ phase = "stopped" /\ observing = 0
        /\ flushes = IF flushOption = "none" THEN 0 ELSE 1
        /\ ~forced => active = {}

(* The grace timer lives exactly as long as the drain, so it can neither    *)
(* fire into a finished shutdown nor keep the process alive.               *)
TimerGuardsDrain == timer <=> phase = "draining"

(* The two-phase relation of server-lifecycle.ts holds of this coordinator  *)
(* too: the phase "stopped" is that table's "forced" or "closed".          *)
Table == INSTANCE ShutdownTable WITH phase <-
           CASE phase = "forcing" -> "forced"
             [] phase = "stopped" -> (IF forced THEN "forced" ELSE "closed")
             [] OTHER -> phase
ImplementsTransitionTable == Table!Spec

(* "wait() resolves when flushing has finished": a drain that hangs, or a    *)
(* flush that hangs under a deadline, does not keep it pending, provided    *)
(* the observers settle.                                                   *)
Completes == phase # "running" ~> finishPc = "ended" \/ flushOption = "unbounded"

(* What the shutdown coordinator answers for: its grace timer lives as long *)
(* as the drain, a result that is not forced was earned by a complete       *)
(* drain, and the flush comes after everything else and once.              *)
ShutdownIsOrderly ==
    /\ TypeOK /\ TimerGuardsDrain
    /\ GracefulIsEarned /\ FlushComesLast
=============================================================================
