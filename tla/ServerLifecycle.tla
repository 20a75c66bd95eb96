--------------------------- MODULE ServerLifecycle ---------------------------
(***************************************************************************)
(* installNodeServerShutdown: one owner of a Node process's shutdown       *)
(* (src/src/server-lifecycle.ts).  Two coroutines share its variables: the *)
(* graceful one, started by the first request, and the forced one, started *)
(* by force(); gracefulPc and forcePc name the awaits they are suspended   *)
(* at.  Signals, timers, the application's hooks, the listeners and their   *)
(* connections move between any two of those awaits.                       *)
(*                                                                         *)
(* A hook that rejects is caught and only logged, so it settles either     *)
(* way, or never.  Events, causes and the error list are left out.         *)
(***************************************************************************)
EXTENDS Naturals, FiniteSets

CONSTANTS
    Servers,   \* the HTTP servers to shut down
    MaxFaults  \* bound: calls of close or closeAllConnections that fail

ASSUME ServersAssumption == Servers # {} /\ IsFiniteSet(Servers)
ASSUME MaxFaultsAssumption == MaxFaults \in Nat

VARIABLES
    interactive,  \* option: stdin is a terminal
    phase,        \* phase
    resolved,     \* whether done is resolved
    disposed,     \* whether cleanup has run
    timer,        \* whether the grace timer is armed
    eof,          \* whether stdin is resumed and its end listened for
    gracefulPc,   \* where the graceful coroutine is suspended
    forcePc,      \* where the forced one is suspended
    flush,        \* flushPromise
    closeResult,  \* the promise of closeGracefully for each server
    listener,     \* external: state of each server's listener
    active,       \* external: servers with connections still at work
    early,        \* history: dispose() came before any request
    flushes,      \* history: calls of the flush hook
    killed,       \* history: servers whose connections were destroyed
    immune,       \* history: servers force() could not close or empty
    faults

pcVars == <<gracefulPc, forcePc>>
serverVars == <<closeResult, listener, active>>
armVars == <<timer, eof, disposed>>
vars == <<interactive, phase, resolved, armVars, pcVars, flush, serverVars,
          early, flushes, killed, immune, faults>>

Phases == {"running", "draining", "forced", "closed"}
GracefulPcs == {"idle", "before", "closing", "flush", "after", "ended"}
ForcePcs == {"idle", "hook", "flush", "ended"}

(* A server may have been stopped before the shutdown.                     *)
Init ==
    /\ interactive \in BOOLEAN
    /\ phase = "running" /\ resolved = FALSE
    /\ timer = FALSE /\ eof = FALSE /\ disposed = FALSE
    /\ gracefulPc = "idle" /\ forcePc = "idle" /\ flush = "none"
    /\ closeResult = [s \in Servers |-> "none"]
    /\ listener \in [Servers -> {"listening", "closed"}] /\ active = {}
    /\ early = FALSE /\ flushes = 0 /\ killed = {} /\ immune = {}
    /\ faults = 0

(* Mutation of AllSettled: one server is enough. *)
MutantAllSettled == \E s \in Servers : closeResult[s] # "pending"

AllSettled == \A s \in Servers : closeResult[s] # "pending"

(* A settled allSettled resumes its coroutine before the next event.       *)
Quiet == ~(gracefulPc = "closing" /\ AllSettled)

-----------------------------------------------------------------------------
(* finish and flushOnce *)

(* Mutation of Cleanup: the grace timer is left. *)
MutantCleanup ==
    /\ disposed' = TRUE
    /\ eof' = (eof /\ disposed) /\ UNCHANGED timer

(* cleanup(): at most once. *)
Cleanup ==
    /\ disposed' = TRUE
    /\ timer' = (timer /\ disposed) /\ eof' = (eof /\ disposed)

(* Mutation of Finish: the phase is not set. *)
MutantFinish(p) == resolved' = TRUE /\ Cleanup /\ UNCHANGED phase

Finish(p) == resolved' = TRUE /\ Cleanup /\ phase' = p

(* Mutation of FlushOnce: the promise is not remembered. *)
MutantFlushOnce == flush' = "running" /\ flushes' = flushes + 1

(* flushOnce(): flushPromise ??= the flush hook. *)
FlushOnce ==
    IF flush = "none"
    THEN flush' = "running" /\ flushes' = flushes + 1
    ELSE UNCHANGED <<flush, flushes>>

-----------------------------------------------------------------------------
(* force *)

(* Mutation of CanForce: force() does not look for a closed phase. *)
MutantCanForce == phase # "forced"

CanForce == phase \notin {"forced", "closed"}

(* Mutation of ForceServers: only the connections are closed. *)
MutantForceServers(U, K) ==
    /\ active' = active \ (Servers \ K)
    /\ killed' = killed \cup (active \ K)
    /\ immune' = U \cup K
    /\ faults' = faults + Cardinality(U \cup K)
    /\ UNCHANGED listener

(* close(), which a listener already closed refuses, then                  *)
(* closeAllConnections(), at every server: the listeners of U do not close *)
(* and the connections of K are not destroyed.                             *)
ForceServers(U, K) ==
    /\ listener' = [s \in Servers |->
                      IF listener[s] = "listening" /\ s \notin U
                      THEN "closing" ELSE listener[s]]
    /\ active' = active \ (Servers \ K)
    /\ killed' = killed \cup (active \ K)
    /\ immune' = U \cup K
    /\ faults' = faults + Cardinality(U \cup K)

EnterForce ==
    /\ CanForce
    /\ phase' = "forced" /\ timer' = FALSE
    /\ forcePc' = "hook"
    /\ \E U, K \in SUBSET Servers :
          /\ faults + Cardinality(U \cup K) <= MaxFaults
          /\ ForceServers(U, K)
    /\ UNCHANGED <<interactive, resolved, eof, disposed, flush, closeResult,
                   early, flushes>>

(* The force hook is over, or its deadline is: the flush is next, and a     *)
(* flush that has settled before is not waited for.                        *)
AfterForceHook ==
    /\ forcePc = "hook"
    /\ FlushOnce
    /\ IF flush = "settled"
       THEN forcePc' = "ended" /\ Finish("forced")
       ELSE forcePc' = "flush" /\ UNCHANGED <<phase, resolved, armVars>>
    /\ UNCHANGED <<interactive, gracefulPc, serverVars, early, killed, immune,
                   faults>>

ForceHookSettles == Quiet /\ AfterForceHook

(* Mutation of ForceDeadline: only the force hook has one. *)
MutantForceDeadline == Quiet /\ AfterForceHook

(* waitBounded gives up on the force hook, or on the flush.                *)
ForceDeadline ==
    /\ Quiet
    /\ \/ AfterForceHook
       \/ /\ forcePc = "flush"
          /\ forcePc' = "ended" /\ Finish("forced")
          /\ UNCHANGED <<interactive, gracefulPc, flush, serverVars, early,
                         flushes, killed, immune, faults>>

-----------------------------------------------------------------------------
(* requestGraceful *)

(* Mutation of BeginGraceful: the grace timer is not armed. *)
MutantBeginGraceful(sigint) ==
    /\ phase = "running"
    /\ phase' = "draining"
    /\ eof' = (eof \/ (interactive /\ sigint))
    /\ gracefulPc' = "before"
    /\ UNCHANGED <<interactive, resolved, timer, disposed, forcePc, flush,
                   serverVars, early, flushes, killed, immune, faults>>

BeginGraceful(sigint) ==
    /\ phase = "running"
    /\ phase' = "draining"
    /\ timer' = TRUE
    /\ eof' = (eof \/ (interactive /\ sigint))
    /\ gracefulPc' = "before"
    /\ UNCHANGED <<interactive, resolved, disposed, forcePc, flush, serverVars,
                   early, flushes, killed, immune, faults>>

(* Mutation of StillDraining: the phase is not looked at after an await. *)
MutantStillDraining == TRUE

(* What the graceful coroutine asks after each of its awaits.              *)
StillDraining == phase = "draining"

GracefulEnds ==
    /\ ~StillDraining
    /\ gracefulPc' = "ended"
    /\ UNCHANGED <<interactive, phase, resolved, armVars, forcePc, flush,
                   serverVars, early, flushes, killed, immune, faults>>

(* closeGracefully for every server: the promise is pending until the       *)
(* server is empty, unless its close() fails, as for the servers of F.     *)
CloseGracefully(F) ==
    /\ StillDraining
    /\ faults' = faults + Cardinality(F) /\ faults' <= MaxFaults
    /\ listener' = [s \in Servers |-> IF listener[s] = "listening" /\ s \notin F
                                      THEN "closing" ELSE listener[s]]
    /\ closeResult' = [s \in Servers |-> IF s \in F THEN "failed" ELSE "pending"]
    /\ gracefulPc' = "closing"
    /\ UNCHANGED <<interactive, phase, resolved, armVars, forcePc, flush,
                   active, early, flushes, killed, immune>>

BeforeHookSettles ==
    /\ gracefulPc = "before"
    /\ GracefulEnds \/ \E F \in SUBSET Servers : CloseGracefully(F)

(* allSettled resolves: a failure forces, a phase changed meanwhile ends    *)
(* the coroutine, and otherwise the flush starts.                          *)
ServersSettle ==
    /\ gracefulPc = "closing" /\ AllSettled
    /\ \/ GracefulEnds
       \/ /\ StillDraining
          /\ \E s \in Servers : closeResult[s] = "failed"
          /\ gracefulPc' = "ended"
          /\ EnterForce
       \/ /\ StillDraining
          /\ \A s \in Servers : closeResult[s] # "failed"
          /\ FlushOnce
          /\ gracefulPc' = "flush"
          /\ UNCHANGED <<interactive, phase, resolved, armVars, forcePc,
                         serverVars, early, killed, immune, faults>>

(* The flush settles and resumes the coroutines that wait for it.          *)
FlushSettles ==
    /\ flush = "running" /\ Quiet
    /\ flush' = "settled"
    /\ gracefulPc' = IF gracefulPc # "flush" THEN gracefulPc
                     ELSE IF StillDraining THEN "after" ELSE "ended"
    /\ IF forcePc = "flush"
       THEN forcePc' = "ended" /\ Finish("forced")
       ELSE UNCHANGED <<forcePc, phase, resolved, armVars>>
    /\ UNCHANGED <<interactive, serverVars, early, flushes, killed, immune,
                   faults>>

AfterHookSettles ==
    /\ gracefulPc = "after"
    /\ \/ GracefulEnds
       \/ /\ StillDraining
          /\ gracefulPc' = "ended"
          /\ Finish("closed")
          /\ UNCHANGED <<interactive, forcePc, flush, serverVars, early,
                         flushes, killed, immune, faults>>

-----------------------------------------------------------------------------
(* Triggers *)

(* A signal or requestGraceful(): the first begins, the second forces.     *)
Trigger(sigint) ==
    \/ BeginGraceful(sigint)
    \/ phase = "draining" /\ EnterForce /\ UNCHANGED gracefulPc

Signal == Quiet /\ ~disposed /\ \E sigint \in BOOLEAN : Trigger(sigint)
RequestGraceful == Quiet /\ \E sigint \in BOOLEAN : Trigger(sigint)
ForceNow == Quiet /\ EnterForce /\ UNCHANGED gracefulPc

StdinEnds == Quiet /\ eof /\ phase = "draining" /\ EnterForce /\ UNCHANGED gracefulPc

(* The timer a disposed controller armed may fire after it has finished.   *)
GraceTimerFires ==
    /\ timer /\ Quiet
    /\ \/ EnterForce /\ UNCHANGED gracefulPc
       \/ /\ ~CanForce
          /\ timer' = FALSE
          /\ UNCHANGED <<interactive, phase, resolved, eof, disposed, pcVars,
                         flush, serverVars, early, flushes, killed, immune,
                         faults>>

Dispose ==
    /\ ~disposed /\ Quiet
    /\ Cleanup
    /\ early' = (phase = "running")
    /\ UNCHANGED <<interactive, phase, resolved, pcVars, flush, serverVars,
                   flushes, killed, immune, faults>>

-----------------------------------------------------------------------------
(* The servers, external: a listening one accepts connections, and close()  *)
(* calls back once the last of them is gone.                               *)

outsideServers == <<interactive, phase, resolved, armVars, pcVars, flush,
                    early, flushes, killed, immune, faults>>

Accept(s) ==
    /\ listener[s] = "listening" /\ s \notin active /\ Quiet
    /\ active' = active \cup {s}
    /\ UNCHANGED <<outsideServers, closeResult, listener>>

ConnectionsEnd(s) ==
    /\ s \in active /\ Quiet
    /\ active' = active \ {s}
    /\ UNCHANGED <<outsideServers, closeResult, listener>>

ServerCloses(s) ==
    /\ s \notin active /\ Quiet
    /\ listener[s] = "closing" \/ (listener[s] = "closed" /\ closeResult[s] = "pending")
    /\ listener' = [listener EXCEPT ![s] = "closed"]
    /\ closeResult' = [closeResult EXCEPT ![s] = IF @ = "pending" THEN "ok" ELSE @]
    /\ UNCHANGED <<outsideServers, active>>

-----------------------------------------------------------------------------
Next ==
    \/ Signal \/ RequestGraceful \/ ForceNow \/ StdinEnds \/ Dispose
    \/ GraceTimerFires \/ ForceDeadline
    \/ BeforeHookSettles \/ ServersSettle \/ FlushSettles \/ AfterHookSettles
    \/ ForceHookSettles
    \/ \E s \in Servers : Accept(s) \/ ConnectionsEnd(s) \/ ServerCloses(s)

Spec == Init /\ [][Next]_vars

(* Timers fire and resolved promises resume their coroutines.  Hooks, the   *)
(* flush and connections owe nothing: each may hang for ever.              *)
FairSpec ==
    Spec /\ WF_vars(GraceTimerFires) /\ WF_vars(ForceDeadline) /\ WF_vars(ServersSettle)

-----------------------------------------------------------------------------
(* Properties *)

(* Every variable holds a value the controller can hold; a resolved result *)
(* carries a final phase (the type of ShutdownResult).                     *)
ControlType ==
    /\ interactive \in BOOLEAN /\ phase \in Phases
    /\ resolved \in BOOLEAN /\ (resolved => phase \in {"forced", "closed"})
    /\ timer \in BOOLEAN /\ eof \in BOOLEAN /\ disposed \in BOOLEAN
    /\ gracefulPc \in GracefulPcs /\ forcePc \in ForcePcs
    /\ flush \in {"none", "running", "settled"}
ServerType ==
    /\ closeResult \in [Servers -> {"none", "pending", "ok", "failed"}]
    /\ listener \in [Servers -> {"listening", "closing", "closed"}]
    /\ active \subseteq Servers
HistoryType ==
    /\ killed \subseteq Servers /\ immune \subseteq Servers
    /\ early \in BOOLEAN /\ flushes \in Nat /\ faults \in 0..MaxFaults
TypeOK == ControlType /\ ServerType /\ HistoryType

(* The controller moves through its phases as the transition table that     *)
(* other adapters and the conformance tests use, whatever triggers race.   *)
Table == INSTANCE ShutdownTable
ImplementsTransitionTable == Table!Spec

(* "Flush logs, traces, metrics, and durable queues exactly once"           *)
(* (docs/context-and-shutdown.md), under graceful and force races.         *)
FlushedOnce == flushes <= 1 /\ (resolved => flushes = 1)

(* The required sequence of docs/context-and-shutdown.md: unless the        *)
(* shutdown is forced, nothing is flushed before the last request is over.  *)
FlushFollowsDrain ==
    flush # "none" /\ phase # "forced" =>
        \A s \in Servers : listener[s] = "closed" /\ s \notin active

(* A result "closed" is earned: no force began, no connection was           *)
(* destroyed, and the flush and every server's close came to their end.    *)
ClosedIsGraceful ==
    phase = "closed" =>
        /\ forcePc = "idle" /\ killed = {} /\ flush = "settled"
        /\ \A s \in Servers : closeResult[s] = "ok"

(* After a force no server has a connection or takes one, except those      *)
(* whose close() or closeAllConnections() failed: the listener goes first.  *)
NoConnectionSurvivesForce ==
    phase = "forced" =>
        \A s \in Servers \ immune : listener[s] # "listening" /\ s \notin active

(* "The process exits when the graceful drain completes": no timer and no   *)
(* resumed stdin outlives the shutdown, unless dispose() came before it.    *)
NothingLeftArmed == resolved => early \/ (~timer /\ ~eof)

(* A hung hook, flush or connection cannot block force completion.         *)
ForceCompletes == phase = "forced" ~> resolved

(* A drain ends or is forced, unless dispose() took its timer away.        *)
DrainIsBounded == phase = "draining" ~> phase # "draining" \/ disposed

(* Whatever hangs, a shutdown that began comes to its end.                  *)
ShutdownEnds == ForceCompletes /\ DrainIsBounded
=============================================================================
