--------------------------- MODULE ProcessLifecycle ---------------------------
(***************************************************************************)
(* How the runtime loggers drain when their process or page ends:          *)
(* node-logger.ts, bun-logger.ts, deno-logger.ts and browser-logger.ts.    *)
(* Node and Bun share one set of handlers between all loggers, Deno gives  *)
(* every logger its own, a page has no signals.  What a logger's           *)
(* flushOnExit does is module Logger; here it is in flight and settles,    *)
(* within shutdownTimeoutMillis.                                           *)
(***************************************************************************)
EXTENDS Naturals

CONSTANTS
    Loggers,    \* the loggers of the process
    Runtimes,   \* the runtimes to look at
    MaxSignals, \* bound: signals the process is sent
    MaxQuiet    \* bound: beforeExit, unload and teardown events

VARIABLES
    runtime,
    registered,   \* registeredNodeLoggers, bunLoggers, registeredBrowserLoggers;
                  \* Deno: loggers whose removeUnloadHandler is set
    created,      \* loggers constructed so far
    installed,    \* lifecycleHandlersInstalled and its kin
    beforeExits,  \* how often handleBeforeExit is attached to beforeExit
    stopping,     \* shutdownInProgress: of the process, in Deno of a logger
    quietDrain,   \* beforeExitDrainInProgress, exitDrainInFlight
    due,          \* for each cause, the loggers whose flushOnExit is awaited
    exited,       \* how the process ended
    signals, quiets,  \* signals and quiet events so far
    owed,         \* history: the loggers the first signal found registered
    served        \* history: loggers whose flushOnExit settled since

plVars == <<runtime, registered, created, installed, beforeExits, stopping,
            quietDrain, due, exited, signals, quiets, owed, served>>

Causes == {"quiet", "signal"}

PlInit ==
    /\ runtime \in Runtimes
    /\ registered = {} /\ created = {} /\ installed = FALSE /\ beforeExits = 0
    /\ stopping = {} /\ quietDrain = FALSE /\ due = [c \in Causes |-> {}]
    /\ exited = "no" /\ signals = 0 /\ quiets = 0 /\ owed = {} /\ served = {}

Running == exited = "no"
HasProcess == runtime \in {"node", "bun"}
TheProcess == "process"

-----------------------------------------------------------------------------
(* Registration *)

(* installLifecycleHandlers, installBunHandlers, installUnloadHandlers, and  *)
(* in Deno the listeners of the logger alone.                              *)
NodeInstall ==
    /\ runtime = "node" /\ installed' = TRUE
    /\ beforeExits' = IF installed THEN beforeExits ELSE beforeExits + 1
BunInstall ==
    /\ runtime = "bun" /\ installed' = TRUE
    /\ beforeExits' = IF installed THEN beforeExits ELSE beforeExits + 1
BrowserInstall == runtime = "browser" /\ installed' = TRUE /\ UNCHANGED beforeExits
DenoInstall == runtime = "deno" /\ UNCHANGED <<installed, beforeExits>>

(* process.off detaches one listener, if there is one. *)
Detached == IF beforeExits > 0 THEN beforeExits - 1 ELSE 0

(* removeLifecycleHandlers, removeBunHandlers and removeUnloadHandlers. *)
NodeRemove ==
    /\ runtime = "node" /\ installed' = FALSE
    /\ beforeExits' = IF installed THEN Detached ELSE beforeExits
BunRemove ==
    /\ runtime = "bun" /\ installed' = FALSE
    /\ beforeExits' = IF installed THEN Detached ELSE beforeExits
BrowserRemove == runtime = "browser" /\ installed' = FALSE /\ UNCHANGED beforeExits

(* A logger is constructed; a closed one is registered again by             *)
(* installProcessHandlers() in Node, installUnloadHandlers() in a page.     *)
Register(l) ==
    /\ Running /\ l \notin registered
    /\ l \in created => runtime \in {"node", "browser"}
    /\ registered' = registered \cup {l}
    /\ created' = created \cup {l}
    /\ NodeInstall \/ BunInstall \/ BrowserInstall \/ DenoInstall
    /\ UNCHANGED <<runtime, stopping, quietDrain, due, exited, signals, quiets,
                   owed, served>>

(* close(), or the function those two returned: the last logger takes the   *)
(* handlers along.                                                         *)
NodeUnregister(rest) ==
    runtime = "node" /\ IF rest = {} THEN NodeRemove ELSE UNCHANGED <<installed, beforeExits>>
BunUnregister(rest) ==
    runtime = "bun" /\ IF rest = {} THEN BunRemove ELSE UNCHANGED <<installed, beforeExits>>
BrowserUnregister(rest) ==
    runtime = "browser" /\ IF rest = {} THEN BrowserRemove ELSE UNCHANGED <<installed, beforeExits>>
DenoUnregister == runtime = "deno" /\ UNCHANGED <<installed, beforeExits>>

Unregister(l) ==
    /\ Running /\ l \in registered
    /\ registered' = registered \ {l}
    /\ \/ NodeUnregister(registered \ {l}) \/ BunUnregister(registered \ {l})
       \/ BrowserUnregister(registered \ {l}) \/ DenoUnregister
    /\ UNCHANGED <<runtime, created, stopping, quietDrain, due, exited, signals,
                   quiets, owed, served>>

-----------------------------------------------------------------------------
(* The event loop runs empty, the page is torn down *)

(* handleBeforeExit (Node): the listener is detached while the drain runs. *)
NodeBeforeExit ==
    /\ runtime = "node" /\ beforeExits > 0
    /\ ~quietDrain /\ stopping = {}
    /\ quietDrain' = TRUE
    /\ beforeExits' = Detached
    /\ due' = [due EXCEPT !["quiet"] = registered]
    /\ UNCHANGED stopping

(* handleBunBeforeExit is one-shot: the process counts as shutting down.   *)
BunBeforeExit ==
    /\ runtime = "bun" /\ beforeExits > 0
    /\ stopping = {}
    /\ stopping' = {TheProcess}
    /\ beforeExits' = Detached
    /\ due' = [due EXCEPT !["quiet"] = registered]
    /\ UNCHANGED quietDrain

(* Deno: unload and beforeunload start a flush of every listening logger.  *)
DenoUnload ==
    /\ runtime = "deno"
    /\ due' = [due EXCEPT !["quiet"] = registered]
    /\ UNCHANGED <<quietDrain, stopping, beforeExits>>

(* flushBrowserLoggers, for pagehide, freeze and visibilitychange. *)
BrowserTeardown ==
    /\ runtime = "browser" /\ installed /\ ~quietDrain
    /\ quietDrain' = TRUE
    /\ due' = [due EXCEPT !["quiet"] = registered]
    /\ UNCHANGED <<stopping, beforeExits>>

Quiet ==
    /\ Running /\ quiets < MaxQuiet
    /\ quiets' = quiets + 1
    /\ NodeBeforeExit \/ BunBeforeExit \/ DenoUnload \/ BrowserTeardown
    /\ UNCHANGED <<runtime, registered, created, installed, exited, signals,
                   owed, served>>

(* Mutation of NodeQuietDrainEnds: the listener is not attached again. *)
MutantNodeQuietDrainEnds ==
    /\ runtime = "node" /\ due["quiet"] = {}
    /\ UNCHANGED beforeExits

(* The finally of handleBeforeExit (Node): attached again for the next time.*)
NodeQuietDrainEnds ==
    /\ runtime = "node" /\ due["quiet"] = {}
    /\ beforeExits' = IF installed /\ stopping = {} THEN beforeExits + 1 ELSE beforeExits

(* Browser: the guard is released by the next task, settled or not. *)
BrowserGuardReleased == runtime = "browser" /\ UNCHANGED beforeExits

QuietDrainEnds ==
    /\ Running /\ quietDrain
    /\ quietDrain' = FALSE
    /\ NodeQuietDrainEnds \/ BrowserGuardReleased
    /\ UNCHANGED <<runtime, registered, created, installed, stopping, due, exited,
                   signals, quiets, owed, served>>

-----------------------------------------------------------------------------
(* Signals *)

(* handleSignal (Node): the first starts the drain, the second gives up.    *)
NodeSignal ==
    /\ runtime = "node"
    /\ IF stopping # {}
       THEN /\ NodeRemove /\ exited' = "forced"
            /\ UNCHANGED <<stopping, due>>
       ELSE /\ stopping' = {TheProcess}
            /\ due' = [due EXCEPT !["signal"] = registered]
            /\ UNCHANGED <<installed, beforeExits, exited>>

(* handleBunSignal. *)
BunSignal ==
    /\ runtime = "bun"
    /\ IF stopping # {}
       THEN /\ BunRemove /\ exited' = "forced"
            /\ UNCHANGED <<stopping, due>>
       ELSE /\ stopping' = {TheProcess}
            /\ due' = [due EXCEPT !["signal"] = registered]
            /\ UNCHANGED <<installed, beforeExits, exited>>

(* Deno runs every logger's own listener: one that was already stopping     *)
(* exits the process, the others start to drain.                           *)
DenoSignal ==
    /\ runtime = "deno"
    /\ IF registered \cap stopping # {}
       THEN exited' = "forced" /\ UNCHANGED <<stopping, due>>
       ELSE /\ stopping' = stopping \cup registered
            /\ due' = [due EXCEPT !["signal"] = @ \cup registered]
            /\ UNCHANGED exited
    /\ UNCHANGED <<installed, beforeExits>>

(* Nobody listens: the kernel's default ends the process. *)
DefaultSignal ==
    /\ exited' = "default"
    /\ UNCHANGED <<installed, beforeExits, stopping, due>>

Signal ==
    /\ Running /\ runtime # "browser" /\ signals < MaxSignals
    /\ signals' = signals + 1
    /\ owed' = IF signals = 0 THEN registered ELSE owed
    /\ served' = IF signals = 0 THEN {} ELSE served
    /\ IF installed \/ (runtime = "deno" /\ registered # {})
       THEN NodeSignal \/ BunSignal \/ DenoSignal
       ELSE DefaultSignal
    /\ UNCHANGED <<runtime, registered, created, quietDrain, quiets>>

(* A logger's flushOnExit settles.  In Deno the end of a signalled one      *)
(* removes that logger's listeners and exits.                              *)
FlushSettles(c, l) ==
    /\ Running /\ l \in due[c]
    /\ due' = [due EXCEPT ![c] = @ \ {l}]
    /\ served' = IF c = "signal" THEN served \cup {l} ELSE served
    /\ IF runtime = "deno" /\ c = "signal"
       THEN registered' = registered \ {l} /\ exited' = "drained"
       ELSE UNCHANGED <<registered, exited>>
    /\ UNCHANGED <<runtime, created, installed, beforeExits, stopping, quietDrain,
                   signals, quiets, owed>>

(* Mutation of Drained: the first logger to finish ends the drain. *)
MutantDrained == stopping # {} /\ signals > 0 /\ (due["signal"] = {} \/ served # {})

Drained == stopping # {} /\ signals > 0 /\ due["signal"] = {}

(* The end of the drain of the first signal: handlers off, signal sent again. *)
NodeDrainEnds == Drained /\ NodeRemove
BunDrainEnds == Drained /\ BunRemove

SignalDrainEnds ==
    /\ Running
    /\ NodeDrainEnds \/ BunDrainEnds
    /\ exited' = "drained"
    /\ UNCHANGED <<runtime, registered, created, stopping, quietDrain, due,
                   signals, quiets, owed, served>>

-----------------------------------------------------------------------------
PlNext ==
    \/ \E l \in Loggers : Register(l) \/ Unregister(l)
    \/ Quiet \/ QuietDrainEnds \/ Signal \/ SignalDrainEnds
    \/ \E c \in Causes, l \in Loggers : FlushSettles(c, l)

PlSpec == PlInit /\ [][PlNext]_plVars

(* flushOnExit is bounded by its timeout, and settled promises resume.     *)
PlFairness ==
    /\ WF_plVars(SignalDrainEnds)
    /\ \A l \in Loggers : WF_plVars(FlushSettles("signal", l))
PlFairSpec == PlSpec /\ PlFairness

-----------------------------------------------------------------------------
(* Properties *)

(* Every variable keeps its type.  A drain that ends after its handlers were *)
(* removed and installed again attaches a second listener, never a third.  *)
PlTypeOK ==
    /\ runtime \in Runtimes /\ registered \subseteq created /\ created \subseteq Loggers
    /\ installed \in BOOLEAN /\ beforeExits \in 0..2
    /\ stopping \subseteq Loggers \cup {TheProcess} /\ quietDrain \in BOOLEAN
    /\ due \in [Causes -> SUBSET Loggers]
    /\ exited \in {"no", "default", "drained", "forced"}
    /\ signals \in 0..MaxSignals /\ quiets \in 0..MaxQuiet
    /\ owed \subseteq Loggers /\ served \subseteq Loggers

(* One signal flushes every logger it found before the process ends: only a *)
(* second signal, or in Bun one after beforeExit, cuts a drain short.      *)
DrainedBeforeExit == exited = "drained" => owed \subseteq served

SignalDrainsAll == HasProcess => DrainedBeforeExit

(* "Without these, every record buffered by a Deno service is lost on every *)
(* ordinary deployment" (deno-logger.ts): the same for Deno. It does not    *)
(* hold: each logger has a listener of its own, and the first that is done  *)
(* ends the process.                                                        *)
DenoSignalDrainsAll == runtime = "deno" => DrainedBeforeExit

(* "the next quiescence deserves a flush just as much as this one did"      *)
(* (node-logger.ts): however drains, closes and signals interleave, Node    *)
(* listens for the next beforeExit while a logger is registered.           *)
NextQuiescenceIsHeard ==
    runtime = "node" /\ registered # {} /\ ~quietDrain /\ stopping = {} => beforeExits > 0

(* A signal ends the process, though attaching a listener overrode the      *)
(* kernel's default.                                                       *)
SignalEndsProcess == signals > 0 ~> ~Running
=============================================================================
