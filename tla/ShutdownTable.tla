--------------------------- MODULE ShutdownTable ----------------------------
(***************************************************************************)
(* SHUTDOWN_TRANSITIONS: the two-phase shutdown relation every adapter is  *)
(* to follow (src/src/server-lifecycle.ts, transitionShutdownState).  Pairs *)
(* the table does not list are ignored.                                    *)
(***************************************************************************)
VARIABLE phase

Phases == {"running", "draining", "forced", "closed"}

Transitions ==
    {[from |-> "running",  event |-> "trigger",     to |-> "draining"],
     [from |-> "draining", event |-> "trigger",     to |-> "forced"],
     [from |-> "running",  event |-> "force-now",   to |-> "forced"],
     [from |-> "draining", event |-> "force-now",   to |-> "forced"],
     [from |-> "draining", event |-> "mark-closed", to |-> "closed"]}

Init == phase = "running"
Next == \E t \in Transitions : phase = t.from /\ phase' = t.to
Spec == Init /\ [][Next]_phase
=============================================================================
