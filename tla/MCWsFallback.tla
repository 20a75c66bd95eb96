---------------------------- MODULE MCWsFallback ----------------------------
(* WsIngest with an exit fallback racing the drain, fairly.  Behaviours in  *)
(* which no exit is called are those of the drain alone.                    *)
EXTENDS WsIngest, TLC

CONSTANTS r1, r2, r3, exit1

(* As long as the failures do not exhaust the reconnect attempts, a record  *)
(* ends in the database or is reported, unless the exit of a caller failed, *)
(* or its late commit took the record out of memory; every drain ends,      *)
(* unless close() pulled its connection away; and every call of flushOnExit *)
(* and close settles.                                                       *)
EverythingSettles ==
    /\ \A r \in Records :
         r \in issued ~>
             \/ r \in committed \cup dropped
             \/ \E p \in Exits : \/ exitPc[p] \in {"rejected", "closed"}
                                 \/ exitPc[p] # "idle" /\ r \notin Pending
    /\ drainPc # "idle" ~> drainPc = "idle" \/ closed
    /\ \A p \in Exits :
         exitPc[p] # "idle" ~> exitPc[p] \in {"resolved", "rejected", "closed"}
=============================================================================
