------------------------- MODULE MCPersistentQueue -------------------------
(* Three instances of PersistentQueue in one run: overflow, failures and a  *)
(* crash; the same with a record that is refused and room for one; and      *)
(* unawaited writes under fairness.  The constants of the cfg bound all     *)
(* three, so that the invariants are those of PersistentQueue itself.       *)
EXTENDS PersistentQueue, TLC

CONSTANTS r1, r2, r3, r4

VARIABLE instance

Ordinary == INSTANCE PersistentQueue WITH
    Records <- {r1, r2, r3}, Oversize <- {}, MaxFaults <- 1
Refusing == INSTANCE PersistentQueue WITH
    Records <- {r1, r2, r4}, MaxRecords <- 1
Live == INSTANCE PersistentQueue WITH
    Records <- {r1, r2, r3}, Oversize <- {}, AwaitAck <- FALSE, MaxFaults <- 0

AllInit == \/ instance = "ordinary" /\ Ordinary!Init
           \/ instance = "refusing" /\ Refusing!Init
           \/ instance = "live" /\ Live!Init
AllNext ==
    /\ UNCHANGED instance
    /\ \/ instance = "ordinary" /\ Ordinary!Next
       \/ instance = "refusing" /\ Refusing!Next
       \/ instance = "live" /\ Live!Next
AllSpec == AllInit /\ [][AllNext]_<<vars, instance>> /\ Live!Fairness

(* A record that a scheduled drain of the live instance finds stored ends   *)
(* in the database or is reported, crashes of the page aside.               *)
ScheduledEndsDelivered ==
    \A r \in Records \ Oversize :
        instance = "live" /\ r \in ToSet(entries) /\ scheduled /\ drainPc = "idle"
          ~> r \in committed \cup dropped
=============================================================================
