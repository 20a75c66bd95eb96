---------------------------- MODULE AckDelivery -----------------------------
(***************************************************************************)
(* What the durable transports promise, without sockets, batches or        *)
(* retries (the class comments of src/src/supabase-websocket-ingest.ts and *)
(* src/src/supabase-websocket-persistent.ts): a record accepted is pending, *)
(* in order, until it is released, and only a committed record is released. *)
(* Loss is explicit: a record that leaves any other way is in dropped, and  *)
(* no record the database holds is ever reported dropped.                  *)
(***************************************************************************)
EXTENDS Integers, Sequences, SequencesExt

CONSTANT Records

VARIABLES
    issued,     \* records handed to the transport
    pending,    \* records it answers for, oldest first
    committed,  \* records the database holds
    dropped     \* records reported as dropped

vars == <<issued, pending, committed, dropped>>

Init == issued = {} /\ pending = <<>> /\ committed = {} /\ dropped = {}

Without(s, k) == SubSeq(s, 1, k - 1) \o SubSeq(s, k + 1, Len(s))

Refuse(r) ==
    /\ r \notin issued
    /\ issued' = issued \cup {r}
    /\ dropped' = dropped \cup {r}
    /\ UNCHANGED <<pending, committed>>

Accept(r) ==
    /\ r \notin issued
    /\ issued' = issued \cup {r}
    /\ pending' = Append(pending, r)
    /\ UNCHANGED <<committed, dropped>>

(* A bounded transport gives up a pending, uncommitted record for r. *)
Displace(r, k) ==
    /\ r \notin issued
    /\ pending[k] \notin committed
    /\ issued' = issued \cup {r}
    /\ pending' = Append(Without(pending, k), r)
    /\ dropped' = dropped \cup {pending[k]}
    /\ UNCHANGED committed

(* The database commits the n oldest pending records in one transaction. *)
Commit(n) ==
    /\ committed' = committed \cup ToSet(SubSeq(pending, 1, n))
    /\ UNCHANGED <<issued, pending, dropped>>

(* Acknowledged records leave memory, oldest first. *)
Release(n) ==
    /\ ToSet(SubSeq(pending, 1, n)) \subseteq committed
    /\ pending' = SubSeq(pending, n + 1, Len(pending))
    /\ UNCHANGED <<issued, committed, dropped>>

Next ==
    \/ \E r \in Records : Refuse(r) \/ Accept(r)
    \/ \E r \in Records, k \in 1..Len(pending) : Displace(r, k)
    \/ \E n \in 1..Len(pending) : Commit(n) \/ Release(n)

Spec == Init /\ [][Next]_vars
=============================================================================
