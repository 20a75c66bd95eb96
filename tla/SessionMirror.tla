------------------------------ MODULE SessionMirror ------------------------------
(***************************************************************************)
(* SupabaseSessionTransport (src/src/supabase-session.ts): each call goes  *)
(* to acknowledged Realtime and to durable ingest at once; what Realtime   *)
(* does is swallowed, ingest decides.  Modules RealtimeAck and HttpIngest  *)
(* model the two; here a call of either one settles, or hangs.             *)
(***************************************************************************)
EXTENDS FiniteSets, Naturals

CONSTANTS SmCalls   \* calls of write, flush, flushOnExit and close

VARIABLES sm
smVars == <<sm>>

Legs == {"realtime", "ingest"}

(* The constructor takes one leg or both. *)
SmInit ==
    sm \in [legs : (SUBSET Legs) \ {{}},
            leg : {[c \in SmCalls |-> [l \in Legs |-> "idle"]]},
            pc : {[c \in SmCalls |-> "idle"]},   \* the await each call is at
            right : [SmCalls -> BOOLEAN]]        \* the record has the appName

(* prepare() throws for a record of another application; otherwise both     *)
(* legs are called, and ingest is awaited first.                           *)
SmCall(c, isWrite) ==
    /\ sm.pc[c] = "idle"
    /\ sm' = IF isWrite /\ ~sm.right[c] THEN [sm EXCEPT !.pc[c] = "rejected"]
             ELSE [sm EXCEPT !.leg[c] = [l \in Legs |-> IF l \in sm.legs THEN "open" ELSE "none"],
                             !.pc[c] = IF "ingest" \in sm.legs THEN "ingest" ELSE "realtime"]

(* Mutation of Resume: a failure of Realtime is passed on. *)
MutantResume(x, c) ==
    IF \E l \in Legs : x.leg[c][l] = "failed" THEN [x EXCEPT !.pc[c] = "rejected"]
    ELSE IF \A l \in Legs : x.leg[c][l] # "open" THEN [x EXCEPT !.pc[c] = "resolved"]
    ELSE IF x.leg[c]["ingest"] = "ok" THEN [x EXCEPT !.pc[c] = "realtime"]
    ELSE x

(* A settled leg resumes the call that awaits it: `await ingest; await live`. *)
Resume(x, c) ==
    LET goesOn(pc) == [x EXCEPT !.pc[c] = pc]
        ingest == x.leg[c]["ingest"]
    IN  IF x.pc[c] = "rejected" \/ ingest = "open" THEN x
        ELSE IF ingest = "failed" THEN goesOn("rejected")
        ELSE IF x.leg[c]["realtime"] = "open" THEN goesOn("realtime")
        ELSE goesOn("resolved")

LegSettles(c, l, ok) ==
    /\ sm.leg[c][l] = "open"
    /\ sm' = Resume([sm EXCEPT !.leg[c][l] = IF ok THEN "ok" ELSE "failed"], c)

SmNext ==
    \E c \in SmCalls :
        \/ \E isWrite \in BOOLEAN : SmCall(c, isWrite)
        \/ \E l \in Legs, ok \in BOOLEAN : LegSettles(c, l, ok)

SmSpec == SmInit /\ [][SmNext]_smVars

-----------------------------------------------------------------------------
(* "Realtime failure never negates a successful durable write": a call that *)
(* got past prepare() rejects exactly when durable ingest did, and one that *)
(* resolves has left nothing under way.                                    *)
DurableDecides ==
    \A c \in SmCalls :
        /\ sm.pc[c] = "rejected" => sm.leg[c]["ingest"] = "failed" \/ ~sm.right[c]
        /\ sm.leg[c]["ingest"] = "failed" => sm.pc[c] = "rejected"
        /\ sm.pc[c] = "resolved" => \A l \in Legs : sm.leg[c][l] # "open"
=============================================================================
