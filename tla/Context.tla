--------------------------------- MODULE Context ---------------------------------
(***************************************************************************)
(* The ambient log context (src/src/context-shared.ts), the execution      *)
(* context built on it (execution-context-shared.ts) and the request       *)
(* boundary (request-boundary.ts), over the three storages the builds use: *)
(* AsyncLocalStorage follows each task across awaits, the browser's single *)
(* frame lives for a synchronous callback, workerd's keeps nothing.        *)
(*                                                                         *)
(* A task serves one request, inside a request boundary.  Frames are       *)
(* objects of a heap, by number: updateLogContext writes to one in place.  *)
(* A frame holds the request, the user in its three places, the tenant in  *)
(* its two, the trace ids, and as history what was given for them; other   *)
(* fields, users, tags and baggage merge like these.                       *)
(***************************************************************************)
EXTENDS Naturals, Sequences, Filter, Lists

CONSTANTS
    CxStorages,            \* the storages to check: "als", "single", "explicit"
    CxTasks,               \* tasks, each with its request
    CxUsers, CxTenants, CxTraces,
    CxMaxFrames, CxMaxWrites   \* bounds: frames entered, updates in place

VARIABLES cx
cxVars == <<cx>>

None == "none"             \* an absent value; also an absent frame's request
Blank == "blank"           \* the empty string
Undefined == "undefined"   \* a key of the patch that is there, without a value

CxInit ==
    cx \in [storage : CxStorages, running : {None},
            heap : {<<>>},
            stack : {[t \in CxTasks |-> <<>>]},   \* AsyncLocalStorage, per task
            current : {<<>>},                     \* the one frame and those it shadows
            phase : {[t \in CxTasks |-> "new"]},
            inside : {[t \in CxTasks |-> FALSE]}, \* its boundary's frame is in force
            writes : {0},
            snapshot : {[request |-> None]},      \* captured for detached work
            failure : {[t \in CxTasks |-> None]}, \* request its failure names
            given : {[t \in CxTasks |-> {}]}]     \* history: requests t may see

-----------------------------------------------------------------------------
(* Storages *)

Frames(x, t) == IF x.storage = "als" THEN x.stack[t] ELSE x.current

(* getStore: the number of the active frame, or 0. *)
Store(x, t) == IF Frames(x, t) = <<>> THEN 0 ELSE Frames(x, t)[Len(Frames(x, t))]

SetFrames(x, t, f) ==
    CASE x.storage = "als"    -> [x EXCEPT !.stack[t] = f]
      [] x.storage = "single" -> [x EXCEPT !.current = f]
      [] OTHER                -> x

(* run(): a frame of its own, or for exit() none. *)
RunFrame(x, t, c) ==
    LET n == Len(x.heap) + 1
    IN  SetFrames([x EXCEPT !.heap = Append(@, c)], t, Append(Frames(x, t), n))
ExitFrame(x, t) == SetFrames(x, t, Append(Frames(x, t), 0))

(* Mutation of Suspend: the single frame stays until the promise settles.   *)
MutantSuspend(x, t) == [x EXCEPT !.running = None]

(* The synchronous part of t ends: the single frame is restored with it.    *)
Suspend(x, t) ==
    LET y == [x EXCEPT !.running = None]
    IN  IF x.storage = "single" THEN [y EXCEPT !.current = <<>>, !.inside[t] = FALSE] ELSE y

-----------------------------------------------------------------------------
(* Merging *)

Empty == [request |-> None, user |-> None, userId |-> None, fieldUser |-> None,
          tenant |-> None, fieldTenant |-> None, trace |-> None, traces |-> <<>>,
          ids |-> {}, plain |-> FALSE, blanked |-> FALSE]

Fresh(old, new) == IF new = None THEN old ELSE new

(* Mutation of Ids: an id is kept again. *)
MutantIds(s) == Without(s, {None})

(* The ids of s that are there, each once. *)
Ids(s) == Unique(Without(s, {None}))

(* mergedLogContext: what a patch changes. *)
MergedLogContext(c, p) ==
    LET existing == IF c.traces # <<>> THEN c.traces ELSE <<c.trace>>
    IN  [c EXCEPT !.user = Fresh(@, p.user),
                  !.trace = Fresh(@, p.trace),
                  !.traces = IF p.trace = None THEN @ ELSE Ids(Append(existing, p.trace)),
                  !.ids = @ \cup ({p.trace} \ {None}),
                  !.plain = @ \/ p.user # None]

(* Without a frame to merge into, the patch itself becomes the frame.      *)
ClonedPatch(p) == [MergedLogContext(Empty, p) EXCEPT !.traces = <<>>]

Given(value) == IF value = Undefined THEN None ELSE value

(* loggedInUserIdFromContext and the like *)
UserOf(c) == IF c.userId # None THEN c.userId ELSE c.user

(* mergeExecutionLogContexts: own scalars replace, be they undefined, and   *)
(* the user is one.                                                        *)
MergeExecution(c, p) ==
    LET who == IF p.userId # None THEN p.userId
               ELSE IF p.user # None THEN p.user ELSE UserOf(c)
        trace == IF p.trace # None THEN p.trace ELSE c.trace
    IN  [c EXCEPT !.user = Fresh(p.user, who), !.userId = who,
                  !.tenant = IF p.tenant = None THEN @ ELSE Given(p.tenant),
                  !.trace = trace,
                  !.traces = Ids(<<c.trace>> \o c.traces \o <<p.trace>>),
                  !.ids = @ \cup ({p.trace} \ {None}),
                  !.blanked = @ \/ p.tenant \in {Blank, Undefined}]

(* Mutation of ToStored: a field that is there already is kept. *)
MutantToStored(c) ==
    [c EXCEPT !.fieldUser = IF @ = None THEN UserOf(c) ELSE @, !.user = Fresh(@, UserOf(c)),
              !.fieldTenant = IF c.tenant \in {None, Blank} THEN @ ELSE c.tenant]

(* toStoredContext, toLoggerLogContext: the identity goes into the fields,   *)
(* a blank one does not.                                                   *)
ToStored(c) ==
    [c EXCEPT !.fieldUser = Fresh(@, UserOf(c)), !.user = Fresh(@, UserOf(c)),
              !.fieldTenant = IF c.tenant \in {None, Blank} THEN @ ELSE c.tenant]

(* A patch of one key at a time: the keys merge independently, but for the   *)
(* two that name the user.                                                 *)
NoPatch == [user |-> None, userId |-> None, tenant |-> None, trace |-> None]
PlainPatches == {[NoPatch EXCEPT !.user = u] : u \in CxUsers}
                \cup {[NoPatch EXCEPT !.trace = i] : i \in CxTraces}
Patches == PlainPatches \cup {[NoPatch EXCEPT !.userId = u] : u \in CxUsers}
           \cup {[NoPatch EXCEPT !.tenant = i] : i \in CxTenants \cup {Blank, Undefined}}

(* The readers of either module. *)
CurrentLogUserId(c) == IF c.user # None THEN c.user ELSE c.fieldUser
GetTenantId(c) == IF c.tenant = Blank THEN None ELSE c.tenant

-----------------------------------------------------------------------------
(* A task *)

Active(t) == cx.running = t /\ cx.phase[t] = "serving"
Contents(x, t) == IF Store(x, t) = 0 THEN Empty ELSE x.heap[Store(x, t)]
BoundaryFrames(x, t) == IF x.inside[t] THEN <<Head(Frames(x, t))>> ELSE <<>>
Room == Len(cx.heap) < CxMaxFrames

(* runWithRequestBoundary(context): its frame, and the operation begins.    *)
Boundary(t, trace) ==
    /\ cx.running = None /\ cx.phase[t] = "new" /\ Room
    /\ cx' = RunFrame([cx EXCEPT !.running = t, !.phase[t] = "serving",
                                 !.inside[t] = cx.storage # "explicit", !.given[t] = @ \cup {t}],
                      t, [Empty EXCEPT !.request = t, !.trace = trace,
                                       !.ids = {trace} \ {None}])

(* The task awaits; another one may run before it goes on. *)
Awaits(t) == Active(t) /\ cx' = Suspend(cx, t)
Resumes(t) ==
    /\ cx.running = None /\ cx.phase[t] = "serving"
    /\ cx' = [cx EXCEPT !.running = t]

(* runWithMergedLogContext *)
RunMerged(t, p) ==
    /\ Active(t) /\ Room
    /\ cx' = RunFrame(cx, t, IF Store(cx, t) = 0 THEN ClonedPatch(p)
                             ELSE MergedLogContext(Contents(cx, t), p))

(* runWithExecutionLogContext, runWithExecutionLoggedInUser *)
RunExecution(t, p) ==
    /\ Active(t) /\ Room
    /\ cx' = RunFrame(cx, t,
                      ToStored(MergeExecution(Contents(cx, t), p)))

(* The callback of the innermost run returns. *)
Returns(t) ==
    /\ Active(t) /\ Len(Frames(cx, t)) > Len(BoundaryFrames(cx, t))
    /\ cx' = SetFrames(cx, t, SubSeq(Frames(cx, t), 1, Len(Frames(cx, t)) - 1))

(* updateLogContext, setContextLoggedInUser: in place, for all who share    *)
(* the frame.                                                              *)
Updates(t, p) ==
    /\ Active(t) /\ Store(cx, t) # 0 /\ cx.writes < CxMaxWrites
    /\ cx' = [cx EXCEPT !.writes = @ + 1,
                         !.heap[Store(cx, t)] = MergedLogContext(Contents(cx, t), p)]

(* captureLogContext, for detached work to enter *)
Captures(t) ==
    /\ Active(t)
    /\ cx' = [cx EXCEPT !.snapshot = Contents(cx, t)]

(* runWithCapturedLogContext: an absent snapshot clears the frame; once, for *)
(* to clear it again adds nothing.                                         *)
RunCaptured(t) ==
    /\ Active(t) /\ Room
    /\ cx.snapshot.request = None => Store(cx, t) # 0
    /\ LET x == [cx EXCEPT !.given[t] = @ \cup {cx.snapshot.request}]
       IN  cx' = IF cx.snapshot.request = None THEN ExitFrame(x, t)
                 ELSE RunFrame(x, t, cx.snapshot)

(* The catch of the boundary: inside the boundary's own frame if the        *)
(* storage still has it, else with the explicit context; what the reporter  *)
(* does changes nothing.                                                   *)
OperationFails(t) ==
    /\ Active(t)
    /\ LET x == SetFrames(cx, t, BoundaryFrames(cx, t))
           active == Contents(x, t)
       IN  cx' = Suspend([SetFrames(x, t, <<>>) EXCEPT
                    !.phase[t] = "failed",
                    !.failure[t] = IF active.request = None THEN t ELSE active.request], t)
OperationEnds(t) ==
    /\ Active(t)
    /\ cx' = Suspend([SetFrames(cx, t, <<>>) EXCEPT !.phase[t] = "ok"], t)

-----------------------------------------------------------------------------
CxNext ==
    \E t \in CxTasks :
        \/ \E trace \in {CHOOSE i \in CxTraces : TRUE, None} : Boundary(t, trace)
        \/ Awaits(t) \/ Resumes(t) \/ Returns(t) \/ Captures(t) \/ RunCaptured(t)
        \/ OperationFails(t) \/ OperationEnds(t)
        \/ \E p \in PlainPatches : RunMerged(t, p) \/ Updates(t, p)
        \/ \E p \in Patches : RunExecution(t, p)

CxSpec == CxInit /\ [][CxNext]_cxVars

-----------------------------------------------------------------------------
(* Properties *)

(* "They must not leak between concurrent requests" (middleware-consumer-    *)
(* contract.md): the frame a task sees is of its own request or of a        *)
(* snapshot it entered, and a failure names the request that failed.       *)
NoBleed ==
    /\ \A t \in CxTasks :
          cx.running = t => Contents(cx, t).request \in cx.given[t] \cup {None}
    /\ \A t \in CxTasks : cx.phase[t] = "failed" => cx.failure[t] = t

(* As long as only the execution context wrote the identity of a frame, and *)
(* never a tenant that is blank or undefined, all places name one user and  *)
(* one tenant, however scopes nest and snapshots are entered again.        *)
OneIdentity ==
    \A n \in DOMAIN cx.heap : LET c == cx.heap[n] IN
        /\ ~c.plain /\ c.userId # None => c.userId = c.user /\ c.user = c.fieldUser
        /\ ~c.blanked => c.tenant = c.fieldTenant

(* No trace id a scope was given is lost or repeated, whichever merges it    *)
(* went through; their order may change.                                   *)
TracesKeptOnce ==
    \A n \in DOMAIN cx.heap : LET c == cx.heap[n] IN
        /\ IsInjective(c.traces)
        /\ c.traces # <<>> => Range(c.traces) = c.ids

(* "authenticated user ID | logged_in_user.id and fields["user.id"]"        *)
(* (middleware-consumer-contract.md): a frame that has both has one user.   *)
(* It does not hold: updateLogContext and setContextLoggedInUser change the *)
(* user and leave the field.                                                *)
UserInBothPlaces ==
    \A n \in DOMAIN cx.heap : LET c == cx.heap[n] IN
        c.user # None /\ c.fieldUser # None => c.user = c.fieldUser
=============================================================================
