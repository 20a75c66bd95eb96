----------------------------- MODULE ContextSnapshot -----------------------------
(***************************************************************************)
(* cloneContextValue of src/src/context-shared.ts: the snapshot taken of a *)
(* context on every read and write, a walk over an object graph with       *)
(* sharing and cycles under a depth and a node budget.                     *)
(*                                                                         *)
(* A graph gives each node its kind and, in the order of the walk, what it *)
(* refers to.  The kinds stand for what the code does with a value:        *)
(*   container  plain object, array, Map, Set, Error: copied with contents *)
(*   leaf       Date, RegExp, ArrayBuffer: copied                          *)
(*   view       typed array, DataView: copied, its buffer (a leaf) first   *)
(*   handle     instance of a class, object with accessors: kept           *)
(*   function   kept, and not looked at                                    *)
(***************************************************************************)
EXTENDS Naturals, Sequences, FiniteSets, Lists

CONSTANTS ClNodes,                 \* 1 .. n; the value is node 1
          ClMaxRefs,               \* bound: references of one container
          ClMaxDepth, ClMaxNodes   \* MAX_CONTEXT_CLONE_DEPTH and _NODES

VARIABLES cl                       \* the graph, and what became of its clone
clVars == <<cl>>

Kinds == {"container", "leaf", "view", "handle", "function"}
RefLists == UNION {[1 .. k -> ClNodes] : k \in 0 .. ClMaxRefs}
IsGraph(kind, refs) ==
    \A n \in ClNodes :
        CASE kind[n] = "container" -> TRUE
          [] kind[n] = "view"      -> Len(refs[n]) = 1 /\ kind[refs[n][1]] = "leaf"
          [] OTHER                 -> refs[n] = <<>>

(* A reference in the clone: to a copy, or to the value itself. *)
Copy(i) == [copied |-> TRUE, id |-> i]
Same(n) == [copied |-> FALSE, id |-> n]

(* The clone under way: the copies made, by number, and which node each is  *)
(* of; the budget used; the reference that the last call returned.         *)
Unvisited == [copies |-> <<>>, seen |-> [n \in ClNodes |-> 0], nodes |-> 0,
              thrown |-> FALSE, ref |-> Same(1)]

ClInit ==
    \E kind \in [ClNodes -> Kinds], refs \in [ClNodes -> RefLists] :
        /\ IsGraph(kind, refs)
        /\ cl = [kind |-> kind, refs |-> refs, done |-> FALSE, clone |-> Unvisited]

(* Mutation of Register: the copy is not remembered. *)
MutantRegister(c, n, refs) ==
    [c EXCEPT !.copies = Append(@, refs), !.ref = Copy(Len(c.copies) + 1)]

(* A new copy of n. *)
Register(c, n, refs) ==
    [c EXCEPT !.copies = Append(@, refs), !.seen[n] = Len(c.copies) + 1,
              !.ref = Copy(Len(c.copies) + 1)]

(* cloneOwnDataProperties, and the loops over a Map and a Set; inner is the  *)
(* clone of a value one level further down.                                *)
CloneContents(inner, c, refs) ==
    LET after[i \in 0..Len(refs)] ==
            IF i = 0 THEN [clone |-> c, refs |-> <<>>]
            ELSE LET next == inner[<<after[i - 1].clone, refs[i]>>]
                 IN  [clone |-> next, refs |-> Append(after[i - 1].refs, next.ref)]
    IN  after[Len(refs)]

(* cloneContextValueInternal: a container is remembered before its contents *)
(* are visited, so that a cycle ends; a view after its buffer.             *)
CloneValue(g, inner, c, n, depth) ==
    LET counted == [c EXCEPT !.nodes = @ + 1]
    IN  IF c.thrown THEN c
        ELSE IF g.kind[n] = "function" THEN [c EXCEPT !.ref = Same(n)]
        ELSE IF depth > ClMaxDepth THEN [c EXCEPT !.thrown = TRUE]
        ELSE IF c.seen[n] # 0 THEN [c EXCEPT !.ref = Copy(c.seen[n])]
        ELSE IF counted.nodes > ClMaxNodes THEN [counted EXCEPT !.thrown = TRUE]
        ELSE CASE g.kind[n] = "handle" -> [counted EXCEPT !.ref = Same(n)]
          [] g.kind[n] = "view" ->
                LET buffer == CloneContents(inner, counted, g.refs[n])
                IN  IF buffer.clone.thrown THEN buffer.clone
                    ELSE Register(buffer.clone, n, buffer.refs)
          [] g.kind[n] \in {"container", "leaf"} ->
                LET copy == Register(counted, n, <<>>)
                    contents == CloneContents(inner, copy, g.refs[n])
                IN  [contents.clone EXCEPT !.copies[copy.ref.id] = contents.refs,
                                           !.ref = copy.ref]

(* The clones under way. *)
References == [copied : BOOLEAN, id : Nat]
CloneStates == [copies : Seq(Seq(References)), seen : [ClNodes -> Nat], nodes : Nat,
                thrown : BOOLEAN, ref : References]

(* The clone of a value at a depth, room levels above one too many. *)
CloneInternal(g, n) ==
    LET at[room \in 0..ClMaxDepth + 1] ==
            [call \in CloneStates \X ClNodes |->
                CloneValue(g, IF room = 0 THEN <<>> ELSE at[room - 1], call[1], call[2],
                           (ClMaxDepth + 1) - room)]
    IN  at[ClMaxDepth + 1][<<Unvisited, n>>]

(* cloneContextValue *)
Clones ==
    /\ ~cl.done
    /\ cl' = [cl EXCEPT !.done = TRUE, !.clone = CloneInternal(cl, 1)]

ClNext == Clones
ClSpec == ClInit /\ [][ClNext]_clVars

-----------------------------------------------------------------------------
(* Properties *)

Reached == Reach([n \in ClNodes |-> Range(cl.refs[n])], {1})

(* A value deeper than the limit: references lead to it along a path that   *)
(* has no value twice, but for it.                                         *)
TooDeep ==
    \E walk \in [0..ClMaxDepth + 1 -> ClNodes] :
        /\ walk[0] = 1 /\ cl.kind[walk[ClMaxDepth + 1]] # "function"
        /\ \A i \in 0..ClMaxDepth : walk[i + 1] \in Range(cl.refs[walk[i]])
        /\ \A i, j \in 0..ClMaxDepth : walk[i] = walk[j] => i = j

(* "preserving cycles and shared references within the returned graph.        *)
(* Runtime-local opaque values are retained by identity": the clone has    *)
(* one copy for each value reached, the references of the copy are the     *)
(* copies of its references, and nothing of the original but handles and   *)
(* functions is in it; and only a graph over a budget is refused.          *)
SnapshotIsTheGraph ==
    cl.done =>
        LET c == cl.clone
            Image(n) == IF cl.kind[n] \in {"handle", "function"} THEN Same(n) ELSE Copy(c.seen[n])
            copied == {n \in Reached : cl.kind[n] \notin {"handle", "function"}}
        IN  IF c.thrown THEN \/ TooDeep
                             \/ c.nodes > ClMaxNodes
            ELSE /\ c.ref = Image(1)
                 /\ {c.seen[n] : n \in copied} = DOMAIN c.copies
                 /\ Cardinality(copied) = Len(c.copies)
                 /\ \A n \in copied :
                       c.copies[c.seen[n]] = [k \in DOMAIN cl.refs[n] |-> Image(cl.refs[n][k])]

(* "context snapshot exceeds maximum node count": refused for its nodes, a  *)
(* context has more nodes than that. It does not hold: a value kept by      *)
(* identity is not remembered, and counts each time it is met.              *)
BudgetCountsNodes ==
    cl.done /\ cl.clone.thrown /\ cl.clone.nodes > ClMaxNodes =>
        Cardinality({n \in Reached : cl.kind[n] # "function"}) > ClMaxNodes
=============================================================================
