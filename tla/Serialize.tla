-------------------------------- MODULE Serialize --------------------------------
(***************************************************************************)
(* serialize of src/src/base-logger.ts: what of a logged value goes into a *)
(* record, for any object graph, under the redaction patterns and the      *)
(* limits of the logger.                                                   *)
(*                                                                         *)
(* Node 1 of a graph is the value.  The atoms are a short and a long       *)
(* string, and a property whose getter throws; numbers, dates, functions   *)
(* and the like are short strings.  A reference has a key that a pattern   *)
(* matches ("secret") or not ("plain"); a list (array, Set) has none.  The *)
(* cause of an error, when it is no own property, is written whatever the  *)
(* patterns say.  The tree that results is cut where a limit, a cycle or a *)
(* pattern says so.                                                        *)
(***************************************************************************)
EXTENDS Naturals, Sequences, Lists

CONSTANTS SzContainers, SzAtoms,  \* the nodes, by what they may be
          SzMaxRefs,              \* bound: references of a container
          SzDepths,               \* values of limits.maxDepth to check
          SzMaxLength, SzMaxProperties

VARIABLES sz                      \* the graph, and its serialization
szVars == <<sz>>

Nodes == SzContainers \cup SzAtoms
AtomKinds == {"short", "long", "thrower"}
ContainerKinds == {"object", "error", "map", "list"}
Refs == [key : {"plain", "secret", "cause"}, to : Nodes]
RefLists ==
    {list \in UNION {[1 .. k -> Refs] : k \in 0 .. SzMaxRefs} :
        \A k \in DOMAIN list : list[k].key = "cause" => k = 1}

Out(tag, n, items) == [tag |-> tag, node |-> n, items |-> items]
Pending == Out("pending", 1, <<>>)

SzInit ==
    \E kind \in [SzContainers -> AtomKinds \cup ContainerKinds], atom \in [SzAtoms -> AtomKinds],
       refs \in [SzContainers -> RefLists], depth \in SzDepths, patterns \in BOOLEAN :
        /\ \A n \in SzContainers :
              /\ kind[n] \in AtomKinds => refs[n] = <<>>
              /\ kind[n] = "list" => \A k \in DOMAIN refs[n] : refs[n][k].key = "plain"
              /\ kind[n] # "error" => \A k \in DOMAIN refs[n] : refs[n][k].key # "cause"
        /\ sz = [kind |-> [n \in Nodes |-> IF n \in SzAtoms THEN atom[n] ELSE kind[n]],
                 refs |-> refs, maxDepth |-> depth, redact |-> patterns, out |-> Pending]

-----------------------------------------------------------------------------
(* A value cut short leaves a mark: these are the tags of marks. *)
Marks == {"truncated", "circular", "too deep", "more", "redacted", "unserializable"}
Mark(tag, n) == Out(tag, n, <<>>)

(* Mutation of CapCollection: the entries over the limit go without a mark. *)
MutantCapCollection(items, total, limit, n) == items

(* capCollection, and __truncatedKeys for an object *)
CapCollection(items, total, limit, n) ==
    IF total > limit THEN Append(items, Mark("more", n)) ELSE items

(* Mutation of ShouldRedact: a key hides objects only. *)
MutantShouldRedact(g, ref) == g.redact /\ ref.key = "secret" /\ g.kind[ref.to] \notin AtomKinds

ShouldRedact(g, ref) == g.redact /\ ref.key = "secret"

(* What throws inside an error, a list or a Map is thrown by it as well.    *)
Together(n, tag, items) ==
    IF \E k \in DOMAIN items : items[k].tag = "throws" THEN Mark("throws", n)
    ELSE Out(tag, n, items)

Guarded(out) == IF out.tag = "throws" THEN Mark("unserializable", out.node) ELSE out

(* The values a container refers to, up to a limit; inner is serialize one   *)
(* level further down.                                                     *)
Entries(g, inner, n, seen, limit) ==
    [k \in 1 .. (IF Len(g.refs[n]) > limit THEN limit ELSE Len(g.refs[n])) |->
        IF ShouldRedact(g, g.refs[n][k]) THEN Mark("redacted", g.refs[n][k].to)
        ELSE inner[<<g.refs[n][k].to, seen \cup {n}>>]]

(* serializeError: name, message and stack as they are (one text here), then *)
(* the cause, none of them compared with a pattern; then every own property, *)
(* without a limit.                                                        *)
SerializeError(g, inner, n, seen) ==
    Together(n, "error",
             <<Out("text", n, <<>>)>> \o Entries(g, inner, n, seen, Len(g.refs[n])))

SerializeValue(g, inner, n, seen, depth) ==
    LET collection(tag) ==
            Together(n, tag, CapCollection(Entries(g, inner, n, seen, SzMaxLength),
                                           Len(g.refs[n]), SzMaxLength, n))
        object == Entries(g, inner, n, seen, SzMaxProperties)
        inside ==
            CASE g.kind[n] = "error"          -> SerializeError(g, inner, n, seen)
              [] g.kind[n] \in {"list", "map"} -> collection(g.kind[n])
              [] g.kind[n] = "object"         ->
                Out("object", n, CapCollection([k \in DOMAIN object |-> Guarded(object[k])],
                                               Len(g.refs[n]), SzMaxProperties, n))
    IN  CASE g.kind[n] = "short"   -> Out("text", n, <<>>)
          [] g.kind[n] = "long"    -> Mark("truncated", n)
          [] g.kind[n] = "thrower" -> Mark("throws", n)
          [] g.kind[n] \in ContainerKinds ->
                IF n \in seen THEN Mark("circular", n)
                ELSE IF depth >= g.maxDepth THEN Mark("too deep", n)
                ELSE inside

(* serialize of the values at a depth, room levels above the limit. *)
SerializeIt(g, n) ==
    LET at[room \in 0..g.maxDepth] ==
            [c \in Nodes \X SUBSET Nodes |->
                SerializeValue(g, IF room = 0 THEN <<>> ELSE at[room - 1], c[1], c[2],
                               g.maxDepth - room)]
    IN  at[g.maxDepth][<<n, {}>>]

(* toMessagePart: the strings and the message of an error as they are, the  *)
(* rest as JSON of what serialize gives.                                   *)
MessagePart(g) ==
    CASE g.kind[1] \in {"short", "long"} -> Out("text", 1, <<>>)
      [] g.kind[1] = "error"             -> Out("text", 1, <<>>)
      [] OTHER                           -> SerializeIt(g, 1)

Serializes ==
    /\ sz.out = Pending
    /\ sz' = [sz EXCEPT !.out = SerializeIt(sz, 1)]

SzNext == Serializes
SzSpec == SzInit /\ [][SzNext]_szVars

-----------------------------------------------------------------------------
(* Properties *)

(* The parts of the tree by level: that at the top is all of it.            *)
Levels ==
    LET level[i \in 0..sz.maxDepth + 1] ==
            IF i = 0 THEN {sz.out} ELSE UNION {Range(p.items) : p \in level[i - 1]}
    IN  level
Parts == UNION {Levels[i] : i \in 0..sz.maxDepth}

(* What can be reached by keys that no pattern matches, and from an error to *)
(* its cause.                                                              *)
Opens(ref) == ~(sz.redact /\ ref.key = "secret")
OpenReach ==
    Reach([n \in Nodes |-> IF n \in SzContainers
                           THEN {r.to : r \in {r \in Range(sz.refs[n]) : Opens(r)}} ELSE {}], {1})

(* "Values, fields, context, meta ... whose keys contain password, token    *)
(* ... are replaced": what can be reached only through such a key, by       *)
(* whatever path, is nowhere in the record.  A path may lead through the    *)
(* cause of an error, which is written whatever its key; of an error's own  *)
(* properties the keys count, of its texts they do not.                     *)
SecretsStayOut ==
    sz.redact => \A p \in Parts : p.tag \notin {"redacted", "pending"} => p.node \in OpenReach

(* "... and error properties": with a pattern that matches cause, what only *)
(* the cause of an error leads to is nowhere in the record. It does not     *)
(* hold: serializeError never compares that key with the patterns.          *)
CausesStayOut ==
    LET next == [n \in Nodes |-> IF n \in SzContainers
                                 THEN {r.to : r \in {r \in Range(sz.refs[n]) : r.key = "plain"}} ELSE {}]
    IN  sz.redact => \A p \in Parts : p.tag \notin {"redacted", "pending"} => p.node \in Reach(next, {1})

(* "Truncation is always marked, never silent": without a mark in it, the    *)
(* record holds every value there was.                                     *)
NothingSilentlyMissing ==
    sz.out.tag \notin {"throws", "pending"} /\ (\A p \in Parts : p.tag \notin Marks) =>
        OpenReach \subseteq {p.node : p \in Parts}

(* A value as deep, as long or as circular as it may be comes out as a tree  *)
(* no higher than the limit, its lists, Maps and objects no longer than     *)
(* theirs; an error has no limit, but no more parts than its text, its      *)
(* cause and its own properties.                                           *)
TreeIsBounded ==
    /\ Levels[sz.maxDepth + 1] = {}
    /\ \A p \in Parts : p.tag \in {"list", "map"} => Len(p.items) <= SzMaxLength + 1
    /\ \A p \in Parts : p.tag = "object" => Len(p.items) <= SzMaxProperties + 1
    /\ \A p \in Parts : p.tag = "error" => Len(p.items) <= Len(sz.refs[p.node]) + 1

(* "Every record is serialized under caps": of the own properties of an      *)
(* error, too, those over maxProperties give way to a mark. It does not     *)
(* hold: serializeError writes each of them.                                *)
ErrorsAreCapped ==
    \A p \in Parts :
        p.tag = "error" /\ Len(SelectSeq(sz.refs[p.node], LAMBDA r : r.key # "cause")) > SzMaxProperties =>
            \E item \in Range(p.items) : item.tag = "more"

(* "Every record is serialized under caps": the message of a record, too,   *)
(* is a short string, or a tree with its marks. It does not hold: a string  *)
(* or an Error goes into the message as it is.                              *)
MessageIsCapped ==
    MessagePart(sz).tag = "text" => sz.kind[1] = "short"

(* "guarded access ... so one throwing getter poisons only its own          *)
(* property": no value makes serialize itself throw. It does not hold: what *)
(* throws inside an error, a list or a Map throws through it.               *)
ThrowsNowhere == sz.kind[1] # "thrower" => sz.out.tag # "throws"
=============================================================================
