---------------------------- MODULE LocalJournal ----------------------------
(***************************************************************************)
(* LocalJournal (sdk/rust/src/local_journal.rs): processes of one          *)
(* application append records to segment files, each in a directory of its *)
(* own, and prune each other's old segments.  Time is counted in segments: *)
(* a segment begins at every tick.                                         *)
(*                                                                         *)
(* A write takes its time before the lock, so threads may come out of      *)
(* order; inside the lock it is one step, and the pruning that follows a   *)
(* rotation runs outside of it.  Encoding, permissions, symbolic links, the *)
(* decoder of standard output and a prune() the application calls are left *)
(* out, and a record's size is one.                                        *)
(***************************************************************************)
EXTENDS Naturals, Sequences, FiniteSets, Functions

CONSTANTS
    LjProcesses,   \* processes that open a journal
    LjRecords,     \* records to write
    LjKinds,       \* StreamKind: events, stdio
    LjRetention,   \* retention, in segments
    LjMaxSegment, LjMaxTotal,   \* records for a segment file and a process
    LjHorizon,     \* bound: the last tick
    LjMaxFaults    \* bound: writes and prunes that fail, and crashes

VARIABLES lj, ljFaults
ljVars == <<lj, ljFaults>>

None == [start |-> 0, seq |-> 0, count |-> 0, open |-> FALSE]
NoPrune == [on |-> FALSE, cutoff |-> 0, todo |-> {}]
NoHome == <<>>
Agents == LjProcesses \cup LjRecords   \* who prunes: an open, or a write

(* A file is named <<process, kind, segment_start, sequence>>; an entry is  *)
(* a record and whether its line ended.                                    *)
LjInit ==
    /\ lj = [clock |-> LjRetention, dirs |-> {}, files |-> <<>>,
             pc |-> [p \in LjProcesses |-> "new"],
             writer |-> [p \in LjProcesses |-> [k \in LjKinds |-> None]],
             total |-> [p \in LjProcesses |-> 0],
             prune |-> [a \in Agents |-> NoPrune],
             told |-> [r \in LjRecords |-> "new"],
             start |-> [r \in LjRecords |-> 0],      \* segment_start of its write
             home |-> [r \in LjRecords |-> NoHome]]  \* process and kind, then its file
    /\ ljFaults = 0

-----------------------------------------------------------------------------
(* Pruning *)

(* prune_app_dir begins. *)
StartPrune(x, a) ==
    [x EXCEPT !.prune[a] = [on |-> TRUE, cutoff |-> x.clock - LjRetention, todo |-> x.dirs]]

(* Mutation of Expired: the segment's end is taken for its start. *)
MutantExpired(start, cutoff) == start <= cutoff

Expired(start, cutoff) == start + 1 <= cutoff

(* One process directory: its old segments go, and it does when empty.      *)
PruneDir(x, a, d) ==
    LET kept == {f \in DOMAIN x.files : f[1] # d \/ ~Expired(f[3], x.prune[a].cutoff)}
    IN  [x EXCEPT !.files = [f \in kept |-> x.files[f]],
                  !.dirs = IF \E f \in kept : f[1] = d THEN @ ELSE @ \ {d},
                  !.prune[a].todo = @ \ {d}]

-----------------------------------------------------------------------------
(* Writing *)

NeedsRotation(x, p, k, start) ==
    LET w == x.writer[p][k] IN ~w.open \/ w.start # start \/ w.count + 1 > LjMaxSegment

(* Mutation of SegmentFile: a file that exists is opened again. *)
MutantSegmentFile(x, p, k, start) ==
    LET w == x.writer[p][k]
    IN  <<p, k, start, IF w.open /\ w.start = start THEN w.seq + 1 ELSE 0>>

(* open_segment_file: the first name from the next sequence that is free.   *)
SegmentFile(x, p, k, start) ==
    LET w == x.writer[p][k]
        first == IF w.open /\ w.start = start THEN w.seq + 1 ELSE 0
        taken == {f[4] : f \in {f \in DOMAIN x.files : f[1] = p /\ f[2] = k /\ f[3] = start}}
        seq == CHOOSE n \in first..(first + Cardinality(taken)) :
                   n \notin taken /\ \A m \in first..(n - 1) : m \in taken
    IN  <<p, k, start, seq>>

Rotate(x, p, k, start) ==
    LET f == SegmentFile(x, p, k, start)
    IN  [x EXCEPT !.files = [g \in DOMAIN @ \cup {f} |-> IF g = f THEN <<>> ELSE @[g]],
                  !.writer[p][k] = [start |-> start, seq |-> f[4], count |-> 0, open |-> TRUE]]

(* Bytes go to the open file, which may have been removed from under it.    *)
AppendTo(x, f, entry) ==
    IF f \in DOMAIN x.files THEN [x EXCEPT !.files[f] = Append(@, entry)] ELSE x

Tell(x, r, how) == [x EXCEPT !.told[r] = how]

(* write_encoded from the lock to its release; `torn` when write_all fails. *)
WriteEncoded(x, r, torn) ==
    LET p == x.home[r][1]
        k == x.home[r][2]
        rotate == NeedsRotation(x, p, k, x.start[r])
        y == IF rotate THEN Rotate(x, p, k, x.start[r]) ELSE x
        w == y.writer[p][k]
        f == <<p, k, w.start, w.seq>>
        z == AppendTo(y, f, [record |-> r, ended |-> ~torn])
        done == [z EXCEPT !.writer[p][k].count = @ + 1, !.total[p] = @ + 1, !.home[r] = f]
    IN  IF x.total[p] + 1 > LjMaxTotal THEN Tell(x, r, "budget")
        ELSE IF rotate /\ p \notin x.dirs THEN Tell(x, r, "no directory")
        ELSE IF torn THEN Tell(z, r, "error")
        ELSE IF rotate THEN StartPrune(Tell(done, r, "pruning"), r)
        ELSE Tell(done, r, "ok")

-----------------------------------------------------------------------------
(* Steps *)

LjNoFault == UNCHANGED ljFaults
LjFault == ljFaults' = ljFaults + 1 /\ ljFaults < LjMaxFaults

(* LocalJournal::open: it prunes, and then makes a directory of its own.    *)
Opens(p) ==
    /\ lj.pc[p] = "new" /\ LjNoFault
    /\ lj' = StartPrune([lj EXCEPT !.pc[p] = "opening"], p)

PrunesDir(a) ==
    /\ lj.prune[a].on /\ LjNoFault
    /\ \E d \in lj.prune[a].todo : lj' = PruneDir(lj, a, d)

(* What pruning was done for goes on, or fails with it. *)
AfterPrune(x, a, ok) ==
    LET y == [x EXCEPT !.prune[a] = NoPrune]
    IN  IF a \in LjRecords THEN Tell(y, a, IF ok THEN "ok" ELSE "error")
        ELSE IF ok THEN [y EXCEPT !.pc[a] = "open", !.dirs = @ \cup {a}]
        ELSE [y EXCEPT !.pc[a] = "failed"]
PruneEnds(a) ==
    /\ lj.prune[a].on /\ lj.prune[a].todo = {} /\ LjNoFault
    /\ lj' = AfterPrune(lj, a, TRUE)
PruneFails(a) == lj.prune[a].on /\ LjFault /\ lj' = AfterPrune(lj, a, FALSE)

(* A thread calls write: the time is taken, and the lock waited for.        *)
Takes(p, k, r) ==
    /\ lj.pc[p] = "open" /\ lj.told[r] = "new" /\ LjNoFault
    /\ lj' = [lj EXCEPT !.told[r] = "waiting", !.home[r] = <<p, k>>, !.start[r] = lj.clock]

Writes(r) ==
    /\ lj.told[r] = "waiting"
    /\ \/ LjNoFault /\ lj' = WriteEncoded(lj, r, FALSE)
       \/ LjFault /\ lj' = WriteEncoded(lj, r, TRUE)

Crash(p) ==
    LET dies(r) == lj.told[r] \in {"waiting", "pruning"} /\ lj.home[r][1] = p
    IN  /\ lj.pc[p] \in {"opening", "open"} /\ LjFault
        /\ lj' = [lj EXCEPT
               !.pc[p] = "crashed",
               !.prune = [a \in Agents |-> IF a = p \/ (a \in LjRecords /\ dies(a))
                                           THEN NoPrune ELSE @[a]],
               !.told = [r \in LjRecords |-> IF dies(r) THEN "crashed" ELSE @[r]]]

Tick == lj.clock < LjHorizon /\ LjNoFault /\ lj' = [lj EXCEPT !.clock = @ + 1]

LjNext ==
    \/ \E p \in LjProcesses :
         \/ Opens(p) \/ Crash(p)
         \/ \E k \in LjKinds, r \in LjRecords : Takes(p, k, r)
    \/ \E a \in Agents : PrunesDir(a) \/ PruneEnds(a) \/ PruneFails(a)
    \/ \E r \in LjRecords : Writes(r)
    \/ Tick
LjSpec == LjInit /\ [][LjNext]_ljVars

-----------------------------------------------------------------------------
(* Properties *)

Entries(f) == IF f \in DOMAIN lj.files THEN Range(lj.files[f]) ELSE {}

(* "A segment is deleted only after the entire segment falls outside the    *)
(* retention window" (docs/local-process-journal.md): what a write was told *)
(* is in the journal stays there that long, through crashes, the pruning of *)
(* other processes and threads that write out of order.                    *)
JournalKeeps ==
    \A r \in LjRecords :
        lj.told[r] = "ok" /\ lj.start[r] + 1 > lj.clock - LjRetention =>
            [record |-> r, ended |-> TRUE] \in Entries(lj.home[r])

(* A record is in one file, once; files lie in directories, and no directory*)
(* is another process's.                                                   *)
OneFileEach ==
    /\ \A f, g \in DOMAIN lj.files :
          \A i \in DOMAIN lj.files[f], j \in DOMAIN lj.files[g] :
              lj.files[f][i].record = lj.files[g][j].record => f = g /\ i = j
    /\ \A f \in DOMAIN lj.files : f[1] \in lj.dirs

(* Output "must remain available after a child crashes" (the same document):*)
(* an open journal never finds its directory gone.  It does not hold: a     *)
(* process that prunes between another's open and its first write, or after *)
(* all its segments expired, removes the empty directory for good.         *)
DirectoryStays == \A r \in LjRecords : lj.told[r] # "no directory"

(* One record a line.  It does not hold after a write that failed midway.   *)
LineOfItsOwn ==
    \A r \in LjRecords : lj.told[r] = "ok" =>
        LET q == IF lj.home[r] \in DOMAIN lj.files THEN lj.files[lj.home[r]] ELSE <<>>
        IN  \A i \in DOMAIN q : i > 1 /\ q[i].record = r => q[i - 1].ended
=============================================================================
