# A verification project for next-loggers

`@oresoftware/next-loggers` is a TypeScript logging library whose promise is
delivery: records are queued, batched, acknowledged, replayed, flushed at exit.
All of it runs on a JavaScript event loop, where a method is atomic only up to
its next `await` and anything may happen in between. This directory models the
parts of the library that keep such promises across awaits, timers, sockets,
crashes and signals, and the computations a record goes through, model-checks
them with TLC and proves the central results with TLAPS.

Paths like `src/supabase-websocket-ingest.ts` are relative to the repository
root. `PROJECT.json` lists the runs, the mutants, the findings, the hazards,
the theorems and, for every definition that models code, the lines it models.

## 1. Inventory

| Component | State it keeps | Operations | What is hard about it | What makes it correct |
| --- | --- | --- | --- | --- |
| WebSocket ingest transport (`supabase-websocket-ingest.ts`) | queue, the batch in flight, sequence, counters, socket, waiter, flush promise, timer | write, flush, flushOnExit, close; socket callbacks; drain with reconnects | one drain coroutine and several exit callers over the same fields; lost and late acknowledgements; stale sockets | nothing leaves memory uncommitted; one batch at a time; flush means delivered; the drain always settles |
| Persistent replay queue (`supabase-websocket-persistent.ts`) | entries, resident ids, browser storage, drain promise | write, flush, flushOnExit, close, restore | page crashes, storage that throws, joining a running drain | a record is in storage until committed; one hand-over per page life |
| Browser stream (`browser-stream.ts`) | bounded queue, flush flag, timer, socket, connect promise | write, flush, flushOnExit, page-hide, close | the queue moves while flush awaits; old sockets' events; teardown in a page that lives on | order on the wire, counted losses, no stuck queue |
| Node server lifecycle (`server-lifecycle.ts`) | phase, timers, shared flush promise, stdin listener | signals, requestGraceful, force, dispose | graceful and forced path race; hooks that hang | two-phase order, one flush, bounded completion |
| Shutdown coordinator (`shutdown.ts`, `node-shutdown.ts`) | phase, observer tasks, grace timer | request, drain, force, finish, dispose | drain completion races a force; observers and hooks that hang | exactly one finish, the flush last, an earned result |
| Logger fan-out (`base-logger.ts`) | unsent events, active records, in-flight writes, exit guard | emit, flush, flushOnExit, close, anew | flush works on snapshots while writes go on | every active record reaches each transport or an error |
| Record building and serialization (`base-logger.ts`) | an event's fields, the ambient context; the walk over a value | send, serialize, redact | precedence of sources, shared options; shared and cyclic values | settings stay apart; bounded, redacted, nothing silently missing |
| Error tracking (`base-logger.ts`) | remembered hashes | write | a hash is remembered before its send succeeded | a skipped error was delivered or is on its way |
| Supabase realtime (`supabase-realtime.ts`, `-batch.ts`, `base-logger.ts`) | queue, records in flight by ref, socket, join, heartbeat, timers | write, flush, flushOnExit, close; socket callbacks | stale callbacks, late replies, retries, fallbacks beside a drain | a record is in one place until decided, and something will look at it |
| Supabase HTTP ingest (`supabase-ingest/`) | queue, pending batch, timers | write, flush, flushOnExit, close | two drains over one pending batch | acknowledged means committed, refused means refused |
| Session (`supabase-session.ts`) | two transports | write, flush, flushOnExit, close | one leg fails or hangs | the durable leg decides |
| Internal diagnostics (`internal-diagnostics*.ts`) | state, suppressed count, delivery in flight; grants | report, close, upload | reentrant sinks, saturation, expiry | counts are conserved; a PUT has a valid grant of its own |
| Loki exporter (`loki.ts`) | queue, promises, push, timer | write, flush, flushOnExit, close | retry, exits that wait for a moving queue | every promise settles, streams stay in order |
| Execution context (`context-shared.ts`, `execution-context-shared.ts`, `request-boundary.ts`) | frames in the runtime's storage | run, update, capture, restore | one frame variable under interleaved tasks; merges of three places | no bleed between requests, one identity |
| OTEL, Prometheus, APM (`otel.ts`, `prometheus.ts`, `apm.ts`) | flush wave; series; samples, cleanups | write, flush, span; inc, observe; refresh, stop | joined waves, series budget, overlapping samplings | believable ids, exact gauges and histograms, nothing left registered |
| Configuration (`ores-otel-config.ts`) | none | load | layers, roles, kinds of mistakes | precedence; malformed is fatal |
| Runtime loggers (`node-logger.ts`, `bun-`, `deno-`, `browser-`) | registered loggers, handlers, drains | register, signals, beforeExit, page events | one drain for many loggers, re-armed listeners | a signal drains all, then ends the process |
| Rust local journal (`sdk/rust/src/local_journal.rs`) | segment writers, files on disk | open, write, prune | other processes prune, threads wait for the lock | kept for the retention, in one file |
| `config.ts`, error traces, ESLint plugin, CLI, contracts, other SDKs, sidecar | none, or their own runtime | parsing, formatting, ports, deployment | none of their own | - |

A logger hands each record to its transports (`write`). The persistent queue
wraps the WebSocket transport as its delegate and drives its `write`, `flush`
and `close`. The runtimes' handlers, the server lifecycle and the coordinator
call `flushOnExit` of the logger, which calls that of every transport: this is
how a flush comes to run beside a drain that is under way. Time enters through
`setTimeout` and deadlines only.

## 2. Modules

| Module | What it is | Checked in |
| --- | --- | --- |
| `AckDelivery` | abstract specification: what the durable transports promise | `ws_core` (refinement), `pq_core` (as the delegate) |
| `WsIngest` | the WebSocket transport and the collector | `ws_core`, `ws_fallback`, `ws_exit_race` |
| `WsIngestProofs` | its proofs: types and wake-ups; safety; refinement of `AckDelivery` and counters; exact replays | |
| `PersistentQueue`, `PersistentQueueProofs` | the replay queue over an `AckDelivery` delegate, and its proofs | `pq_core` |
| `Filter`, `Lists` | `array.filter`, the order of a Set, `Array.from(new Set(list))`, reachability, totals | `pq_core`, `proc_core`, `tr_core`, `rec_core` |
| `ListTheorems` | what these return, proved, and when a recursion over positions defines a function | |
| `BrowserStream`, `BrowserStreamProofs` | the browser stream over its three destinations, and its proofs | `bs_core`, `bs_unsent` |
| `ShutdownTable` | abstract specification: the transition table of `transitionShutdownState` | `sl_core`, `proc_core` (refinement) |
| `ServerLifecycle` | the Node shutdown controller | `sl_core` |
| `Shutdown` | the shutdown coordinator and its Node hooks | `proc_core` |
| `Logger` | fan-out, flush and exit of `BaseLogger` | `proc_core` |
| `ProcessLifecycle` | lifecycle handlers of Node, Bun, Deno and browsers | `proc_core` |
| `Loki` | the Loki exporter | `proc_core` |
| `ProcessProofs` | proofs about these four, alone and side by side | |
| `WebSocketApi` | which codes `WebSocket.close(code)` takes and which make it throw | `tr_core`, `rb_close` |
| `RealtimeAck`, `RealtimeBatch`, `RealtimeLegacy` | the three Realtime transports | `tr_core`, `rb_close` |
| `HttpIngest` | the HTTP ingest queue | `tr_core`, `hi_misreject` |
| `SessionMirror` | the two legs of a session | `tr_core` |
| `ErrorTracking` | error tracking over HTTP | `tr_core` |
| `LocalJournal` | the Rust local journal | `tr_core` |
| `TransportProofs` | proofs about the seven transports and journal above | |
| `Context`, `ContextSnapshot` | ambient contexts; the clone of a context's value graph | `rec_core` |
| `LogRecord`, `Serialize` | what a record says; what a value becomes | `rec_core` |
| `Metrics`, `Apm` | Prometheus metrics; process metrics and sampling | `rec_core` |
| `OtelTransport`, `OtelSpan` | export, context provider and flush; spans around callbacks | `rec_core` |
| `OtelConfig` | the layered configuration | `rec_core` |
| `Diagnostics` | reporter and signed upload | `rec_core` |
| `RecordProofs` | proofs about serialization, metrics, APM, OTEL, spans, configuration, diagnostics | |
| `ServerProofs` | proofs about what a server runs: the contexts of its requests with their snapshots, loggers and records; and its shutdown, `ServerLifecycle` | |
| `MCWsIngest`, `MCWsFallback`, `MCPersistentQueue`, `MCProcess`, `MCTransports`, `MCRecords` | instances for TLC | |

Operators named `Mutant...` are faulty variants of the definition that follows
them. No specification uses them. `PROJECT.json` names, for each property of
each run, one that TLC detects through it; the others break another conjunct of
the property of their run.

### 2.1 How the models read

An action is one synchronous stretch of code: a call, a timer, a callback, or a
coroutine from one await to the next. A coroutine's position is a variable
(`drainPc`, `exitPc`, `flushPc`, `gracefulPc`, ...) whose values name the awaits.
The microtask rule - a promise already settled resumes its coroutine before the
next timer or socket event - is the guard `Quiet` in `BrowserStream`,
`ServerLifecycle` and `Shutdown`, and the guard `~scheduled` in
`PersistentQueue`. `WsIngest` does without: a call may come before a coroutine
that is ready, which adds interleavings and removes none.

The transports of Realtime, HTTP and Loki call themselves deeply: a reply pumps
the queue, the pump sends, a failed send closes the socket and sets a timer.
There a transport is one record variable (`ra`, `rb`, `rl`, `hi`, `lk`), its
methods are operators from one such record to the next, named like the methods,
and an action applies them to the variable for one event.

Variables and fields marked *history* serve the properties. The only ones a
guard reads are `issued` and `written`, which let the callers log each record
once and bound how many they log. Those marked *external* belong to the
environment; `faults` counts what it did wrong, and `MaxFaults` bounds it.

### 2.2 Several subjects in one run

`MCProcess`, `MCTransports` and `MCRecords` put independent components into one
run: `subject` is chosen in the initial state, only that component's actions
are taken, and each conjunct of a property speaks of one subject. The behaviours
are the union of the components' behaviours; nothing interacts across subjects.
`MCPersistentQueue` does the same with three instances of one module under
different constants: failures and a crash, room for one record and a refused
one, and unawaited writes under fairness. The constants of `MCProcess` and
`MCTransports` are those of the modules they put together, so that the theorems
about them hold for every value of each. `MCRecords` has constants of its own for
each subject (`Cx`, `Cl`, `Sz`, ... by the module's prefix) with an assumption per
subject; only the alternatives for a bad word of the configuration, the boundaries
of the histograms and the order of the sinks are definitions of it.

### 2.3 WsIngest

`queue`, `inFlight`, `nextSequence`, `accepted`, `duplicates`, `accepting`,
`closed`, `socket` and `ackWaiter` are the object's fields. A batch is a
position in `batches`, everything `createBatch` ever returned, so that two
references to one batch are equal exactly when the objects are. Sockets are
numbered by `socketGeneration`. `drainWithReconnect` is `drainPc`, `drainBatch`,
`drainAck` and `attempts`; each call of `flushOnExit` or `close` is a member of
`Exits` with its own `exitPc`, `exitBatch` and `exitAck`. The collector is
external: it commits a batch it reads, answers after the commit, and answers on
the current connection only. A message never read is a lost one; a lost
acknowledgement is an answer to a connection no longer current.

Left out: counters only `snapshot()` shows (replays, failures, reconnects), the
ticket's content, and the encoding of batches. A record is oversize or not.

### 2.4 PersistentQueue

`storage` survives a crash, everything else but the database does not; `Crash`
is enabled in every state, so it falls between any two steps, and `Restart` is
the constructor of the next page. The delegate is not `WsIngest` itself but its
contract: it keeps what it took in order, commits at any time, releases after
the commit, and resolves `flush()` when it holds nothing. The first three are
`AckDelivery`, which `WsIngest` is checked to implement; the last is
`WsIngest!FlushKeepsPromise`, which is proved. A write that finds every entry at
the delegate displaces itself: the state is written all the same, which may
throw, and the record is reported. `Restart` may fail to rewrite storage, which
then keeps what it had beside the entries restored from it. Left out: sequence numbers and
the sort by them (the entries stay in order), and a second `close()` of a page. `filter` is
`Filter!Without`, a recursive function like the loop it stands for.

### 2.5 BrowserStream

The destination (socket, shared worker, inner transport) and the beacon are
options chosen in `Init`, so one run covers them all. Records are numbered in
the order they are written. The urgent and the idle delay are one timer.
`close()` called in the very tick in which a flush is about to send is taken to
come after the send.

Four history variables name states the code reaches and that the properties
exempt. Without the exemption TLC shows a violation of each:

- `cleared`: a page-hide beacon emptied the queue under a flush, which then
  drains records written later (finding `bs_unsent`);
- `orphaned`: the late `onclose` of an old socket made the transport forget a
  newer one, which stays open;
- `stranded`: `flushOnExit` cleared the timer and could not send the queue;
- `wedged`: the socket factory threw once, and its rejected promise stays in
  `connectPromise`.

### 2.6 ServerLifecycle

`phase`, `resolved`, `disposed`, `timer`, `eof` and `flush` (the shared
`flushPromise`) are the closure's variables. Hooks settle or hang; since
`capture` swallows a rejection, settling either way is one outcome. Servers
follow Node's contract: a listening server takes connections, `close()` stops
that and calls back when the last connection is gone, an already closed server
counts as closed. A call of `close` or `closeAllConnections` may fail, within
`MaxFaults`. Left out: log events, causes, the exit code, the error list, idle
keep-alive connections, and an `onLog` that calls the controller back.

The specification kept in the repository, `formal/ShutdownLifecycle.tla`, is
more abstract: there, completion requires a completed flush. In the code a
forced shutdown gives up on the flush at its deadline, as
`tests/server-lifecycle.test.mjs` ("force completion is bounded when hooks
ignore cancellation") expects. The module here follows the code: a complete
flush is claimed for the result `closed` only (`ClosedIsGraceful`).

### 2.7 Shutdown

The drain, the force and `#finish` are three coroutines (`drainPc`, `forcePc`,
`finishPc`); `observing` is the number of unsettled observer promises, of which
each event may add one. `createNodeHttpShutdown` supplies the hooks: `close()`
at every server, `closeAllConnections()` and upgraded sockets. A stopped phase
is the same as `#finished`. The table of `server-lifecycle.ts` is checked to
describe this coordinator too, its stopped phase standing for closed or forced.

### 2.8 Logger, ProcessLifecycle, Loki

In `Logger` an event and its record are one value; `activeRecords`, `writing`
and `failed` are what flush and exit take snapshots of (`awaited`, `handed`).
`ProcessLifecycle` has the handlers of four runtimes, chosen in `Init`; a
logger's drain is in flight and settles, or the process ends under it. A drain
that outlives its handlers attaches a `beforeExit` listener of its own, so there
may be two. `Loki` follows the promise of each record through one push at a
time; `LkStreams` are the sets of records that share their labels.

### 2.9 The other transports

`RealtimeAck` and `RealtimeBatch` keep every socket that may still call back,
with its state and join; a late `onclose` or reply finds whatever state the
transport has by then. Replies, timers and refusals are separate actions in any
order. The three of them close a socket they give up with the codes 1008 or 1011,
which a standard WebSocket refuses by throwing, as `WebSocketApi` says; `strict`,
chosen in `Init`, says whether the sockets are of that kind. In the acknowledging
and the batching transport the error is caught, or lost with the callback it ends:
the socket stays open, joined and with its handlers, and may answer later. In the
legacy transport the error skips the `reject` that follows `close()`, so whoever
awaits that connection hangs for good (`FinishRl`, `Idle`). The codes 1000 and
4000 throw nowhere. `RealtimeLegacy` settles a promise and continues its awaiters in one
step, which is what microtasks do when nothing else is scheduled; the order in
which writers that waited together enter the queue is left open (`InSomeOrder`).
`HttpIngest` has a drain of `flush()`, one of an exit and one of `close()`, over
one pending batch; an exit that found a flush waits for it (`Wakes`).
`SessionMirror` takes both legs as calls that settle, fail or hang.
`ErrorTracking` follows each write through the endpoint and its fallback.
`LocalJournal` counts time in segments and a record's size as one; a process
that prunes, in `write()` before it answers or when it opens the journal, visits
the directories one by one while others write.

### 2.10 The computations

`ContextSnapshot` and `Serialize` start from every graph of a few nodes and run
the walk of the code on it once; their properties compare the result with
reachability and depth defined independently. A walk is a function on the levels
still allowed, each defined from the one below (`CloneInternal`, `SerializeIt`);
`CloneValue` and `SerializeValue` are the body of the code's function, with the
level below in place of the recursive call. `serializeError` compares the keys
of an error's own properties with the patterns and counts none of them; its
name, message, stack and cause are written whatever the patterns say. `Context`
interleaves tasks over the three kinds of storage; a patch may have a tenant of
its own that is blank or undefined, which clears one of the two places a tenant
has, and `OneIdentity` speaks of frames without such a patch. `LogRecord` takes
any sequence of setters, anew and
sends. `OtelConfig` follows one key through all layers: what each layer says is chosen
in `Init`, from the words `CfWords` has for the key. `Metrics` and `Apm` count in
small numbers, with two buckets and two series; the clock and the gauge of
writes in flight fail independently of each other. `OtelTransport` keeps the ids
of spans as values named by their trace; its `flush()` runs the callbacks before
it records the operation, so a callback that calls `flush()` again starts another
wave, which `nested` remembers (`FlushNested`). `Diagnostics` is instantiated
once for the reporter and
once for the upload.

## 3. Runs

| Run | Bounds | What it shows |
| --- | --- | --- |
| `ws_core` | 4 records, batches of 2, queue of 2, 1 retry, 2 faults, a close | without a fallback: types, `NothingLost`, `OneBatchInFlight`, `CountersBalance`, `FlushKeepsPromise`, `NoLostWakeup`, `InFlightIsKept`, and refinement of `AckDelivery` |
| `ws_fallback` | 3 records (one oversize), batches of 2, 1 retry, 1 fault, one exit by `flushOnExit` or `close`, fairly | replays are exact beside a fallback; every record is settled, every drain and every exit ends |
| `pq_core` | 3 records, queue of 2, 1 fault, 1 crash; room for 1 with 2 faults and a refused record; and 1 crash without faults, fairly | the replay queue's safety, what its storage releases, and that a scheduled drain delivers |
| `bs_core` | queue 2, batch 2, 4 records, 1 fault | order, accounting, scheduling, sockets, liveness |
| `sl_core` | 2 servers, 1 failing call | order, one flush, disconnection, bounded completion, refinement of the table |
| `proc_core` | 2 servers, 1 failing call; 2 events, 2 transports, 1 call; 2 loggers, 4 runtimes; 4 Loki records, 3 failed pushes | orderly shutdown, no log unaccounted for, all loggers drained, at most two `beforeExit` listeners, refinement of the table, everything ends |
| `tr_core` | 2-3 records, 2-3 sockets, 2 faults per transport, sockets that refuse the code 1011 and that take it; 4 writes of an error and two others to tracking; 2 processes and 3 writes of a journal, up to alike processes and records (`Alike`) | a record is held in one place, held records are awaited, answers are true |
| `rec_core` | graphs of 3 nodes, 2 tasks and 2 users up to their names (`Alike`), 3 frames, an update, 2 series, 2 samplings, 4 reports; four keys of the configuration, one of each kind, with a good and a bad word each, in every layer | contexts, output, telemetry, configuration, numbers |
| `ws_exit_race` | 3 records, 1 fault, one exit | **finding**: the fallback's late commit releases a newer batch |
| `bs_unsent` | queue 2, batch 2, 4 records, no fault | **finding**: a flush removes a record it never sent |
| `rb_close` | 2 records, no fault | **finding**: a closed batching transport gets a record back |
| `hi_misreject` | 3 records, 2 faults | **finding**: a refusal drops a batch the server never saw |

Why the bounds suffice for the cases of interest: four records over a queue and
a batch of two fill the queue while a batch is in flight, displace a record, and
leave one for the batch after; two faults lose an acknowledgement and break the
replay of the same batch; one retry distinguishes a drain that gives up from one
that goes on; one crash with storage failures separates memory from storage
before and after a commit. Two servers let one be closed, or fail, while the
other still drains; nothing in `ServerLifecycle` and `Shutdown` counts signals,
so any number is covered. Two sockets are the current one and a superseded one
that still calls back; the legacy transport needs a third for a reconnect from
an orphan. Three nodes make a shared value, a cycle through another node and a
chain longer than the depth bound. Two tasks show a frame to each other when
they interleave. One label more than the series bound overflows. Three writes of
one journal come out of order across a rotation and back.

`RecordSymmetry` permutes records that no constant tells apart and is used in
`ws_core`; `Alike` does so for processes and records in `tr_core`, and for tasks
and users in `rec_core`. These runs have no liveness property. Runs disable the deadlock check
because the systems do stop: every record written, everything closed.

### Findings

- `ws_exit_race`: `commit()` clears `this.inFlight` without comparing it with
  the batch it was given. With an exit fallback two callers commit the same
  batch, and the later one drops a newer batch from memory.
- `bs_unsent`: `flush()` drains `batch.length` records from wherever the head of
  the queue is after its await.
- `rb_close`: `close()` of the batching Realtime transport looks at the queue
  only. A batch in flight is not awaited; the closing of the socket rejects it,
  and it is put back into the queue of a transport that is closed.
- `hi_misreject`: `rejectPending()` drops whatever batch is pending when a
  refusal arrives. `acknowledge()` compares the batch id; this one does not.

`PROJECT.json` quotes the lines each contradicts.

### Statements that do not hold

Some sentences of the documentation and comments are written down as properties
beside the ones that hold, each with the reason why it does not. They are in no
run: TLC refutes each on the constants of its module's run.

| Module | Statement | Why not |
| --- | --- | --- |
| `WsIngest` | `FlushDrainsEnqueuedWork` | `flush()` joins a drain that has looked at the queue for the last time |
| `PersistentQueue` | `JoinerIsServed` | an awaited `write()` joins a drain over an array captured earlier |
| `BrowserStream` | `RetriesRecover` | a factory that threw leaves a rejected `connectPromise` |
| `RealtimeAck` | `LaterRetryRepairs` | with reconnect off, nothing is armed after `close(1011)` threw; a late join of a socket given up counts as the current one |
| `RealtimeLegacy` | `WritesSettle` | `close(1011)` throws before the promise is rejected, and the writes that await it hang |
| `Logger` | `FlushObservesFailures` | a write failing while `flush()` awaits another is not seen |
| `ProcessLifecycle` | `DenoSignalDrainsAll` | each Deno logger exits the process when it alone is drained |
| `Context` | `UserInBothPlaces` | updating the user leaves `fields["user.id"]` |
| `ContextSnapshot` | `BudgetCountsNodes` | a value kept by identity counts each time |
| `LogRecord` | `RootsAreApart` | `new` keeps its caller's options object |
| `Serialize` | `MessageIsCapped`, `ThrowsNowhere`, `CausesStayOut`, `ErrorsAreCapped` | strings and errors enter a message uncut; errors, lists and Maps pass on what throws inside; a pattern that names the cause of an error has no effect; an error's own properties are all written |
| `Metrics` | `DropsHaveTheirName` | a family may take the name of the drop counter |
| `Apm` | `SamplesAreMostRecent`, `RefreshNeverRejects` | a slow sampling overwrites a later one; `onError` may throw |
| `OtelTransport` | `TupleIsOne`, `OneWaveAtATime`, `EmitFailureIsReported`, `ContextSurvives` | ids of two spans; a callback that re-enters `flush()` starts a second wave; failures are swallowed by default; the event's own context has no user |
| `OtelConfig` | `RoleMistakeIsFatal` | a malformed role in the environment is ignored when the caller names one |
| `LocalJournal` | `DirectoryStays`, `LineOfItsOwn` | an open journal's empty directory is pruned; a torn line is glued to the next |

## 4. Fairness

- Coroutines resume and armed timers fire: the event loop runs microtasks and
  timers; the code never blocks it.
- `WsIngest`: the collector answers what arrived over the connection still in
  use, the fallback's `persist` settles, and a closing socket reports `onclose`.
  A connection that stays silent
  is `AckTimeout`, a fault; `ws_fallback` allows as many
  faults as there are retries, since the code does give up after
  `maxReconnectAttempts` and a batch then waits for the next write.
- `PersistentQueue`: the delegate commits and acknowledges, and a crashed page
  is loaded again.
- `BrowserStream`: an opening socket opens or its connect timer fires; sends to
  the shared worker and the inner transport settle. The code has no deadline of
  its own for these two, so that is an assumption about them.
- `ServerLifecycle`: only timers and settled promises. Hooks, flush and
  connections may hang for ever, which is what the deadlines are for.
- `Shutdown`: the same, but the observers and the force callback are assumed to
  settle: the code gives them no deadline (hazard `shutdown.ts:305`).
- `Logger`: timeouts fire and settled calls resume; transports owe nothing, and
  `ExitIsBounded` speaks of calls with a timeout. `ProcessLifecycle`: a logger's
  drain settles within its `shutdownTimeoutMillis`. `Loki`: a push succeeds or
  fails (the code aborts it at its deadline), delays and the timer elapse.
- `tr_core` and `rec_core` state no liveness and assume no fairness. What they
  check in its place is that held records are not left unwatched
  (`HeldIsAwaited`), which is less than delivery and differs per transport. The
  acknowledging one: no flush waits for an idle transport, `close()` leaves
  nothing behind (`NobodyForgotten`), and while records are queued a timer, a
  connection, a closing socket or an acknowledgement is due (`QueuedIsUnderWay`),
  unless a socket given up joins late and is taken for the current one, or
  `close(1011)` threw in a transport that does not reconnect; what is under way
  otherwise still depends on the server. The batching one and HTTP: a timer, a
  drain or a post, until `close()` or an exit whose fallback failed. The legacy
  one, while it is set to reconnect: a timer or a socket whose end sets one, until
  `close()`; a write that awaits a connection `close(1011)` left unsettled is
  watched by nobody (`WritesSettle`).

## 5. Proofs

Everything below holds for every value of the constants that satisfies the named
assumptions of the modules: bounds are naturals, positive where the options are
validated to be, oversize records are records, servers are a finite non-empty
set, names of callers are no records. No theorem bounds the number of records,
sockets, faults, crashes, signals or processes.

### What the proofs share (`ListTheorems`, `TransportProofs` part 1)

`Filter!Without` is a recursive function. That it keeps the other elements, once
and in their order, is induction over data, and the induction theorems of the
library take a predicate as a parameter, which the provers cannot instantiate.
`SetInduction` states induction with a set in its place and is derived from the
well-foundedness of strict inclusion on finite sets. From it follow that the
recursion defines a function (`KeepsExist`) and what it returns. `RecursionExists`
states the former for any recursion over `0..n`, given the step as a function;
`UniqueIs` and `UniqueKeeps` say what `Lists!Unique` returns, `Reached` what
`Lists!Reach` is the least of. A queue is read as a set with `Once(s)` (no
element twice) and `Elements(s)`; further lemmas there and in part 1 of
`TransportProofs` say what heads, tails, concatenations, filters and orders of a
set do to the two. Conservation of records is then set algebra.

### `WsIngestProofs`

*Types and wake-ups.* `TypeOK` is not inductive: `commit()` and `sendAndWait`
read the local batch, which must exist. `TypeInv == TypeOK /\ HasBatch` together
with `NoLostWakeup` is: the waiter's generation bounds the socket that the
drain's continuation uses. One lemma per group of actions, `TypeStep` and
`WakeupStep` join them; `TypeCorrect` and `WakeupCorrect` follow. Both hold with
and without an exit fallback.

*Safety.* Under `ASSUME ~Fallback` - with a fallback `NothingLost` is
false, see `ws_exit_race` - the strengthening is

    DeliveryInv == InOrder /\ Released /\ AcksAreTrue /\ DrainHolds /\ Accounted

- `InOrder`: batch i has sequence i, and the one in flight is the last;
- `Released`: every other batch is committed;
- `AcksAreTrue`: an acknowledgement that accounts for its batch, on its way or in
  the drain's hands, comes after the commit;
- `DrainHolds`: the drain's local batch is the one in flight, no exit caller
  holds one;
- `Accounted`: what was written, or promised to a caller of `flush()`, is
  pending, committed or dropped.

The commit of a batch releases it because the acknowledgement is true
(`AcksAreTrue`) and releases the right one because the drain holds the one in
flight (`DrainHolds`); this is exactly what the fallback breaks. From it follow
`NothingLost`, `OneBatchInFlight`, `FlushKeepsPromise` and `InFlightIsKept`. The
invariant was model-checked on the constants of `ws_core` before it was proved.

*Refinement.* Also under `ASSUME ~Fallback`. `AckDelivery` knows only
which records are held, committed and released; the transport has a queue,
batches and acknowledgements. `WholeInv` adds two conjuncts to `DeliveryInv`:
`OnePlace` - a record is queued once or in one batch once, only records handed
in are, and only batched ones are committed - and `Balanced` - `accepted` plus
`duplicates` is the number of records released. Each step then is of one of five
kinds (`StepKinds`): it rests, refuses a record, takes one, releases the batch
in flight or commits one, and each kind is a step or a stutter of the contract.
From this follow `ContractIsImplemented` (`ImplementsAckDelivery`, on which
`PersistentQueue` builds), `CountersWithoutFallback` (`CountersBalance`) and
`OneBatchPerRecord`: a retry sends the same batch again and never regroups it.

*Replays.* `ReplaysAreExact` holds with a fallback too, where two coroutines may
send and commit the same batch. Its argument is one of credit: every record of
the database is on the account of one holder - counted in `accepted`, in the
counts of one acknowledgement under way, or in the counts a coroutine was handed
and has not added yet - and no holder claims more than its account has
(`Credit`). Commits grant new credit (`Grant`), answers and deliveries transfer
it (`Transfer`), and nothing creates it: `ExactReplays`.

### `PersistentQueueProofs`

The queue is in storage, in memory, in the list of the running drain and at the
delegate, and these differ at almost every await. `QInv` says what each may have
given up that another still has: only what is settled, that is, committed or
reported. `StorageIsAccounted` compares storage with memory, `AheadIsStored` the
drain's list with memory, `HeldIsStored` the delegate with memory,
`ResidentIsHeld` the resident ids with the delegate; `PromiseIsKept` follows
what the running drain owes its caller from list to delegate to settlement; and
`AcceptsUntilClosed` is why the delegate still takes it. A step moves records in
one of nine ways (`Kinds`); each is described by sets alone (`StepKinds`), and
each conjunct of `QInv` is proved from the descriptions. `QueueInvariant`,
`RecordsAreNeverLost` (`NothingLost`), `QueueStaysSound` (`QueueIsSound`),
`StartersAreServed` (`StarterIsServed`) and `StorageIsReleasedLast` (the action
property `StorageReleasesCommitted`) follow, across any number of crashes, pages
and storage failures. The run's instances have the cfg's constants as bounds, so
the invariants in `pq_core` are those of `PersistentQueue`.

### `ServerProofs`

*Contexts* (part 1). A storage keeps frames on the stacks of tasks (AsyncLocalStorage)
or in one variable that every task shares. `CxGood` says that a task's live frames
are of requests it was given a context of, that the first one of a task inside its
boundary is its own (`TaskGood`), that every frame in the heap has one user, one
tenant and each trace once (`HeapGood`, `FrameGood`), and that the shared variable
is empty whenever nobody runs and after every suspension (`CurrentGood`) - the
last is what keeps the single frame from bleeding into the next task. An action is
proved in two steps: what it does to the running task, and that `Others` keep
what they had.

*Snapshots.* The clone walks a graph that may have cycles and shared values, and
stops at its bounds. `GoodClone(g, R, G, c)` is its invariant: a value that was
seen has a copy of its own, within what is reachable (`R`), and every copy is
finished, but for those of `G`, whose contents are under way further up. `Works`
says of one level of the recursion that it turns a good clone into a good clone
with an answer for its value (`Answers`), or throws and then something in
reach is too deep or the walk counted too many; it is proved from the level below, and
`SetInduction` gives it for all of them. At the root `G` is empty, so the copies
are the graph.

*Loggers and records.* `BuGood`: the options of a logger made by anew are its own
and say what it was told (`ApartGood`), and a record lists each of its trace ids
once, the primary one among them (`ListedGood`).

`ContextsCannotBleed` (`ContextIsItsOwn`) follows.

*Shutdown* (part 2). The invariant `LifecycleInv` says which coroutine
runs in which phase (`Control`), that `flushes` is 1 exactly when a flush was
started and who may have started it (`FlushState`), that a settled close means
an empty, closed server (`ServerState`), and that only a force destroys
connections (`ForceState`). `TypeOK`, `FlushedOnce`, `FlushFollowsDrain`,
`ClosedIsGraceful` and `NoConnectionSurvivesForce` follow, and the refinement
`ImplementsTransitionTable`: each step takes one entry of the table or leaves
the phase alone. `NothingLeftArmed` needs one more conjunct, `ArmState`.

### `ProcessProofs`

*Coordinator.* The invariant `ShutdownInv` says which of the drain, force
and finish coroutines may run in each phase, and that the timer is armed exactly
in the phase `draining` (`Control`); how many observers may be pending in each
phase, and that the flush was called once and after all of them
(`ObserverState`); that a server with a connection is not closed and that a
`close()` that called back without error closed its server (`ServerState`); and
that nothing was destroyed unless a force began (`DrainState`, which is what
makes the result of a drain that stops an earned one). From it follow
`OrderlyShutdown` (`ShutdownIsOrderly`: type, timer, result and flush, for any
set of servers and any number of throwing calls) and `TableIsImplemented`
(`ImplementsTransitionTable`). `Control` needs no history of the race: whichever
of the drain and the force changes the phase first, the guard of the other
fails.

*Logger.* For any sets of events, transports and calls. `WriteState`
says that a write is under way only for a record that is active, and nothing is
known of a record never sent; `ReportState`, that the failures of a record are
reported in the step in which it leaves the active ones; `SnapshotState` with
`CallOK`, that what a call owes had been sent when it began, so no record comes
back to it, and that it awaits those of them still active. `FailuresReach`
(`FailuresAreReported`) and `ExitsAreComplete` (`ExitMissesNothing`) follow;
both are conjuncts of `LogsAreAccountedFor` in `proc_core`.

*Handlers.* `Listening` says when Node's handlers are attached, `Draining` that
whom a signal found in Node or Bun is served or still awaited, and `Listeners`
that of the `beforeExit` listeners one belongs to the handlers and one to a drain
that outlived them. `SignalsDrain` (`SignalDrainsAll`) and `QuiescenceIsHeard`
(`NextQuiescenceIsHeard`) follow for any loggers and any number of signals.

*Loki.* `LkInv`: queue and batch ascend and the batch is ahead of the queue
(`Line`); a promise is open exactly while its record is in one of them, and new
records come behind all (`Promises`); a batch is ahead of every stream until it
is stored, and in each of its streams from then on (`Streams`), which is why a
retry after a lost answer repeats entries and never reorders them; a queue nobody
pushes has its timer (`Attended`). `PromisesAreKept` follows.

*Side by side.* A behaviour of `MCProcess` is one of each of the four (`AllIsThem`,
each step is a step of one and a stutter of the others), so that the composite
invariants of `proc_core` are theorems of it: `ShutdownStaysOrderly`
(`ShutdownIsOrderly`), `EverythingIsAccountedFor` (`LogsAreAccountedFor`) and
`EveryLoggerDrains` (`EveryLoggerIsDrained`).

### `BrowserStreamProofs`

For every size of the queue and of batches, any number
of records and of failures. The flush peeks a batch, awaits, and drains as many
records as the batch has from a queue that may have moved meanwhile. `StreamInv`
is what survives this:

- `SocketInv`: a socket that connects is the one the flush awaits, and of the
  others that are live at most as many as a late `onclose` has orphaned;
- `Control`: a batch is held from the peek to the end of its send;
- `OrderInv`: where the queue still has a record at a batch's position, it is
  that one or a later one, and all that was sent comes before both;
- `LossInv`: were the batch to leave now, the records `drain` would remove
  beyond the batch, plus those it would look for in vain, are no more than were
  dropped or cleared. Each record trimmed at the head of the queue adds one to
  the counter and at most one to the first; a write into a queue shorter than
  the batch moves one from the second to the first.

From it follow `SoundStream` (`StreamIsSound`), `CountedLoss` (`LossIsCounted`)
and `OrderedWire` (`WireInOrder`). The steps are classified by what they do to
the records (`Kinds`), once, and the last three conjuncts are proved per kind.

### `TransportProofs`

The invariant `AllInv` has one part per transport, and each step of `MCTransports`
is one of the transport the run is about. The transports call themselves deeply,
so their methods are operators on the transport's record; each has a lemma that
says what it does to the parts of the invariant, often with a parameter for what
is in between: the records in nobody's hands, the callers already resumed, the
replies still to be rejected.

- *Session* (`SmInv`): a call waits for an open leg, the durable one first, so a
  call that settles does as the durable leg did.
- *Error tracking* (`EtGood`): no more hashes are remembered than the limit, each
  once, and a hash that is was delivered or a write of it is being posted; a
  write that fails at its last endpoint forgets its hash in the same step.
- *Journal* (`JournalGood`): a record is in one file (`OneFile`), an open writer
  has its file or that is old (`WritersHaveFiles`), a prune removes what was old
  when it began (`PrunesTheOld`), so what was written is in a file of its segment
  until that is old (`KeepsRecords`), whichever process prunes meanwhile.
- *HTTP* (`HttpGood`): queue and pending batch hold exactly the held records;
  a drain has a post, an exit that waits does so for a flush, and data that are
  held have a post or a timer, until a caller has been told of the failure.
- *Acknowledging Realtime* (`AckGood`): queue and in-flight map hold exactly the
  pending records, within their limits; who waits has something to wait for, and
  what is queued is under way as `QueuedIsUnderWay` says, whether `close()` throws.
  `AckHolds(x, P)` carries the set P through the restoring of what was in flight.
- *Legacy Realtime* (`LegacyGood`): writers are queued, waiting for a connection -
  one that may yet settle, or one that a `close()` that threw left unsettled for
  good - or at hand: `LegacyData(x, C)` names in C the callers a
  settled promise has resumed; while something is queued and the transport
  reconnects there is a timer or a socket whose end will look at the queue.
- *Batching Realtime* (`BatchGood`): queue, batch, and the spares of an exit and of
  `close()` are apart and hold exactly what is held (`BatchHeld`); the drain waits
  for the one reply to its batch or its token (`BatchAwaits(x, P)`, over the
  replies pending and those still to be rejected); a queue has a drain, a timer
  or an exit.

`NothingIsHeldTwice` (`HeldInOnePlace`), `NothingHeldIsForgotten` (`HeldIsAwaited`)
and `TransportsTellTheTruth` (`AnswersAreTrue`) follow. Six assumptions on the
constants are named in `MCTransports`: limits, batch sizes and attempts are
positive where the options validate it, error tracking remembers at least two
hashes (it forgets half of them at a time), sockets are numbered from one,
and the names of callers, `"close"`, `"timer"` and `"flush"`, are no records.

### `RecordProofs`

For every value of the constants of `MCRecords`. Each subject has an invariant,
a lemma per action, and three facts - it holds at first, each step keeps it, it
implies the property - which the theorems put together.

- *OTEL transport* (`TelGood`): the attributes are built one by one
  (`SetAttribute` keeps what was set), a span's ids come from one reading of it,
  and a callback belongs to the wave that called it, so a late settlement of
  one wave does not end another; waves overlap only where a callback started one.
- *Spans* (`SpanGood`): where the operation stands, what was called and what it was
  told agree; the result is the application's at every place a method may throw.
- *Configuration* (`CfGood`): what the sources said is kept by a load; the strongest
  source is a matter of four ranks (`Ranks`), and each malformed word is refused
  where it is read. The keys and their words are a constant here, any table of
  them; the four keys of `rec_core` are one.
- *Reporter* (`RepGood`): one report is out at a time, who waits has something to
  wait for, and the suppressed reports are counted exactly until the counter
  saturates (`RepKept`).
- *Uploads* (`UpGood`): a PUT has a grant that was parsed and consumed, was made
  before it expired, and no two have the same. `UploadsAreSigned` states this part
  alone.
- *Metrics* (`PromGood`): the series of a metric and its drop counter add up to what
  was seen, with one slot kept for the overflow; the gauge of writes in flight
  counts those under way and those whose end was lost, whichever of the gauge and
  the clock fails; buckets are cumulative; and
  names of two families are apart. The sums are sizes of sets of cells (`Total`),
  so that adding to one series is adding a cell.
- *APM* (`ProcGood`): the histogram is that of the latencies recorded, the samples
  are of one refresh, and stop undoes what start had done when it failed midway.
- *Serialization* (`SeGood`): what came out is `SerializeIt` of the graph. Of that,
  `PartOf` says level by level what each item is: a node of the graph reached
  without a redacted key or as the cause of an error, a mark where something is
  left out, and in lists, Maps and objects no more of them than the limits allow.
  An error has no such limit: it is written with its cause and all its properties.

`TelemetryCannotMislead` (`TelemetryIsBelieved`), `ConfigurationCannotMislead`
(`ConfigurationIsChecked`), `NumbersCannotLie` (`NumbersAreExact`) and
`OutputCannotLeak` (`OutputIsSafe`) follow. The assumptions are those named in
`MCRecords`: bounds are naturals, positive where the options are validated to be;
absent values are no ids, the kinds of names are apart, and what is counted is finite.

### Model-checked only

All liveness (`EverythingSettles`, `ScheduledEndsDelivered`, `StreamMoves`,
`ShutdownEnds`, `EverythingEnds`): the prover does not handle liveness under
fairness, nor ENABLED. Every safety invariant, action property and refinement that
a passing run checks is a theorem.

## 6. Not modelled, and why

- `config.ts` reads one JSON file; `error-trace.ts`, the ESLint plugin and the
  command line tool format, hash and compare text. They are sequential and
  stateless, and the fixtures under `tests/` and `contracts/` cover them better.
- Of `base-logger.ts`: the console transport and the wording of records. Of the
  transports: tokens and their refresh, backoff delays, statistics.
- Of `internal-diagnostics-backend.ts`: the adapters to hosted services, which
  are sinks that succeed or fail here. Of `request-boundary.ts`: the parsing of
  headers.
- `cloudflare-worker-logger.ts`, `edge-logger.ts` and `wasm-logger.ts` install
  no handlers and add only names.
- The Go, Java and WebAssembly SDKs and the rest of the Rust one port the logger
  to other runtimes; only the journal has behaviour of its own. The sidecar is
  deployment material, contracts and schemas are data.

Where the work could go on: a composition of `Logger` with one of the transports
in place of its `Transports` that settle by themselves, and of `PersistentQueue`
with `WsIngest` itself.
