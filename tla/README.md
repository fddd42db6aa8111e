# Conduit relay: TLA+ specifications

The repository holds two programs that share a purpose: *Congee* (`congee/`), a
Nostr relay written from scratch, and the *Conduit relay* (the root package), a
relay on top of `third_party/khatru` that caches the products published on other
relays. This directory specifies both: TLA+ modules translated from the Go code,
TLC configurations that check them on small instances, and TLAPS proofs for
every value of the constants.

To check a run: `tlc -config SubsHandover.cfg MCSubscriptions`. To check the
proofs of a module: `tlapm ConnectionsProofs.tla`. `PROJECT.json` lists the
runs, the source lines behind each definition, and, for each property, one or
more mutants of the model that violate it.

## 1. Inventory

Paths without a leading directory are under `congee/internal/` (upper part) or
in the root package (last three rows of the modelled part).

| Component (source) | State | Operations | What is hard | Modelled by |
|---|---|---|---|---|
| Subscriptions and REQ snapshots (`relay/subscription.go`, `readqueue.go`, `nip01.go`) | entries per connection with generation, snapshot-done flag, buffered live events; reader queue; send channels | REQ, CLOSE, page, EOSE, broadcast, query error, overflow, disconnect | a subscription replaced or closed while a worker and publishers still hold its older generation | `Subscriptions` |
| REQ query and filters (`relay/req_query.go`, `nostr/filter.go`, `storage/*` queries) | cursor and budget per filter | search, page, merge, count, match | several statements over a store that changes between them; one filter translated four times | `Filters`, `REQQuery` |
| Publishing, event stores, notifier (`relay/nip01.go`, `notifier_fanout.go`, `storage/sqlevent`, `storage/postgres`, `nip77/upstream` import) | rows, open transactions, LISTEN connection, channels | EVENT, import, SaveEvent statement by statement, NOTIFY, fan-out | two processes and an importer storing versions of one event; loss at every step | `EventStore`, `LatestStore`, `EventOrder` |
| SQLite writer (`storage/sqlitewriter/writer.go`) | task queue, contexts, database handle, running native call | RunWrite, execute, ping, reconnect, retry, Close | cancellation and timeouts while a native call cannot be interrupted | `WriterQueue` |
| Schema upgrade (`db/open.go`, `db/legacy_meta.go`, `storage/sqlevent/migrations.go`, `storage/postgres/migrations.go`, `storage/sqlitemeta`) | schema of three databases, legacy rows | start, copy of operational tables, one statement per step | death between two statements, retried start | `SchemaUpgrade` |
| Storage migration (`admin/routes_migration.go`, `storage/migrator.go`) | job, snapshot, target | preflight, open target, copy, verify | others write to the target meanwhile | `MigrateCopy` |
| Plugins (`plugin/`) | package on disk, configuration item, instances with goroutine and process, queues, log | enable, disable, install, upgrade, uninstall, settings, spawn, handshake, crash, backoff, REQ interception | stop during a spawn; file operations that fail half way | `Plugins` |
| Connections (`relay/relay.go`, `ip_conn_tracker.go`, `conn_shutdown.go`, `handler.go`) | three counters, registry, shutdown flag | upgrade, refusal, register, teardown, Shutdown | several counters taken one after the other; upgrades racing Shutdown | `Connections` |
| Negentropy sessions (`relay/neg_sessions.go`, `negqueue.go`, `nip77.go`) | session map per connection, relay-wide slot counter, load queue, idle timers | NEG-OPEN, NEG-MSG, NEG-CLOSE, load, idle timeout | a load, a handler and a timer that outlive their session | `NegSessions` |
| Idle sweep, NIP-17, NIP-42 (`relay/conn_idle.go`, `nip17.go`, `nip42.go`) | identity and idle marker of a connection | sweep, AUTH, visibility | identity that changes between check and send | partly, in `Subscriptions` |
| Relay synchronisation (`sync.go`) | watermark in memory and on disk, store, windows | backfill, live subscription, import, restart | crash between import and watermark; two goroutines importing versions of one product | `RelaySync` |
| Product projection and search (`scope2.go`) | index of products with tombstones; cursors of clients | hooks after save and delete, seed, evaluate, page | index follows the store one step later; deletions before their product; listing under change | `ProductSearch`, `ProductRelay` |
| Gift-wrap policy (`giftwrap.go`) | registry of identities, listeners | connect, AUTH, REQ, stored and live delivery, disconnect | identity changes between check and write; AUTH racing the disconnect | `GiftWraps` |
| Groups (NIP-29), rate limiters, audit queue, upstream timing, composite store, configuration, admin API and web interface, identity, metrics, plugin SDK, message parsing | see `PROJECT.json` | | | not modelled, section 7 |

How they interact. A WebSocket connection is admitted by the relay
(`Connections`), then runs a read loop, a writer goroutine behind a bounded send
channel, and is swept when idle. The read loop calls into the subscription
manager and the negentropy session map. Both hand long work to a queue with one
worker. Publishers save to the store (through the writer queue with SQLite) and
then call `Broadcast`, which takes the manager's lock and sends to the channels;
with PostgreSQL the other processes are notified and do the same. Plugins
observe messages and may answer a REQ first. All of these share only: the
manager under its mutex, a session map under its mutex, the bounded queues, the
send channels and the store. The models cut at these places: `Subscriptions`
takes "page of a query" and "event saved" as steps whose inside is in
`REQQuery` and `EventStore`; `MigrateCopy` composes the copy with
`SchemaUpgrade`; `MCL2Relay` puts products and gift wraps of the Conduit relay
under one specification. `Shutdown` cancels the connections and waits for them.

The main hazards, each at its line and with the properties aimed at it, are in
`PROJECT.json` under `hazards`; those outside the modules are in section 7.

## 2. What the modules say

Every step of a model is one region under a lock, one SQL statement, one file
operation, or one operation on a channel, an atomic or the store; whatever lies
between two of them is another step, so other goroutines run in between.

### Subscriptions

`subs` is the manager's map (an entry: generation, filter, snapshot finished,
`pendingLive`), `closed` the entries with their flag set, `queued` and `wire`
the send channel (what waits in it, and, as history, all it ever took), `jobs`
the reader queue, `pc` and `job` the read loops and the worker, `pub` the
publishers. Actions, by handler:

- REQ: `ReqAdd`, `ReqGeneration` (the lock is taken a second time), `ReqNote`
  (idle marker); then `FetchPage`/`FetchFails`, `SendEvent`/`SendStops`,
  `EnqueueJob`, and, when the queue is full, `DrainNext`; `CompleteSnapshot`
  (EOSE and the buffered events), `CompleteLost`, `CompleteStale`.
- CLOSE: `CloseSend` (the acknowledgement comes first), `CloseRemove`, `CloseNote`.
- the worker: `WorkerTake`, then the same paging steps.
- EVENT: `SaveEvent`, then `BroadcastMatch` (candidates under the read lock),
  `BroadcastConn` (visibility, outside the lock) and one of `DeliverStale`,
  `DeliverBuffered`, `DeliverOverflow`, `DeliverLive` for each.
- the connection: `RegisterSender`, `WriteFrame`, `WriteFails`, `OtherFrame`, `SweepIdle`, `Teardown`,
  `Authenticate`, `SwitchIdentity`.

An event is its rank in snapshot order, a filter a set of events with a limit.
Left out: plugins that answer a REQ themselves (`InterceptRespond`), COUNT, and
the mode with paging disabled (`fetchREQAll`, which is in `REQQuery`). Client EVENTs, which also keep a
connection from being idle, are not counted in `idle`.

### Connections

An attempt is one upgrade request, `stage` is where its goroutine is. `Reserve`,
`RateLimit`, `AcquireIP`, `TrackConn`, `Upgrade` take places; `RefuseFreeIP`,
`RefuseFreeOpen` and `End*` give them back in the order of the deferred calls.
`ShutdownFlag`, `RangeStart`, `RangeVisit`, `RangeEnd`, `HttpDone`, `WaitDone`
and `Expire` are `Server.Shutdown`; `sync.Map.Range` need not visit what is
registered while it runs. A hijacked socket is out of the HTTP server's sight.
Whether a rate limit refuses is left open.

### NegSessions

A session is the number of its NEG-OPEN. `OpenReplace`, `OpenTake`,
`OpenRefused`, `OpenEnqueue` are NEG-OPEN: the old session is closed before the
new one competes for a slot. `Load*` is the worker, `Msg*` NEG-MSG,
`TimerFires`, `IdleRemove`, `IdleError` the idle timer: it has fired before it
takes the lock and answers after it has released it. What is reconciled is
`go-nostr`'s business: a reconciliation continues, ends or fails.

### WriterQueue

A task is one `RunWrite`. `Caller` is the calling goroutine (`Enqueue`,
`Answered`, `GivesUp`, `SeesClose`), `Writer` the loop and `executeTask`
(`Take`, `CheckBase`, `CheckCtx`, `PingOK`/`PingFails`, `ReconnectCloses`,
`Reopened`/`ReopenFails`, `RunTaskOnce`, `Interrupt`, `CallDone`, `AwaitDone`),
`CallReturns` the goroutine of the native call, `AfterFunc` the one that links
the derived context to the queue's, `Closer` is `Close`. A Go `select` with
several ready cases takes any of them: each is an action of its own. The restart
of the loop by its supervisor is not modelled, the loop cannot panic outside a
task; that a task never meets a nil handle (the `db == nil` branch of
`runTaskOnce`) is part of the proved invariant.

### RelaySync

`disk` and `mem` are the watermark, `window`, `start`, `end`, `next`, `before`
the locals of `backfill`, `inbox` and `held` the events a goroutine is
importing: it looks an address up and adds later, so the two goroutines
interleave. A process ends in two ways. `Crash` loses everything but `store` and
`disk`, also between the truncation of the state file and its writing. `Stop` is
the signal that cancels the context of `cmd/demo/main.go`: the process is then
"stopping" until `Exit`, when `main` returns without waiting for the syncer. In
between the goroutines go on, `Drop` ends the channel of a window early or makes
`AddEvent` fail (the store is closed by then), which `fetchWindow` reports to
nobody, the watermark is advanced as usual, and only `BackfillCancelled`, before
the next window, reads the context. `Restart` is `loadState`. At most
`MaxFaults` times a relay fails to answer, an event is dropped or refused, or a
state file is not written. `missed` and `cut` are history variables: events that
fell to the limit of a reply or to a fault, and events a stopping process dropped
from its window (after its end: those the state file has behind it). An event is published in the second of its
`created_at`; events published late are out of the model, and so is the order in
which the relay broadcasts what it imports.

### Filters and REQQuery

A filter is a record; `Matches` is the test of live events, `ApplyFilterQuery`
the WHERE clauses both SQL stores build, `SelectRows`, `QueryEvents`,
`QueryEventSyncItems`, `CountEvents`, `SearchEvents` the statements on top of
them. What they order by is `SortedBy` of `SortedSets`, which enumerates a finite
set in a strict order by counting what comes before, without recursion.
`TagRows` is the conversion of tags to rows: a missing name or value is stored as
`""` (`Missing`). `REQQuery` runs a REQ with several filters: `SearchNext` and
`QueryNext` are one statement each, `Advanced` moves cursor, budget and
exhaustion, `PageDone` is `mergePageEvents`, `QueryFails` an error, `SaveOther`
an event stored by someone else between two statements. `ever` and `always` are
history: rows that were there at some time, and all the time.

### EventOrder, LatestStore, EventStore

`EventOrder` says what storage tells apart in an event: address, time and the
rank of its id, which gives `Newer`. `LatestStore` is the promise: storing an
event is one step that removes the older versions of its address, and OK true is
only said of an event that is stored or superseded. `EventStore` is the code: `Receive`,
`CheckStored`/`CheckNew` (HasEventID), `BeginDelete` (lock and DELETE), `Insert`,
`Commit`, `Notify`, `RunHooks`, `Relook` (the lookup after a failed save), for
clients and for the upstream importer alike; `Forward`, `FanRow`, `FanTags`,
`Relisten` are the notifier and the fan-out. `TxFails`, `CommitUnknown`,
`CheckFails`, `RelookFails`, `NotifyFails`, `ListenLost`, `FanFails`, `Crash`
are what may go wrong, `MaxFaults` times. `lost` is history: which process can no
longer learn of which event. With `engine = "sqlite"` the lock is the writer
queue and there is one process. PostgreSQL and SQLite themselves are external:
a statement at READ COMMITTED sees committed rows and its own changes.

### SchemaUpgrade and MigrateCopy

A schema is the set of its parts with a version; an upgrade is a sequence of
statements (`TursoFresh`, `V1ToV2` and so on, `PostgresSteps`, `MetaFresh`),
each with what it needs, adds, drops and which version it sets. `Start`,
`MetaExec`, `MetaOpened` (or `MetaFails`, for a sidecar of a newer release), the `CopyLegacy*` actions (one row each),
`CopyTableDone`, `SchemaExec`, `Opened` are the start of the relay; `Crash` may
come after any of them and `Start` runs it all again. `MigrateCopy` adds the
admin job: `TargetPreflight`, `MigrationStart`, `TargetExec` (opening the
target upgrades it), `BeginMigrationSnapshot`, then `CheckEvent`, `SaveNew`,
`SaveStale` or `SaveDuplicate`, `Verified` or `VerifyFails` per event, while
`Publish` adds events on both sides. An event someone else saved between the check
and the save is skipped if it has an address (`ErrStaleReplaceable`) and fails the
job if it is regular. The databases a start or a job may meet (`EventDatabases`,
`MetaDatabases`) are those of every version, and those that are refused: of a
newer release, with another search layout, or PostgreSQL tables without a version.
Errors of the server itself (no connection, an empty DSN) are not schemas and are
left out of the preflight.

### Plugins

One plugin. `LoopHead`, `Spawn`, `Handshake`, `Publish`, `WaitUntilDead`,
`LoopTeardown`, `LoopKill`, `Backoff` are the goroutine of an instance, `Reap`
and `Crash` its process. `StopFlag`, `StopState`, `StopTeardown`, `StopKill` are
`instance.stop`, with the manager's mutex held. Of the two teardowns only the one
that finds the process in the instance sends signals (`cmd != nil`); the other
goes on at once, so `stop()` may return while the loop is still ending the process.
Admin requests run one at a time:
`Enable`, `Disable`, `Persist`; `Download` to `Upsert` for an installation or
upgrade (`PutBack` after an error, whose own error is ignored), `Wipe` to `DropItem` for the removal, one file operation each;
`SettingsCheck`, `SettingsCall`, `SettingsCommit`; `LimitStore`, `LimitTrim`.
Traffic: `Observe` and `Dispatch` (the bounded listen queue), `ReqArrives`,
`ReqList`, `ReqAsk`, `ReqCall` (interception), `LogTake`, `LogAppend`. Versions,
archives, checksums, sockets and frames are left out.

### ProductSearch and ProductRelay

`ProductSearch` holds the pure part of `scope2.go` as operators: which field a
title, price or time comes from, the order of each sort mode, the blocking of
mixed currencies, limits and cursors (`Results`, `PageAfter`, `Blocked`).
`ProductRelay` adds the goroutines: `Save` and `RunHook` (the index is told one
step after the store), `FindTarget`, `DropTarget`, `RunForget` for deletions,
`Restart` with the seed, which the store answers with at most `SeedLimit` events,
and a client that pages through a listing (`Ask` decides, `Answer` evaluates
again). Prices and times are numbers: the code does not enforce that for prices,
where `ParseFloat` takes "NaN" (`scope2.go:889`) and `compareProducts` is then no
order; `SearchAssumption` states it. khatru and the bolt store are external.

### GiftWraps

`Connect`, `Authenticate`/`Record` (validation and entry in the registry are two
steps), `Disconnect`, `RemoveListeners`; `Publish` and `Cast` for live wraps,
`Request`, `Yield`, `Listen` for stored ones, `Write` for what was checked
before.

## 3. Runs

All runs say `CHECK_DEADLOCK FALSE` because these systems may stop: clients
leave, `Close` or `Shutdown` is final, the bounds of the model are reached.
"Fair" runs use the fair specification of their module.

| Run | Instance | Shows |
|---|---|---|
| `subs_handover` | 1 connection, 2 gift wraps and another event, page size 1, live buffer 1, channel 2 with other traffic, AUTH and change of identity | live events follow EOSE; the hand-over from snapshot to live stream loses none (`NoGap`); nothing after CLOSED, also when the buffer overflows; gift wraps only for an identity they were meant for |
| `subs_answered` | fair, 2 ids under a limit of 1, 2 REQs, queue, buffer and channel of 1 | a snapshot is in one pair of hands (`OneOwner`); generations in order and nothing of a snapshot after its EOSE (`SnapshotFrames`); every accepted REQ becomes live, is closed or replaced, or lost its EOSE to a full channel |
| `connections` | fair, 3 upgrades, 2 addresses, caps 2 and 1 | counters exact and caps kept (`AdmissionExact`); no connection missed by Shutdown and what a successful one means (`ShutdownSafe`); Shutdown ends |
| `neg_sessions` | fair, 2 connections, 1 slot, queue 1, 2 NEG-OPENs, 2 NEG-MSGs | the slot counter is exact; a timer or job ends only its own session; no older session answers after a newer one; slots come back |
| `writer_queue` | fair, 2 tasks, queue 1 | one native call, on a handle, none after Close (`NativeCallsSafe`); success only for committed writes and an answer channel that is never full (`AnswersHonest`); what is cancelled in the queue never runs; RunWrite and Close return (`AllReturn`) |
| `sync` | fair, 2 versions of one product, published in different windows, 2 relays, window 2 of 4 seconds, limit 1, one fault, one crash or stop | the watermark passes nothing that was not lost to a limit, to the fault or to a stop within its window; no version is undone; events reach the cache unless they are lost that way or backfill has given up, and the backfill ends (`SyncProgress`) |
| `plugins` | fair, 2 instances, 2 requests of any kind, 1 fault anywhere | manager, configuration, instances and log agree (`PluginsConsistent`: types, one runner, configuration, survivors of `stop()` only in two named cases, log limit); upgrades keep data; REQs get their verdict; processes come back and end (`ProcessesFollow`) |
| `event_store` | fair, 2 processes, an importer, 2 versions of one event, a regular event published twice, an ephemeral one, both engines, 1 failure; and, as a second part of the same run, 6 requests over 5 events with 2 saves in between, page sizes 0, 1, 2 | SaveEvent implements `LatestStore`; every process shows an event once and after it is stored; unless that notification was lost, all show it; publishers are answered; snapshots are exact; live match, count and NIP-77 read one filter alike |
| `l2_relay` | fair, 2 versions of one product, another, a deletion of both, client and importer, 1 fault or restart, 4 listings; and 1 connection, 3 wraps, 2 identities, both protection modes | index and store agree when nothing is under way; a finished listing has shown what was there throughout; listings end; wraps reach their owner only, and the registry forgets who left (`WrapsPrivate`) |
| `migration` | fair, databases of every version and both engines, 5 legacy rows, 6 kinds of target, 2 crashes, 2 jobs | no legacy row lost or doubled; what is opened is usable and preflight tells the truth (`StoreUsable`); a job that reports success has copied everything; it takes nothing back; every start ends |
| `sync_complete` | violation | finding 1 |
| `l2_deleted` | violation | finding 2 |

Two runs hold two parts that share no variable: their first state chooses which
one moves (`part`), so that nothing is interleaved that cannot interact.

Why the bounds are enough. The interesting cases need few actors. A stale
generation needs one older and one newer REQ (`MaxGen = 2`), and every
property about generations compares two. A full queue, channel or buffer needs
capacity 1 and one element more; competition for a slot or a cap needs one
place and two who want it. Paging with page size 1 and two events has a first
page in the read loop, a full and an empty one in the worker (or in the read
loop, when it drains). A second task of the writer queue is what a call that
outlives its timeout can meet. The watermark needs two windows and a split one,
a process that stops in one of them, a write that fails between them,
a version race two versions and two writers; the third writer of `event_store`
publishes the same id. A lost notification needs one fault (`MaxFaults = 1`), and
a second would only lose it twice; an interrupted upgrade needs one crash, and a
second (`MaxCrashes = 2`) interrupts the repair. A cursor needs two events of one
second on both sides of a page boundary; the requests of `event_store` have that,
and limits that run out on a page boundary, inside a page and not at all. The
invariants, action properties and the refinement are in addition proved for any
number of actors.

Named bounds that are not the code's: `MaxTime`, `MaxGen`, `MaxOpens`,
`MaxMsgs`, `NumEvents`, `MaxCrashes`, `MaxFaults`, `MaxSends`, `Offers` (what a handler
may publish), `MaxSaves`, `MaxInst`, `MaxOps`, `MaxJobs`, `Arrivals`, `MaxAuths`.
`QueueCap`, `SendCap`, `PendingCap`, `ChanCap`, `ListenCap`, `LogCap`,
`SeedLimit`, `FetchLimit` and the like are the code's own capacities, made
small. No run uses symmetry: most check liveness, and the others finish without
it.

Fairness. Go schedules every runnable goroutine, so each goroutine that can
proceed has weak fairness as one process: the read loop's handlers, the worker,
a started broadcast, an upgrade in progress, `Shutdown`, the writer, a caller
inside `RunWrite`, the syncer's goroutines, a publishing handler, the LISTEN loop
and the fan-out, an admin request, an instance's loop. Timers and deadlines
fire, a cancelled connection's read loop returns because its socket is closed, a
native SQLite call and a database statement return, source relays answer, a
killed process dies, `main` returns after a signal (its Shutdown has a deadline),
a process that has ended is started again by its supervisor. A
client that lists products goes on asking (its own interest). Nobody owes a
request, a cancellation, a failure or the passing of time.

## 4. Findings

1. `sync_complete`: `backfill` replaces `fetchWindow`'s verdict by the number of
   imports (`sync.go:187`). A cut reply with one duplicate in it counts as
   complete; the window is not split and the watermark passes what was left out.
2. `l2_deleted`: `applyDeleteEvent` (`scope2.go:362`) only marks products that
   are already indexed. A deletion that is indexed before its product leaves the
   product in the browse results until a restart, against `README.md:328`.

Met while modelling, without a run of their own (each is a reachable state of the
model, so the corresponding claim is not among the properties, or is stated
with this exception):

- a query error removes a subscription and ignores the error of `sendClosed`
  (`relay/readqueue.go:198`): with a full channel the client keeps a
  subscription that no longer exists;
- removal by a query error or an overflow does not refresh the idle marker
  (`relay/conn_idle.go:48`), so a connection without subscriptions is not swept,
  against `config_types.go:105-106`;
- a signal in the middle of a window: `FetchMany` ends early, `fetchWindow`
  returns nil (`sync.go:250-255`), `advanceState` writes the watermark behind the
  window (`sync.go:198`), and the context is read only before the next one
  (`sync.go:167`). What was not fetched is skipped for good (`cut`, exempt in
  `WatermarkSound` and `SyncProgress`; without the exception TLC violates both);
- a state file that cannot be written ends the backfill while the process stays
  up (`sync.go:198-200`): later windows are not fetched before the next start
  (`Abandoned` in `SyncProgress`);
- a plugin stopped while it is being spawned leaves a process that runs until
  the relay stops (`plugin/instance.go:478`). And `stop()` returns while the
  process is only cancelled when the loop's own `teardownProc` has taken it before
  (`plugin/instance.go:541-544`); the loop is then ending it. `OnlyRacedSurvives`
  says that there is no third way;
- `applyDeleteEvent` does not compare authors (`scope2.go:340-376`): a deletion
  by somebody else, which leaves the product in the store, hides it from browsing
  when it names its address and is not older (`Covered`, exempt in `BrowseAgrees`);
- uninstalling without `wipe_data` loses the data when a file operation fails
  half way (`plugin/manager.go:484`);
- `QueryEvents` reads rows and tags in two statements (`storage/sqlevent/store.go:286`):
  an event replaced in between is served without its tags;
- an upgrade interrupted between versions 3 and 4 (`storage/sqlevent/migrations.go:164`)
  has buckets that the copy of the operational tables cannot read: the relay does
  not start (`HalfBuckets`, exempt in `UpgradeEnds`); and a version 7 file without event
  tables, interrupted while it gets them, is taken for complete (`was.bare`);
- `seed` reads at most as many events as the store's query limit allows
  (`scope2.go:280`, `cmd/demo/main.go:28-36`): after a restart a product it did not
  see is not listed, and an older version of it that is sent again is (both exempt in
  `BrowseAgrees`);
- a tag without a value is stored with the value `""`, which a stored query
  finds and a live match does not (exempt in `AnswersAgree`);
- a crash while the state file is written leaves a file `loadState` refuses, and
  `cmd/demo/main.go:52-53` ends the process on every start (exempt in `SyncProgress`);
- the comment at `relay/nip01.go:256-257` is older than the call of
  `validateNIP17REQ` at line 145; with one worker in `NegQueue` the slots of
  `max_concurrent_loads` are never exhausted; in `streamLive`
  `candidate.After(since)` is never true; a reader of the writer's handle (`DB`) may
  get nil after a failed reconnect.

## 5. Proofs

All theorems hold for every value of the constants that satisfies the module's
named `ASSUME`: finite sets where cardinalities are taken, natural numbers for
capacities and bounds, well-formed tables of constants (an event has a time and
an id, ids are distinct), and placeholders that are no real value. One is more
than a type: `CopyAssumption` says that the target of a migration is a database
some release of the relay could have left there (`EventDatabases`), other than
the bare metadata file, which is no event database. Each module of proofs
states an inductive invariant, proves it one action at a time, and derives the
properties by `PTL`. Each invariant was model-checked before it was proved.

- `SubscriptionsProofs`, first types, order and ownership:
  - `TypeCorrect`. `TypeOK` is inductive by itself; it includes the capacity of
    channel and queue.
  - `LiveOnlyAfterEOSE`. `LiveAfterEOSE` speaks of frames already sent; the
    missing half is why a live frame may be sent now. `LiveInv` adds
    `DoneHasEOSE`: the generation of an entry whose snapshot is finished has its
    EOSE on the wire.
  - `NothingAfterClosed` and the first half of `FramesInOrder`, from
    `GenerationsCorrect`. `GenInv` adds what decides the next frame: a generation
    in the map is open and at one place (`GensAgree`), and the generation of a
    frame on the wire is closed or the entry's, never newer (`FramesAgree`). Every
    action is first reduced to one of a few shapes ("sends these frames for this
    entry", "adds an entry", "closes these") by `StepSends`.
  - `SnapshotHasOneOwner` and the second half of `FramesInOrder`, from
    `OwnershipCorrect`. `OneOwner` looks only at who works now. `OwnInv` follows
    a generation from `Add` through read loop, queue and worker: its holders are
    distinct (`HandsApart`), one that was just added has no holder yet
    (`NewIsFresh`), and one that is held has had no EOSE (`HeldNotEnded`).
- `SubscriptionsProofs`, then what is delivered:
  - `WrapsOnlyToRecipient`, from `ClearanceCorrect`. Between the visibility check
    and the send the key may change, so `PrivInv` speaks of every place an event
    waits in (page, match of a broadcast, live buffer): it was cleared when it got
    there (`SourcesCleared`), and clearance is never taken back, since a change of
    identity withholds only what is saved later.
  - `NothingMissed`, from `HandoverCorrect`. `NoGap` speaks of live subscriptions;
    what it says is decided earlier. `HandoverInv` says of whoever holds a running
    snapshot that the page in hand and the pages after its cursor cover every
    stored event that has not been sent, buffered or handed to a broadcast
    (`JobsCover`), until nothing is left and the entry is complete
    (`LiveComplete`). It rests on `OwnInv`: only one holder advances the cursor.
- `ConnectionsProofs`: `AdmissionIsExact`, `ShutdownIsSafe`, from
  `CountersAreExact`, `CapsAreKept`, `ShutdownMissesNone`, `ShutdownIsClean`.
  `ConnInv` adds `CountersCapped` (the counters themselves obey the caps),
  `StagesAgree` (what is registered, hijacked and saved at each stage) and
  `PhasesAgree` (what each phase of Shutdown has established: while it ranges,
  every registered connection is cancelled, to be visited, or about to stop
  itself; once the HTTP server is down, every attempt that is not over is
  hijacked, and so counted in `connWG`). Cardinalities change by one per step, by
  the theorems on finite sets.
- `NegSessionsProofs`: `SlotsAreExact`, `StaleOnesSpareNewer` (an action
  property), `NewestAnswersLast`. `NegInv` adds `KeysAgree` (a session in a map is
  there under its own key), `TakeAgrees` (a read loop about to take a slot has
  emptied its id) and `SessAgrees` (NEG-OPEN works on a session number already
  given out). For the order of answers `OrderInv` adds that whoever may still
  answer works for the newest session of its id (`HeldNewest`, `HandNewest`).
- `StorageProofs`, about the SQLite writer: `NativeCallsAreSafe` (from `OneWriter`, `HandleIsHeld`,
  `ClosedForGood`), `AnswersAreHonest` (from `SuccessIsCommitted`, `AnswersFit`)
  and `QueuedAndDoomed`. `WriterInv` adds `PlacesAgree` (a task is at one place:
  with its caller, in the queue or with the writer, and unanswered before it is
  executed), `StagesAgree` (what the writer's stage says of the handle and the
  task), `CallsAgree` (a native call runs only while its stage waits for it),
  `ReportsAgree` (success travels only from a committed call) and
  `ClosingAgrees`. `DoomedNeverRuns` is about the future of a task; `Barred(t)`
  says why it has none: wherever the task is, the context the writer looks at
  next is done. It is stable, and a queued task that is doomed is barred.
- `EventStoreProofs`: `StoreRefines`, that every step of the transactions is a
  step of `LatestStore` or a stutter, for any number of processes, handlers and
  events, with every fault. Only `Commit` and `CommitUnknown` map to `Put`, and
  the answers to `Ack`. That needs `TxInv`: one open transaction per lock
  (`LockHeld`), so what it deleted is still what it has to delete (`GoneExact`)
  and its event is still neither stored nor superseded when it commits
  (`StillNew`, `InsertedOnce`); and a handler past its commit has an event that is
  kept (`SavedKept`). Without the lock `GoneExact` fails, which is what the mutant
  `LockFreeAlways` shows. `StoreTypeCorrect` gives the types.
  `EachProcessShowsOnce` adds `ShowInv`: on its way to the subscriptions of a
  process an event is with the handler that saved it, on the LISTEN connection,
  in the channel or with the fan-out, never in two of these places, and in none
  once it was shown. That only one handler ever saves it comes from `TxInv`.
- `StorageProofs`, about start-up and the migration job together:
  - `LegacyRowsKept`. The tables are dropped by statements that do not look at
    the copy. `LegacyInv` says why they may: start-up reaches the schema steps
    only when each row still there has its copy (`SchemaCovered`), and versions
    that are not asked for their rows have none to lose (`VersionCovered`).
  - `CopyIsComplete`, `TargetNeverOlder` (an action property). `CopyInv`: what the
    job has passed in its snapshot is kept in the target, and a save of any writer
    keeps what is kept, because versions are ordered.
  - `OpenStoresUsable`. `UseInv` says of a schema that it is what its version
    promises as far as later steps rely on it (`Fit`), or that it has no version
    and no step is tried (`Unversioned`), and which remainders of a
    step may be left to run (`Goes`); an interrupted step leaves a schema from
    which the same step starts again. The primary is exempt while it is the bare
    metadata file, the exception `StoreUsable` names.
- `QueryProofs`, first the query of a REQ:
  - Sorting: `EnumeratedLists` says that `SortedBy` of a strict total order lists
    every element once and in order. Each order of the code is shown to be one
    (`NewestFirst`, `BestFirst`, `BeforeOrders`, `SeedLists`): for
    `compareProducts` this is where prices must be numbers.
  - `SnapshotIsExact`. The invariant needs a witness that the code does not keep:
    which filter took which event (`TookInv`). For each filter (`FilterInv`), what
    it took fits it, was stored at some time and respects its limit; while it is
    open, the budget left and what it took add up to the limit, and everything it
    took comes before its cursor (`Resumes`); and a row that was there all the time
    and was not taken is still ahead of the cursor, or lost its place to as many
    better ones as the limit allows (`Ahead`, `CutOff`). A page advances that by
    `PageTakes`, whatever was stored or replaced since the page before.
  - `FiltersAgree`. No invariant beyond types is needed: that the four translations
    of a filter select the same rows is `SelectsMatches`, which rests on
    `TagRowsMatch`: joining with the tag rows finds what the scan of the tags finds,
    unless a filter asks for the empty value.
- `QueryProofs`, then products:
  - `BrowsingAgrees`. Between the save and the hook the index lags, in any order of
    any number of handlers. `BrowseInv` says that a difference is always about to be
    settled: the store has one version of an address (`OneVersion`); what is stored
    is at a hook, was cut by the seed, or is known to the index in this or a newer
    version (`StoredKnown`); what the index knows was kept or removed (`KnownKept`);
    what is shown is stored, or is about to leave because a newer version or its own
    removal is at a hook (`ShownStored`, `Leaving`); and what is at a hook may be
    shown, or will change nothing (`HooksSafe`). A tombstone has its deletion in the
    store (`TombNamed`), since a deletion is stored before it is carried out
    (`DeletionStored`). The seed is `SeedEffect`, an induction along the replayed
    list.
  - `ListingsComplete`. `PagesInv`: what was among the results all the time is still
    among them, and was sent or comes after the cursor in the order of the plan; a
    page takes the next part of it (`PageCovers`), and a cursor that is no longer
    found begins again without taking anything back.
- `PluginsProofs`: `PluginsAreConsistent` and `DataSurvivesInstall` (an action
  property). The difficulty is `OnlyRacedSurvives`: a process outlives `stop()`
  only if `stop()` met its instance between spawn and publication, or while the
  loop that had taken the process is still sending it signals. `PlugInv` says
  what the place of each goroutine tells of its process (`ProcAgrees`) and that an
  instance which `stop()` has disarmed starts nothing any more and, where `stop()`
  has nothing to signal, has no process but the one its loop is ending
  (`DisarmedEnds`, `StopAgrees`).
  Configuration and map agree also while a request is under way, except while
  `stop()` runs (`ItemAgrees`), because a request at each of its steps has emptied
  the map or left it alone (`AdminAgrees`, `StopAgrees`, `MapAgrees`). For the
  data: it is put aside only between two steps of one request, and has then left
  its place (`AsideAgrees`), so nothing overwrites it there.
- `ConduitProofs`, about the root package:
  - `WatermarkPassesNothing` and `CacheNeverOlder` (an action property) of
    `RelaySync`. `SyncInv` ties the watermark, in memory and on disk, to the
    window under way: what lies before the window is settled (in the cache, or
    lost to a named limit or fault, or cut by a stop), what the window has fetched
    is settled or in the goroutine's hands, and the file is written only when its
    hands are empty (`BehindSettled`, `WindowAgrees`). When a process ends, what it
    cut is settled only as far as the file has it behind it, so a stop before the
    file is written loses nothing.
  - `WrapsStayPrivate` of `GiftWraps`. `WrapInv` says that what passed the check
    is for a key its connection has proven (`CheckedForOwner`), which no later
    AUTH takes back, and that the registry names only proven keys.

All proofs are about the specification without fairness (`Spec`, `WriterSpec`,
`WrapSpec`, `QuerySpec`, `ProductSpec`). The runs check a fair one, which implies
it; `MCSpec` of `MCEventStore` and `Spec` of `MCL2Relay` move each of their two
parts only by its own next-state relation.

What the proofs changed. `BrowseAgrees` was first stated without `Superseded(p,
cut)`: after a restart whose seed was cut, an older version that is sent again is
shown although the store keeps the newer one that the seed did not see. The step
of `RunHook` could not be proved without this exception, and TLC then found the
behaviour on an instance with three times instead of two. `SnapshotExact` used to
bound the number of events by the sum of the limits; it now says that each event
can be charged to a filter it fits, none beyond its limit, which is stronger.
`Before` and `Results` had a CASE with overlapping guards, whose value TLA+ leaves
open; they are written without it.

Every invariant and action property of the runs is a theorem now. Only
model-checked: liveness (`SnapshotEnds`, `ShutdownEnds`, `SlotReleased`,
`AllReturn`, `SyncProgress`, `ReachesEveryone`, `Answered`, `ReqAnswered`,
`ProcessesFollow`, `ListingEnds`, `UpgradeEnds`), which is out of the prover's
reach. Induction along a list is written as a least counterexample in the natural
numbers (`LeastNumber`), since the library's induction schemes take an operator.

## 6. Plan

Done: the modules and proofs above. Left, in this order:

1. An abstract specification of a subscription (stored events, EOSE, live
   events, closed at most once), implemented by `Subscriptions`; `GenInv`,
   `OwnInv` and `LiveInv` hold what its steps need.
2. `RateLimiter` (`relay/limiter.go`): sliding windows, with a proof that no
   window exceeds its limit.
3. Groups (NIP-29) over the latest group events of `EventStore`; the rounds of
   the upstream pull; the audit queue (`audit/async.go`).

## 7. Not modelled

Groups (`relay/nip29.go`) read membership from stored events on every use and
keep no state of their own; rate limiters, whose verdict `Connections` leaves
open; the audit queue, a bounded channel that drops; timing and the websocket
client of the upstream pull (its import is in `EventStore`); the composite store
(delegation); the metadata store's single inserts and selects. Out of scope for
a model: SQL execution, gRPC plumbing and generated code, the web interface,
configuration parsing, admin handlers over the components above, metrics,
message parsing, cryptography and the relay's key file.

Hazards seen in the code that no module covers: the idle timer of NIP-77 sends
NEG-ERR outside the map lock, so it can follow the first answer of a newer
session under the same id (`relay/nip77.go:349`); a REQ refused by the limit for
an id in use answers CLOSED although the older subscription stays open
(`relay/nip01.go:210`); the boundary of a sliding window (`relay/limiter.go:29`);
the older of two versions imported at once is broadcast last (`sync.go:302`);
ephemeral events are shown by one process only (`relay/nip01.go:91`); the
upstream pull goes on reading a connection on which a read failed
(`nip77/upstream/scheduler.go:364`); prices that parse as NaN (`scope2.go:889`);
the gap between stored query and listener in the vendored khatru
(`third_party/khatru/handlers.go:348`); and an old database opened as the target
of a copy, whose operational tables are dropped without having been copied
(`admin/routes_migration.go:288`).
