# A TLA+ model of eventsourcing

The repository is a Go library for event sourcing: commands go through a bus to
handlers, a handler folds a stream and appends what it decides to an event
store, and projections and automations follow the global log. This directory
holds TLA+ modules of the parts in which processes meet, TLC configurations
that check them on small instances, and TLAPS proofs of the safety properties for
instances of any size.

    tlc -config MCCommandHandler.cfg MCCommandHandler
    tlapm CommandHandlerProofs.tla

`PROJECT.json` lists the runs, the source lines every definition stands for, the
mutants that break each property, the hazards and the theorems.

## Inventory

| Component | State | Operations | Correct when |
|---|---|---|---|
| Stream states (`revision.go`) | none | the four expectations, the switch in `Save` | - |
| Event stores (`memory/`, `sqlite/`, `postgres/`, `kurrentdb/eventstore.go`) | the log; ids, advisory locks, connections, appends on the wire | Save, LoadStream(From), LoadCorrelation, ReadAll, Head | a save rests on its expectation; a reader that resumes skips nothing; a load that ends well is whole |
| Iterator (`iter.go`) | what is left, the error it ended with | Next, Close, Err, Wrap | a broken read never looks like a short stream |
| Command handler (`command_handler.go`) | per call: state, loadState, lastVersion, retries | load, evolve, decide, save, back off | nothing decided on a stale stream is saved; no event is folded twice; calls return |
| Command bus (`command_bus.go`) | queues, workers, `stopCh`, `drainCh`, two wait groups | Register, Dispatch, worker, Stop | what Dispatch returns is true; Dispatch and Stop return |
| Projection store (`memory/`, `sqlite/`, `postgres/projection_store.go`) | a row per segment (checkpoint, claim), rebuild and replay requests, dead letters, instances | Declare, Claim, Commit, Reset, Release, SaveStatus, Heartbeat, ... | only the holder of the claim moves a checkpoint |
| Projection runner (`projection/runner.go`, `segment.go`, `status.go`) | per segment: lease, checkpoint, status; `resetting` | claim, batch, one by one, publish, rebuild, stop | each event is applied (exactly once over SQL); rebuilds are served; the projection catches up |
| Dead letters and replays (`projection/replay.go`, `segment.go`) | parked streams, queues of requests, a poller | skip, park, ReplayStream, poll, serve | an event is applied or kept; a stream keeps its order; ReplayStream is answered, truly |
| Membership (`projection/instances.go`) | heartbeats, quotas, reservations | join, beat, reserve, shed, leave | segments spread evenly and settle; none is left over |
| Probe (`projection/probe.go`) | waits that share a poller | WaitUntil, poll | a wait is not told what a rebuild undid; it ends |
| Automation (`automation/automation.go`, `claim_scheduler.go`) | segments held, batches in flight, a nudge | Run, RunOnce, Next, Done, Drained, Close | a chain runs one at a time; a deferral holds its segment; every item is worked |
| Automation stores (`memory/`, `sqlite/`, `postgres/automation_store.go`) | a row per segment: owner, epoch, lease, pause, turn | Acquire, Renew, Release, Defer, SetPaused | one holder at a time; the SQL stores do what the in-memory one does |
| Dashboard (`dashboard/`) | a hub with pages; none for the events view | subscribe, publish; backward pages | pages never go back in time; the pages of a walk join up |
| Query bus, registry and encoding, telemetry and logging, SQLite import, test kits | | | |

How they interact: Dispatch hands a command to the worker of its shard through a
channel and waits on another; the worker calls the handler; the handler calls
`LoadStreamFrom` and `Save` of an event store, with nothing held in between.
Runners of one projection, usually in several processes, share only the log
and the projection store. They call the store with a lease (owner and epoch),
and the store calls the handler or the wipe back inside `Commit` and `Reset`.
`WaitUntil` and `Rebuild` are answered from the memory of a runner while its own
loops write to it. A `Probe` and the dashboard's hub read its statuses from the
store, on a goroutine that all their waits or pages share and the last one to
leave stops. An automation claims items of a todo list that a projection keeps;
its instances share that list and an automation store that leases segments.

What is hard here: a decision made on a read that may be stale when it is saved;
selects with several ready cases; ids that are assigned in one order and become
visible in another; a claim that is lost between two checks of one store call; a
process that hangs and comes back beside its replacement under the same name; a
commit whose answer is lost; a reset that wipes what every other instance is
working on; rollouts with two versions at once; a request that is queued, polled
for and dropped by three goroutines; segments that change hands while a batch of
theirs still runs; quotas computed from heartbeats of different moments. The hazards in `PROJECT.json`
give each of these its line and the properties that watch it.

## Modules

| Module | Models | |
|---|---|---|
| `StreamState` | `revision.go` | pure operators |
| `EventStore` | `memory/eventstore.go` | extended by `CommandHandler` |
| `AtomicCommands` | the promise of `docs/explanation/concurrency.md` | abstract specification |
| `CommandHandler` | concurrent calls of `NewCommandHandler` | composes `EventStore`, implements `AtomicCommands` |
| `CommandHandlerProofs` | | TLAPS proofs |
| `CommandBus` | `command_bus.go` | |
| `CommandBusProofs` | | TLAPS proofs |
| `EventLog` | what the four event stores have in common, `iter.go` | state, contract and properties |
| `MemoryEventStore`, `SQLiteEventStore`, `PostgresEventStore`, `KurrentEventStore` | the four `eventstore.go` | each extends `EventLog` |
| `EventBrowser` | `dashboard/events.go` | extends `EventLog` and INSTANCEs the stores it reads |
| `EventStores` | | composes them: a behaviour is about one store |
| `EventStoresProofs` | | TLAPS proofs |
| `ProjectionStore` | the claims, checkpoints and rebuild requests of `projection_store.go` | extended by `ProjectionRunner` and `DeadLetters` |
| `ProjectionRunner` | `projection/runner.go`, `segment.go`, `status.go` | composes `ProjectionStore` |
| `ProjectionRunnerProofs` | | TLAPS proofs |
| `DeadLetters` | `projection/replay.go`, skipping in `segment.go` | composes `ProjectionStore` |
| `DeadLettersProofs` | | TLAPS proofs |
| `Membership` | `projection/instances.go` | |
| `ProjectionStatuses`, `Probe`, `Hub`, `StatusReaders` | `projection/probe.go`, `dashboard/hub.go` | two readers of one store |
| `StatusReadersProofs` | | TLAPS proofs |
| `AutomationStore` | `memory/automation_store.go` | the contract of `automation.Store` |
| `Automation` | `automation/automation.go`, `claim_scheduler.go` | composes `AutomationStore` |
| `AutomationProofs` | | TLAPS proofs |
| `SQLAutomationStore` | `postgres/` and `sqlite/automation_store.go` | implements `AutomationStore` |
| `SQLAutomationStoreProofs` | | TLAPS proofs |
| `MC...` | | the values of the constants for TLC; `MCProjections` INSTANCEs `ProjectionRunner` for three deployments beside the one of its constants |

Several modules take a set `Setups`: Init picks one deployment, with the faults it
may meet, and it never changes. One run then covers deployments whose
product would be too large.

**EventStore, CommandHandler.** `Save`, `LoadStreamFrom` and `Close` are atomic:
they hold the store's lock. A call is `load -> decide -> save`, with `backoff` back to
`load`. `state` is the sequence of records folded, the free fold: whatever
`evolve` computes is a function of it. `decide` may return an error, nothing, or
up to `MaxBatch` events. `loadState`, `lastVersion` and `state` survive a retry,
as the variables outside the Go loop do. `BackOff` is `WithMaxRetries`; a ctx may
end at any point and is noticed where the code looks at it. `OtherSave` is code
that calls `Save` without a handler. A caller that pins `Revision(n)` has read
version n, as the docs tell it to; `PinAhead` drops that condition.

**AtomicCommands** lets a call append only while what it read is the whole
stream. `CommandHandler` refines it with `log <- events`, `seen <- state` and `done`
from `pc` and `outcome`; the history of a call that ended without an append for
another reason than its own decision is forgotten, because a fold that was cut
off in the middle is no read of the whole stream.

**CommandBus.** A `select` is one action per ready case, so Go's random choice is
TLC's. The two wait groups are the sets of Dispatches counted in them. The
capacity of the queues is chosen when the bus is made; at 0 a send is a hand-over. `Stop` is three steps: close `stopCh`, close
`drainCh` when nobody is enqueueing, return when nobody is waiting.

**EventLog, EventStores.** `table` is what is committed, with the saver of each row
as a history. A Save of PostgreSQL is its statements: a connection, the
stream's advisory lock, the version and the check, the append lock, one INSERT
per event, COMMIT; the `id` sequence does not roll back. One of SQLite is a
connection, the one writer's transaction, the check, the INSERTs and COMMIT.
`Fail` ends a Save at any statement, and a failed COMMIT may have committed. One of
KurrentDB sends attempts: the server may handle an attempt after Save gave up on
it, answer or not, and writes a batch once (its event ids are the same), which
is how the code relies on it. A reader pins the head where the code does, reads
a page and continues from `Next`. A load is an iterator: the memory and SQLite ones
read everything first, the PostgreSQL one holds its connection until it is
closed, the KurrentDB one asks the server at each Next. Any Next may fail; the
telemetry decorator's `Wrap` is around a load or not. `hashtext` may map two
streams to one lock.

**ProjectionStore, ProjectionRunner.** A row is a checkpoint (position, Version) and
a claim (owner, epoch, and `fresh`: is the heartbeat within its ttl). `Commit` and
`Reset` are two critical sections with the projection's code between them:
`CommitBegins`, `HandlerRuns` or `HandlerFails`, `CommitEnds` or `CommitFails`; and
`ResetBegins`, `Wipe` or `WipeFails`, `ResetEnds` or `ResetFails`. With `Transactional`
the writes land at the end or not at all and other statements wait for the
row; without, they land as they are made. `lease`, `cp` and `mem` are the runner's
own copies of what the store knows: most of the properties are about these
copies and the row disagreeing. `model` says how often an event is in the read
model and which Version put it there; more than once counts as twice.
`Exit`, `Crash`, `Shed` and `Expire` are the ways a segment moves.

**DeadLetters.** The handler fails on the events in `bad` until they are fixed. A
segment's goroutine is `claim -> load -> top -> read -> one`, and from the top of its
loop `take -> replay -> finish -> drop` for the requests queued for it. The poller
clears its flag, reads the pending requests and queues them, in three steps.
FinishReplay is one step in SQLite and two, under its row locks, in PostgreSQL.
Any number of ReplayStream calls wait at once, each for a request with a number of
its own: `caller` says who waits for it, `owed` remembers the letters the call was
about. A call may give up and leave its request behind (`GivesUp`), or die with
its instance. A Commit that fails (`CommitFails`) has written or has not; in a batch
the goroutine then claims again, in a replay the request is recorded as failed.
RequestReplay is one step. In PostgreSQL a request's number is drawn after the
snapshot in which its statement looks for letters, so the requests of two calls that
overlap there may be numbered against the order of their snapshots; the model
numbers them in the order they read.

**Membership.** A row is owner, fresh, Version, and whether the owner was told of
the claim. A heartbeat and its answer are two steps; between them instances
come, go, claim and shed. A loop reserves, claims, holds, sheds. `overlap` marks
the setup in which a heartbeat may be taken while a claim is under way, when its
reservation counts as held.

**Automation, AutomationStore.** Time is kept relative: leases and pauses count down
with `Tick`, which waits for whatever is due. A call of Next is two steps, before
and after the store's Acquire; the batches, the clock and the other instances
move in between. Items have two clocks: the scheduler takes their `deadline` before it
calls the list (`claimHeld`), and the list leases them when it is called, so `lease`
may end later than `deadline` by as much as the call took (`d` in `Claiming`). A batch's
goroutine starts the heads of its ordering keys up to Concurrency, parks the key of a failed item, and stops at a deferral or its
deadline. `leftover` remembers the items a deferred batch never started, until their
leases end. Renew, the Release of a rotation, the query for segments, Acquire and the
claim fail without effect or with one the scheduler did not learn of (`NextFails`), as
does the Release of an idle segment (`IdleReleaseFails`); Drained, Close and Done go on when
their Release or Defer fails, since the runner only logs it (`GiveBack`, `WorkDefers`).
`AutomationStore` keeps the segments in the order of their turns (`line`).

**SQLAutomationStore.** Each call locks or updates its rows one at a time, waits for
rows another call has, reads `now()` at its start in PostgreSQL and after it has
the database in SQLite, and may lose its answer. Deadlocked calls are aborted.
`StoreContract` maps it to `AutomationStore` by the identity on rows and line: what a
call does to them happens at its commit.

**Probe, Hub.** `history` is what the store held, oldest first, so that a read is a
moment, and "not older than" is `<=`. Goroutines stopped in the middle of a read go
on beside the one started after them.

## Runs

Deadlock is not checked in any run: every call has an end, a bus may be stopped,
and the logs are bounded, so each system may come to rest. That nobody rests
who should not is what the liveness properties say.

| Run | Instance | Shows |
|---|---|---|
| `handler` | 2 calls in every stream state, a direct writer, Close; 2 streams, 1 retry, batches of 2 | `FoldIsPrefix`, `DecidedOnWholeStream`, `RetryFindsNewEvents`, `PinnedLandsOnPin`, `ImplementsAtomic`, `CallsReturn` |
| `bus` | 2 dispatches to one shard with buffer 0 or 1, 2 Stops | `ResultIsTrue`, `GivenUpIsNotHandled`, `CallsComplete` |
| `event_stores` | each of 4 stores: 2 Saves on 3 streams, two of which share a lock, with a filtered reader with Limit 1, or a load and a pool of 1, or a backward walk | `NothingSkipped`, `SavedOnExpectation`, `LoadIsWhole`, `BackwardsComplete`, `SavesEnd`, `EventuallyRead` |
| `projection` | a restart under one Owner over SQL; a rebuild of 2 segments over memory; a rollout of 2 Versions | `AppliedExactlyOnce`, `NoWipedPosition`, `RolloutKeepsVersions` |
| `projection_takeover` | 2 instances, 1 segment, memory store | `NothingMissing`, `RebuildIsServed`, `CatchesUp` |
| `letters` | 3 events of 2 streams: 2 instances that compete, 2 requests for one stream beside each other, a stream in 2 segments, a rebuild under SkipWhenLive, a FinishReplay that fails; a Commit or ctx that fails | `AppliedOrLettered`, `StreamInOrder`, `SucceededIsDeleted`, `ReplayIsTrue`, `ReplayAnswered` |
| `membership` | 2 instances of one or two Versions, 1 to 3 segments, a fault | `SegmentsSettle`, `NoSegmentIsLeft` |
| `automation` | segments in rotation, a queue longer than a batch, 2 instances, no segments, RunOnce over shards; each with a fault | `SegmentOutlivesBatch`, `ChainRunsAlone`, `DeferralHoldsSegment`, `OnceLeavesNothing`, `EveryItemIsDone`, `PauseFreesSegments` |
| `automation_store` | 2 instances, 2 segments, 3 calls, both SQL stores | `OneHolder`, `AcquiresDoNotDeadlock`, `StoreContract` |
| `status_readers` | 2 waits or 2 pages, 2 generations of their goroutine, 2 changes of the store | `NothingStale`, `ReadersAreServed` |
| `automation_starved` | 2 shards, the first empty, MaxSegments 1 | violates `EveryItemIsDone` (finding 1) |
| `replay_unrecorded` | a FinishReplay that fails | violates `UnrecordedIsServedAgain` (finding 2) |

Passing runs take between half a minute and four minutes each.

**Bounds.** `MaxLog` stops the direct writer, not the handlers. A call has two
rivals and one retry, so it can win, lose once and retry, and lose again with its
budget used up; longer chains of retries are what the proofs are for. Two
dispatches are enough to fill the buffer of one with the second one parked, and
to queue one behind a running handler; shards share nothing but `stopCh`,
`drainCh` and the wait groups, so one shard has every race. Two Saves meet on
one stream, on two streams with one lock, and on two with only the append lock
in common; batches of two with Limit 1 end a page inside a batch, the filter
hides the other Save's rows, one connection is what an open iterator uses up, and
a scan budget of 2 is less than the log of a walk. For projections `MaxFaults` counts failures, sheds,
stops, crashes and pauses together: two or three of them are a failure during
recovery from another one. `MaxEpoch` 9 is above what the other bounds reach; 4,
in the runs with two Versions, bounds how often instances trade a segment.
`MaxHead` 2 with batches of 2 has whole, partial and single batches. In
the rollout runners do not pause and nobody asks for a rebuild: the case in
which they do is `ProjectionReclaim.cfg`. Three events of two streams have a
later event behind a parked one and an unparked one beside it. Two requests for
one stream wait, are queued, served and given up beside each other, so that the later
one sweeps the earlier while its call still waits (the two calls of
`segment_test.go:388`); with the stream in two segments there is one request in the
run, and two were checked once, for the safety properties and the whole `IInv`
(2.8 million states). In `membership` one fault (a crash, a stop, a
lost heartbeat, a failed call, a pause) hits two instances that join at any
time; three segments have a remainder to hand out. In `automation` a lease is two
units, the poll one and the segment's ttl 3 * Lease + PollInterval, as the code
computes it; `maxFaults` 1 is a failing call or item, a deferral or a death, and
`maxDelay` lets one unit pass inside a Next in the queue and without segments, and
none in the other three, which are larger (each of the five passes alone with one). Two
timings are assumed, not checked: an instance comes round to Renew before the lease
of a segment it works on ends, which is several polls long, and work heeds the
deadline of its context. Epochs of the automation stores count
modulo a bound larger than the leases that can be outstanding.

**Fairness.** A started handler call is scheduled until it returns (weak fairness of
its steps; starting and cancelling are the environment's). On the bus,
goroutines run and handlers return (weak), and a sender parked on a full channel
gets its turn (strong), since Go queues blocked senders first in, first out.
PostgreSQL grants a waiting lock in turn (strong), statements run and a reader
keeps polling (weak); a failure is never relied on to end a wait. Projection
loops run and an abandoned claim's ttl passes (weak). Two steps are strongly
fair: `RebuildDue`, because segment 0 looks for requests once per PollInterval
however busy it is, and `ResetBegins`, because a waiting writer of a `sync.RWMutex`
keeps new readers out and row locks are queued. A waiting Save gets its
connection in turn (strong). Automation batches that wait for the scheduler's mutex
get it (strong), as a Go mutex does not starve a waiter; time passes (weak).
Heartbeats and reservations of a membership are strongly fair: both are tried at
every PollInterval, at times independent of the other loops. A status store that
keeps being read is read successfully in the end (strong). No failure, stop,
death, request, repair or append is fair.

## Proofs

Each `...Proofs` module has an inductive invariant, `IInv`, shown to hold initially
and to be kept by every action, and reads its theorems off it; the projection runner
has three more that build on it, each for one kind of deployment. TLC has checked every
`IInv` as an invariant of its component's run before it was proved. The proofs assume
only the `ASSUME` of the component's module, which TLC evaluates in its run, so they
hold for any sets of callers, streams, segments and instances and any sizes and
bounds. What a theorem needs beyond that is a hypothesis of its statement:
`PinAhead = FALSE` for two of the command handler, what kind of deployment it is
for three of the projection runner, and where the ordering keys lie for one of the
automation runner.

**CommandHandlerProofs** (`CallsAssumption`)

- `TypeCorrect`: TypeOK, in particular that no call exceeds its retry budget;
- `FoldCorrect`: FoldIsPrefix;
- `NoStaleDecision`: DecidedOnWholeStream, from `PinAhead = FALSE`;
- `RetryIsUseful`: RetryFindsNewEvents;
- `PinHolds`: PinnedLandsOnPin;
- `Refinement`: ImplementsAtomic, from `PinAhead = FALSE`.

FoldIsPrefix alone is not inductive: that folding k more records gives a longer prefix
needs the next load to start right behind the fold (`ResumesBehindFold`), and that the
version of the last record is the length of the fold (`VersionsDense`). A retry is
useful because the conflict was on `Revision(lastVersion)`, lastVersion is at most
the stream's length by FoldIsPrefix, and a stream never shrinks while open.
DecidedOnWholeStream needs more for a pinned Revision, whose save is checked
against the pin and not the fold: `PinReached` says that the stream has reached
the pin since the call started and the fold reached it at the load, so a
save accepted at the pin was decided on all of it. `EndedIsDone`, `IdleIsFresh` and
`SavedIsThere` tie outcomes to program counters. The proof of each step first shows
what `AppendBatch` and `Evolve` do to sequences (`AppendFacts`, `EvolveFacts`), then that
steps which touch neither keep the invariant (`QuietStep`), and then goes through
the actions. The refinement maps every load, conflict and backoff to a stutter and
an accepted save, or the return of an error, to the one step of the atomic handler.
Without `PinAhead = FALSE` both statements are false, as `CommandHandlerPinAhead.cfg` shows.

**CommandBusProofs** (`BusAssumption`)

- `ResultCorrect`: ResultIsTrue;
- `GivenUpCorrect`: GivenUpIsNotHandled;
- `TypeCorrect`: TypeOK of the bus, with its bounds on the queues and on the calls of a handler.

A command is in one place: not sent, in its shard's queue once, with its shard's
worker, or answered (`QueuesSound`, `WorkersSound`), and what its ResponseCh holds and
what its caller was told agree with that place and with how often its handler ran
(`AnswersSound`, `CallersSound`). GivenUpIsNotHandled has a box inside a box: a command
given up in the queue has a cancelled context and no answer, a predicate (`GivenUp`) every
later step keeps, because the worker looks at the context after it takes a command.

**EventStoresProofs** (`EventLogAssumption`, the four stores at once)

- `ReadersMissNothing`: NothingSkipped;
- `SavesAreExpected`: SavedOnExpectation;
- `LoadsAreWhole`: LoadIsWhole;
- `WalksAreComplete`: BackwardsComplete;
- `StreamsAreGapless`: a stream's positions are 1, 2, ... without a gap or a double, and ids are unique.

Nothing is skipped because rows only appear behind every committed row: the rows of a
transaction have ids beyond the log's (`PendingSound`), and two transactions that have rows
at once would break that, which SQLite's write lock and PostgreSQL's insert lock exclude
(`LocksHeld`). A reader, and the head it pinned, stand at a row of the log or before it (`ReadInv`).
A Save lands on its expectation because what it read of the stream's length is still
true when it commits (`VersionRead`): on PostgreSQL that rests on the advisory lock of
the stream's hash, so on streams that collide as well as on one stream. On KurrentDB an
attempt may be written long after Save gave it up; `AttemptsSound` says what Save knows of
its attempts, and that a second one cannot append the batch again rests on event ids. The
proof that a batch lies in one piece needs that streams have no gaps (`Gapless`), and
Gapless needs it in turn. A load has given, and has still to give, everything up to some
point of the log in order (`LoadSound`), which commits between two of its reads only extend.
A page of the dashboard's browser is read in windows of rising ids, a walk goes through
pages of falling ids, and `PageSound` (of `BrowseInv`) joins the two: what a page has found is everything wanted from
the start of its window to its cursor, and nothing wanted lies between the page's end and what is shown.
On the memory store a window's width is only right because ids are dense (`MemDense`): its
head is a count of events.

**ProjectionRunnerProofs** (`StoreAssumption`, `RunnerAssumption`)

- `AppliedOnce`: ExactlyOnce, over a SQL store and any deployment;
- `NothingIsMissing`: NothingMissing, over a SQL store, or with one Version (`OneVersion`);
- `RolloutDoesNotMix`: VersionsDoNotMix, over a SQL store with at most two Versions
  and no rebuild asked for (`OneRollout`);
- `NoOldPosition`: NoPositionFromBeforeWipe, for one instance over the memory store (`OneInstance`);
- `TypeCorrect`: TypeOK of the runner.

AppliedExactlyOnce, RolloutKeepsVersions and NoWipedPosition, which the runs check, are
ExactlyOnce, VersionsDoNotMix and NoPositionFromBeforeWipe of the deployments in
`MCProjections`; the theorems are about the formulas themselves.

ExactlyOnce rests on one thought: a loop works from the stored checkpoint, or it has lost its
claim and cannot commit (`FromCheckpoint`). The fence is the epoch of a claim and not the
name of its owner, since a hung process and its successor may share one: no lease is ahead
of its row (`LeaseBehind`), so the epoch of a takeover is new and two instances never hold
the same one (`EpochsDiffer`). A transaction between its two critical sections has its row
locked (`LockHeld`), so no two are about one segment and no commit runs beside a reset
(`UnitsApart`). A local checkpoint may lag behind the stored one, when an answer was lost,
but then the loop claims again before it works. The proof shows each action to be a move
of one loop that leaves the rows of every other loop as they are, or as a row that is no
longer its claim, and shows once that such moves keep what is said of the others.

The other three invariants build on `IInv`. `MemoryInv`, for a store that writes in pieces:
the read model is only wiped for a request that no Reset has served (`WipeIsDue`), what a
Commit is about to record is there (`WrittenIsThere`), and with one Version nothing else
rebuilds (`NoUpgrade`). The memory store lives in one process, so its instances do have one
Version. `RolloutInv`: a loop that works or commits has the Version of its checkpoint
or that checkpoint is at 0 (`VersionFits`), and only the newest Version rebuilds (`NewestRebuilds`).
With a rebuild asked for as well the statement is false: `ProjectionReclaim.cfg`.
`PositionInv`: every position in memory, and every one about to be published,
has been reached since the last wipe, but between Reset and the forgetting of positions
(`PositionsReached`), when `resetting` is set (`ResetsFromZero`). With two instances this is
false: in `ProjectionWaitUntil.cfg` one answers from positions it reached before the other rebuilt.
Over a SQL store it is false too: a Reset may take effect and its answer be lost, and
then nobody forgets the position.

**DeadLettersProofs** (`StoreAssumption`, `LettersAssumption`)

- `TypeCorrect`: TypeOK, in particular that no event is applied more than once;
- `AppliedOrDead`: AppliedOrLettered, also when Commits fail or lose their answers;
- `StreamsInOrder`: StreamInOrder;
- `ServedIsDeleted`: SucceededIsDeleted;
- `RepliesAreTrue`: ReplayIsTrue.

The invariant has two halves. `LettersInv` is about segments. A goroutine whose lease is
the claim knows the stored checkpoint, has parked every stream with a letter in its segment
and, while it replays a stream, has exactly that stream's letters before it (`Knows`). A goroutine
that has lost its claim knows nothing, and every Commit asks for the claim. As in the
projection runner, leases are told apart by their epoch (`EpochsDiffer`). StreamInOrder is
inductive with that: an event is applied on its own only when its stream has no letter, and in a
replay only when it is the first letter of its stream.

`RequestsInv` is about requests. A letter that some call waits for is pending or failed, in
its segment, in the call's request and in every later one of its stream (`OwedSound`): a later
request was made while the letter was there, and a letter goes only when it is applied. A
request is deleted when it, or a later one of its stream, has been served everywhere, so
none that a letter still hangs on is, by its own FinishReplay or by the sweep of another
call's. Numbers are given in order (`NumbersInOrder`), so a new request is later than all of them.
In PostgreSQL a FinishReplay decides what to delete and then commits. It holds the row of its
request, so no two finish one request at a time (`FinishingApart`), and of the requests it
decided to delete no letter is left (`FinishingSound`, `NothingOwed`), nor comes one: a letter of the
call is from before the call. The claim
cannot be taken from it either, since it has the segment's row. A queued request may be
served or deleted by the time it is taken; all the proof needs of it is that it was
made, and for the stream it names (`Made`).

`LettersAssumption` has a setup make at most as many requests as there are `Numbers`: otherwise
`Min(Numbers \ used)` would be no number. The store's sequence does not run out.

**SQLAutomationStoreProofs** (`StoreAssumption`, `BackendAssumption`)

- `OneHolderAlways`: OneHolder;
- `NoAcquireDeadlock`: AcquiresDoNotDeadlock.

A row has one writer at a time (`OneWriter`), so what a call read of a row under its
lock still holds when it writes it (`ReadHolds`): a segment to be granted is free at the
instant the call judges by, which may lie in the past when the call waited for a lock.
An instance therefore believes no more than the row says (`BeliefIsTrue`), whichever answers
are lost. Deadlock is excluded by `LocksInOrder`: an Acquire has locked the least of its keys.

**AutomationProofs** (`StoreAssumption`, `AutomationAssumption`)

- `SegmentsOutlive`: SegmentOutlivesBatch;
- `ChainsRunAlone`: ChainRunsAlone, where an ordering key lies within one segment (`ChainsInSegments`);
- `DeferralHolds`: DeferralHoldsSegment, until the deadline of the items left over;
- `OnceIsDone`: OnceLeavesNothing;
- `OneBatchASegment`: a segment has one batch, of one instance, and an item is in one batch;
- `AtMostConcurrency`: at most Concurrency items of a segment run, counted across every
  instance, as `automation/doc.go` promises.

The last two are stated in the proof module; TLC has checked them with the invariant.
The heart of it is `BatchesHoldSegments`: while a batch runs, its instance holds the segment and
has it marked busy, and the row in the store names the instance at that epoch for longer
than until the items' deadline. Renew keeps such a row, a grant needs a row without a live
lease, a release is fenced by owner and epoch, and rotation and the idle release pass over
busy segments, so no call of another instance, and none of its own, takes it away. That a new
batch starts this way rests on `ClaimsForItsOwn`: between the two halves of Next, every segment
the scheduler holds was granted or renewed when Next began, and Next takes less time than the
ttl exceeds the items' lease by (`maxDelay` in `Definition`; the code's ttl is 3 * Lease +
PollInterval). Two batches with a common segment or item then belong to the owner of one
row, and an instance has one batch per segment (`OneBatchPerSegment`). `LeftoverIsShut`: until the
deadline of what a deferred batch gave up, no scheduler has the lease of its segment (`Fenced`) and
none can be granted it: it is paused for that long or, when giving it back
failed, its row is still leased to the instance that let go, which is longer. `OnceServes`: when RunOnce has claimed nothing and nothing has drained since,
every segment it holds is busy, and a busy one has a batch. The proof shows once that a step
of one instance that spares the rows and items of the others' batches keeps what is said of
them (`Spares`, `OthersStay`), and then takes each action for its own instance. Without
`ChainsInSegments` the statement is false, since the scheduler never compares keys of two segments.
The same two timings are assumed as in the run: they are guards of `Tick`. The full TypeOK is not
proved: `line` is built with `SetToSortSeq`, and that it stays a permutation is induction over data.

**StatusReadersProofs** (`StatusesAssumption`)

- `NeverStale`: NothingStale, of the probe's waits and the dashboard's pages.

The count of waits inside is the number of waits that run, so a poller is started when
the first comes and stopped when the last goes (`PollerServes`), and every generation but
the current one has been stopped; what the current one has read or published it read since it
started (`ReadSinceStart`). The hub's part says the same of its loop, and that a page's
channel and what it shows are moments in order (`MomentsInOrder`).

Some definitions were rewritten for the proofs without changing what TLC computes: the
arms of `ToStreamState` (KurrentDB), `CheckExists` (PostgreSQL) and `Outcome` (dead letters)
overlapped, and a CASE says nothing of which of two true arms it takes. They are now
disjoint, in the order of the code. `Show` of the hub and `RequestPage` and `PageFails` of
the browser, and `Forget` of the projection runner, name the record they update instead
of nesting `@`.

**Only model-checked.** All liveness, with fairness, which is out of the prover's reach; membership
has, beside its types, only liveness. `StoreContract`, the refinement of the automation store's contract: which
segments an Acquire grants is a prefix of the candidates sorted by age (`SetToSortSeq`,
`SelectSeq`), and that the sorted sequences of the two specifications agree is induction over
data. The type invariants of both automation modules, for the same reason; TLC has checked
them on the constants of their runs.

## Findings

Each is a sentence of the repository that a run contradicts; `PROJECT.json` quotes
both sides.

1. The slot of an idle segment does not always go "to a segment that has work"
   (`automation/claim_scheduler.go:214`): with more shards than MaxSegments the same
   empty ones are granted at every poll.
2. After a failed FinishReplay "the next poll queues it again"
   (`projection/replay.go:234`), unless that poll comes before `dropReplays`: then
   nobody polls again.

Five more configurations are kept beside the runs. Each ends with a
counterexample to the property in its cfg, about a case the passing runs leave out:

| Configuration | Module | Shows |
|---|---|---|
| `CommandHandlerPinAhead.cfg` | `MCCommandHandler` | a revision pinned ahead of its stream is not "caught" at the save (`command_handler.go:169`): another writer may bring the stream to it in between |
| `ProjectionRetiredLease.cfg` | `MCProjectionRunner` | a lease claimed between `Store.Reset` and the retiring of leases costs more than "one ErrClaimLost and a claim" (`projection/segment.go:344`): the claim is refused until the instance's own previous one expires |
| `ProjectionWaitUntil.cfg` | `MCProjectionRunner` | `WaitUntil` may return from positions reached before another instance's rebuild (`projection/status.go:87`) |
| `ProjectionReclaim.cfg` | `MCProjectionRunner` | a newer Version does get to `reclaim` (`projection/segment.go:159`), which does not look at it |
| `AutomationStuck.cfg` | `MCAutomation` | the Release of an idle segment fails after other segments were marked busy: their batches are never returned nor drained, and the segments stay busy while they are held (`automation/claim_scheduler.go:234`) |

Six observations have no configuration. It is not always safe to tear the store down when `Stop`
returns (`docs/reference/command-bus.md:82`): a cancelled Dispatch leaves its handler
running, which TLC shows when `StopWaitsForHandlers` is made the invariant of
`MCCommandBus.cfg`. A wait that joins a Probe's running poller may be
answered from the read before it joined, where the comment at
`projection/probe.go:185` speaks of the next read; the answer is still not older than
the poller. And an item that failed is overtaken by a later item of its ordering
key when that one comes in a later batch, which `Definition.OrderingKey` excludes:
the scheduler does not look at earlier batches, so the list's Claim has to.
The pause of a deferred segment lasts until the deadline, and "items the batch did
not start stay leased until then" (`automation/claim_scheduler.go:317`), or longer, since the
list's lease begins during the call that follows `deadline := s.now()` (line 247): another
instance may then claim "a later item of their chain ... before them". TLC shows it when
`NothingOvertakes` takes the place of `DeferralHoldsSegment` in `MCAutomation.cfg`.
Two instances on a list without segments may run two items of an ordering key at once, which
`Definition.Concurrency` (`automation/automation.go:195`) does not except: TLC shows it when
`ChainRunsAlone` is stated without `setup.segmented`, for the setup `Plain` run by both; only the
list's Claim can prevent it. And `automation/doc.go:105` says that work is not
"cancelled when the lease runs out", while `automation/automation.go:714` gives its ctx the
item's deadline; the model follows the code.

## Not modelled

- Error paths with the control of one that is modelled: an event that cannot be decoded in
  the midst of a fold (as `FoldCancelled`); the Release of an instance that steps aside or sheds
  (logged, and the claim expires instead); a Claim that fails in reclaim (as one that is
  refused) or for a segment already held and stalled.
- A segment lost while its batch runs, and with it the Defer that Renew makes for it: the
  guards of `Tick` exclude it. Items that RunOnce leaves in segments beyond
  MaxSegments, which `OnceLeavesNothing` does not speak of. An automation's Acquire on a SQL store with
  max 0. Deadlocks of an Acquire with a Renew or a Release, other than that PostgreSQL ends them.
- A Probe made without the number of segments.
- In `DeadLetters`, the steps of a rebuild, which are in `ProjectionRunner`, and those of
  leaving a segment.
- A change of EventTypes without a new Version, which ends a run with an error.
- The memory projection store under dead letters: it keeps the letter of a Commit
  that then loses its claim, as its documentation says it cannot roll back.
- Statuses of automations, and the rates and estimates of the hub, which are shown
  and never acted on. `readAutomations`, the HTML and JSON views and the checks on
  HTTP requests.
- SQLite's `Import`, which runs alone. PostgreSQL's planner and lock manager, Go's
  scheduler, and the KurrentDB server, which are modelled from how the code uses them.
- Query bus, registries, encoding, middlewares, telemetry, logging: no protocol state.
  Metadata, payloads and names are data no property tells apart.
- Handlers that call the bus they run on, and callers that save while they iterate on
  a pool of one: nothing in the code prevents or promises it.
- The composition of an automation with the projection that keeps its list: the list
  is a set of items whose removal follows the work.

## Plan

Done: the command path, the event stores, projections with claims, rebuilds, dead
letters, replays and membership, automations and their stores, the readers of
statuses, and the proofs above: every safety property of the passing runs but `StoreContract`
is a theorem, or an instance of one. Left: the composition of an automation with the
projection that keeps its list, and a definition of the stores' turns without sorted
sequences, over which `StoreContract` could be proved.
