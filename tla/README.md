# grepod in TLA+

grepod is one process per namespace: it tails the logs of every container, keeps
them in one SQLite full-text shard per day, and serves search and a live tail over
HTTP.  This directory holds TLA+ modules that model its concurrent core, TLC
configurations that check them on small instances, and TLAPS proofs of theorems
that hold for every instance.  Paths below are relative to `src/`.

    tlc -config MCBatchQueue.cfg MCBatchQueue.tla      # one run
    tlapm BatchQueueProofs.tla                         # one module of proofs

## 1. Inventory

| Component | Source | State | Operations |
|---|---|---|---|
| Ingestion queue | `internal/storage/queue.go` | channel `in`, buffer `buf`, `done`, `stopped` | `Enqueue`, `run`, `drainChannel`, `flush`, `Close` |
| Drop warnings | `internal/storage/queue.go` `recordDrop` | atomics `dropped`, `lastWarnedAt` | `recordDrop` |
| Live broadcaster | `internal/storage/broadcast.go` | `subs`, one buffered channel per subscriber | `Subscribe`, `unsubscribe`, `Publish` |
| Tail endpoint | `internal/api/handler.go` `handleTail` | one goroutine per connection | the select loop, deferred unsubscribe |
| Tailer manager | `internal/tailer/manager.go` | `cancels`, `restartCounts`, `markers`, one goroutine per container | `Run`, `reconcilePod`, `stopPod`, `startContainer`, `stopContainer`, `tailContainer`, `resolveMarker`, `setMarker` |
| Shard store | `internal/storage/sqlite.go` | shard files, open handles `dbs` | `getOrOpenDB`, `migrateLegacySchema`, `InsertBatch`, `CleanupOldDBs`, `closeShard`, `vacuumShard`, `StartRetentionCron`, `Search`, `LastSeen`, `KnownPods`, `Close` |
| Search pages | `internal/storage/sqlite.go` | the cursor a client sends back | browse and keyword order, keyset pagination, filters |
| Process wiring | `cmd/server/main.go` | context, deferred closes | startup, `waitForShutdown`, `fanoutSink.Enqueue` |
| HTTP API | `internal/api/handler.go` | none of its own | `handleSearch`, `handleKnown`, probes |
| Web UI | `web/static/app.js` | query, cursor, rows, the tail's EventSource | search, load more, group, live tail |
| Metrics, level detection, configuration, deployment | `internal/metrics`, `internal/tailer/level.go`, `cmd/server/main.go`, `helm`, `k8s` | none that the program reads | |

How they interact.  The Kubernetes informer calls the manager's handlers; each
container's goroutine reads a log stream and calls `fanoutSink.Enqueue`, which
enqueues the line and then publishes it.  `Enqueue` never blocks: a line goes into
the channel or is dropped and counted.  The queue's `run` goroutine collects
batches and calls `Store.InsertBatch`, one transaction per date.  The retention
cron, the HTTP handlers' searches and the manager's `LastSeen` use the same shard
files, each through its own connection; only `getOrOpenDB` and `closeShard` share
`s.mu`.  On SIGTERM `main` cancels the context, shuts the HTTP server down, waits
for `Manager.Run`, and its deferred calls stop the cron, close the queue (which
flushes) and close the store, in that order.

What is hard, and the properties that make each component correct:

- Queue: lines pass through a channel, a buffer and a batch, and in `Close` by a
  different path (`drainChannel`); inserts fail half way.  Lines keep their order, none
  is stored twice or vanishes, memory is bounded, everything accepted before `Close`
  leaves memory, a quiet queue still flushes.
- Drop warnings: four atomic operations, a wall clock that may step.  Every drop is
  reported once, and windows are an interval apart.
- Broadcaster: publishers, receiving handlers and unsubscribing handlers share
  channels of which only some operations are under `b.mu`.  No send on a closed
  channel, newest line always delivered, order kept, the oldest lost, nobody blocks.
- Manager: cancelled goroutines are not waited for when their successor starts, the
  handlers ignore the context, a pod may vanish and return between two events.  One
  live goroutine per container, no restart missed, nothing enqueued after `Run`,
  markers never go back, shutdown ends.
- Store: writers, retention, vacuum, searches and marker lookups race over files that
  are created by being opened and unlinked while open; the process may end anywhere.
  A committed row stays until its date expires, no handle is left on an unlinked
  file, a search finds what was stored before it.
- Markers: a stream resumes from the stamp of a line, which is when the line was read
  and not when it was written, and which survives a restart only if the line was flushed.
  Only a line read late may make a stream skip others, only the lines of one second are
  repeated, and no line waits for ever.
- Search pages: rows and ranks change between two pages, and the browser has several
  requests in flight.  Pages of an unchanged store are exact, and browsing stays
  exact while the store changes.
- Wiring: `main` takes the parts down while tailers ingest and clients hold
  connections open.  Nothing is accepted after the close, every line reaches the live
  tail, a process that returns has written what it accepted, and it does return.

## 2. Modules

| Module | Models | Extends / instantiates |
|---|---|---|
| `DropWarning` | `recordDrop` | |
| `DropWarningProofs` | theorems about it | `DropWarning` |
| `BatchQueue` | the queue with `InsertBatch`'s transactions as its sink | instance of `DropWarning` for the full channel |
| `IngestLedger` | abstract: what the queue promises about accepted lines | |
| `BatchQueueLedger` | the refinement mapping from queue to ledger | `BatchQueue`, instance of `IngestLedger` |
| `BatchQueueProofs` | theorems about the queue, and the refinement step by step | `BatchQueueLedger`, instance of `DropWarningProofs` |
| `Broadcaster` | `Publish`, subscriptions, `handleTail` | |
| `Manager` | informer handlers, tailer goroutines, `Run` | |
| `TailMarker` | the log of one container: instances, streams, marker, `SinceTime`, restarts of grepod | |
| `ShardStore` | shard files, handles, inserts, retention, search, known pods, last seen, exits | |
| `SearchPages` | pages and cursors of a search, in the server and in the browser | |
| `Grepod` | `main`: start, signal, shutdown order, HTTP connections, `fanoutSink` | instance of `BatchQueue` |
| `BroadcasterProofs`, `ManagerProofs`, `TailMarkerProofs`, `ShardStoreProofs`, `SearchPagesProofs` | theorems about each | the module of that name |
| `GrepodProofs` | theorems about the process | `Grepod`, instance of `BatchQueueProofs` |
| `MC...` | each of the above for TLC | |

A name with an underscore (`HasRoom_OneMore`, `Cancelling_Nobody`) is a
plausible mistake in the definition it stands before; no specification uses it.
Substituting it for that definition makes TLC report the property it is listed for
in `PROJECT.json`, which shows that the property depends on that code.

### DropWarning

One process per goroutine; `pc` walks through `Add`, the clock reading, `Load`,
`CompareAndSwap` and `Swap` + log, each one atomic step (`Begin`, `ReadClock`, `Load`,
`CompareAndSwap`, `SwapAndWarn`).  A warning is the count it carries.  `Tick` moves the
clock: forward, or anywhere if `WallClock` is TRUE, because `UnixNano` is wall time.
`reported` and `warnings` are history variables.

### BatchQueue

`chan`, `buf` and `batch` are the channel, `q.buf` and the argument of `InsertBatch`.
`runPC` is where the run goroutine is: at its select, inside the insert of a normal
flush, draining, in the final flush, stopped.  The two branches of Go's select that
are ready are two enabled actions, so either may be taken.  `flush` takes the buffer
(`TakeBatch`) and `InsertBatch` commits the dates of a batch one by one in any order
(`InsertGroup`) or fails and leaves the remaining ones (`InsertFail`).  A line is its
number of acceptance and its date; `accepted`, `taken`, `stored`, `lost` are history.
`Close` is `Close` (close of `q.done`; `closedAt` records how much had been accepted)
and `CloseReturn`.  Producers may call `Enqueue` at any time, after `Close` as well.

### Broadcaster

`Publish` holds `b.mu` (`holder`) over its whole range; its send, eviction and resend
(`Send`, `Evict`, `Resend`) are separate steps between which the handler that owns the
channel may receive.  `handleTail` subscribes, receives, writes, and leaves when
its context is done; `unsubscribe` deletes under `b.mu` and closes the channel after
it.  A line is its number in the order of locking.  The filters of a connection
are left out: they drop lines after `Receive`.

### Manager

The informer delivers events one at a time.  An event carries the pod as it is at
delivery, so several changes may be seen as one, and a deleted and recreated pod
may appear as an update.  A pod's status need not list all of its containers yet
(`reported`, which `ContainerReported` adds to): an event is about those it lists.
`reconcilePod` is the loop `Check`, `Stop`, `Cancel`, `Start`, `Spawn` over them; `stopPod` is
`DeleteStop`, `DeleteCancel`, `DeleteMarker` over the containers registered.  Each critical section
is a step, and so is what follows it: `stopContainer` takes the cancel function out of
`m.cancels` (`TakeCancel`) and calls it after the unlock (`CallCancel`); in between `held` has it.  `routine` lists every goroutine ever started with its place in
`tailContainer`; reading a line stamps it with the clock and enqueues it.  `Lookup` is
`Store.LastSeen`: any timestamp up to now, or none.  Backoff may end at any time.

### TailMarker

What `Manager` leaves open: which lines a stream has.  `logs` holds, for each instance
of one container, the second in which each line was written; `rows` is what was
enqueued, of which the store has the first `flushed`.  `Start` is the informer's event, then the
goroutine reads the last lines of the instance before (`OpenPrevious`, `ReadPrevious`), takes its marker
from the map or the store (`Resolve`), and opens streams from it (`Open`), reading
(`Read`) and falling back (`StreamEnds`, `Backoff`) for ever.  `From` is Kubernetes' `SinceTime`: to the
second, inclusive.  `Exit` loses what is not flushed and all markers.  A scanner stops at
a line over 1 MB as at the end of the log (`Scannable`); such an end counts as a
fault, so that only finitely many are explored.  `skipped` is history.

### SearchPages

`shards` gives each date's rows by rowid, each as its rank for the one keyword, so that
an insert may move all ranks of its shard.  `Answer` is `handleSearch` with `Store.Search`, on some
of the newest shards (one that cannot be attached is skipped); `After` and `Before` are the
outer query's `WHERE` and `ORDER BY`, `Page` the extra row and the cursor.  `RunSearch`, `LoadMore` and `Show` are
`runSearch` and `fetchPage` up to and after its `await`; `Edit` changes the form.  Each request has a
slot, so answers come in any order.  `trail` is history: it tells the results of one
undisturbed search from those of several, for which nothing is promised.

### Grepod

`main` walks through start, signal, `cancel`, `Shutdown`, the wait for `mgrDone` and the deferred
calls; `http`, `mgr` and `conns` are what it waits for.  The queue's variables and steps are
`BatchQueue`'s own.  `Enqueue` and `Publish` are the two halves of `fanoutSink.Enqueue`.  A connection is a
search, which is answered, or a tail, which may stay for ever because nothing cancels its
request's context.  `Abort` is `os.Exit(1)`, from `main` or from the goroutine of the listener, which may fail
to bind or later, while it accepts connections, until `Shutdown` takes it down.

### ShardStore

A date has a sequence of files of which `dir` names one or none: unlinking takes
the name away, and those who have the file open keep it.  SQLite creates a file that
is opened and missing, for `ATTACH` as for `sql.Open`; that behaviour of the library is
the definition `PathOpened`.  `getOrOpenDB` runs for two actors, `InsertBatch` on the run
goroutine and `vacuumShard` on the cron, as `GetHandle`, `CreateFile`, `CreateTable`,
`Migrate`, `Recreate`; `s.mu` (`mu`) is held from the miss to the return.  `migrateLegacySchema`
drops a legacy table with its rows and creates a new one.  `Search` and `KnownPods` share the
steps from `SearchStart` to `Query`, where the model chooses which of them it was: `KnownPods`
can read a legacy table.  A row is its container
and its timestamp in ticks plus a fraction; `TextLess` is how the stored RFC3339Nano
texts compare, trailing zeros dropped.  `Exit` ends the process between any two steps.

The clock is the local wall time: a shard is named for its local day, and the cron is due at
03:00 local time.  `CleanupOldDBs` reads the name as midnight UTC (`Before`), which is
`UTCOffset` ticks later by the local clock, or earlier when that is negative.  `Expired` is not
taken from that test but from the calendar: "Shards older than this are deleted nightly
at 03:00 local time" (`README.md:70`), so a day's shard is safe until 03:00 of the day
`RetentionDays` after it.  Three hours or more to the east of UTC the code keeps a shard one night
longer; elsewhere the two agree as long as the timer is not too late.  The offset is fixed: changes to and from
daylight saving time are left out, as is a clock that is set back.

Two named assumptions state what the code takes for granted and nowhere checks.
`BatchAgeAssumption`: a batch is committed before retention can expire its date.  Between the end
of a day and the first cleanup that may delete its shard lie `RETENTION_DAYS - 1` days and three
hours; a batch's age is bounded by `BATCH_INTERVAL` and a few `INSERT_TIMEOUT`s, which is seconds.
What this excludes is `InsertBatch` with the handle of a date in its hands while the cron
deletes that very date, or recreating a shard just deleted.  `NightAssumption`: the timer fires
before the local clock reaches midnight UTC of the following day, which is 21 hours after 03:00 in UTC
and 13 hours after it eight hours to the west.  Otherwise retention deletes a day too
many.  Both are tight: TLC finds `NoStaleHandle` violated by a batch or a timer one tick later.

## 3. Runs

| Run | States | Checks |
|---|---|---|
| `MCDropWarning` | 20 k | `DropsAccounted`, `WindowsSpaced`, `WarningsRateLimited` |
| `MCBatchQueue` | 106 k | `PipelineInOrder`, `TakenOnce`, `CloseDrains`, `MemoryBounded`, refinement `ImplementsLedger`; liveness `EventuallySettled`, `CloseReturns` |
| `MCBroadcaster` | 72 k | `NoSendOnClosed`, `NewestDelivered`, `ViewedInOrder`, `LossIsOldest`; liveness `PublishReturns`, `DisconnectCleansUp` |
| `MCManager` | 217 k | `OneTailer`, `RestartFollowed`, `NoEnqueueAfterRun`, `MarkersAdvance`; liveness `RunReturns`, `EventuallyTailed` |
| `MCTailMarker` | 1.0 M | `SkipsOnlyAfterLateRead`, `RepeatsOnlyBoundary`; liveness `EventuallyRead` |
| `MCShardStore` | 2.5 M | `StoredUntilExpired`, `NoStaleHandle` |
| `MCShardStoreReaders` | 9.2 M | `SearchComplete`, `LastSeenRecent` |
| `MCSearchPages` | 6.2 M | `StablePagesExact`, `BrowseTolerant` |
| `MCGrepod` | 611 k | `AcceptedIsFinal`, `FanoutComplete`, `ExitStoresAll`; liveness `ShutdownEnds` |
| `MCTailMarkerPrevious` | - | violates `PreviousNeverMovesSince` |
| `MCShardStoreMissing` | - | violates `MissingShardSkipped` |
| `MCSearchPagesOneQuery` | - | violates `OneQueryShown` |

The types of `DropWarning`, `BatchQueue`, `Broadcaster`, `Manager` and `ShardStore` bound the
channels, the markers and the shards a search attaches, and are invariants of their runs; the
`TypeOK` of `TailMarker`, `SearchPages` and `Grepod` says little more than what the variables range over.

Deadlock is not checked: in every module the bounds let all actors come to rest (a
closed queue, a returned `Run`, an exhausted number of lines or ticks).  That nobody waits for ever is
stated by the liveness properties instead, and where none is stated
(`ShardStore`) the only lock is `s.mu`, whose holder never waits for anything.

Bounds, and why they are enough:

- `MCDropWarning`: 3 goroutines (two race for a window while a third is on its way),
  4 drops, 4 clock values against an interval of 2: a full window, its end and a later
  one.  The proofs remove these bounds.
- `MCBatchQueue`: `Size` = 2 and a channel of 2 make the channel fill while a batch is
  being inserted; 3 lines make a full batch and a rest that only the ticker or `Close`
  flushes, and 2 dates make a batch that can be half committed.  The code's channel
  holds 4 batches; a smaller one reaches its limit sooner.  Order, conservation and the
  drain of `Close` are proved for every size (section 4).
- `MCBroadcaster`: buffers of 2 and 3 lines, so that a channel overflows; 2 viewers, so
  that one can leave while the other is being served; 2 publishers for `b.mu`.
- `MCManager`: 1 container through 2 changes, which delete and recreate the pod or restart
  its container before the first change was seen, and which its pod's status may list late; 2 clock values so that an old
  and a new marker differ.  The loop of an event over several containers of a pod
  is in the module but takes one round here; with two containers and one change its
  safety properties were found to hold as well.
- `MCTailMarker`: 3 lines in at most 2 instances over 3 seconds, so that a second has
  a line before, in and after it; 1 of each of restart, exit and fault; the third
  line of an instance is over 1 MB.
- `MCShardStore`: ticks of six hours, twelve hours west of UTC, with a batch and a timer as late as
  the two assumptions allow: the cron runs at six in the morning or at noon, and midnight UTC is
  noon.  14 ticks hold three nights, on two of which shards of one day's retention expire,
  the second while a batch of yesterday's lines is on its way; 2 rows (two dates or
  one), one exit; a legacy shard may exist at the start.
- `MCShardStoreReaders`: up to day 2, so that retention deletes a shard in the range; 3
  days asked for and at most 2 attached; timestamps with 2 fractions; `LastSeen` looks back
  2 days.  One reader is in progress at a time: readers share only files, which
  they change in no other way than the cron and `InsertBatch` do.
- `MCSearchPages`: 3 rows with 2 ranks give ties in and across shards, pages of 1 give two cursors,
  and of 3 dates 2 can be attached, so that the first row of the newest date pushes the oldest
  out between two pages.  Results are asked for while at most 2 are shown.  One request is in flight
  at a time, because the two properties promise nothing of a search whose requests overlap others;
  `MCSearchPagesOneQuery` has two, and the theorems have any number.
- `MCGrepod`: 2 tailers, 3 lines on 2 dates and batches of 2 leave lines in the channel, the
  buffer and a half committed batch when the signal comes; 1 refused line; 1 client.

Symmetry is used in `MCDropWarning` only, over the goroutines, which no constant distinguishes;
that run checks no liveness.

### Fairness

- Queue: strong fairness of `Receive`, `Tick` and `Done` each.  Go's select picks
  pseudo-randomly among ready cases, so none is passed over for ever; the
  ticker keeps firing.  Weak fairness of the insert: it runs under
  `INSERT_TIMEOUT` and ends, with or without an error.  Producers have none.
- Broadcaster: publishers run, and get `b.mu` in the end (Go's mutex hands over to a
  starving waiter).  `PublishReturns` holds with no fairness for viewers at all.
  `DisconnectCleansUp` carries the handlers' fairness as its own premise: a write ends
  only once the client is gone, since the write deadline is cleared, and a
  done context is picked by the select in the end.
- Manager: the handler, `Run` and the goroutines keep running; a stream need not end
  before its context is cancelled, but then does; the informer keeps
  delivering (it resyncs).  The cluster, the clock and the cancel are not fair.
- Marker: the informer reports the instance that runs, and the goroutine goes on through
  faults; how many faults there are is bounded, what happens between them is not.
  `EventuallyRead` promises nothing of lines from an instance's first over-long one on.
- Wiring: `main` and the other goroutines go on; the queue's part is its own.  No tail
  request has to end, which is why `ShutdownEnds` needs the ten seconds.  A cancelled
  tailer has only what its scanner holds left to ingest; the model's bounds on lines
  stand for that.
- `DropWarning`, `ShardStore` and `SearchPages` have safety properties only: a request may fail or never be answered.

### Differences between the code and what is said of it

Each has a run whose counterexample shows it.

1. `MCTailMarkerPrevious`: "previous-instance logs must never advance the marker used for the
   *current* instance's SinceTime" (`manager.go:393-394`).  They are stored with the present time
   before `resolveMarker` asks the store for the newest line of the container; once they are
   flushed, one of them becomes the `SinceTime`, and what the new instance wrote before is
   not read.  This takes a fresh `Manager` (no marker in memory) and a flush in between.
2. `MCShardStoreMissing`: "Shards with no file on disk for a given date are skipped
   silently" (`sqlite.go:370-371`).  If retention deletes a shard between `os.Stat` and `ATTACH`,
   `ATTACH` creates an empty file, the query fails for want of its table, and so
   do the later searches over that date, until the next night.
3. `MCSearchPagesOneQuery`: `allResults` accumulates "every page loaded for the current
   query/filters" (`app.js:93`).  "Load more" reads the form as it is at the click, and a late
   answer of an old search is shown or appended whatever is on show.

Seen while modelling and not given a run: `Publish` evicts a line from a channel that its
viewer may have drained since the failed send, not only from "a full subscriber
channel" (`broadcast.go:59-60`); a cancelled goroutine puts back the marker that `stopPod` deleted,
although "a pod delete must clear its containers' markers" (`manager_test.go:425`); the nightly
`vacuumShard` rebuilds, empty, a legacy shard "that's never written to again"
(`sqlite.go:132`); a goroutine may pause between claiming a
window and logging, so two warnings (not two windows) may be closer than
`dropWarnInterval` (`queue.go:13`); a failed final flush loses lines although `Close`
"can rely on every enqueued line having reached storage" (`queue.go:214`); a handler
still in `reconcilePod` starts a goroutine after `Run` has returned (`manager.go:112-114`),
which enqueues nothing, as `NoEnqueueAfterRun` shows; `MAX(timestamp)` over texts without trailing
zeros may be an earlier one of the same second (`sqlite.go:651`), which is why
`LastSeenRecent` is stated to the tick; a line over 1 MB may stop every later stream of its
container at the same place (`manager.go:441-442`); after a failed "Load more" the button stays
hidden (`app.js:129`); a listener that fails ends the process with `os.Exit`, which runs no deferred
close (`main.go:144`); `Shutdown`'s ten seconds and a final flush of up to `INSERT_TIMEOUT` may
together exceed Kubernetes' usual thirty seconds of grace.

## 4. Proofs

Checked by TLAPS for every value of the constants that satisfies the named
assumptions: sizes, intervals and bounds are natural numbers, positive where the
configuration makes them so (each module's `...Assumption`), and the offset from UTC is any integer; a pod has finitely many containers
(`ManagerAssumption`) and a store finitely many dates (`PagesAssumption`); and `BatchAgeAssumption` and
`NightAssumption`, discussed under `ShardStore` above.  The bounds TLC needs
(`MaxClock`, `MaxRows` and the like) are constants as well, so the theorems hold for any of
them.  The inductive invariants are conjunctions of named parts, and TLC checked each
on the instance of its module's run before it was proved.

`DropWarningProofs`
- `TypeCorrect`, `DropsAlwaysAccounted`: directly inductive with the types.
- `WindowsAlwaysSpaced`: the action property follows from `ClaimChecked`, a goroutine about
  to compare and swap has found its own clock reading outside the window of the
  value it compares with.  Nothing is assumed of the clock.
- `WarningsAlwaysRateLimited`: from `ClaimsCounted`: the warnings logged, with those a goroutine has
  claimed and is about to log, are no more than the intervals `lastWarnedAt` has advanced by.

`BatchQueueProofs`
- `ImplementsDropWarning`: every step of the queue is a step of `DropWarning` or leaves
  its variables alone, hence `QueueDropsAccounted`.
- `TypeCorrect`: from `QueueTypeOK`, the queue's part of the types, which is inductive, and
  `DropWarning`'s.
- `PipelineAlwaysInOrder`: `accepted = taken \o buf \o chan` is inductive with the types; each step
  moves a head, appends a last element or joins two parts, stated as the lemmas `MoveHead`,
  `AppendLast`, `ConcatEmpty`.
- `CloseAlwaysDrains`: from `Draining`: past `q.done`, `closedAt` is fixed, and an empty
  channel together with `PipelineInOrder` means that everything accepted is taken or in `buf`,
  which the final flush takes.
- `MemoryAlwaysBounded`: from `ShortBuffer`: at the select the buffer is short of a batch
  and no batch is out, in a flush the buffer is empty and the batch is at most one.
- `TakenAlwaysOnce`: from `Numbered` (a line's number is its place in `accepted`), which makes a
  new batch disjoint from all batches before it, and `Settled` (no date is
  pending outside a flush).
- `StoppedAlwaysStoresAll`: once `run` has stopped, what was taken is stored or lost.
- `QueueImplementsLedger`: the initial states map to the ledger's, and each step of the queue to a
  ledger step or a stutter: `Enqueue` to an accept, a commit or a failed insert to the
  settlement of the date's lines, moves between channel, buffer and batch to a stutter.

`BroadcasterProofs`
- `NeverSendsOnClosed`: from `Locked` (who holds `b.mu`, and what it is at) and `Registered`: a channel is closed
  only after it has left the subscriptions, and `Publish` serves subscriptions alone.
- `NewestAlwaysDelivered`: from `RoomToResend`: the holder of `b.mu` is the only one to add to a channel, so
  the place its eviction made is still free when it sends again.
- `AlwaysViewedInOrder`, `LossAlwaysOldest`: from `Sequenced`: what a viewer has seen or lost is older than what is in
  its channel, which is older than what is being sent, and each of them is in order.

`GrepodProofs`
- `ImplementsQueue`: the queue inside the process takes only steps of `BatchQueue` or none, so
  the queue's theorems hold of it.
- `AcceptedAlwaysFinal`: from `WindDown`, the order of the shutdown: once `Close` is called the manager is done,
  and what is accepted stays what it was.
- `ExitAlwaysStoresAll`: from `WindDown` and the queue's `StoppedAlwaysStoresAll`.
- `FanoutAlwaysComplete`: from `Fanout`: what is published and not yet accepted or dropped belongs to
  tailers between the two halves of `fanoutSink.Enqueue`, of which there are none when the manager is done.

`ManagerProofs`
- `OneTailerAlways`: from `RegisteredOK` (a registered goroutine follows its key and the remembered
  `RestartCount`, and only `stopContainer` between its two steps holds a cancel function) and `NotLeaked`
  (a goroutine that is neither registered nor held has been cancelled).
- `RestartAlwaysFollowed`: from `Followed`: whatever the event in hand has not left to do is done, of the
  containers some event has listed.
- `NeverEnqueuesAfterRun`: from `Stopped`, about the wait group; `MarkersAlwaysAdvance`: an entry is only replaced
  by a later stamp.

`TailMarkerProofs`
- `RepeatsAlwaysBoundary`: from `MarkerNewest`: once there is a marker no live row is newer, and before that
  whatever is not flushed comes from the instance before, so that `LastSeen`'s answer, the
  stamp of the last flushed row, is as good as the marker that was lost.
- `PromptNeverSkips`: from `LiveNoGaps`: every line before a line that was read live was enqueued before it
  or left out by an earlier `SinceTime`; since rows are flushed in order this survives an exit.
  `LogsInOrder` puts lines of older instances before those of newer ones.

`SearchPagesProofs`, on lists of a finite set in a strict order (`InOrderLists`, `HeadIsPrefix`,
`HeadsJoin`), of which a page is a first part (`PageHeads`)
- `StablePagesAlwaysExact`: from `Exact`: what is accumulated is a first part of what the snapshot's rows
  are in its order, and the rows after its cursor are those that come after its last row
  (`RowsAfter`), so another page makes a longer first part.  In keyword mode this needs the cursor's
  rank to be the one its row has in the snapshot (`CursorOf`).
- `BrowseAlwaysTolerant`: from `Tolerant`: of the first snapshot every row is accumulated, or older than the
  cursor, or of a missed date.  A row that is older is read by the page after, since a date
  that was read neither comes back nor loses rows before it expires (`BaseKept`).
- Both need `OneRequest`: while a search has the page to itself there is at most one request, for its query and
  from the cursor on show.
- `PagesTypeCorrect`: from `TypeInv`; a page has at most `PageSize` rows.

`ShardStoreProofs`, by far the longest, since five actors share the files:
- `AlwaysStoredUntilExpired`, `HandleNeverStale`: from `WriteInv`.  Who opens a file holds `s.mu` and works on the
  file the path names (`Locked`, `Opening`); a registered handle is that file, with its table (`HandlesCurrent`), and stays so while
  `InsertBatch` writes to it (`Holding`); retention closes and removes expired dates only
  (`OnlyExpired`), where `NightInv`, how late the cron can be, and `NightAssumption` make the cutoff in
  UTC an expiry by the local calendar (`CutoffIsExpired`); and a batch's date is never expired
  (`BatchYoung`), which is where `BatchAgeAssumption` comes in.
- `SearchAlwaysComplete`, `LastSeenAlwaysRecent`: from `SearchInv` and `SeenInv`.  Readers hold no lock, so these rest on `Steady`, what
  every step leaves alone: committed rows, time, and the file of a date that is not expired.
- `TypeCorrect` needs `SearchShape` besides: what is found and what is attached stay within `maxAttachedShards`.

Only model-checked: liveness under fairness and everything that needs `ENABLED`, which are out
of the prover's reach.  Every safety property that a passing run checks is a theorem.

## 5. Not modelled

- The text of queries, snippets and their escaping, JSON, the parsing of parameters; dates
  are whole days, as `handleSearch` parses them.
- What a log line says and level detection.
- Dropped lines, failed flushes, retention and log rotation in `TailMarker`.
- A failed `Commit` that SQLite applied nevertheless; daylight saving time.
- The tail page and the grouping of results in `app.js`; rendering.
- Probes, metrics, manifests.  Configuration: `envInt` and `envDuration` fall back to their defaults
  for anything that is not positive (`main.go:223-245`), which the assumptions of the modules rest on.

## 6. Plan

Every safety property of the runs is proved.  What could still be stated and proved:

- an abstract live channel, which delivers in order and loses only its oldest lines, that `Broadcaster`
  implements, in place of the three properties that say so in parts;
- `Manager` and `TailMarker` as one: that the marker of `Manager` takes only the steps
  `TailMarker` gives it, as `Grepod` does with `BatchQueue`.
