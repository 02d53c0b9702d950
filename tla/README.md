# A TLA+ development of Plexplore

Plexplore is a self-hosted location tracker: phones send points over HTTP, the
server writes them to an append-only spool, keeps them in a bounded buffer and
moves them in batches to SQLite, from which visits are derived and read APIs
served. These modules model the path of a point from the request to the
database, with crashes, power losses, failing calls and concurrent requests,
the derivation of visits from the stored points, the paged and exported reads
of them, the accounts, device keys and rate limits that guard the requests, and
the migrations that run before every start.

## Inventory

| Component | State | Operations | Hard behaviour |
|---|---|---|---|
| Spool (`internal/spool`) | segment files, checkpoint file; `nextSeq`, active segment, bytes since the last sync | append, advance checkpoint, replay, compact, close | crash in the middle of a call, failing fsync, names and numbers reused after a restart |
| Buffer (`internal/buffer`) | FIFO queue, point and byte counters, last point of each device | enqueue, drain, requeue | limits against requeue, order across failing flushes |
| Flusher (`internal/flusher`) | position in a pass, trigger channel, last result | timer, trigger, stop, `FlushNow` | commit, checkpoint and compaction are three steps; each may fail |
| Ingest handlers (`internal/api/ingest.go`) | a request in progress | append, enqueue, trigger, respond | append and enqueue are under different locks |
| Startup recovery (`internal/tasks/startup_recovery.go`) | records still to enqueue | replay, enqueue in chunks, flush and retry | buffer full, flush failing, remainder |
| Server lifecycle (`cmd/server/main.go`) | phase | boot, serve, signal, shutdown, exit | requests in progress at shutdown, timeouts |
| Store, ingest part (`internal/store/sqlite_store.go`) | `raw_points`, `points`, `devices.last_seq_received` | insert a batch | idempotence, `UNIQUE(seq)`, WAL durability |
| Visit scheduler, visit store, detector | watermark of each device, visits, round-robin position | run once, rebuild a range | points that arrive during a rebuild, late points, window edges |
| Reverse geocoding | place cache | resolve | cached failures, provider errors |
| Sessions, login, users | sessions, users | login, load user, logout | expiry and deletion between two reads |
| Devices and keys | devices, key hashes | create, rotate, backfill of hashes when the store is opened | rotation against requests in progress and against a process that opens the store |
| Rate limiter | window start and count of each key | allow | window edges, cleanup |
| Points and exports (`store/points.go`, `api/points.go`, `api/exports.go`) | the cursor a client holds, the stream in progress | page, export, recent points | a cursor by number on pages by time, a stream read twice, limits and caps |
| Migrator (`store/migrator.go`, `cmd/migrate`) | `schema_migrations`, the schema | apply | two migrators, crash in the middle, half-migrated databases, reruns |
| Status, health, UI, configuration, parsers | none | format, load, parse | none |

What makes each part correct: the spool returns at replay what it returned to
its callers and the checkpoint has not passed; the buffer is FIFO and bounded;
the flusher neither drops nor reorders a batch; an acknowledged point is never
lost by the running process and survives its crash; recovery hands everything
on; shutdown drains and ends. A device that the visit scheduler has caught up
with has exactly the visits its points make, none of them twice, and every
device gets its turn. A request is honoured only with a session or key that
was good when it began, and the rate limiter lets in no more than two windows
back to back. A client that follows the cursors gets its own points only, none
it could have seen is left out but for the reasons `ListingComplete` names, and
an export is whole or says that it is not. A recorded migration is complete and
migrators come to an end.

The parts interact by calls only. A handler appends to the spool (mutex
`FileSpoolManager.mu`), then enqueues the records (mutex `Manager.mu`), then
may put a token in the flusher's trigger channel. The flusher goroutine drains
the buffer, writes SQLite, and advances and compacts the spool. Recovery uses
the same flusher before its goroutine is started. `main` starts and stops all.
The visit scheduler's goroutine shares only the database with them, as does a
user's request to rebuild visits, the point and export handlers, and the session
and device handlers. The rate limiter is called before those handlers and shares
nothing with them. `cmd/migrate` runs before the server, and may run beside the
one it replaces.

## Modules

| Module | Models | Notes |
|---|---|---|
| `Ingest` | `ingest.SpoolRecord` | A point is an abstract value identified with its ingest hash; its device, that device's name, its size and the near-duplicate relation are CONSTANTS. A record carries the name (`DeviceName`), which devices may share. |
| `Spool` | `FileSpoolManager` and its files | An append is one step per line and a checkpoint is a truncation followed by a write, because a crash may come in between. `holder` is the caller inside the mutex. |
| `Buffer` | `buffer.Manager` | Every operation is one step under the mutex. |
| `BufferSpec` | the buffer with any producer and one flusher | Adds the history of what was accepted and settled. |
| `Store` | `InsertSpoolBatch`, SQLite's durability | `db` is the committed state, `durableDb` the one the last WAL fsync covers. |
| `Flusher` | `flusher.Flusher` over Spool, Buffer and Store | One step per call into another component. |
| `Server` | handlers, recovery, `main` | The composition; crash, power loss, shutdown. The histories `acked`, `ackedHere` and `ackedRecords` remember the acknowledged points, of all processes and of this one, and this one's acknowledged records. |
| `IngestQueue` | what the pipeline promises | Abstract specification: a queue whose records are accepted at the end, kept in SQLite and leave from the front, each one kept. `Progress` is that the oldest one gets kept and then leaves. `Server` maps `batch \o queue` to it. |
| `TextTime` | times as SQLite compares them, windows, ordered queries with a limit | Shared by `Visits` and `PointReads`. |
| `Visits` | `visits.Detect`, `store/visits.go` | Detection, the point query and the transaction that rewrites a window of a device's visits. |
| `VisitScheduler` | `tasks.VisitScheduler`, `visit_generation_state`, `POST /api/v1/visits/generate` | One step per access to the database; extends `Visits`. Points arrive in between, also out of order. The histories `byHand`, `late` and `cuts` remember the devices rebuilt by hand, the points stored below a device's largest number, and where rebuilt windows began; `waited` counts the runs that passed a device over. |
| `Accounts` | login, logout, users, devices and their keys (`internal/api`, `internal/store`) | One step per access to the database, also of the backfill of key hashes (`BackfillRead`, `BackfillWrite`) that every process makes when it opens the store. `dead` remembers that a request began with credentials that were no longer good; `cookies` and `shown` are the tokens and keys clients were given, `lost` the keys whose request failed after storing them, `replaced` the keys a rotation ended, `unsettled` those of them that a backfill had read before and may write back. |
| `RateLimiter` | `api.FixedWindowLimiter` | Reading the clock and deciding under the mutex are two steps. `recent` remembers when the last requests of each client were let in. |
| `PointReads` | `store/points.go`, `api/points.go`, `api/exports.go` | One reader; a page, the probe of an export and its stream are one step each, and points are stored in between. `scanned` and `sent` are what was read and what was answered, `before` the rows when the read began. |
| `Migrator` | `store/migrator.go` | One step per `sqlite3` process, two for a migration file. `tx` is the database inside the open transaction, `legacy` the columns that were there at first without a recorded version. |
| `MCSpool`, `MCBuffer`, `MCServer`, `MCVisits`, `MCAccounts`, `MCRateLimiter`, `MCPointReads`, `MCMigrator` | instances for TLC | Values of the CONSTANTS. |
| `SpoolBufferProofs`, `ServerProofs`, `DurabilityProofs`, `AccountsProofs`, `RateLimiterProofs`, `MigratorProofs`, `PointReadsProofs`, `VisitsProofs` | proofs | See below. |

Operators described as mutants in comments (`WithFileUnsynced` and so on) are
plausible bugs, kept beside the definition they replace: substituting one makes
TLC find the property it is meant for violated.

### Abstractions

* Sizes of segments are left out: a segment that holds anything may be rolled
  or not, and the balanced mode may fsync or not. Every behaviour of the code
  with concrete sizes is one of these behaviours.
* Rolling to the active segment's own name is the same as staying in it. It
  can only happen after a failed fsync or write.
* `deviceCounts` of the buffer is written and never read. Status counters, logs
  and response bodies are left out.
* A power loss keeps of each file the lines the last fsync covered and any
  prefix of the others, with the first lost line possibly torn. Directory
  entries are taken to survive. A checkpoint write that fails in `Sync` or
  `Close` has either kept the old torn file or stored the new value.
* A power loss keeps either every SQLite commit or those up to the last WAL
  fsync; prefixes in between are not distinguished.
* SQLite reports a conflict on the ingest hash before one on `seq`.
* `FlushBatchSize` is also recovery's chunk size, as `main` passes it.
* Positions of points are integers on a line and the distance is exact; times
  count half seconds. SQLite compares times as RFC3339Nano text, in which a
  whole second sorts after its fractions, and `TextKey` gives that order.
* A flush that stores several points is several `StorePoint` steps: the
  scheduler may look in between, which only adds behaviours. Points are never
  deleted. A manual rebuild uses the scheduler's radius.
* A call the visit scheduler makes after its context is cancelled may still
  succeed, as one that had already begun does.
* The pragmas are run once, on one connection of the pool. `synchronous = NORMAL`
  and enforced foreign keys are therefore possible, not certain: a power loss
  may or may not take back commits, and an administrator's device for a missing
  user may or may not be refused.
* Session tokens and API keys are random in the code and fresh numbers here; a
  key is identified with its hash. Clients present only what they were given.
  Requests may be refused for no reason, which stands for parsing, CSRF,
  passwords and rate limits. Which users are administrators is a CONSTANT. The
  user with id 1 that `CreateDevice` inserts when it is missing has been created
  by `cmd/migrate`. Legacy plaintext keys are those of devices not yet `settled`.
* The rate limiter's calls wait for the mutex at most `MaxDelay`, which is at
  most a window: the code holds it for one map access or one sweep of the map.
  Limits of zero, which switch the limiter off, are left out.
* A statement on the points table reads one snapshot (WAL) and is one step. A
  request of `PointReads` holds its defaults already; a malformed one is answered
  400 and reads nothing. The rows of GeoJSON and GPX are left out, and the first
  of them fits the 16 KiB writer. The caps of the code (1000, 5000, 20000, 500)
  are CONSTANTS in the same order.
* Of a migration file `Migrator` keeps what makes it fail or succeed a second
  time: it creates what is missing, adds columns (and fills and indexes them), or
  rebuilds a table. Each `runSQL` is a `sqlite3` process of its own, so a
  `busy_timeout` ends with the process that set it and a locked database is an
  error for all but the first.
* The hash of a point covers the raw payload alone, and a point has one device
  here: the same payload sent by two devices, of which the code stores the first,
  is left out.
* `ensureDevice` inserts a device, with a sentinel key, when a record names one
  that its user does not have. A handler appends under the name of a device it
  has just read, and no call deletes or renames a device, so this is left out.
* In `Server`, authentication and parsing happen before a handler changes any state. A
  request that reaches the spool carries at least one point.

## Runs

| Run | Bounds | Shows |
|---|---|---|
| `Spool` | mode always, 3 sequence numbers, 1 restart, 1 power loss, 1 failing call of any kind | Replay returns everything owed (`ReplayComplete`), in order (`ReplayAscending`); segment names bound their records; rolled segments are synced; the checkpoint never moves back |
| `Buffer` | 7 records, limits 4 points and 8 bytes, batch of 2 | FIFO across requeues, overshoot by at most one batch, the byte counter agrees and recovers |
| `Ingest` | 1 handler, 2 requests, 3 sequence numbers, 1 crash or power loss, 1 failing write, store, checkpoint or remove call, shutdown timeouts | A crash loses nothing acknowledged while numbers are unique and the power holds (`AckedRecoverable`); recovery hands over all of it; when recovery may give up; a clean shutdown leaves the memory empty, SQLite complete and the checkpoint past what was acknowledged (`GracefulDrain`); the pipeline refines `IngestQueue` (`ImplementsQueue`); a process that has stalled stays stalled (`StallLasts`) |
| `IngestConcurrent` | 2 handlers, 2 requests, 1 crash or orderly restart, 1 failing store or checkpoint call, fair | The running process drops nothing acknowledged (`AckedHeld`); what is acknowledged, or taken back by recovery, is stored (`AckedEventuallyStored`) and the oldest record leaves memory (`QueueProgress`), unless the process stalls over a torn checkpoint or a number used twice; a shutdown ends even then (`ShutdownEnds`) |
| `Visits` | 2 devices in batches of 1, 3 points in any order of arrival, lookback 3, 1 manual rebuild, 1 failing call, 1 restart | No visit starts twice, each is backed by points, a device whose watermark is at its last point has exactly the visits of its points but for late ones (`CaughtUp`), visits overlap only where a window began inside one (`OverlapOnlyAtCut`), round robin serves all |
| `RateLimiter` | 2 clients, 2 calls at a time, limit 2, window 2, wait of at most 1, cleanup at 2 entries, 5 ticks | `SlidingBound`: the last of any 2 * limit requests let in comes a window, less the wait, after the first |
| `Accounts` | 2 requests at a time, an administrator and a user, 1 device, 3 secrets, 2 openings of the store, sessions that expire, 1 failing call | `CredentialsFresh`: no request passes with a session or key that had ended before it began; `KeyShown`: the valid key of a device was returned to someone; `ReplacedStaysReplaced`: a replaced key is valid again only by a backfill that had read it before |
| `PointReads` | 2 users with a device each, 4 points on whole and half seconds in any order, pages of 1 and 2, caps 2, 3 and 4 | Which points a listing may miss (`ListingComplete`) or repeat (`ListingOnce`); simplified pages keep their ends (`SampleSpread`); nobody else's points; exports are whole, or truncated by the limit, or marked (`ExportWhole`), and in order to the second but for the first row (`ExportOrdered`); the recent points are the newest (`RecentNewest`) |
| `Migrator` | 2 migrators, 5 files (one of each sort), every prefix applied and every unrecorded column present or not, 1 failing statement, 1 crash, fair | A recorded version is complete (`RecordedApplied`), versions are recorded in order, a successful `Apply` means all of them, columns are left unfilled only where they all were there before, migrators end where there were none such (`Converges`) |
| `SpoolTornCheckpoint` | violation | A crash inside `AdvanceCheckpoint` leaves an empty checkpoint file, which no later start accepts |
| `RestartLosesAcked` | violation | Numbers restart at 1 below the checkpoint: an acknowledged record is not replayed |
| `CheckpointPassesRecord` | violation | The checkpoint passes an acknowledged record that is only in memory |

The runs check one type invariant, `ServerTypeOK`, which holds those of the
spool and the store. It is a theorem too, and so are those of the spool, the
accounts, the limiter, the migrator, the scheduler and the reads.

Three sequence numbers make a segment roll, a compaction of one segment beside
a live one, and a batch that is split by a crash happen; one restart is enough
for every reuse of a name or a number; one failing call can hit any call and is
followed by its retry. In `Ingest` the buffer holds two points and a batch is
two, so that a full buffer, a refused chunk, an overshoot by requeue and a
remainder below a batch all occur. In `Visits` three points make a visit and
its end by a point elsewhere, or come late; two of their times are in the reverse
order as text; the lookback is shorter than the longest stay, so that windows
begin inside visits; the manual window begins at the first point; two devices in
batches of one make the round robin wrap around and the list grow under it. There
the deadlock check is off: a stopped scheduler with all bounds used up rests. It is
off in `PointReads` and `Migrator` for the same reason: a read, or every migrator,
is over. In `PointReads` four points fill three pages and pass every cap by one. In
`Migrator` the five files stand for those of `migrations/`, which are of the same
sorts in the same order; a fault, a crash and a second migrator can come together. In `Accounts` three secrets
are a session, a key and its rotation, or two sessions and a key; two openings are
the server's own and one of `cmd/migrate` beside it. In
`RateLimiter` five ticks hold two whole windows and the cleanup of the first.
The balanced and low-wear modes of the spool are covered by the theorems, and
low-wear by the runs of `Server`.

Fairness (`FairSpec`): goroutines that can run do run (weak fairness of each
handler, the flusher and `main`), the ticker keeps firing, and, because Go's
`select` picks at random among the ready cases, the closed stop channel is not
passed over forever (strong fairness). Requests, signals, crashes and failing
calls need not happen, and of failing calls there are finitely many: a disk or a
database that fails for ever stores nothing.

This does not make the pipeline live in every case, and the properties name the two
exceptions. `Stalled` is the state in which the flusher gets no further: the
checkpoint file is torn (`CheckpointTorn`), which `AdvanceCheckpoint` refuses to read
before it would write it anew, although `flusher.go` requeues the batch "so normal
runtime can retry checkpoint progression"; or a record of the next batch has a
sequence number that another row, or another record of the batch, has
(`NumberTaken`), which only happens after a restart has begun at 1 again, and which
`UNIQUE (seq)` answers with an error at every retry, the final flush of a shutdown
included. `AckedEventuallyStored` and `QueueProgress` hold of every fair behaviour
that does not stay stalled. Both stalls are within the bounds of the runs, and
`StallLasts` says what a stall is: for good, until the process ends. `ShutdownEnds`
has no exception. `RestartLosesAcked` and `SpoolTornCheckpoint` show what the two
causes, the numbers that restart and the file that is truncated first, do to the
process that comes after.

In `IngestConcurrent` requests carry one point each (`SentPoints`), which keeps the
liveness check small; a batch of two then takes the records of two requests.

In `Migrator` each migrator's steps are weakly fair, and so
is running it again after a failure: `compose.yaml` restarts the container
(`restart: unless-stopped`) and `scripts/docker-entrypoint.sh` begins with the
migrator.

Further observations. `RequeueFront`
may take the buffer past its "hard limits" (`buffer/manager.go`), by at most one
batch (`OvershootBounded`). Recovery ends with a remainder below one batch still
in memory, and gives up on a chunk that is larger than the buffer at every start
(`RecoveryGivesUp` names this case); `PROJECT_LOG.md` promises that records are
"durably flushed before new ingest arrives". A failing user lookup ends the session
of the request it happens in (`UserRead`). When a rotated key cannot be read
back, the old key is gone and the new one known to nobody (`lost`); the user has
to rotate again.

A write that fails halfway leaves part of a line in a segment that later appends
continue, and no replay gets past it: the replay properties are those of a spool that
decodes (`Replayable`). A power loss can take back SQLite commits that the fsynced
checkpoint has passed (`synchronous = NORMAL`), and with them acknowledged points that
no replay returns: `AckedRecoverable` is stated for as long as the power holds, and,
for the reason `RestartLosesAcked` shows, no number was used twice. The near-duplicate
filter keeps its state by the name of the device, which devices of two users may
share: a point of one is then suppressed for a near one of the other, while
`PROJECT_LOG.md` line 412 has "near-duplicates from the same device" (two
of the devices of `MCBuffer` have one name). A stay
longer than the lookback is stored as several overlapping visits. The cursor of
the point list is a sequence number on pages ordered by time: a point whose number
and time disagree in order can be skipped or returned twice. A simplified page of
the default size 5000 never carries a `next_cursor`, because `ListPoints` reads at
most 5000 rows and the handler asks for one more; `PROJECT_LOG.md` line 4378 says
"Maintained cursor pagination behavior with `next_cursor`". An export may hold one
row more than its limit, when a point is stored between its probe and its stream.
The limit of the recent points applies before other users' points are dropped, so
a user may get fewer than there are. Two migrators on a database that holds columns
of unrecorded versions may fail each other for ever, each finding the lock held by
the other's doomed script; `Converges` leaves these databases out. A rotation that
comes between the read and the write of another process's backfill is undone: the
old key is valid again and the new one is not (`PROJECT_LOG.md` line 3749: "old key
is invalid after rotation").

## Proofs

`SpoolBufferProofs` proves about the spool, for every number of callers, every fsync
mode, every set of failing calls and every bound, from `IngestAssumption` and
`SpoolAssumption`:

* `SpoolTypeCorrect`: `SpoolSpec => []SpoolTypeOK`. The part that needs an
  argument is that the active segment exists: compaction spares it.
* `SpoolReplays`: `SpoolSpec => []ReplayComplete`.
* `SpoolNamesBound`: `SpoolSpec => []SegmentNameBounds`.
* `SpoolCheckpointMonotone`: the checkpoint never moves back.
* `SpoolReplaysAscending`: `SpoolSpec => []ReplayAscending`.
* `SpoolSealsSynced`: `SpoolSpec => []SealedSegmentsSynced`.

None is inductive alone. `SpoolInv` adds to the type invariant that no call is
in progress while the mutex is free (`CallIdle`); that the value a checkpoint
write is about to store is ahead of the stored one (`TargetAhead`), without
which the two-step write could move it back; that the active segment's name is
at most `nextSeq` (`ActiveBehind`), without which a write could put an old
number under a new name; and that every record returned or written by the
running append is in some segment or behind the checkpoint, synced where the
mode promises it (`Kept`). The order of the log needs `LogInv`: no line is past
the largest number handed out (`LinesBelow`), `nextSeq` is at most one past it
(`NextBehind`), and while it is past all lines the active segment is the last one
(`ActiveLast`); a restart or a failed sync puts it behind, and the next line then
uses a number twice.
`SyncInv` says that whatever is not synced is in the active segment and known to
be so, which is what a rollover relies on.

The same module proves about the buffer, from the assumptions of `Ingest` and `Buffer`: `BufferFifo`
(`FifoAcrossRequeue`), `BufferOvershoot` (`OvershootBounded`) and `BufferBytes`
(`BytesRecover`). The inductive invariant `BufferInv` adds to the first two the
types, that `totalPoints` is the length of the queue, and that a batch is no longer
than `FlushBatchSize`. The byte limit needs `RestFits`: also between two batches,
what is behind the next batch to be drained fits the limit, because a requeue only
ever adds one batch in front of a queue that did. This part begins with what these
proofs and those of the server need of sums over a queue and of the
near-duplicate filter. The library's induction takes an operator as its parameter,
which no installed prover instantiates; the lemmas go by the set of positions
that a property has reached instead (`Climb`: a set that holds 0 and with each
position the next one holds all), and that is enough for definitions that are
recursive functions over the positions of one sequence.

`ServerProofs`, from the assumptions of the composed modules, for every number of
handlers, requests, limits, faults and restarts, and without any hypothesis:

* `PipelineImplementsQueue`: `Spec => ImplementsQueue`, the refinement of
  `IngestQueue` by `Server`. Each kind of step is simulated by one abstract step or
  a stutter: an enqueue by `Accept`, the insert by `Keep`, the end of a pass by
  `Settle`, a requeue by nothing, since `batch \o queue` stays as it is. `QueueInv`
  is what that needs beside the types (`Typed`): from its insert to the end of its
  pass a batch is in SQLite but for its markers (`Flushed`), without which `Settle`
  could drop an unstored record, and the database a power loss falls back to is
  behind the committed one (`Lags`).
* `ServerKeepsLog` and `ServerCheckpointMonotone`: the spool's promises hold of the
  spool as the server uses it. Every step of `Server` is a step of `SpoolNext` or a
  failed insert (`SpoolMoves`), so `SpoolBufferProofs` applies; for that the flusher must
  advance the checkpoint to a number that was handed out, which `Numbered` keeps of
  every record in memory. `LogOK` is the conjunction, with the type of the replayed
  list (`ReplaySound`: it is made of lines of the segments).
* `AcknowledgedIsHeld`: `Spec => []AckedHeld`. A record in memory may be a marker,
  and then the point that stands for it must not be lost before it: `MemoryBacked`
  says that this point is stored, or pending as a plain record no later than the
  marker, and `LastBacked` says it of the points new ones will be compared with.
  `InFlight` is where the points of a request are until it is answered.
* `ServerTypeCorrect`: `Spec => []ServerTypeOK`.
* `SequencesStayUnique`: until the spool hands out a number twice, no transaction
  runs into `UNIQUE (seq)`, which no conflict clause covers and which would fail the
  same batch at every retry. `GivenInv`: a number stands for one point wherever it
  is found, in the segments, the append in progress, the handlers, the replayed
  list, the buffer, the batch and the table (`GivenOnce`), and no row has a number
  that was not handed out (`RowsInLog`).
* `RecoveryGivesUpRightly`: `Spec => []RecoveryGivesUp`. `RecoveryInv`: nothing runs
  beside recovery (`Between`), a flush fails there only on a failing call or a
  number used twice (`NotFailed`, by `SequencesStayUnique`), and until the last
  chunk the queue is a whole number of batches (`Whole`), so that the pass before a
  retry, which stops at less than a batch, leaves the buffer empty.

`DurabilityProofs`, from the same assumptions, is about what a crash leaves of the
acknowledged points, and what a shutdown does:

* `AckedIsRecoverable`: `Spec /\ [][EnqueuedInOrder]_vars => []AckedRecoverable`.
* `RecoveryHoldsAcked`: `Spec /\ [][EnqueuedInOrder]_vars => []RecoveredHeld`.
* `ShutdownDrains`: `Spec => []GracefulDrain`, in whatever order requests enqueue.
  `DrainInv` (in `ServerProofs`): the stop pass comes last (`StopsLast`), after a
  clean `Shutdown` no handler is in progress that could enqueue behind it
  (`QuietAfter`), and when it ends without an error the queue is empty for good
  (`Drained`). `WaitsInv` has the checkpoint: a record that was enqueued is in the
  queue or in the batch until the checkpoint has passed it (`ToCheckpoint`), from
  before its request is answered (`EnqueuedWaits`, `AnsweredWaits`), and a batch
  comes to compaction only with the checkpoint behind all its numbers
  (`CommittedBatch`). With the memory empty the checkpoint has passed them all.

`EnqueuedInOrder` says that a request enqueues its records only when no other request
has older ones still to enqueue. Nothing in the code sees to that:
`appendAndEnqueue` takes the lock of the spool and then that of the buffer, and
`CheckpointPassesRecord` is the run that shows what follows. So the theorems say
that, on a spool that decodes, this order, a sequence number handed out twice and a
power loss are the only things that can lose an acknowledged point, for any number of
handlers, whatever call fails and wherever the process is killed. The invariant has
two parts. `Ground` holds always: the checkpoint is below the highest number handed
out, a checkpoint write under way stores the last number of the batch, a process
starts with nothing under way and serves only after replay. `DurableInv` adds, while
neither a number was reused nor the power failed (`Sound`):

* `Order`: records wait in the order of their numbers, in the batch and the queue
  behind it, in what is left to replay, in what a request has appended and not yet
  enqueued, and each of these behind the one before;
* `Backed`: the points that are owed a row are safe in SQLite or on a line of the
  spool past the checkpoint. The checkpoint write needs `Order` here: a line past
  the old checkpoint and not past the new one is no later than the batch, so it is
  in the batch and thus stored;
* `AckedFiled`: what was acknowledged is owed, so that `ReplayExact` (a replay returns
  exactly the lines past the checkpoint, in rising order) makes it recoverable;
* `AckedWaits`: from the replay on it is in what is left to replay, in memory or in
  SQLite, which at the end of recovery is `RecoveredHeld`.

`AccountsProofs`, from `AccountsAssumption`, for any number of requests, users,
devices, openings of the store and failing calls: `AccountsTyped` (`TypeOK`),
`CredentialsAreFresh` (`CredentialsFresh`), `ValidKeysAreReturned` (`KeyShown`) and
`ReplacedKeysStayReplaced` (`ReplacedStaysReplaced`). `Inv` adds that a key the
backfill has read is that of its row or known as unsettled (`Pending`), that no two
devices share a key or will once the backfill has written (`KeysApart`), that every
valid key and every key about to be written back was returned (`KeysReturned`), and
what is known of a request from how far it has come (`ReqOK`): a credential that
had ended when the request began has not come back.

`RateLimiterProofs`, from `LimiterAssumption` alone: `LimiterTypeCorrect` and
`LimiterSlidingBound` (`SlidingBound`), for every limit, window, set of clients,
number of calls and cleanup threshold. `LimiterInv` adds to them that stamps are
at most `MaxDelay` behind the clock (`StampsRecent`) and, for each client
(`ClientInv`), that its history is in order, that the requests of the open window
are the last of the history and the limit-th before them came a window earlier
(`WindowFits`), and that an entry which is missing was cleaned up two windows
after its start (`LongBefore`). The last part is where stale stamps matter: a
new window after a cleanup may start `MaxDelay` in the past, which the second
window of the cleanup's threshold makes up for.

`MigratorProofs`, from `MigratorAssumption`: `MigratorTypeCorrect`,
`MigratorRecordsApplied`, `MigratorRecordsInOrder`, `MigratorDoneMeansAll` and
`MigratorFills`, for any number of migrators, any files, failures and crashes.
`MigratorInv` adds that nobody changes the database under an open transaction
(`Isolated`: a script that is about to commit was checked against the database as
it still is), that what a migrator read as applied is still recorded, that all
versions before the one it is at are recorded and that what it is about to record
by hand is there (`InTurn`), and that columns no script filled are those of the
beginning (`Unfilled`).

`VisitsProofs`, from `VisitsAssumption`, `SchedulerAssumption` and `NilAssumption`,
for any devices and points in any order of arrival, every batch size, lookback,
radius and dwell, any windows of manual rebuilds, failing calls and restarts:
`SchedulerTypeCorrect` (`TypeOK`), `StartsStayUnique` (`VisitStartsUnique`),
`VisitsAreBacked` (`VisitsBacked`), `WatermarkCatchesUp` (`CaughtUp`),
`OverlapsOnlyAtCuts` (`OverlapOnlyAtCut`) and `EveryoneInTurn` (`ServedInTurn`).
`VisitsInv` is a conjunction of two invariants. `RowsInv` says of the run in progress
(`ProcessOK`) that the window was computed from a watermark behind a stored point,
that what the detector found is a chain of visits backed by the points of that window
(`FoundOK`) and, if all points of the device lie within one lookback and the largest
number is still the one the run saw, that it is the detection of all points but the
late ones; after the rewrite, that the rows of the table are just these. `ManualOK`
is the same of a manual rebuild, `Marked` is what a watermark that has been written
stands for, and `CutsOK` that between two overlapping rows there is a cut. `TurnsOK`
is the round robin: the runs that passed a device over, times the batch size, plus the
devices between the start of the next batch and it, are fewer than there are devices;
a device that is added goes to the end and keeps the sum. The detector reads a sorted
query: the module shows that a finite set can be enumerated in any strict order and
goes over the positions with `Climb`. `RewriteJoins` has the transaction: rows that
start outside the window stay, in their order, and those found follow, so that starts
stay apart although two rewrites may have read different points.

`PointReadsProofs`, from `PointReadsAssumption` and `NilAssumption`, for any users,
devices, points, requests, page sizes and caps: `PointReadsTypeCorrect` (`TypeOK`),
`ListingMissesKnowingly` (`ListingComplete`), `ListingRepeatsNothing`
(`ListingOnce`), `SamplesSpread` (`SampleSpread`), `ReadersSeeTheirOwn`
(`OwnPointsOnly`), `ExportsAreWhole` (`ExportWhole`), `ExportsAreOrdered`
(`ExportOrdered`) and `RecentAreNewest` (`RecentNewest`). `ReadsInv` adds to three of
them that every page holds rows asked for, each once, and what was answered for it
(`PagesOK`); that the cursor is past the ends of the pages so far (`CursorOK`); that
each wanted row of the beginning is on a page, passed
over, or still ahead of the cursor (`Ahead`), which is `ListingComplete` before the
end; and that the probed row was the first of those asked for (`ProbedOK`). `SampleSpread` is arithmetic: the step of the thinning rounds down
multiples of one fraction, so that gaps differ by at most one.

Two properties of the visits were first stated too strongly, which TLC's instance did
not show and the attempt to prove them did. `CaughtUp` compared the extent of a
device's points with the lookback by the clock, while the query's window compares
text, where a fraction comes before its second: a point half a second inside the
lookback can be outside the window. `WithinLookback` now compares every two points as
the query does. `OverlapOnlyAtCut` ordered rows by the clock too; in text order, which
is the one the detector reads points in, it holds.

Only model-checked is liveness, which is out of the prover's reach:
`AckedEventuallyStored`, `ShutdownEnds`, `QueueProgress` and `Converges`. Of the safety
properties `StallLasts` has no proof.

## Plan

The modules, runs and theorems planned are there.

## Not modelled

Reverse geocoding: a cache of labels in front of a network provider, filled while
visits are listed; nothing depends on a label. Status, health, UI, assets and
security headers: formatting of counters and files, without state. Configuration:
read once, its values are the CONSTANTS. Parsers and hashing: pure conversions of
a request body before any state changes; a point is identified with its hash.
Passwords, CSRF tokens and cookie attributes: they refuse requests, which the
models allow at any time. Shell scripts, unit files and container files: outside
the program, except that they justify the migrator's reruns.
