# A verification development for cpa-usage-plugin

TLA+ specifications of the usage statistics plugin (`go/`, package `main`), model-checked with TLC on small
instances and, for nine components, proved with TLAPS for every value of the constants. All paths below are
relative to the repository (`src/` in `PROJECT.json`).

Contents: [the system](#the-system), [the modules](#the-modules), [the runs](#the-runs), [the
proofs](#the-proofs), [what the checks found](#what-the-checks-found), [what is not
modelled](#what-is-not-modelled), [plan](#plan).

## The system

The plugin is loaded into the CPA host process as a shared library. The host calls it for every request
(`usage.handle`), for request metadata and for management pages; the plugin keeps a ledger of requests in
memory, persists it to a directory and answers the dashboard.

| Component | State | Operations | Hard behaviour |
|---|---|---|---|
| Lifecycle (`main.go`, `register.go`) | `pluginLifecycle.stopped`, the global services | register, reconfigure, quiesce, shutdown under the write lock; every other call under the read lock | a retired image stays mapped; rollback reconfigures it; late calls |
| Statistics ledger (`stats.go`, `accounting*.go`) | per API and model: visible details, archived records, some thirty counters | record, import, trim, prune, repair | counters must equal the records they summarise; deduplication under three identities |
| Storage (`stats.go` 675-1784, 2900-3600, `storage_*.go`) | queue, writer goroutine with its buffered shard, `snapshot.json`, day shards, directory lock | enqueue, append, roll over, flush, sync, snapshot, compact, configure, close, load and replay | callers against the writer against the controller, midnight, failing file operations, crash, power loss |
| Accounting blocks (`accounting_blocks.go`, `range_cache.go`) | blocks of rows, their shared flags, the range aggregates of groups of rows | append, rewrite, remove, prune, freeze | readers without the lock; in-place pruning under iteration; stale aggregates |
| Export jobs (`dashboard_export_jobs.go`, `usage_export_jobs.go`) | the registry of jobs, their goroutines, contexts and files | create, list, get, delete, expire, close | deletion or shutdown at any point of the goroutine; two locks; limits |
| Request metadata (`request_metadata.go`) | execution intervals by credential and request | observe, complete, enrich, expire | ambiguity, late reports, the bound on observations |
| Protocol fallback (`protocol_fallback.go`, `response_intercept.go`) | fallback records and their evidence | reconcile in the ledger, in backups, in shards | native and fallback records in either order; the interceptor itself is dormant (`usageFallbacks` is nil at run time) |
| Quota cycles (`quota_*.go`) | windows with current and previous period, samples, facts, tombstones | observe, revoke, reset, import, prune | observations that arrive late, resets |
| Queries and caches (`stats.go`, `event_index.go`, `range_*.go`, `dashboard.go`) | event lists, shared references, the log of changes, pages, ranged summaries, aggregate cache | queries that fill them, changes of the details that drop or repair them | rows that move in their array, late records, a list that is repaired instead of rebuilt |
| Prices and exchange rate (`stats.go` 3600-4800) | manual, remote and timed prices, workers | refresh, save, delete, reconfigure | fetches without the lock |
| SQLite ledger (`sqlite_*.go`) | a later storage engine: staged files, projection, catalog, records with derived state and cursors, backups | stage, project, catalog, apply, page, back up, restore | resumed and competing attempts, stale cursors, lost replies, damaged bytes; not called at run time yet |
| Repairs (`attribution_repair.go`, `claude_cache_repair.go`, `model_alias.go`), masking (`source.go`), routes (`management.go`), page (`dashboard/*.js`) | none of their own | | |

How they interact. `Record` changes the ledger under the statistics lock `s.mu` and hands the record to the
storage queue after releasing it. The writer goroutine takes batches from the queue and captures the ledger
under `s.mu` for its snapshots; the capture copies slice headers, so that the file is written without the lock
while the blocks go on changing. `ConfigurePatch` and `Close` (serialised by `configMu`) stop the writer,
save, release the directory, load and replay. Export jobs capture the ledger in the same way, from goroutines
that shutdown cancels and waits for. The lifecycle lock keeps calls from a stopped plugin.

What makes each component correct: nothing that was durable is lost and nothing is counted twice (storage); a
limit is a limit for the goroutines too, an outcome is final, no file is left behind and everything ends
(exports); a frozen view does not change and an aggregate is never stale (blocks); a report is completed only
with what is true of its own execution (request metadata); the counters are what the records add up to and a
request counts once in whatever form it comes back (ledger); quota periods are disjoint and resets and
revocations hold (quota); the catalog and its tag belong to the settings, costs are current, one time rule
applies (prices); every query answers what a search of the history would (queries); a projection means its
file, a catalog counts its records once, a batch is applied once, a page is complete (SQLite).

## The modules

**`UsageStorage.tla`** models `Record`, import, the queue (`enqueueStorageDetail`), the writer
(`storageWorkerLoop`, `appendBatch`, `open`, `flush`, `sync`, `writeSnapshot`, `close`), the controller
(`ConfigurePatch`, `stopStorageWorker`, `closeStorageLocked`, `configureStorageLocked`, `Close`) and the world
around them (midnight, a failing file operation, a crash, power loss, a damaged snapshot). One action is one
critical section or one file operation:

| Code | Actions |
|---|---|
| `Record`, `mergeSnapshotLocked` | `Record`, `Import` (count under `s.mu`), then `Admit`, `Send` or `GiveUp` |
| `storageWorkerLoop` | `Take`, `SnapshotDue`, `Drained` |
| `appendBatch`, `open` | `Rollover`, `OpenShard`, `OpenFails`, `AppendBuffered`, `AppendSpills`, `AppendFails`, `AppendRefused` |
| `flush`, `sync`, `closeFile` | `Flush`, `FlushFails`, `Sync`, `CloseFile` (part of `Rollover` and `Drained`) |
| `writeSnapshot` | `Capture`, `Rename` or `SnapshotFails`, `Compact` |
| `ConfigurePatch`, `Close` | `BeginConfigure`, `BeginClose`, `WorkerStopped`, `FinalSnapshot` or `NoFinalSnapshot`, `Release`, `Load` or `LoadRefused` |

A shard is the set of complete lines in it (`os`), the part of them that survives power loss (`synced`) and
whether it ends in the middle of a line (`torn`). The buffered writer is a sequence of lines and a flag
`sticky`: `bufio.Writer` returns its first error for ever. The ledger is how often each request is counted.
`ConfigurePatch` runs under the lifecycle's write lock in the plugin, but the repository tests it against
concurrent recording (`review_regression_test.go:487`), so the model allows any interleaving. Timers are
choices: a flush, sync or snapshot may be due whenever there is something to do. Assumed: the clock does not
run backwards, retention is off (a counted request stays counted), a rename that returned survives power loss,
one process owns the directory.

**`DurableLedger.tla`** is what storage promises, without queue, writer or files: requests are accepted,
become durable, become safe, and come back when the directory is attached again.
`UsageStorage!ImplementsLedger` is the refinement, with the mapping in `Abstract`.

**`ExportJobs.tla`** models the job manager and each job's goroutine with a program counter (`Start`, `Check`,
`Open`, `Capture`, `Encode`, `Hash`, `Publish`, `Summarise`, `Fail`, `Cleanup`, `Leave`). The manager's mutex
is held across an action, and across actions only where the code does so: between `Publish` and `Summarise` an
event export waits for the statistics lock with the mutex held. `held` is that lock when a long import or
snapshot has it.

**`AccountingBlocks.tla`** models the archived records of one model: the blocks, the heap of arrays behind
them, the `shared` flags, the range aggregates' validity and end, and readers with frozen headers. A row is a
model value for its content and timestamp. An operation is an operator on the structure (`Put`, `AppendRow`,
`RemoveRow`, `Truncate`, `PruneRows`, `Freeze`, `Prepare`), translated with the code's order of effects:
`PruneRows` reads through the slice header taken at the start of a block while it overwrites rows, as `for r
:= range m.accounting.records()` does. **`FrozenLedger.tla`** is what it promises: a sequence, and copies
nobody changes.

**`RequestMetadata.tla`** models the cache of execution intervals together with the host whose executions it
observes: `Begin` is an execution and its callback (`observe`, with `Skip`, `Suspend` and `Store` for its
three ways out), `Complete` is `request.complete`, `End` and `Tick` are the host's and the clock's, `Report`
the effect of `enrich` on the cache. Every call starts with `cleanupLocked` (`CleanKept`, `CleanUnsafe`,
`Cleanup`). What `enrich` would answer is not an action but a family of operators on the state (`Accepted`,
`Candidates`, `Agreed`, `Truthful`), so that the properties speak of every report that could be delivered now,
not only of those delivered. Assumed of the host: the attempts of one request follow one another, the
reporters of an attempt are created between its beginning and its end, before the tick in which the next
attempt begins, and a completion carries a time not before the last attempt's end. Credential, model and alias
are one *group*: the code lets an empty index or alias match any, which only adds candidates.

**`UsageLedger.tla`** models the records of one model behind the counters: `RecordUsage`, `Export`, `Query`,
`SaveSnapshot`, `Begin`, `Stop`, `ImportFile`, `Configure`, `Reopen`, each with the whole of what the code
does under the statistics lock, including deduplication by identity, retention and trimming, the historical
repairs (`claude_cache_repair.go`, `attribution_repair.go`), the reconciliation of fallbacks
(`protocol_fallback.go`) and the facts and tombstones of quota accounting (`quota_storage.go`). An item is one
record as first written; constants say whether an earlier version wrote it (`Earlier`, without an id), counted
its cache creation twice (`Doubled`), cut it from the details it saved (`Truncated`), whose fallback it is
(`NativeOf`) or whose migrated copy (`CopyOf`). The ghost `cut` is what is counted without details. Operations
are more than a minute apart, so that the throttle of pruning (`NextPrune`) never defers it. A record that was
counted without details cannot be recognised when its journal row returns (`stats.go:3286` documents this
boundary), so that `EachCountedOnce` does not ask for completeness while such a residue exists. `Begin` is the
first `ConfigurePatch` of a process and `Stop` its end without a final snapshot; in between time may pass, but
nothing is accounted, so that a process that restores a snapshot has no facts of its own. Facts are demanded
only of the records of the open quota period (`FactsFollow`, `SnapshotAccepted`): those of closed periods may
be pruned and come back from a file, see the smaller observations below. Assumed of earlier versions
(`HistoryAssumption`): their files hold records without ids, doubled exactly if the item is one of `Doubled`,
no quota state, and totals that match the details and what was cut; nothing is assumed of which items two
files share, or how often one does.

**`QuotaWindows.tla`** models one quota window of one credential (`quota_cycles.go`, `quota_storage.go`):
`Observe` takes an observation or a revocation in any order, `Housekeep` prunes, `SaveWindows`, `Restart`,
`Download` and `ImportBackup` take it through journal, snapshot and backup. A period has its samples, an
archive has its end and its cause; `Compact` is the choice of the samples that are kept, `Effective` the
period as it is shown after the latest reset. The loops over samples and over the journal are recursive
functions. `LiveWindowLoads` bounds the span of a period that ran out by the length of the window, not that of
an archive: see the smaller observations below.

**`PriceBook.tla`** models the prices (`stats.go` 3842-4836): the models.dev worker (`Ask`, `Answer`,
`Publish`, `Wake`, `FetcherEnds`) against settings that change while it fetches without the lock
(`BeginSettings`, `ApplySettings`), the manual table with its file and legacy path (`SetPath`, `EditPrice`,
`Recover`, `PriceRestart`), the overlap check and the matching of time rules, and the tables the costs were
last computed from.

**`DetailViews.tla`** models the visible details of one model and what the dashboard derives from them
(`event_index.go`, `range_cache.go`, `range_summary.go`, `range_api_detail.go`, `accounting.go`, `stats.go`
5231-5340 and 6804-8609). The details are rows of an array that advances when old ones are archived (`Trim`),
takes back its cleared front or grows (`AppendDetail`), is compacted, pruned, and takes a late request in the
middle. References follow the rows (`Rebind`, `Astray` when the array is replaced); event lists hold
references and numbers, and a log of changes is merged into them at the next query (`QueueEvent`,
`ApplyUpdates`); blocks of positions keep sums while their bounds are unchanged (`PrepareBlock`, `KeepSums`).
Actions: `RecordRequest`, `EnrichRequest`, `RemoveRequest`, `ReconcileRequest`, `ChangePrices`, `ChangeLimit`,
`ViewTick`, and the queries `ShowEvents`, `ShowSummary`, `ShowDetail`. Their answers are operators on the
state (`AnswerEvents`, `AnswerSummary`, `AnswerDetail`), so that `EventsCurrent` and `RangesCurrent` speak of
every query that could be asked now; the reference is the ghost `arrivals`, every request in order of arrival,
filtered and sorted (the tests' own `expectedVisibleEvents`, `performance_contract_test.go:195`). What the
byte budgets admit is arbitrary. Go's growth of a slice is taken as doubling; a tick is one bucket of ranged
responses.

**`LegacyMigration.tla`** models the way of a legacy `snapshot.json` into SQLite: `BeginStage`, `StageBatch`,
`FinishStage` copy the file in units; `BeginProject`, `ProjectBatch`, `FinishProject` apply its scan to a tree
with Go's rules for duplicate members, null and reused elements; `BeginCatalog`, `CatalogBatch`,
`FinishCatalog` walk the tree into accounting groups with the totals that no detail explains. Each batch
commits its cursor with its rows. The old writer may overwrite the file (`LegacyWrite`); a staged unit may
read damaged and be repaired (`SpoilUnit`, `HealUnit`: the scenario of
`sqlite_migration_projection_failure_test.go:48`). The reference is `Decode`, what `encoding/json` makes of
the same document, which is recursive; nothing is proved about this module.

**`SqliteLedger.tla`** models the database: `ResumeImport` and `Amend` prepare a batch from what a caller has
read, `ApplyBatch` commits it with derived state and cursor if its expectations hold, `Abandon` is a cancelled
call or a lost reply; `ReadView` and `ReadPage` page through one generation; `MakeDirectory`, `VacuumInto`,
`PublishManifest`, `BackupDone`, `BackupFails` and `RestoreBackup` are the steps of a backup, `Rot` and
`ProcessDies` what may happen between them. No run-time path calls these files yet (`sqlite_ledger.go:3-5`);
the callers are those the comments and tests use: an import that resumes at the cursor, a repair by revision,
an export that joins pages. A batch names a record once, and the first row of a page always fits.

`MC*.tla` instantiate the modules for TLC; `*_proofs.tla` and `Inductions.tla` hold the proofs. Operators
whose comment begins with "Mutant:" are deviations a plausible bug would make; each property is known to fail
under at least one of them (`mutants` in `PROJECT.json`).

`MCStorageParts`, `MCExportParts`, `MCLedgerParts` and `MCRequestParts` put components that read nothing of
one another into one run: a variable `part`, chosen at the beginning and never changed, says which of them a
behaviour exercises; the others stay at one initial state. What a run shows is the sum of what separate runs
would.

## The runs

| Run | Question | Bounds |
|---|---|---|
| `storage_parts` | Is anything durable lost, counted twice, hidden, or overwritten, and does storage implement `DurableLedger`? Does a projection mean its file, and does the catalog count each record once? Is each SQLite batch applied once, and each page complete? | see below |
| `storage_live` | Does a request sent to a writer that has not failed reach the disk, after whatever failed before, and does stopping end? | as the shards of `storage_parts` |
| `storage_flush_retry` | The same of any writer, also one whose write has failed: violated | two requests, one day, one reconfiguration |
| `storage_torn_line` | Do flushed lines survive a crash? violated | three requests, one day |
| `storage_unread_shard` | Is anything durable lost when a shard cannot be read at start? violated | two requests, two days |
| `export_parts` | Limits, files, outcomes, and does every job settle and every shutdown return? Do the counters match, is a request counted once, is the next expiry known, do quota facts follow, is a snapshot accepted? | see below |
| `export_cancel_wait` | Does a cancelled export free its slot without the statistics lock? violated | two event exports, one usage export, no failures |
| `ledger_parts` | Do the blocks implement `FrozenLedger`, are aggregates right? Are quota periods valid and disjoint, do revocations and resets hold, is the own backup neutral? Does every dashboard query answer what a search of the history would? | see below |
| `quota_overlap` | Are the periods that are shown disjoint when a reset is taken back? violated | as the quota part of `ledger_parts`, other observations |
| `request_parts` | Is a report completed only with what is true of its execution, and is the right observation always there? Do catalog, tag and costs belong to the settings, does one rule apply? | see below |
| `metadata_spanning` | Without the exception for executions going on when a suspension ends: violated | as the metadata part |
| `price_unreadable` | Does an edit keep the prices of a file that could not be read? violated | two models |

The bounds of the four composed runs.

- *Shards*: two requests, two days, a queue of one, batches of up to two, one failing operation, one crash or
  power loss, two reconfigurations, one damaged snapshot.
- *Migration*: four documents (divided, shortened, emptied, replaced), batches of nine items or thirteen
  units, two attempts, one rewrite, one damaged unit, two clocks.
- *SQLite*: two callers, two files by fingerprint, three lines (two at one time, a large identity, a large
  payload), pages of two, two queries, three batches. With backups: one caller at a time, two batches, one
  directory, one file going bad. Pages of one and of three pass too when that part runs alone.
- *Jobs*: two event exports, one usage export, limits of two, one failing operation, one long import.
- *Records*: six items (one doubled, one counted without details, one keyed, a native record and its fallback,
  a copy), one visible record, retention off or two ticks, a clock of three, two moves of records by files
  (three pass too), two backups of an earlier version, one old shard.
- *Blocks*: blocks and groups of two rows, four rows, two contents, one reader.
- *Quota*: ten observations, five samples per period, one journal entry, one snapshot, one backup.
- *Views*: four requests (one without a timestamp, two of one minute), of which two are restored; limits of
  two and three; a log, a page cache and a summary cache of one; blocks of two rows; four minutes with a
  retention of two; one enrichment, removal or reconciliation; one change of prices. Either the event lists or
  the range aggregates are exercised; they share no state but the details.
- *Metadata*: two attempts of one request and a third execution of one group, room for two observations, five
  ticks, retention of one.
- *Prices*: one model, two addresses in two editions, two price files and the legacy place, days of four
  minutes, two weekdays.

Why the bounds are enough for the interesting cases. Two requests are a batch that is split between file and
buffer, one in the queue behind one in the writer, and one in the snapshot beside one in the shard; two days
are a rollover, a compaction and a hidden shard. A queue of one is full at once. One crash after one failing
operation reaches every pair of a failure and a recovery. Two limits of two with three jobs make both limits
bite, and a deleted job's goroutine compete with a new job. Four rows in blocks of two give a removal across
blocks, a truncation at and inside a block, and a growing first block (capacity one, then two). Readers do not
influence one another except through the shared flags, which one reader already sets; five arrays are more
than the ledger and the reader can reach at once. Three executions are a retry beside a rival, and the third
overflows a cache of two; in five ticks an observation is retained, accepted at the last moment, dropped at
the next, outlived while it runs, and a suspension of one tick begins and ends with executions on both sides.
Five samples are one more than a reset needs (peak, drop, confirmation and neighbour), so that compaction has
to choose. Six items are one of each way a record can come back, and two moves bring any two of them together.
In the documents a batch ends inside a group, and a rewrite shortens what was staged. Two restored rows, two
late ones and limits of two and three make the array advance, take back its front, grow and be compacted; a
late request meets a full array, one with room, and one with a cleared front; a log of one overflows at the
second request. That each of these matters was tried with deviations of the model (an expiry that is not
looked for, blocks dropped one position late, a log that is not dropped with its lists, a page that outlives
its minute): `EventsCurrent` or `RangesCurrent` fails under each of these.

`CHECK_DEADLOCK FALSE` is used where the system comes to rest or a bound ends it: the exports, where an idle
manager whose jobs are all used has nothing left to do; the records and the metadata, whose clocks stop; the
ledger's parts, where the clocks stop and all that may be recorded is; the price file, whose editions are used
up. In the storage runs a new process or a new attempt can always be started.

Fairness. Storage: a goroutine that can run does run; the `select` of the writer picks fairly among ready
cases and its flush interval is never zero, so a due flush happens; syncs and snapshots may be configured
away, so they are not assumed; nothing is assumed of callers, the controller's beginning, or the world.
Exports: every goroutine and `wg.Wait` make progress (`Fairness`), and in `export_parts` whoever holds the
statistics lock lets it go (`WF_vars(LetGo)`; imports and snapshots end); `export_cancel_wait` does not assume
that. `lockExportSnapshot` polls with `TryLock` every five milliseconds; the model lets the poll succeed
whenever the lock is free, which is weaker than what the liveness of a single poll would need on a lock that
is taken again at once, so `JobSettles` says nothing of starvation by an unbounded series of imports (their
number is bounded by `MaxHolds`).

## The proofs

Everything below is for any set of requests or jobs, any number of days, any queue capacity, batch size,
limits and budgets.

`UsageStorage_proofs.tla`
- `TypeCorrect`: `Spec => []TypeOK`, one lemma per action group.
- `NeverCountedTwice`: `Spec => []CountedOnce`. The strengthening says that a request that has not been
  recorded is not counted and not on disk, so that recording it counts once; it holds even when shards cannot
  be read.
- `StorageSafe`: the inductive invariant `StorageInvariant` of five parts. The hidden-shard and ledger rules
  alone are not inductive: a snapshot is renamed long after the view was captured, and lines are appended long
  after the day was read. `NothingUncounted` says that whatever is on its way (queue, batch, buffer, captured
  view) is counted, and that between capture and rename the view covers disk and buffer; `DaysOrdered` says
  that the day a batch or a snapshot works with is never behind the snapshot on disk; `WriterOwnsDirectory`
  says when there is a writer at all.
- `HiddenAlwaysCovered`, `LedgerAlwaysCovers`, `CloseSaves`, `NothingDurableLost` follow from it.
- `StorageImplementsLedger`: initial states map to initial states and every step to a step of `DurableLedger`
  or a stutter.
- `UnreadableUntouched`: a snapshot that cannot be read is never replaced.

All of these from `StorageSafe` on but the last assume `~ReplayMayFail`: every shard can be read at start.
That assumption is necessary, as `storage_unread_shard` shows; the first two theorems do not make it.

`DashboardParts_proofs.tla`, of the export jobs
- `StagesConsistent`: `[](TypeOK /\ StageInvariant)`, what a goroutine's position says of its job's status and
  files. `NoOrphanFiles` alone is not inductive, because a file that exists is only harmless if the goroutine
  is at a point from which it will remove it.
- `SuccessDownloadable`, `NothingLeftBehind`, `OutcomesAreFinal`, `TypeCorrect` follow from it. The type
  invariant is proved for all constants, so `export_parts` does not check it again.
- `LimitsHold`: the limits on active and stored jobs; it also needs that the sets of workers and jobs are
  finite.

and, in the same module, of the dashboard's views, for any requests, times, prices, retention, size of blocks,
visible limits, restored details and queries
- `ViewsAlwaysGood`: the inductive `ViewInvariant` of the details and what is kept of them. Its parts, and why
  each is needed:
  - `GoodRows`, `GoodArchive`: the visible rows lie in the array, and rows and archive hold each request once,
    so that a sum over blocks, loose rows and archive counts nothing twice.
  - `Keeps`: what is held is what counts, and what counts is held until it expires; `Awaited`: nothing held
    expires before the next expiry, so that a query that does not prune has nothing to prune.
  - `GoodBlock`: a kept block whose rows all lie behind the front of the array has those rows at its positions
    still, and keeps exactly their sums, at the prices of the version the cache is for. A block whose first
    rows were cleared may keep anything: its bounds differ from those the next query asks for. This is the
    part that every late insert, pruning, trim and move must maintain, and the reason why each drops the
    blocks from its position on.
  - `GoodSummaries`: a summary of this minute is what the range would answer now.
- `RangesAlwaysCurrent`: `ViewSpec => []RangesCurrent`, from the invariant: the ranges of the blocks are
  disjoint, cover the visible rows, and add up with the archive to the whole.
- The pruning of rows (`Unexpired`) and the fold that adds the counts of the blocks are by induction with
  `Inductions.tla`; what the code's loops add up is a set, so that no order of summation enters.
- Assumed: `RequestsAssumption` (times are natural, zero for none), `RestoredAssumption` (a restored list
  holds a request once), `SettingsAssumption`, `SpansAssumption` (sizes, limits and spans are numbers, a block
  has a row).

`UsageLedger_proofs.tla`, for any records, files of earlier versions, limits and retentions, and any order of
operations, repairs and restarts
- `LedgerKept`: the inductive `LedgerInv` of the statistics ledger. Its parts, and why each is needed:
  - `Balanced`: what `CountersMatch` says of a ledger, with its totals taken apart: of the visible, the
    archived and the cut records, each a sum over a sequence. The subtraction stops at zero, so that a removal
    is exact only while the counter contains what is removed; with the sums apart, the lemmas on `Total` (a
    sequence is worth as much in any order, and as what is selected from it and the rest together) show that
    pruning, sorting, trimming, retraction and the repair neither reach zero early nor change what they move.
  - `Covered`: every eligible record of the open period has a fact under its id, with its tokens, and no
    tombstone. Between loading a file and the pass of the repair, facts are repaired already and records are
    not; the invariant of the loops is weaker there (its last parameter) and `Settled` makes it strong again.
  - `Known`: the expiry is not after any record's (`ExpiryKnown`); the insertion, the pruning and the
    restoration look at every record, and a restored ledger knows nothing until the pass that follows.
  - `Acceptable` of the snapshot on disk, for a process that starts with repairs on or off: its totals match,
    its facts cover its records, and a snapshot of an earlier version, which has no facts, meets none.
  - the types `Ledgers`, `Files` and `Lines`: an execution's own id belongs to a record written so far, in the
    ledger, in every file and in every row of the journal.
  - a process that is not configured has accounted nothing.
- `LedgerCountersMatch`, `LedgerExpiryKnown`, `LedgerFactsFollow` and `LedgerSnapshotAccepted` follow from it.
- The loops (replay of rows and of shards, merge of records, repair, pruning, sorting) are recursive functions
  over their rounds. `RoundsExist` and `RoundsKeep` of `Inductions.tla` say that such a function exists and
  that what the first value has and every round keeps, the last value has.
- Assumed: `LedgerAssumption` and `HistoryAssumption` above.

`RequestParts_proofs.tla`, of the request metadata, for any executions, groups and times
- `NoFalseMatch`: `Spec => []TruthfulUnlessSpanning`, for any executions, requests, groups, bounds and times.
  The inductive `CacheInvariant` says that a cached interval contains its whole execution (`Sound`; an
  exclusive end is later than the execution's), and that an execution that is not cached began before the end
  of the suspension or ended too long ago for its reports to be accepted (`Remembered`). Hence a report's own
  execution is among its candidates, and what all candidates agree on is true of it.
- `OwnIsFound`: `Spec => []ReportFindsItsOwn`, from the same invariant.
- `TypeCorrect`: the type invariant, with the bound on observations.

and, in the same module, of the prices, for any models, rules, files and editions
- `PricesConsistent`: the inductive invariant of the price tables, whenever the statistics lock is free: a
  consistent catalog is the one of the configured URL, its flag and tag say so, every stored table passed the
  validation, and the costs are of the tables in use or known to be stale. `CatalogMatchesSettings` alone is
  not inductive: a fetch that is under way while the settings change must be known to be of the URL it asked,
  so that `Publish` can tell it from the one that is configured now.
- `CatalogBelongs`, `CostsAreCurrent`, `OnePriceApplies` follow from it.

`AccountingBlocks_proofs.tla`, for any sizes of blocks and groups, any rows and readers
- `BlocksSafe`: the inductive `BlocksInvariant`. Headers have the shape the count of rows asks for, filled
  positions hold rows, no two blocks share an array, what a truncation leaves behind the end of a private
  array is blank; every array a view holds is marked shared and the view never reaches further than what was
  written when it was taken; an aggregate that is valid sums the rows now in its group. The last is not
  inductive without the first: a stale aggregate becomes visible only when its end is reached again.
- `BlocksTyped`, `AggregatesStayCurrent` follow; `BlocksImplementSequence` maps every step to one of
  `FrozenLedger`, where a removal or a pruning is one step however many blocks it touches.
- `RemoveRow` and `PruneRows` are loops over blocks and rows. Their invariants are proved round by round: for
  pruning, that what is still to be read through the header taken at the start of the block is what was there
  before the loop (`Through`), although rows behind the cursor have been overwritten. The number of rounds is
  handled by `RoundInduction` of **`Inductions.tla`**: a set of numbers that has 0 and with each number the
  next has all of them. It is stated for a set, not an operator, and proved by the least counterexample, so
  that it can be instantiated by the provers installed.
- Assumed (`ArraysAssumption`): there are always enough array identities for a step to allocate from. The heap
  of Go is not bounded by a number of identities; the bound is the model's.

`SqliteLedger_proofs.tla`, for any callers, files, lines, directories, page sizes and limits
- `SqliteHolds`: the inductive invariant of the database and of everything that is a copy of it. `Ledger(d)`
  strengthens `Sound(d)`, which an `ApplyBatch` does not preserve by itself: ids and identities are those of
  lines the cursor has passed, revisions are those of committed batches, each row is its own line. Within a
  batch the rounds pass through states in which an identity or a payload has lost its last row and is not
  collected yet; `Pending` says which, until `Collected` removes them. A caller acts later on what it read:
  `Follows(d, e)` is what a later generation keeps of an earlier one (a row is unchanged or of a later
  revision, as is what was removed), so that what was prepared (`Prepared`, `Repairs`, `Imports`) remains true
  of the revision it names, and the expectation checked at the commit suffices.
- `LedgerAlwaysSound`: the database, a view, a published backup and a restored file are sound.
- `PagesAlwaysComplete`: what a view has joined is a prefix of the rows of its generation in their order and
  all of them at the end. The order of rows is proved total, ranks are counted with cardinalities, and the
  page behind the row of rank k begins at rank k + 1.
- Assumed: `LinesAssumption` (a line has its fingerprint, identity, time and payload), `LimitsAssumption` (a
  page holds at least one row; the code's smallest is one, `sqlite_ledger.go`), `MissingAssumption` and
  `RottenAssumption` (the model values for no row and for a damaged file are none of the others).

`QuotaWindows_proofs.tla`, for any observations, any number of them, in any order, and any drift of deadlines
- `QuotaInvariantHolds`: the inductive `QuotaInvariant`. It is not only about the live window: every window
  saved, downloaded or logged is `Sound` too, since a restart or an import brings it back. Sound periods have
  ordered samples of their window, none of them twice, and a predecessor that ran out ends before its
  successor begins (`Bound`); between the two halves of `ApplyFresh` that boundary is open (`Loose`), which
  `Aligned` repairs. `RevocationHolds` alone is not inductive either: a merge or a replay may start from a
  window that forgot the revocation. `Remembered` says that until its retention ends, the latest revocation
  taken is recalled by the live window and by the snapshot or the journal, so that a restart finds it;
  `Recalls` is what each operation preserves, whatever window it merges.
- `LiveWindowsLoad`, `BoundariesShared`, `RevocationsHold` follow from it.
- `CompactionsKeepReset`: dropping the samples of a full period does not hide the reset that was found in it.
  After n samples the top is the highest usage since the latest drop (`Searched`); the peak and the drop are
  kept, at increasing positions, so that the search of the kept samples finds the drop again unless a drop
  that was denied is found after it (`ResetKept`), and from the drop on both periods show the same.
- What a period shows after a reset is found by recursion over earlier segments (`Effective`). That the
  recursion ends is proved (`SegmentsExist`: a reset card is always before the last sample of its part), and
  that its result is the end of the period's samples (`EffectivePart`), which is what makes an archive a good
  period. The choice of samples, a merge of samples and the replay are by induction over their number.
- Assumed: `ObservationsAssumption` and `AbsentAssumption`, the types of an observation and of the model value
  for no period.

Only model-checked: liveness (`HealthyWriterDelivers`, `StopTerminates`, `JobSettles`, `CloseReturns`), which
is out of the prover's reach under fairness; of `QuotaWindows` `OwnBackupNeutral`, which is false of deadlines
that jump back, and so is a statement about the observations of its run; of `UsageLedger` `EachCountedOnce`,
which is not true of arbitrary files of earlier versions: of two backups that hold one item, one with the hash
of the client's key and one without, or one that cut it and one that did not, each counts it. No code could
tell; the constants of the run exclude such pairs, and a theorem would have to assume as much of all files; of
`DetailViews` `EventsCurrent`, whose lists are sorts, bounded heaps and merges, where a proof would be that of
the sorting algorithms; and `LegacyMigration`, whose reference is a recursive operator over a document.

## What the checks found

- A failed flush is retried for ever on a writer that can no longer succeed (`stats.go:1493`):
  `storage_flush_retry`.
- After a crash in the middle of a line, the next writer of that day continues the fragment and its first line
  is lost (`stats.go:1435`): `storage_torn_line`.
- A shard that could not be read at start is deleted by the next snapshot (`stats.go:1759`):
  `storage_unread_shard`.
- A cancelled export waits for the statistics lock after all when another export is publishing
  (`dashboard_export_jobs.go:376`), against the comment at `usage_export_jobs.go:61`: `export_cancel_wait`.
- An execution whose observation the suspension of enrichment dropped, and that still creates reporters when
  the suspension ends, is missing from the candidates; its reports can be completed with another's metadata
  (`request_metadata.go:203`), which the suspension is there to avoid: `metadata_spanning`. `NoFalseMatch`
  proves that this is the only way.
- A high reading that arrives late between a drop and its confirmation takes back a reset whose archive has
  been made (`quota_cycles.go:314`): the archived period and the current one overlap, against
  `docs/guides/quota-cycles.md:51`: `quota_overlap`.
- An edit while the price file cannot be read replaces the file, and the prices in it are gone
  (`stats.go:4772`): `price_unreadable`.

Smaller observations, without a run of their own. The replay of quota rows does not advance the clock, so that
an observation that was accepted live may be refused at a restart (`quota_cycles.go:280`). Importing a backup
twice can add samples to an archived period that was reset. The archive of a reset ends with the first reading
after it and begins a window's length before the deadline of the last reading before; if the deadline drifted
and the first reading came after it, the archive is longer than the window (`quota_cycles.go:322-349`), and
`repairQuotaPeriods` drops it at the next restart (`quota_storage.go:527`, `:557`). The own backup is not
neutral when a period is full, when a reset came so shortly before the deadline that both periods have one end
but for the tolerated drift, or after a deadline that jumped back. A dropped sample may be the one that denied
a drop, and then another reset is found than before. A restart can make a stale low reading the first
observation of its run, which is kept, while the reading that denied it is dropped as the oldest spare: the
stale reading is then confirmed, hides the reset after it, and the period shown includes costs from before
that reset, which the comment at `quota_cycles.go:107` means to avoid (`quota_cycles.go:105-140`).
`CompactionKeepsReset` excludes these cases, and resets by card. A snapshot that holds a fallback and its
native record drops the fallback's detail without a tombstone but restores its fact
(`restoreStorageSnapshotLocked`, `quota_storage.go:360`). Records imported with an API key in label form
before storage is attached, whose snapshot has the hashed form, would be counted twice. A backup of an earlier
version with a record it had cut counts that record again each time it is imported. While retention is off no
expiry is known, so that turning it on in the call that closes and opens the storage prunes the facts of a
closed quota period before the records they belong to: the snapshot saved then has records without facts. If
repairs were on before and an export from before the repair is imported after them, its fact disagrees with
the repaired record, and the next process refuses the snapshot with "conflicting quota record reference"
(`validateQuotaImport`, `quota_storage.go`), which turns the storage off. Seven operations lead there; records
of the open period are proved to be safe from it (`LedgerSnapshotAccepted`).

The findings in `PROJECT.json` quote the statements these contradict.

## What is not modelled

Components: the lifecycle and the handover between two images (planned); masking (`source.go`), routing
(`management.go`) and the page, which keep no state of their own.

Within the modelled ones: in storage the cleanup of shards beyond the retention, the manual clearing of the
directory, a clock that runs backwards and the legacy single-file store; in the exports the contents of the
files; in the ledger several groups and models, the cost series, the deduplication window (no caller turns it
on) and identity interning; of the fallbacks the computation of the pairs from token shapes and the dormant
coordinator of `response_intercept.go`; of quota the parsing of headers, the facts that price a period and the
estimates made from them; of the prices the exchange rate worker (the same structure, one number), the
arithmetic of a cost and the lookup by provider; of the queries the summary of the whole history from the
running counters, the order among several models and APIs, the counters inside an aggregate (an aggregate is
the set of requests it sums), the health grid, the byte budgets and the entity tags; of the SQLite files the
journal as a root, the conversion and rejection of old versions, residual API names, byte budgets, the opening
and upgrade of the schema, the chunks of a value and the pages of the catalog reader.

## Plan

Done: storage, exports, blocks, metadata (first), then ledger, quota, prices, migration, SQLite, views.

1. `Lifecycle` with two images on one storage directory: register, reconfigure, quiesce, shutdown, rollback,
   the lock file. To check: a retired image never writes after its successor, every admitted call ends before
   the services close, a rolled-back image loads what the successor saved. To prove: mutual exclusion of
   writers.
2. A proof of `EachCountedOnce`, for files of earlier versions of which no two disagree on an item.
3. `FallbackMatching`: the pairs of `pairProtocolFallbackDetails` against a reference matching, and the
   coordinator of the interceptor, if it comes into use.
4. The summary of the whole history in `DetailViews`, composed with the counters of `UsageLedger`.
