---------------------------- MODULE UsageStorage ----------------------------
(* The JSONL persistence of the statistics engine (stats.go,               *)
(* storage_schedule.go, storage_snapshot_stream.go): callers that commit a *)
(* request to the in-memory ledger and then hand it to a bounded queue, one *)
(* worker goroutine that appends batches to the shard of the current UTC   *)
(* day and writes snapshots, and the controller (ConfigurePatch, Close)    *)
(* that stops the worker, saves, releases, reloads and replays.            *)
(*                                                                         *)
(* Abstractions.  A record is a model value with a unique RecordID.        *)
(* Retention is off and details are never trimmed, so a counted record     *)
(* stays counted until the process ends.  Timers are nondeterministic: a   *)
(* flush, sync or snapshot may be due whenever there is work for it.  A    *)
(* JSON line is shorter than the bufio buffer.  The wall clock never runs  *)
(* backwards and a rename that returned survives a power loss.             *)
EXTENDS Naturals, Sequences, FiniteSets

CONSTANTS
    Records,     \* the requests of the instance
    MaxDay,      \* bound: UTC days 1..MaxDay
    QueueCap,    \* storageWriteQueueCapacity
    BatchSize,   \* defaultStorageWriteBatchSize
    MaxFaults,   \* bound: failing file operations of the process
    MaxCrashes,  \* bound: process crashes and power losses
    MaxConfigs,  \* bound: ConfigurePatch calls that touch storage
    MaxDamage,   \* bound: snapshots damaged from outside
    ReplayMayFail \* whether a shard may be unreadable during replay

ASSUME QueueCapAssumption == QueueCap \in Nat \ {0}
ASSUME BatchSizeAssumption == BatchSize \in Nat \ {0}
ASSUME MaxDayAssumption == MaxDay \in Nat \ {0}
ASSUME BoundsAssumption ==
    /\ MaxFaults \in Nat
    /\ MaxCrashes \in Nat
    /\ MaxConfigs \in Nat
    /\ MaxDamage \in Nat
    /\ ReplayMayFail \in BOOLEAN

Days == 1..MaxDay
NoDay == 0
Budgets == {"fault", "crash", "config", "damage"}

VARIABLES
    today,      \* storageDate(time.Now())
    budget,     \* what the environment may still do
    os,         \* os[d]: records whose line is complete in shard d
    synced,     \* synced[d]: the part of os[d] that survives a power loss
    torn,       \* torn[d]: shard d ends in the middle of a line
    snapshot,   \* snapshot.json: [readable, day, recs], day = NoDay if missing
    counted,    \* how often the ledger has counted each record
    caller,     \* progress of the call that carries each record
    enabled,    \* storageEnabled
    dirOpen,    \* storageDir # "" and the directory lock is held
    control,    \* progress of the call that holds configMu
    goal,       \* what that call wants
    saved,      \* did the most recent closeStorageLocked write its snapshot?
    queue,      \* storageQueue
    attached,   \* storageQueue # nil
    stopping,   \* storageStopping: storageStop is closed
    worker,     \* program counter of storageWorkerLoop
    after,      \* where writeSnapshot returns to
    batch,      \* batch handed to appendBatch
    startDay,   \* day of "started" in appendBatch
    fileDay,    \* activeDate of the open shard, NoDay if no file is open
    inherited,  \* the shard was torn when it was opened
    buffer,     \* lines in the bufio.Writer
    sticky,     \* the bufio.Writer has failed: every later call fails too
    pending,    \* snapshotRecords > 0
    unsynced,   \* unsyncedRecords > 0
    snapDay,    \* day of "now" in writeSnapshot
    captured    \* the view taken by captureStorageSnapshot

disk    == <<os, synced, torn, snapshot>>
ledger  == <<counted, caller>>
ctl     == <<enabled, dirOpen, control, goal, saved>>
channel == <<queue, attached, stopping>>
file    == <<fileDay, inherited, buffer, sticky, unsynced>>
snap    == <<snapDay, captured>>
wrk     == <<worker, after, batch, startDay, file, pending, snap>>
vars    == <<today, budget, disk, ledger, ctl, channel, wrk>>

-----------------------------------------------------------------------------
Counted == {r \in Records : counted[r] > 0}
Senders == {r \in Records : caller[r] = "sending"}
Elems(s) == {s[i] : i \in 1..Len(s)}

(* The shards a start of the program replays: those of the snapshot's day  *)
(* and later ones (all of them when there is no snapshot).                 *)
Visible(shards) == UNION {shards[d] : d \in {e \in Days : e >= snapshot.day}}
Recoverable == snapshot.recs \cup Visible(os)

Spend(what) ==
    /\ budget[what] > 0
    /\ budget' = [budget EXCEPT ![what] = @ - 1]

(* s.mu is held by the controller from closeStorageLocked to the start of  *)
(* the worker; no caller and no capture can run meanwhile.                 *)
MuFree == control \in {"idle", "draining", "closed"}

EnvironmentType ==
    /\ today \in Days
    /\ budget \in [Budgets -> Nat]

DiskType ==
    /\ os \in [Days -> SUBSET Records]
    /\ synced \in [Days -> SUBSET Records]
    /\ torn \in [Days -> BOOLEAN]
    /\ snapshot \in [readable : BOOLEAN, day : 0..MaxDay, recs : SUBSET Records]

LedgerType ==
    /\ counted \in [Records -> Nat]
    /\ caller \in [Records -> {"new", "enqueue", "sending", "done"}]

ControlType ==
    /\ enabled \in BOOLEAN
    /\ dirOpen \in BOOLEAN
    /\ control \in {"idle", "draining", "final", "release", "load", "closed", "down"}
    /\ goal \in {"none", "enable", "disable", "close"}
    /\ saved \in BOOLEAN
    /\ queue \in Seq(Records)
    /\ attached \in BOOLEAN
    /\ stopping \in BOOLEAN

WorkerType ==
    /\ worker \in {"none", "idle", "open", "capture", "rename", "compact"}
    /\ after \in {"none", "idle", "open"}
    /\ batch \in Seq(Records)
    /\ startDay \in Days
    /\ snapDay \in 0..MaxDay
    /\ captured \in SUBSET Records
    /\ pending \in BOOLEAN

FileType ==
    /\ fileDay \in 0..MaxDay
    /\ inherited \in BOOLEAN
    /\ buffer \in Seq(Records)
    /\ sticky \in BOOLEAN
    /\ unsynced \in BOOLEAN

TypeOK ==
    /\ EnvironmentType /\ DiskType /\ LedgerType
    /\ ControlType /\ WorkerType /\ FileType

(* A new RequestStatistics and no worker; the disk is not touched. *)
FreshProcess ==
    /\ counted' = [r \in Records |-> 0]
    /\ caller' = [r \in Records |-> IF caller[r] = "new" THEN "new" ELSE "done"]
    /\ enabled' = FALSE
    /\ dirOpen' = FALSE
    /\ goal' = "none"
    /\ saved' = FALSE
    /\ queue' = <<>>
    /\ attached' = FALSE
    /\ stopping' = FALSE
    /\ worker' = "none"
    /\ after' = "none"
    /\ batch' = <<>>
    /\ startDay' = today
    /\ fileDay' = NoDay
    /\ inherited' = FALSE
    /\ buffer' = <<>>
    /\ sticky' = FALSE
    /\ pending' = FALSE
    /\ unsynced' = FALSE
    /\ snapDay' = NoDay
    /\ captured' = {}

Init ==
    /\ today = 1
    /\ budget = [b \in Budgets |->
                    CASE b = "fault"  -> MaxFaults
                      [] b = "crash"  -> MaxCrashes
                      [] b = "config" -> MaxConfigs
                      [] b = "damage" -> MaxDamage]
    /\ os = [d \in Days |-> {}]
    /\ synced = [d \in Days |-> {}]
    /\ torn = [d \in Days |-> FALSE]
    /\ snapshot = [readable |-> TRUE, day |-> NoDay, recs |-> {}]
    /\ counted = [r \in Records |-> 0]
    /\ caller = [r \in Records |-> "new"]
    /\ enabled = FALSE
    /\ dirOpen = FALSE
    /\ control = "idle"
    /\ goal = "none"
    /\ saved = FALSE
    /\ queue = <<>>
    /\ attached = FALSE
    /\ stopping = FALSE
    /\ worker = "none"
    /\ after = "none"
    /\ batch = <<>>
    /\ startDay = 1
    /\ fileDay = NoDay
    /\ inherited = FALSE
    /\ buffer = <<>>
    /\ sticky = FALSE
    /\ pending = FALSE
    /\ unsynced = FALSE
    /\ snapDay = NoDay
    /\ captured = {}

-----------------------------------------------------------------------------
(* Callers: Record and mergeSnapshotChecked count under s.mu and enqueue   *)
(* after releasing it.                                                     *)

(* Mutant: Record forgets the test of s.closed. *)
RecordWhenClosed(r) ==
    /\ MuFree
    /\ caller[r] = "new"
    /\ counted' = [counted EXCEPT ![r] = @ + 1]
    /\ caller' = [caller EXCEPT ![r] = IF enabled THEN "enqueue" ELSE "done"]
    /\ UNCHANGED <<today, budget, disk, ctl, channel, wrk>>

(* Record: a closed engine ignores the request. *)
Record(r) ==
    /\ MuFree
    /\ goal # "close"
    /\ caller[r] = "new"
    /\ counted' = [counted EXCEPT ![r] = @ + 1]
    /\ caller' = [caller EXCEPT ![r] = IF enabled THEN "enqueue" ELSE "done"]
    /\ UNCHANGED <<today, budget, disk, ctl, channel, wrk>>

(* Importing a backup that holds r: a RecordID that is already counted is  *)
(* skipped, a new one is counted and journaled like a live request.  There *)
(* is no test of closed; the lifecycle lock keeps imports from a closed    *)
(* engine.                                                                 *)
Import(r) ==
    /\ MuFree
    /\ control # "closed"
    /\ caller[r] \in {"new", "done"}
    /\ counted[r] = 0
    /\ counted' = [counted EXCEPT ![r] = @ + 1]
    /\ caller' = [caller EXCEPT ![r] = IF enabled THEN "enqueue" ELSE "done"]
    /\ UNCHANGED <<today, budget, disk, ctl, channel, wrk>>

(* enqueueStorageDetail under storageControlMu: without a queue, or while  *)
(* the worker is being stopped, the line is dropped.                       *)
Admit(r) ==
    /\ caller[r] = "enqueue"
    /\ caller' = [caller EXCEPT ![r] =
                    IF attached /\ ~stopping THEN "sending" ELSE "done"]
    /\ UNCHANGED <<today, budget, disk, counted, ctl, channel, wrk>>

(* The select of enqueueStorageDetail: send, or give up once stop is       *)
(* closed.  Both cases may be ready, and the worker may be gone already.   *)
Send(r) ==
    /\ caller[r] = "sending"
    /\ Len(queue) < QueueCap
    /\ queue' = Append(queue, r)
    /\ caller' = [caller EXCEPT ![r] = "done"]
    /\ UNCHANGED <<today, budget, disk, counted, ctl, attached, stopping, wrk>>

(* Mutant: a sender does not select on stop. *)
NeverGiveUp(r) == FALSE /\ r \in Records /\ UNCHANGED vars

GiveUp(r) ==
    /\ caller[r] = "sending"
    /\ stopping
    /\ caller' = [caller EXCEPT ![r] = "done"]
    /\ UNCHANGED <<today, budget, disk, counted, ctl, channel, wrk>>

-----------------------------------------------------------------------------
(* The worker goroutine.                                                   *)

(* A batch is taken from the queue; "started" is read. *)
Take ==
    /\ worker = "idle"
    /\ queue # <<>>
    /\ LET n == IF Len(queue) < BatchSize THEN Len(queue) ELSE BatchSize
       IN  /\ batch' = SubSeq(queue, 1, n)
           /\ queue' = SubSeq(queue, n + 1, Len(queue))
    /\ startDay' = today
    /\ worker' = "open"
    /\ UNCHANGED <<today, budget, disk, ledger, ctl, attached, stopping,
                   after, file, pending, snap>>

(* What reaches shard d when the first n of the lines are written out: the *)
(* first line of a file that was torn when it was opened continues the     *)
(* fragment and is unreadable.                                             *)
Written(lines, n) == {lines[i] : i \in (IF inherited THEN 2 ELSE 1)..n}

WriteAll(lines) ==
    /\ os' = [os EXCEPT ![fileDay] = @ \cup Written(lines, Len(lines))]
    /\ torn' = [torn EXCEPT ![fileDay] = @ /\ lines = <<>>]

(* A failing write may have written a prefix, and part of one more line. *)
WriteFails(lines) ==
    \E n \in 0..Len(lines), t \in BOOLEAN :
        /\ n = 0 /\ torn[fileDay] => t
        /\ os' = [os EXCEPT ![fileDay] = @ \cup Written(lines, n)]
        /\ torn' = [torn EXCEPT ![fileDay] = t]

(* closeFile(sync = true): flush, fsync and close; errors are only reported. *)
CloseFile ==
    \E flushed \in BOOLEAN, durable \in BOOLEAN :
        /\ flushed => ~sticky
        /\ IF flushed THEN WriteAll(buffer)
           ELSE IF sticky THEN UNCHANGED <<os, torn>>
           ELSE WriteFails(buffer)
        /\ synced' = IF durable THEN [synced EXCEPT ![fileDay] = os'[fileDay]]
                     ELSE synced
        /\ unsynced' = (unsynced /\ ~durable)
        /\ IF (flushed \/ sticky) /\ durable THEN UNCHANGED budget
           ELSE Spend("fault")
        /\ fileDay' = NoDay
        /\ buffer' = <<>>
        /\ sticky' = FALSE
        /\ inherited' = FALSE

StartSnapshot(day, return) ==
    /\ worker' = "capture"
    /\ after' = return
    /\ snapDay' = day

(* open on a new day: the old shard is closed, and a snapshot written if   *)
(* anything was appended since the last one.                               *)
Rollover ==
    /\ worker = "open"
    /\ fileDay \notin {NoDay, startDay}
    /\ CloseFile
    /\ IF pending THEN StartSnapshot(startDay, "open")
       ELSE UNCHANGED <<worker, after, snapDay>>
    /\ UNCHANGED <<today, snapshot, ledger, ctl, channel, batch, startDay,
                   pending, captured>>

OpenShard ==
    /\ worker = "open"
    /\ fileDay = NoDay
    /\ fileDay' = startDay
    /\ inherited' = torn[startDay]
    /\ UNCHANGED <<today, budget, disk, ledger, ctl, channel, worker, after,
                   batch, startDay, buffer, sticky, unsynced, pending, snap>>

(* appendBatch drops the batch when the shard cannot be opened. *)
OpenFails ==
    /\ worker = "open"
    /\ fileDay = NoDay
    /\ Spend("fault")
    /\ batch' = <<>>
    /\ worker' = "idle"
    /\ UNCHANGED <<today, disk, ledger, ctl, channel, after, startDay, file,
                   pending, snap>>

AppendReady == worker = "open" /\ fileDay # NoDay /\ fileDay = startDay

(* Encode into the bufio.Writer, which keeps the lines. *)
AppendBuffered ==
    /\ AppendReady
    /\ ~sticky
    /\ buffer' = buffer \o batch
    /\ batch' = <<>>
    /\ pending' = TRUE
    /\ unsynced' = TRUE
    /\ worker' = "idle"
    /\ UNCHANGED <<today, budget, disk, ledger, ctl, channel, after, startDay,
                   fileDay, inherited, sticky, snap>>

(* The buffer overflows at line n + 1: everything before it and a part of  *)
(* that line are written, the rest stays in the buffer.                    *)
AppendSpills(n) ==
    LET full == buffer \o SubSeq(batch, 1, n)
    IN  /\ AppendReady
        /\ ~sticky
        /\ n < Len(batch)
        /\ full # <<>>
        /\ os' = [os EXCEPT ![fileDay] = @ \cup Written(full, Len(full))]
        /\ torn' = [torn EXCEPT ![fileDay] = TRUE]
        /\ buffer' = SubSeq(batch, n + 1, Len(batch))
        /\ inherited' = FALSE
        /\ batch' = <<>>
        /\ pending' = TRUE
        /\ unsynced' = TRUE
        /\ worker' = "idle"
        /\ UNCHANGED <<today, budget, synced, snapshot, ledger, ctl, channel,
                       after, startDay, fileDay, sticky, snap>>

(* The overflow write fails: line n + 1 and the rest of the batch are      *)
(* dropped, and so is every later line of this writer.                     *)
AppendFails(n) ==
    LET full == buffer \o SubSeq(batch, 1, n)
    IN  /\ AppendReady
        /\ ~sticky
        /\ n < Len(batch)
        /\ full # <<>>
        /\ Spend("fault")
        /\ WriteFails(full)
        /\ buffer' = full
        /\ sticky' = TRUE
        /\ batch' = <<>>
        /\ pending' = (pending \/ n > 0)
        /\ unsynced' = (unsynced \/ n > 0)
        /\ worker' = "idle"
        /\ UNCHANGED <<today, synced, snapshot, ledger, ctl, channel, after,
                       startDay, fileDay, inherited, snap>>

(* A bufio.Writer that has failed once refuses every later line. *)
AppendRefused ==
    /\ AppendReady
    /\ sticky
    /\ batch' = <<>>
    /\ worker' = "idle"
    /\ UNCHANGED <<today, budget, disk, ledger, ctl, channel, after, startDay,
                   file, pending, snap>>

(* Mutant: a single buffered line waits for the next one. *)
FlushDueForTwo ==
    worker = "idle" /\ fileDay # NoDay /\ Len(buffer) > 1 /\ ~sticky

FlushDue == worker = "idle" /\ fileDay # NoDay /\ buffer # <<>> /\ ~sticky

Flush ==
    /\ FlushDue
    /\ WriteAll(buffer)
    /\ buffer' = <<>>
    /\ inherited' = FALSE
    /\ UNCHANGED <<today, budget, synced, snapshot, ledger, ctl, channel,
                   worker, after, batch, startDay, fileDay, sticky, unsynced,
                   pending, snap>>

FlushFails ==
    /\ FlushDue
    /\ Spend("fault")
    /\ WriteFails(buffer)
    /\ sticky' = TRUE
    /\ UNCHANGED <<today, synced, snapshot, ledger, ctl, channel, worker,
                   after, batch, startDay, fileDay, inherited, buffer,
                   unsynced, pending, snap>>

(* sync flushes first; a failing fsync leaves what the flush has done. *)
Sync ==
    /\ worker = "idle"
    /\ fileDay # NoDay
    /\ unsynced
    /\ ~sticky
    /\ WriteAll(buffer)
    /\ synced' = [synced EXCEPT ![fileDay] = os'[fileDay]]
    /\ buffer' = <<>>
    /\ inherited' = (inherited /\ buffer = <<>>)
    /\ unsynced' = FALSE
    /\ UNCHANGED <<today, budget, snapshot, ledger, ctl, channel, worker,
                   after, batch, startDay, fileDay, sticky, pending, snap>>

SnapshotDue ==
    /\ worker = "idle"
    /\ pending
    /\ StartSnapshot(today, "idle")
    /\ UNCHANGED <<today, budget, disk, ledger, ctl, channel, batch, startDay,
                   file, pending, captured>>

(* storageWorkerLoop after stop: the queue is drained, then state.close    *)
(* closes the shard and writes a last snapshot.                            *)
Drained ==
    /\ worker = "idle"
    /\ stopping
    /\ queue = <<>>
    /\ IF fileDay # NoDay THEN CloseFile ELSE UNCHANGED <<budget, os, synced, torn, file>>
    /\ StartSnapshot(today, "none")
    /\ UNCHANGED <<today, snapshot, ledger, ctl, channel, batch, startDay,
                   pending, captured>>

(* Mutant: the view leaves out what the writer still buffers. *)
CaptureFlushed ==
    /\ worker = "capture"
    /\ MuFree
    /\ captured' = Counted \ Elems(buffer)
    /\ worker' = "rename"
    /\ UNCHANGED <<today, budget, disk, ledger, ctl, channel, after, batch,
                   startDay, file, pending, snapDay>>

(* writeSnapshot: the view is taken under s.mu, written to a temporary     *)
(* file and renamed, and the older shards are removed.                     *)
Capture ==
    /\ worker = "capture"
    /\ MuFree
    /\ captured' = Counted
    /\ worker' = "rename"
    /\ UNCHANGED <<today, budget, disk, ledger, ctl, channel, after, batch,
                   startDay, file, pending, snapDay>>

(* Mutant: generated_at is rounded up to the next day. *)
ReplacedNextDay(day, recs) == [readable |-> TRUE, day |-> day + 1, recs |-> recs]

Replaced(day, recs) == [readable |-> TRUE, day |-> day, recs |-> recs]

Rename ==
    /\ worker = "rename"
    /\ snapshot' = Replaced(snapDay, captured)
    /\ worker' = "compact"
    /\ UNCHANGED <<today, budget, os, synced, torn, ledger, ctl, channel,
                   after, batch, startDay, file, pending, snap>>

(* Mutant: the old shards are removed although the snapshot was not written. *)
SnapshotFailsCompacts ==
    /\ worker = "rename"
    /\ Spend("fault")
    /\ worker' = "compact"
    /\ UNCHANGED <<today, disk, ledger, ctl, channel, after, batch, startDay,
                   file, pending, snap>>

SnapshotFails ==
    /\ worker = "rename"
    /\ Spend("fault")
    /\ worker' = after
    /\ UNCHANGED <<today, disk, ledger, ctl, channel, after, batch, startDay,
                   file, pending, snap>>

(* compactStorageShardsBeforeSnapshot: in date order, up to the first      *)
(* error, never the shard that is open.                                    *)
CompactBefore(day, open) ==
    \E upto \in 1..day :
        LET gone == {d \in Days : d < upto /\ d # open}
        IN  /\ os' = [d \in Days |-> IF d \in gone THEN {} ELSE os[d]]
            /\ synced' = [d \in Days |-> IF d \in gone THEN {} ELSE synced[d]]
            /\ torn' = [d \in Days |-> torn[d] /\ d \notin gone]
            /\ IF upto = day THEN UNCHANGED budget ELSE Spend("fault")

Compact ==
    /\ worker = "compact"
    /\ CompactBefore(snapDay, fileDay)
    /\ pending' = FALSE
    /\ worker' = after
    /\ UNCHANGED <<today, snapshot, ledger, ctl, channel, after, batch,
                   startDay, file, snap>>

-----------------------------------------------------------------------------
(* The controller: ConfigurePatch and Close, serialised by configMu.       *)

(* stopStorageWorker: no new sender is admitted and stop is closed. *)
BeginStop ==
    /\ stopping' = attached
    /\ control' = "draining"
    /\ UNCHANGED <<today, disk, ledger, enabled, dirOpen, saved, queue,
                   attached, wrk>>

BeginConfigure(g) ==
    /\ control = "idle"
    /\ Spend("config")
    /\ goal' = g
    /\ BeginStop

(* Close marks the engine closed before it stops the worker. *)
BeginClose ==
    /\ control = "idle"
    /\ goal' = "close"
    /\ BeginStop
    /\ UNCHANGED budget

(* storageEnqueueWG.Wait and <-done have returned; the queue is detached,  *)
(* s.mu is taken and StorageEnabled applied.                               *)
WorkerStopped ==
    /\ control = "draining"
    /\ worker = "none"
    /\ Senders = {}
    /\ queue' = <<>>
    /\ attached' = FALSE
    /\ stopping' = FALSE
    /\ enabled' = IF goal = "close" THEN enabled ELSE goal = "enable"
    /\ control' = "final"
    /\ UNCHANGED <<today, budget, disk, ledger, dirOpen, goal, saved, wrk>>

(* closeStorageLocked: a last snapshot while storage is enabled and the    *)
(* directory is still ours.                                                *)
FinalSnapshot ==
    /\ control = "final"
    /\ enabled /\ dirOpen
    /\ snapshot' = Replaced(today, Counted)
    /\ saved' = TRUE
    /\ control' = "release"
    /\ UNCHANGED <<today, budget, os, synced, torn, ledger, enabled, dirOpen,
                   goal, channel, wrk>>

NoFinalSnapshot ==
    /\ control = "final"
    /\ IF enabled /\ dirOpen THEN Spend("fault") ELSE UNCHANGED budget
    /\ saved' = FALSE
    /\ control' = "release"
    /\ UNCHANGED <<today, disk, ledger, enabled, dirOpen, goal, channel, wrk>>

(* The shards before a saved snapshot are removed, the lock is released    *)
(* and the target cleared.                                                 *)
Release ==
    /\ control = "release"
    /\ IF saved THEN CompactBefore(snapshot.day, NoDay)
       ELSE UNCHANGED <<budget, os, synced, torn>>
    /\ dirOpen' = FALSE
    /\ control' = IF goal = "close" THEN "closed"
                  ELSE IF goal = "enable" THEN "load" ELSE "idle"
    /\ goal' = IF goal = "disable" THEN "none" ELSE goal
    /\ UNCHANGED <<today, snapshot, ledger, enabled, saved, channel, wrk>>

(* Mutant: the target is not cleared when the snapshot cannot be read. *)
LoadRefusedKeepsTarget ==
    /\ control = "load"
    /\ IF snapshot.readable THEN Spend("fault") ELSE UNCHANGED budget
    /\ dirOpen' = TRUE
    /\ control' = "idle"
    /\ goal' = "none"
    /\ UNCHANGED <<today, disk, ledger, enabled, saved, channel, wrk>>

(* configureStorageLocked gives up, with no target and no worker, when the *)
(* directory cannot be made or locked or snapshot.json cannot be read.     *)
LoadRefused ==
    /\ control = "load"
    /\ IF snapshot.readable THEN Spend("fault") ELSE UNCHANGED budget
    /\ control' = "idle"
    /\ goal' = "none"
    /\ UNCHANGED <<today, disk, ledger, enabled, dirOpen, saved, channel, wrk>>

(* Mutant: a ledger that is not empty ignores the snapshot. *)
RestoredWhenEmpty ==
    IF Counted = {}
    THEN [r \in Records |-> IF r \in snapshot.recs THEN 1 ELSE 0]
    ELSE counted

(* restoreStorageSnapshotLocked replaces an empty ledger, and              *)
(* mergeSnapshotLocked adds the RecordIDs a non-empty one does not have.   *)
Restored ==
    IF Counted = {}
    THEN [r \in Records |-> IF r \in snapshot.recs THEN 1 ELSE 0]
    ELSE [r \in Records |-> IF r \in snapshot.recs \ Counted
                            THEN counted[r] + 1 ELSE counted[r]]

(* Mutant: replay does not look at the RecordIDs that are counted. *)
ReplayedBlindly(count, shards) ==
    [r \in Records |-> IF r \in Visible(shards) THEN count[r] + 1 ELSE count[r]]

(* replayStorageFilesLocked: the visible shards, skipping the RecordIDs    *)
(* that are already counted.                                               *)
Replayed(count, shards) ==
    [r \in Records |-> IF r \in Visible(shards) /\ count[r] = 0
                       THEN count[r] + 1 ELSE count[r]]

(* A shard that cannot be read only adds a warning. *)
Load ==
    /\ control = "load"
    /\ snapshot.readable
    /\ \E unread \in SUBSET Days :
        /\ IF unread = {} THEN UNCHANGED budget ELSE ReplayMayFail /\ Spend("fault")
        /\ counted' = Replayed(Restored, [d \in Days |->
                                            IF d \in unread THEN {} ELSE os[d]])
    /\ dirOpen' = TRUE
    /\ attached' = TRUE
    /\ stopping' = FALSE
    /\ queue' = <<>>
    /\ worker' = "idle"
    /\ fileDay' = NoDay
    /\ pending' = FALSE
    /\ unsynced' = FALSE
    /\ control' = "idle"
    /\ goal' = "none"
    /\ UNCHANGED <<today, disk, caller, enabled, saved, after, batch, startDay,
                   inherited, buffer, sticky, snap>>

-----------------------------------------------------------------------------
(* The environment: the clock, the process and the disk.                   *)

Tick ==
    /\ today < MaxDay
    /\ today' = today + 1
    /\ UNCHANGED <<budget, disk, ledger, ctl, channel, wrk>>

(* The process dies: what was written to the files stays. *)
Crash ==
    /\ control # "down"
    /\ Spend("crash")
    /\ control' = "down"
    /\ FreshProcess
    /\ UNCHANGED <<today, disk>>

(* The machine dies: what was not synced is lost, possibly mid-line. *)
PowerLoss ==
    /\ control # "down"
    /\ Spend("crash")
    /\ control' = "down"
    /\ os' = synced
    /\ \E t \in SUBSET {d \in Days : os[d] # synced[d] \/ torn[d]} :
          torn' = [d \in Days |-> d \in t]
    /\ FreshProcess
    /\ UNCHANGED <<today, synced, snapshot>>

(* A new process, or restartPluginStateLocked in a closed one. *)
Boot ==
    /\ control \in {"down", "closed"}
    /\ control' = "idle"
    /\ FreshProcess
    /\ UNCHANGED <<today, budget, disk>>

(* snapshot.json is damaged, or written by a newer version, and repaired   *)
(* by the operator.                                                        *)
Damage ==
    /\ control \in {"down", "closed"}
    /\ snapshot.readable /\ snapshot.day # NoDay
    /\ Spend("damage")
    /\ snapshot' = [snapshot EXCEPT !.readable = FALSE]
    /\ UNCHANGED <<today, os, synced, torn, ledger, ctl, channel, wrk>>

Repair ==
    /\ control \in {"down", "closed"}
    /\ ~snapshot.readable
    /\ snapshot' = [snapshot EXCEPT !.readable = TRUE]
    /\ UNCHANGED <<today, budget, os, synced, torn, ledger, ctl, channel, wrk>>

-----------------------------------------------------------------------------
AppendStep ==
    \/ AppendBuffered
    \/ AppendRefused
    \/ \E n \in 0..(BatchSize - 1) : AppendSpills(n) \/ AppendFails(n)

WorkerStep ==
    \/ Take \/ Rollover \/ OpenShard \/ OpenFails \/ AppendStep
    \/ Flush \/ FlushFails \/ Sync \/ SnapshotDue \/ Drained
    \/ Capture \/ Rename \/ SnapshotFails \/ Compact

CallerStep(r) == Record(r) \/ Import(r) \/ Admit(r) \/ Send(r) \/ GiveUp(r)

ControlStep ==
    \/ \E g \in {"enable", "disable"} : BeginConfigure(g)
    \/ BeginClose \/ WorkerStopped \/ FinalSnapshot \/ NoFinalSnapshot
    \/ Release \/ LoadRefused \/ Load

Environment == Tick \/ Crash \/ PowerLoss \/ Boot \/ Damage \/ Repair

Next ==
    \/ \E r \in Records : CallerStep(r)
    \/ WorkerStep
    \/ ControlStep
    \/ Environment

Spec == Init /\ [][Next]_vars

(* Goroutines that can run do run; a due flush happens, since its interval *)
(* is never zero and the select of storageWorkerLoop picks fairly among    *)
(* its ready cases.  Periodic syncs and snapshots may be configured away,  *)
(* so they are not assumed.                                                *)
Fairness ==
    /\ \A r \in Records : WF_vars(Admit(r)) /\ WF_vars(Send(r)) /\ WF_vars(GiveUp(r))
    /\ WF_vars(Take)
    /\ WF_vars(Flush)
    /\ WF_vars(Drained)
    /\ WF_vars(Rollover \/ OpenShard \/ OpenFails \/ AppendStep)
    /\ WF_vars(Capture \/ Rename \/ SnapshotFails \/ Compact)
    /\ WF_vars(WorkerStopped \/ FinalSnapshot \/ NoFinalSnapshot \/ Release)
    /\ WF_vars(Load \/ LoadRefused)

FairSpec == Spec /\ Fairness

-----------------------------------------------------------------------------
(* Correctness.                                                            *)

(* Whatever mixture of live recording, import, snapshot restore, merge and *)
(* shard replay brings a request back, it is counted at most once.         *)
CountedOnce == \A r \in Records : counted[r] <= 1

(* Replay skips the shards older than the snapshot and compaction deletes  *)
(* them, so all they hold must be in the snapshot.                         *)
HiddenShardsCovered ==
    \A d \in Days : d < snapshot.day => os[d] \subseteq snapshot.recs

(* While the engine owns the directory, its ledger holds everything a      *)
(* restart could recover: the next snapshot replaces the last one and the  *)
(* shards before it without losing a record.                               *)
LedgerCoversDisk == dirOpen => Recoverable \subseteq Counted

(* No step of the program, a crash included, loses a record that a restart *)
(* would have recovered; a power loss loses at most what was not synced.   *)
DurableNeverShrinks ==
    [][ /\ snapshot.recs \cup Visible(synced)
             \subseteq snapshot'.recs \cup Visible(synced)'
        /\ Recoverable \subseteq Recoverable' \/ os' = synced
      ]_vars

(* Close returns with every counted request on disk when its own snapshot  *)
(* was written, whatever became of the queue and of the worker's files.    *)
CloseSavesLedger ==
    control = "closed" /\ saved => Counted \subseteq Recoverable

(* The recovery protection of v2.6.5: a snapshot that cannot be read is    *)
(* never replaced, and no shard is written or removed, whatever is         *)
(* recorded, reconfigured or closed until an operator has repaired it.     *)
UnreadableSnapshotUntouched ==
    [][ ~snapshot.readable =>
          /\ snapshot' \in {snapshot, [snapshot EXCEPT !.readable = TRUE]}
          /\ os' \in {os, synced} ]_vars

(* Lines that Flush has handed to the file survive a crash of the process. *)
FlushedLinesSurvive ==
    [][ Flush => Elems(buffer) \subseteq Recoverable' ]_vars

(* A request that is sent to the writer when no file operation will fail   *)
(* any more becomes recoverable, unless the process dies first.            *)
AcceptedReachesDisk ==
    \A r \in Records :
        (caller[r] = "sending" /\ budget["fault"] = 0)
            ~> (r \in Recoverable \/ control = "down")

(* The same after any failure, crash or power loss, of a writer that runs, *)
(* has not failed itself and finds no line it must continue: what is sent  *)
(* to it becomes recoverable, whatever the controller does meanwhile and   *)
(* whatever days pass, unless the process dies first.                      *)
WriterHealthy ==
    /\ worker # "none"
    /\ budget["fault"] = 0
    /\ ~sticky /\ ~inherited
    /\ \A d \in Days \ {fileDay} : ~torn[d]

HealthyWriterDelivers ==
    \A r \in Records :
        (caller[r] = "sending" /\ WriterHealthy)
            ~> (r \in Recoverable \/ control = "down")

(* The engine implements the abstract durable ledger: the ledger is what   *)
(* is counted, the durable set what load and replay would bring back, and  *)
(* the directory lock is the ownership.                                    *)
Abstract == INSTANCE DurableLedger WITH
    live     <- Counted,
    durable  <- Recoverable,
    safe     <- snapshot.recs \cup Visible(synced),
    attached <- dirOpen

ImplementsLedger == Abstract!LedgerSpec

(* stopStorageWorker returns: callers blocked on a full queue, the draining *)
(* worker and the controller never wait for each other for ever.           *)
StopTerminates == control = "draining" ~> control # "draining"

-----------------------------------------------------------------------------
(* Why the durability properties hold: an invariant that every step keeps. *)

(* There is a worker, a queue and an open directory only while the         *)
(* controller is not between stopping one worker and starting the next.    *)
WriterOwnsDirectory ==
    /\ worker # "none" => attached
    /\ attached => dirOpen /\ control \in {"idle", "draining"}
    /\ dirOpen => control \in {"idle", "draining", "final", "release"}
    /\ dirOpen => snapshot.readable
    /\ control = "release" /\ saved => dirOpen
    /\ control = "closed" => goal = "close"

(* The days the worker has read from the clock never run behind the day of *)
(* the snapshot, so nothing is appended to a shard that replay skips.      *)
DaysOrdered ==
    /\ snapshot.day <= today
    /\ startDay <= today
    /\ snapDay <= today
    /\ worker \in {"capture", "rename", "compact"} =>
          /\ snapDay \in Days
          /\ snapDay >= snapshot.day
          /\ after = "open" => startDay = snapDay
    /\ worker = "open" => startDay >= snapshot.day
    /\ worker = "compact" => snapDay = snapshot.day

(* Whatever is on its way to the disk is already in the ledger, and what a *)
(* snapshot is about to replace or to hide is in the view it was taken     *)
(* from.                                                                   *)
NothingUncounted ==
    /\ Elems(queue) \cup Elems(batch) \cup Elems(buffer) \subseteq Counted
    /\ \A r \in Records : caller[r] \in {"enqueue", "sending"} => r \in Counted
    /\ worker = "rename" =>
          captured \subseteq Counted /\ Recoverable \cup Elems(buffer) \subseteq captured
    /\ fileDay # NoDay /\ fileDay < snapshot.day => Elems(buffer) \subseteq snapshot.recs
    /\ \A d \in Days : synced[d] \subseteq os[d]
    /\ control \in {"release", "closed"} /\ saved /\ goal = "close" =>
          Counted \subseteq snapshot.recs

StorageInvariant ==
    /\ WriterOwnsDirectory /\ DaysOrdered /\ NothingUncounted
    /\ HiddenShardsCovered /\ LedgerCoversDisk
=============================================================================
