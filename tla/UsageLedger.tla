----------------------------- MODULE UsageLedger -----------------------------
(* The ledger of requests (stats.go, accounting.go, claude_cache_repair.go, *)
(* protocol_fallback.go, quota_storage.go): the records of one model, the   *)
(* visible ones before the archived ones; the counters that summarise them; *)
(* and the facts and tombstones that quota cycles keep by record identity.  *)
(* The same request meets the ledger again as a row of the journal, in a    *)
(* snapshot, and in backups written before or after an upgrade, a repair,   *)
(* or the arrival of the native record of a protocol fallback.              *)
(*                                                                         *)
(* Abstractions.  An item is one record as it was first written; its time   *)
(* and whether it is eligible for quota accounting are constants.  Every    *)
(* operation runs under the statistics lock.  Which fallback belongs to     *)
(* which native record is given, not computed from token shapes.  Expired   *)
(* shards and the writer are UsageStorage's subject.                        *)
EXTENDS Integers, Sequences, SequencesExt, FiniteSets, TLC

CONSTANTS
    Items,          \* the records that may ever be written
    Eligible,       \* those quotaEligible accepts
    Earlier,        \* those an earlier version wrote, without a record id
    Doubled,        \* those of them whose cache creation it counted twice
    Truncated,      \* those it counted and cut from the details it saved
    At,             \* their timestamps
    NativeOf,       \* the native record of a protocol fallback
    CopyOf,         \* the original of a copy a migration attributed anew
    MaxVisible,     \* maxDetailsPerModel
    Retentions,     \* the values of retention, 0 for none
    PeriodStart,    \* the start of the quota period that is open throughout
    Unset,          \* no time
    NoFile,         \* no snapshot
    Backups,        \* snapshots and usage exports of earlier versions
    OldRows,        \* the lines an earlier version may have left
    MaxMoves,       \* bound: imports, configurations, snapshots and restarts
    LedgerEnd       \* bound: the last time of the clock

ASSUME LedgerAssumption ==
    /\ Eligible \cup Earlier \subseteq Items
    /\ Doubled \cup Truncated \subseteq Earlier
    /\ At \in [Items -> Nat]
    /\ IsFiniteSet(Items)
    /\ MaxVisible \in Nat /\ LedgerEnd \in Nat \ {0} /\ MaxMoves \in Nat
    /\ Retentions \subseteq Nat /\ PeriodStart \in Int
    /\ Unset \notin Nat

VARIABLES
    ledger,     \* RequestStatistics: records, counters, quota state, settings
    clock,      \* time.Now()
    snapshot,   \* snapshot.json
    rows,       \* the lines of the shards, in the order they were written
    file,       \* the usage export downloaded last
    written,    \* the items recorded so far
    running,    \* the plugin is configured; without it nothing is accounted
    moves       \* how many of the bounded operations were taken

ledgerVars == <<ledger, clock, snapshot, rows, file, written, running, moves>>

-----------------------------------------------------------------------------
(* Loops.                                                                  *)

(* What the loop "for each entry of s" makes of base.                       *)
Loop(Body(_, _), base, s) ==
    LET after[n \in 0 .. Len(s)] == IF n = 0 THEN base ELSE Body(after[n - 1], s[n])
    IN  after[Len(s)]

(* The entries of s that are in S, and those that are not, in their order.  *)
Only(s, S) ==
    LET Keep(kept, e) == IF e \in S THEN Append(kept, e) ELSE kept IN Loop(Keep, <<>>, s)

Besides(s, S) == Only(s, Range(s) \ S)

-----------------------------------------------------------------------------
(* Records and their identities.  A record id is the execution's own or is  *)
(* derived from the content; the content names the client by the hash of    *)
(* its key, or only by the masked label after an import.                    *)

LedgerRecords == [x : Items, id : {"none", "legacy", "own"}, doubled : BOOLEAN, hashed : BOOLEAN]

Record(x, id, doubled, hashed) == [x |-> x, id |-> id, doubled |-> doubled, hashed |-> hashed]

Fallbacks == DOMAIN NativeOf

RecordID(r) == <<r.x, r.id>>
HasID(r)    == r.id # "none"
Legacy(r)   == IF ~HasID(r) /\ r.x \in Eligible THEN [r EXCEPT !.id = "legacy"] ELSE r

(* Mutant: the key holds the tokens as they are. *)
KeyAsStored(r) == <<r.x, r.hashed, r.doubled>>

(* The key is the same before and after the repair of the tokens. *)
DedupKey(r) == <<r.x, r.hashed>>

Repaired(l, r) == IF l.repairing THEN [r EXCEPT !.doubled = FALSE] ELSE r

Details(l)  == l.visible \o l.archive
IDs(l)      == {RecordID(r) : r \in {s \in Range(Details(l)) : HasID(s)}}
Keys(l)     == {DedupKey(r) : r \in Range(Details(l))}
LooseKeys(l) == {DedupKey(r) : r \in {s \in Range(Details(l)) : ~HasID(s)}}

-----------------------------------------------------------------------------
(* Counters: of all requests, of a day, and of a client.  Subtraction stops *)
(* at zero, and a client without requests is dropped.                       *)

Dims == ({"all"} \X {0}) \cup ({"day"} \X {At[x] : x \in Items}) \cup ({"client"} \X {0, 1})

DimsOf(r) == {<<"all", 0>>, <<"day", At[r.x]>>, <<"client", IF r.hashed THEN 1 ELSE 0>>}

Tokens(r) == IF r.doubled THEN 2 ELSE 1

Minus(a, b) == IF a <= b THEN 0 ELSE a - b

Zero == [d \in Dims |-> [n |-> 0, tokens |-> 0]]

Counted(c, r) ==
    [d \in Dims |-> IF d \in DimsOf(r) THEN [n |-> c[d].n + 1, tokens |-> c[d].tokens + Tokens(r)]
                    ELSE c[d]]

Less(count, r) == [n |-> Minus(count.n, 1), tokens |-> Minus(count.tokens, Tokens(r))]

ClientLess(count, r) == IF Less(count, r).n = 0 THEN [n |-> 0, tokens |-> 0] ELSE Less(count, r)

Uncounted(c, r) ==
    [d \in Dims |-> IF d \notin DimsOf(r) THEN c[d]
                    ELSE IF d[1] = "client" THEN ClientLess(c[d], r) ELSE Less(c[d], r)]

CountedAll(c, rs)   == Loop(Counted, c, rs)
UncountedAll(c, rs) == Loop(Uncounted, c, rs)

-----------------------------------------------------------------------------
(* Facts: the tokens of each eligible record, by record id.                *)

Without(f, ids) == [i \in DOMAIN f \ ids |-> f[i]]
With(f, i, v)   == [j \in DOMAIN f \cup {i} |-> IF j = i THEN v ELSE f[j]]

AddFact(l, r) ==
    IF r.x \notin Eligible \/ RecordID(Legacy(r)) \in DOMAIN l.deleted THEN l
    ELSE [l EXCEPT !.facts = With(@, RecordID(Legacy(r)), r.doubled)]

(* Tombstones are left when records with an id are removed from accounting. *)
Buried(l, ids) ==
    [l EXCEPT !.facts = Without(@, ids), !.deleted = [i \in DOMAIN @ \cup ids |-> At[i[1]]]]

(* Mutant: facts leave with retention, whatever period covers them. *)
PruneFacts(l) ==
    LET keepAfter == clock - l.retention
    IN  IF l.retention = 0 THEN l
        ELSE [l EXCEPT !.facts = Without(@, {i \in DOMAIN @ : At[i[1]] <= keepAfter})]

(* Facts leave with retention unless a quota period covers them; tombstones *)
(* stay as long as a fact of theirs could.                                  *)
PruneQuota(l) ==
    LET keepAfter == clock - l.retention
        Covered(i) == At[i[1]] >= PeriodStart
        horizon    == IF PeriodStart < keepAfter THEN PeriodStart ELSE keepAfter
    IN  IF l.retention = 0 THEN l
        ELSE [l EXCEPT
                !.facts = Without(@, {i \in DOMAIN @ : ~Covered(i) /\ At[i[1]] < keepAfter}),
                !.deleted = Without(@, {i \in DOMAIN @ : @[i] < horizon})]

-----------------------------------------------------------------------------
(* Recording.                                                              *)

(* Mutant: the last expiry is watched. *)
WatchedLast(l, r) ==
    LET expires == At[r.x] + l.retention
    IN  IF l.retention > 0 /\ (l.expiry = Unset \/ expires > l.expiry)
        THEN [l EXCEPT !.expiry = expires] ELSE l

(* nextDetailExpiry *)
Watched(l, r) ==
    LET expires == At[r.x] + l.retention
    IN  IF l.retention > 0 /\ (l.expiry = Unset \/ expires < l.expiry)
        THEN [l EXCEPT !.expiry = expires] ELSE l

Correlates(r) == r.x \in Fallbacks \/ \E f \in Fallbacks : NativeOf[f] = r.x

Insert(l, given, archived) ==
    LET r == Legacy(given)
    IN  IF HasID(r) /\ RecordID(r) \in DOMAIN l.deleted THEN l
        ELSE AddFact(Watched([l EXCEPT
                        !.visible = IF archived THEN @ ELSE Append(@, r),
                        !.archive = IF archived THEN Append(@, r) ELSE @,
                        !.counters = Counted(@, r),
                        !.dirty = @ \/ Correlates(r)], r), r)

Trim(l) ==
    LET over == Minus(Len(l.visible), MaxVisible)
    IN  [l EXCEPT !.archive = @ \o SubSeq(l.visible, 1, over),
                  !.visible = SubSeq(@, over + 1, Len(@))]

(* sort.SliceStable: a record is placed before the later ones.              *)
Placed(sorted, r) ==
    LET later == {s \in Range(sorted) : At[r.x] < At[s.x]}
    IN  Besides(sorted, later) \o <<r>> \o Only(sorted, later)

Sorted(rs) == Loop(Placed, <<>>, rs)

(* The archive is pruned first, then the details, which are put in order of *)
(* their times when a record may have come late, and cut to the limit.      *)
Pruned(l, sorting) ==
    LET old     == {r \in Range(Details(l)) : l.retention > 0 /\ At[r.x] < clock - l.retention}
        gone    == Only(l.archive, old) \o Only(l.visible, old)
        archive == Besides(l.archive, old)
        visible == Besides(l.visible, old)
        left    == [l EXCEPT !.archive = archive, !.counters = UncountedAll(@, gone), !.expiry = Unset,
                             !.visible = IF sorting THEN Sorted(visible) ELSE visible]
    IN  Trim(Loop(Watched, left, archive \o visible))

Prune(l) == Pruned(l, TRUE)

PruneExpired(l) == IF l.retention > 0 /\ l.expiry # Unset /\ clock > l.expiry THEN Pruned(l, FALSE) ELSE l

-----------------------------------------------------------------------------
(* Removing records that are counted under another identity.               *)

(* Mutant: the counters keep what is removed. *)
RemoveQuietly(l, gone) ==
    [l EXCEPT !.visible = Besides(@, gone), !.archive = Besides(@, gone)]

RemoveAll(l, gone) ==
    [l EXCEPT !.visible = Besides(@, gone), !.archive = Besides(@, gone),
              !.counters = UncountedAll(@, Only(Details(l), gone))]

RemoveDeleted(l, ids) ==
    RemoveAll(l, {r \in Range(Details(l)) : HasID(Legacy(r)) /\ RecordID(Legacy(r)) \in ids})

(* Records that another record of "rs" stands for: "of" is NativeOf, for a  *)
(* fallback, or CopyOf.                                                     *)
Superseded(rs, of) == {r \in rs : r.x \in DOMAIN of /\ \E s \in rs : s.x = of[r.x]}

(* Such a record leaves the counters and leaves a tombstone.               *)
Retract(l, gone) == RemoveAll(Buried(l, {RecordID(r) : r \in {s \in gone : HasID(s)}}), gone)

Reconcile(l) ==
    LET pairs == Superseded(Range(Details(l)), NativeOf)
        clean == [l EXCEPT !.dirty = FALSE]
    IN  IF pairs = {} THEN clean ELSE Prune(Retract(clean, pairs))

DropCopies(l) == Retract(l, Superseded(Range(Details(l)), CopyOf))

InsertEntry(l, entry) == Insert(l, entry.r, entry.archived)

Again(rs, archived) ==
    [i \in DOMAIN rs |-> [r |-> [rs[i] EXCEPT !.doubled = FALSE], archived |-> archived]]

(* Mutant: the archive is left as it is. *)
RepairVisible(l) ==
    LET bad       == {r \in Range(l.visible) : r.doubled}
        Put(k, r) == Insert(k, [r EXCEPT !.doubled = FALSE], FALSE)
        repaired  == Loop(Put, RemoveAll(l, bad), Only(l.visible, bad))
    IN  IF l.repairing THEN [repaired EXCEPT !.facts = [i \in DOMAIN @ |-> FALSE]] ELSE l

(* claude_cache_repair_enabled: a doubled record is removed and recorded    *)
(* again with its tokens repaired; facts that outlived theirs follow.       *)
RepairDoubled(l) ==
    LET bad      == {r \in Range(Details(l)) : r.doubled}
        repairs  == Again(Reverse(Only(l.archive, bad)), TRUE) \o Again(Only(l.visible, bad), FALSE)
        repaired == Loop(InsertEntry, RemoveAll(l, bad), repairs)
    IN  IF l.repairing THEN [repaired EXCEPT !.facts = [i \in DOMAIN @ |-> FALSE]] ELSE l

-----------------------------------------------------------------------------
(* Snapshots and backups.                                                  *)

(* Rows of the journal, each in the shard of its day.                      *)
DetailRow(r, archived) == [kind |-> "detail", r |-> r, archived |-> archived, day |-> clock]
QuotaRow(f) == [kind |-> "quota", facts |-> f.facts, deleted |-> f.deleted, day |-> clock]

(* What a file holds: the details, the totals, and the quota state.        *)
Saved(l) == [visible |-> l.visible, archive |-> l.archive, counters |-> l.counters,
             quota |-> TRUE, facts |-> l.facts, deleted |-> l.deleted, cut |-> l.cut, at |-> clock]

(* prepareQuotaImportSnapshotLocked *)
Prepared(l, f) == IF l.repairing THEN [f EXCEPT !.facts = [i \in DOMAIN @ |-> FALSE]] ELSE f

(* Two statements about one record id must agree on its tokens; a record    *)
(* without an id adopts what is known of it.                                *)
FactsClash(f, l) == \E i \in DOMAIN f.facts \cap DOMAIN l.facts : f.facts[i] # l.facts[i]

Conflicting(f, l) ==
    {r \in Range(Details(f)) :
        /\ r.x \in Eligible /\ HasID(r)
        /\ \E facts \in {f.facts, l.facts} :
             RecordID(r) \in DOMAIN facts /\ facts[RecordID(r)] # Repaired(l, r).doubled}

Conflicts(f, l) == (f.quota /\ FactsClash(f, l)) \/ Conflicting(f, l) # {}

WithFacts(l, facts, added) ==
    [l EXCEPT !.facts = [i \in DOMAIN @ \cup added |-> IF i \in added THEN facts[i] ELSE @[i]]]

MergeQuota(l, f) ==
    LET removed == RemoveDeleted(Buried(l, DOMAIN f.deleted), DOMAIN f.deleted)
    IN  IF ~f.quota \/ FactsClash(f, l) THEN l
        ELSE WithFacts(removed, f.facts, DOMAIN f.facts \ DOMAIN removed.deleted)

(* reconcileProtocolFallbackSnapshot *)
PairedOut(f) == RemoveAll(f, Superseded(Range(Details(f)), NativeOf))

(* One record of a file.  "loose" are the keys of records that came without *)
(* an id; "fresh" are the rows the import adds to the journal.              *)
MergeRecord(persist, m, entry) ==
    LET given == entry.r
        hashOf == persist /\ given.hashed
        client == IF persist THEN [given EXCEPT !.hashed = FALSE] ELSE given
        named == IF HasID(client) THEN client
                 ELSE LET r == Legacy(client)
                      IN  IF HasID(r) /\ RecordID(r) \in DOMAIN m.l.facts
                          THEN [r EXCEPT !.doubled = m.l.facts[RecordID(r)]] ELSE r
        r == Repaired(m.l, named)
        known == IF HasID(given) THEN m.loose ELSE Keys(m.l) \cup m.loose
        dropped == \/ m.l.retention > 0 /\ At[r.x] < clock - m.l.retention
                   \/ HasID(r) /\ RecordID(r) \in DOMAIN m.l.deleted \cup IDs(m.l)
                   \/ hashOf /\ <<r.x, TRUE>> \in known
                   \/ DedupKey(r) \in known
    IN  IF dropped THEN m
        ELSE [l |-> Insert(m.l, r, entry.archived),
              loose |-> IF HasID(given) THEN m.loose ELSE m.loose \cup {DedupKey(r)},
              fresh |-> Append(m.fresh, DetailRow(r, entry.archived))]

Entries(f) == [i \in 1..Len(Details(f)) |-> [r |-> Details(f)[i], archived |-> i > Len(f.visible)]]

(* mergeSnapshotLocked *)
Merge(l, f, persist) ==
    LET quota == Reconcile(MergeQuota(l, f))
        start == [l |-> quota, loose |-> LooseKeys(quota), fresh |-> <<>>]
        Take(m, entry) == MergeRecord(persist, m, entry)
        done == Loop(Take, start, Entries(PairedOut(f)))
        merged == Reconcile(Prune(done.l))
        copies == Superseded(Range(Details(merged)), CopyOf)
    IN  [l |-> DropCopies(merged),
         fresh |-> Besides(done.fresh, {row \in Range(done.fresh) : row.r \in copies})]

(* restoreStorageSnapshotLocked and restoreQuotaSnapshotLocked: the totals   *)
(* come from the file, with what was counted and cut; the client series     *)
(* from its details.                                                       *)
RestoredTotals(f) ==
    LET clients == CountedAll(Zero, Details(f))
    IN  [d \in Dims |-> IF d[1] = "client" THEN clients[d] ELSE f.counters[d]]

Adopted(l) ==
    LET Adopt(rs) == [i \in DOMAIN rs |-> Legacy(rs[i])]
        named == [l EXCEPT !.visible = Adopt(@), !.archive = Adopt(@)]
    IN  Loop(AddFact, named, Details(named))

RestoredQuota(l, f) ==
    IF f.quota THEN RemoveDeleted([l EXCEPT !.facts = f.facts, !.deleted = f.deleted], DOMAIN f.deleted)
    ELSE Adopted(l)

Restored(l, given) ==
    LET f == PairedOut(given)
        main == [l EXCEPT !.visible = f.visible, !.archive = f.archive, !.cut = f.cut, !.counters = RestoredTotals(f)]
    IN  DropCopies(RestoredQuota(main, f))

-----------------------------------------------------------------------------
(* Replay.  "ids" are the record ids that are accounted, "factIds" the facts *)
(* that came with the snapshot, "keys" the contents that are accounted,     *)
(* "residual" how many requests the snapshot counted without details.       *)

ReplayState(l, at) ==
    [l |-> l, ids |-> IDs(l), factIds |-> DOMAIN l.facts, keys |-> Keys(l),
     residual |-> Minus(l.counters[<<"all", 0>>].n, Len(Details(l))), absorbed |-> {}, at |-> at]

ReplayQuota(st, row) ==
    LET added == DOMAIN row.facts \ (st.factIds \cup st.ids \cup DOMAIN st.l.deleted)
    IN  [st EXCEPT !.l = MergeQuota(WithFacts(@, row.facts, added),
                                    [quota |-> TRUE, facts |-> <<>>, deleted |-> row.deleted])]

(* A record whose fact came with the snapshot takes its tokens from there.  *)
Rehydrated(st, r) ==
    IF RecordID(r) \in st.factIds \cap DOMAIN st.l.facts
    THEN Repaired(st.l, [r EXCEPT !.doubled = st.l.facts[RecordID(r)]]) ELSE r

Absorbable(st, r) == st.residual > 0 /\ At[r.x] < st.at

Replayed(st, r, archived) ==
    LET counted == AddFact(st.l, r)
        id      == IF HasID(r) THEN {RecordID(r)} ELSE {}
    IN  IF id \cap (st.ids \cup DOMAIN st.l.deleted) # {} THEN st
        ELSE IF DedupKey(r) \in st.absorbed THEN [st EXCEPT !.l = counted]
        ELSE IF Absorbable(st, r)
             THEN [st EXCEPT !.l = counted, !.residual = @ - 1, !.absorbed = @ \cup {DedupKey(r)}]
        ELSE [st EXCEPT !.l = Insert(counted, r, archived), !.ids = @ \cup id, !.keys = @ \cup {DedupKey(r)}]

ReplayRow(st, row) ==
    IF row.kind = "quota" THEN ReplayQuota(st, row)
    ELSE IF ~HasID(row.r) /\ DedupKey(row.r) \in st.keys THEN st
    ELSE Replayed(st, Rehydrated(st, Legacy(Repaired(st.l, row.r))), row.archived)

(* A shard is read in one batch; a fallback that has its native record in   *)
(* it is not replayed.                                                      *)
Batch(rs) ==
    LET details == {row \in Range(rs) : row.kind = "detail"}
        pairs   == Superseded({row.r : row \in details}, NativeOf)
    IN  Besides(rs, {row \in details : row.r \in pairs})

ReplayShard(st, rs) ==
    LET read == Loop(ReplayRow, st, Batch(rs))
        kept == Prune(Reconcile(Prune(read.l)))
    IN  [read EXCEPT !.l = kept, !.keys = Keys(kept), !.absorbed = {}]

(* Shards older than the snapshot's day or than retention are not read.     *)
Replay(l, at, rs) ==
    LET Shard(d) == {row \in Range(rs) : row.day = d}
        Read(d)  == Shard(d) # {} /\ d >= at /\ (l.retention = 0 \/ d >= clock - l.retention)
        after[d \in 0 .. LedgerEnd] ==
            IF d = 0 THEN ReplayState(Reconcile(l), at)
            ELSE IF Read(d) THEN ReplayShard(after[d - 1], Only(rs, Shard(d))) ELSE after[d - 1]
    IN  Reconcile(DropCopies(after[LedgerEnd].l))

-----------------------------------------------------------------------------
(* Configuration and restarts.                                             *)

Fresh(ret, rep) ==
    [visible |-> <<>>, archive |-> <<>>, counters |-> Zero, facts |-> <<>>, deleted |-> <<>>,
     cut |-> {}, expiry |-> Unset, dirty |-> FALSE, retention |-> ret, repairing |-> rep]

(* configureStorageLocked, with a snapshot and the lines of the shards      *)
Opened(l, f, rs) ==
    LET given == Prepared(l, f)
        base  == IF l.counters[<<"all", 0>>].n # 0 THEN Merge(l, given, FALSE).l ELSE Restored(l, given)
    IN  IF f = NoFile THEN Replay(l, 0, rs) ELSE Replay(base, f.at, rs)

(* What ConfigurePatch does after the storage is open.                      *)
Settled(l) == PruneQuota(Prune(RepairDoubled(l)))

(* The lines that a snapshot leaves.                                       *)
RowsOfToday == Only(rows, {row \in Range(rows) : row.day >= clock})

-----------------------------------------------------------------------------
(* What earlier versions left: records without ids and without quota facts, *)
(* and totals that match the details and what was counted and cut.          *)

CutRecords(cut) ==
    LET order == SetToSeq(cut)
    IN  [i \in 1..Cardinality(cut) |-> Record(order[i], "none", order[i] \in Doubled, TRUE)]

Tally(l) == CountedAll(Zero, Details(l) \o CutRecords(l.cut))

TotalsMatch(l) == \A d \in Dims : d[1] # "client" => l.counters[d] = Tally(l)[d]

EarlierRecords ==
    {r \in LedgerRecords : r.x \in Earlier /\ r.id = "none" /\ (r.doubled <=> r.x \in Doubled)}

ASSUME HistoryAssumption ==
    /\ Backups \subseteq
        [visible : Seq(EarlierRecords), archive : Seq(EarlierRecords),
         counters : [Dims -> [n : Nat, tokens : Nat]], quota : {FALSE}, facts : {<<>>},
         deleted : {<<>>}, cut : SUBSET Truncated, at : Nat]
    /\ \A f \in Backups : TotalsMatch(f)
    /\ \A rs \in OldRows :
        rs \in Seq([kind : {"detail"}, r : EarlierRecords, archived : BOOLEAN, day : 1..LedgerEnd])

-----------------------------------------------------------------------------
(* Actions.                                                                *)

LedgerInit ==
    /\ clock = 1 /\ moves = 0 /\ written = {}
    /\ snapshot \in Backups \cup {NoFile} /\ rows \in OldRows
    /\ file = snapshot
    /\ running = FALSE /\ \E ret \in Retentions, rep \in BOOLEAN : ledger = Fresh(ret, rep)

Spend == running /\ moves < MaxMoves /\ moves' = moves + 1

(* The first ConfigurePatch of a process. *)
Begin ==
    /\ ~running /\ running' = TRUE
    /\ ledger' = Settled(Opened(ledger, snapshot, rows))
    /\ UNCHANGED <<clock, snapshot, rows, file, written, moves>>

(* Record.  An execution may end after later ones were recorded.            *)
RecordUsage(x) ==
    LET detail == Record(x, IF x \in Eligible THEN "own" ELSE "none", FALSE, TRUE)
        added  == Insert(ledger, detail, FALSE)
        due    == ledger.retention > 0 /\ (added.expiry = Unset \/ clock >= added.expiry)
    IN  /\ running /\ x \in Items \ (Earlier \cup written) /\ At[x] <= clock
        /\ ledger' = PruneQuota(Trim(IF due THEN Pruned(added, FALSE) ELSE added))
        /\ rows' = Append(rows, DetailRow(detail, FALSE))
        /\ written' = written \cup {x}
        /\ UNCHANGED <<clock, snapshot, file, running, moves>>

(* captureUsageExport, ReconciledSnapshot *)
Export ==
    LET l == PruneExpired(ledger)
    IN  /\ Spend
        /\ ledger' = PruneQuota(IF l.dirty THEN Reconcile(l) ELSE l)
        /\ file' = Saved(ledger')
        /\ UNCHANGED <<clock, snapshot, rows, written, running>>

(* mergeSnapshotChecked *)
ImportFile(f) ==
    LET given  == Prepared(ledger, f)
        merged == Merge(ledger, given, TRUE)
    IN  /\ Spend /\ f # NoFile /\ ~Conflicts(given, ledger)
        /\ ledger' = merged.l
        /\ rows' = rows \o (IF f.quota THEN <<QuotaRow(given)>> ELSE <<>>) \o merged.fresh
        /\ UNCHANGED <<clock, snapshot, file, written, running>>

(* SummaryWithoutDetailsAt, dashboardVersionAt *)
Query ==
    /\ running
    /\ ledger' = PruneQuota(PruneExpired(ledger))
    /\ UNCHANGED <<clock, snapshot, rows, file, written, running, moves>>

(* writeStorageSnapshotLocked; the shards of earlier days are compacted.    *)
SaveSnapshot ==
    /\ Spend
    /\ ledger' = PruneQuota(PruneExpired(ledger))
    /\ snapshot' = Saved(ledger')
    /\ rows' = RowsOfToday
    /\ UNCHANGED <<clock, file, written, running>>

(* ConfigurePatch, without and with a storage setting in the patch: then    *)
(* the storage is closed, which saves a snapshot, and opened again.         *)
Configured(ret, rep) == [ledger EXCEPT !.retention = ret, !.repairing = rep]

Configure(ret, rep) ==
    /\ Spend
    /\ ledger' = Settled(Configured(ret, rep))
    /\ UNCHANGED <<clock, snapshot, rows, file, written, running>>

Reopen(ret, rep) ==
    LET closed == PruneQuota(PruneExpired(RepairDoubled(Configured(ret, rep))))
    IN  /\ Spend
        /\ snapshot' = Saved(closed)
        /\ rows' = RowsOfToday
        /\ ledger' = Settled(Opened(closed, snapshot', rows'))
        /\ UNCHANGED <<clock, file, written, running>>

(* The process stops without a final snapshot.                              *)
Stop ==
    /\ Spend /\ running' = FALSE
    /\ ledger' = Fresh(ledger.retention, ledger.repairing)
    /\ UNCHANGED <<clock, snapshot, rows, file, written>>

Tick ==
    /\ clock < LedgerEnd /\ clock' = clock + 1
    /\ UNCHANGED <<ledger, snapshot, rows, file, written, running, moves>>

LedgerNext ==
    \/ \E x \in Items : RecordUsage(x)
    \/ Begin \/ Stop \/ Export \/ Query \/ SaveSnapshot \/ Tick
    \/ \E f \in Backups \cup {file} : ImportFile(f)
    \/ \E ret \in Retentions, rep \in BOOLEAN : Configure(ret, rep) \/ Reopen(ret, rep)

LedgerSpec == LedgerInit /\ [][LedgerNext]_ledgerVars

-----------------------------------------------------------------------------
(* Properties.                                                             *)

(* Every counter is what the records that are left add up to, and what      *)
(* earlier versions counted without keeping: recording, repairs, merges,    *)
(* retractions and retention take out exactly what was put in.              *)
CountersMatch == TotalsMatch(ledger)

(* A request is counted once, whatever form and way it came back in: there  *)
(* is one record of an item, none when an earlier version counted it        *)
(* without its details; a fallback stays beside its native record only      *)
(* until the next reconciliation, which is due; and no record that was      *)
(* taken since is missing before it expires, unless the replay took it for  *)
(* one of those that were counted without details.                          *)
EachCountedOnce ==
    LET rs == Details(ledger)
        counted == {r.x : r \in Range(rs)}
        longest == CHOOSE ret \in Retentions : \A other \in Retentions : other # 0 => other <= ret
    IN  /\ \A i, j \in DOMAIN rs : rs[i].x = rs[j].x => i = j
        /\ counted \cap ledger.cut = {}
        /\ Superseded(Range(rs), NativeOf) # {} => ledger.dirty
        /\ running /\ ledger.cut = {} => \A x \in written : At[x] >= clock - longest => x \in counted

(* No record outlives retention unnoticed: the time at which the next       *)
(* expiry is looked for is not after any record's.                          *)
ExpiryKnown ==
    ledger.retention > 0 => \A r \in Range(Details(ledger)) :
        ledger.expiry # Unset /\ ledger.expiry <= At[r.x] + ledger.retention

(* The quota accounting follows the ledger: each eligible record of the     *)
(* quota period that is shown has a fact with its tokens, under an identity *)
(* that is not deleted.                                                    *)
FactsFollow ==
    \A r \in {s \in Range(Details(ledger)) : s.x \in Eligible /\ At[s.x] >= PeriodStart} :
        LET id == RecordID(Legacy(r))
        IN  /\ id \in DOMAIN ledger.facts /\ ledger.facts[id] = r.doubled
            /\ id \notin DOMAIN ledger.deleted

(* No record of the period that is shown keeps the next process from taking *)
(* the snapshot on disk: the validation of quota references, whose failure  *)
(* turns the storage off, passes for each of them.                         *)
SnapshotAccepted ==
    snapshot # NoFile => \A rep \in BOOLEAN :
        LET next  == Fresh(ledger.retention, rep)
            given == Prepared(next, snapshot)
        IN  ~FactsClash(given, next) /\ \A r \in Conflicting(given, next) : At[r.x] < PeriodStart
=============================================================================
