--------------------------- MODULE MCStorageParts ---------------------------
(* Small instances, for TLC, of the three stores: the shards and snapshots  *)
(* in use, the staging of a legacy snapshot for SQLite and the SQLite       *)
(* ledger.  None calls another yet, so a behaviour of this module exercises *)
(* one of them, chosen at the beginning; the SQLite ledger either by        *)
(* callers at the same time or by one at a time with its backups.           *)
EXTENDS MCUsageStorage, MCLegacyMigration, MCSqliteLedger

CONSTANT BackupGenerations  \* bound: batches committed while backups are taken

VARIABLE part

-----------------------------------------------------------------------------

PartsSymmetry == Symmetry \cup Permutations(Attempts) \cup Permutations(Callers)

PartsInit ==
    /\ part \in {"shards", "migration", "batches", "backups"}
    /\ Init /\ MigrationInit /\ SqliteInit
    /\ part # "migration" => legacy.content = CHOOSE d \in Documents : TRUE

Shards    == part = "shards"    /\ UNCHANGED <<part, migrationVars, sqliteVars>>
Migration == part = "migration" /\ UNCHANGED <<part, vars, sqliteVars>>
Backups   == part = "backups"   /\ UNCHANGED <<part, vars, migrationVars>>

Sqlite(a) ==
    /\ part \in {"batches", "backups"}
    /\ part = "backups" => \A c \in Callers \ {a} : client[c] = Resting
    /\ UNCHANGED <<part, vars, migrationVars>>

Writes(a) == Sqlite(a) /\ (part = "backups" => db.generation < BackupGenerations)

PartsNext ==
    \/ \E r \in Records : Shards /\ Record(r)
    \/ \E r \in Records : Shards /\ Import(r)
    \/ \E r \in Records : Shards /\ Admit(r)
    \/ \E r \in Records : Shards /\ Send(r)
    \/ \E r \in Records : Shards /\ GiveUp(r)
    \/ Shards /\ Take
    \/ Shards /\ Rollover
    \/ Shards /\ OpenShard
    \/ Shards /\ OpenFails
    \/ Shards /\ AppendBuffered
    \/ Shards /\ AppendRefused
    \/ \E n \in 0..(BatchSize - 1) : Shards /\ AppendSpills(n)
    \/ \E n \in 0..(BatchSize - 1) : Shards /\ AppendFails(n)
    \/ Shards /\ Flush
    \/ Shards /\ FlushFails
    \/ Shards /\ Sync
    \/ Shards /\ SnapshotDue
    \/ Shards /\ Drained
    \/ Shards /\ Capture
    \/ Shards /\ Rename
    \/ Shards /\ SnapshotFails
    \/ Shards /\ Compact
    \/ \E g \in {"enable", "disable"} : Shards /\ BeginConfigure(g)
    \/ Shards /\ BeginClose
    \/ Shards /\ WorkerStopped
    \/ Shards /\ FinalSnapshot
    \/ Shards /\ NoFinalSnapshot
    \/ Shards /\ Release
    \/ Shards /\ LoadRefused
    \/ Shards /\ Load
    \/ Shards /\ Tick
    \/ Shards /\ Crash
    \/ Shards /\ PowerLoss
    \/ Shards /\ Boot
    \/ Shards /\ Damage
    \/ Shards /\ Repair
    \/ \E a \in Attempts : Migration /\ BeginStage(a)
    \/ \E a \in Attempts : Migration /\ StageBatch(a)
    \/ \E a \in Attempts : Migration /\ FinishStage(a)
    \/ \E a \in Attempts : Migration /\ BeginProject(a)
    \/ \E a \in Attempts : Migration /\ Cancel(a)
    \/ \E a \in Attempts, n \in BatchSizes : Migration /\ ProjectBatch(a, n)
    \/ \E a \in Attempts, n \in BatchSizes : Migration /\ FinishProject(a, n)
    \/ \E a \in Attempts, n \in BatchSizes : Migration /\ CatalogBatch(a, n)
    \/ \E a \in Attempts, n \in BatchSizes : Migration /\ FinishCatalog(a, n)
    \/ \E a \in Attempts, now \in Clocks : Migration /\ BeginCatalog(a, now)
    \/ \E document \in Rewrites : Migration /\ LegacyWrite(document)
    \/ \E i \in Units : Migration /\ SpoilUnit(i)
    \/ Migration /\ HealUnit
    \/ \E a \in Callers : Sqlite(a) /\ ReadView(a)
    \/ \E a \in Callers, limit \in Limits : Sqlite(a) /\ ReadPage(a, limit)
    \/ \E a \in Callers, f \in Files, n \in Lines : Writes(a) /\ ResumeImport(a, f, n)
    \/ \E a \in Callers, delete \in BOOLEAN : Writes(a) /\ Amend(a, delete)
    \/ \E a \in Callers : Writes(a) /\ ApplyBatch(a)
    \/ \E a \in Callers : Sqlite(a) /\ Abandon(a)
    \/ \E b \in Directories : Backups /\ MakeDirectory(b)
    \/ \E b \in Directories : Backups /\ VacuumInto(b)
    \/ \E b \in Directories : Backups /\ PublishManifest(b)
    \/ \E b \in Directories : Backups /\ BackupDone(b)
    \/ \E b \in Directories : Backups /\ BackupFails(b)
    \/ \E b \in Directories : Backups /\ Rot(b)
    \/ \E b \in Directories : Backups /\ RestoreBackup(b)
    \/ Backups /\ ProcessDies

PartsSpec == PartsInit /\ [][PartsNext]_<<part, vars, migrationVars, sqliteVars>>
=============================================================================
