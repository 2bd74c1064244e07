---------------------------- MODULE SqliteLedger ----------------------------
(***************************************************************************)
(* The SQLite ledger: batches of record mutations that commit with derived *)
(* state and the cursor of a migration (sqlite_ledger.go,                  *)
(* sqlite_ledger_state.go, sqlite_ledger_values.go), views that page       *)
(* through one generation of it while writers go on, and backups that are  *)
(* published, verified and restored (sqlite_ledger_backup.go).             *)
(*                                                                         *)
(* The callers are those the package is written for and its tests use: a   *)
(* migration that resumes at the cursor it reads, a repair that edits or   *)
(* deletes records by the revision it has read, and an export that joins   *)
(* pages.  Any may be cancelled, lose its reply and try again.             *)
(***************************************************************************)
EXTENDS Integers, Sequences, FiniteSets, SequencesExt

CONSTANTS
    Callers,       \* goroutines that use the ledger
    Files,         \* versions of the legacy file, by fingerprint
    LineOf,        \* LineOf[l]: [at, identity, payload] of line l of the file
    OtherIdentity, \* what an edit may set the identity of a record to
    Large,         \* contents above sqliteLedgerInlineValueBytes
    PageBytes,     \* sqliteLedgerBatchBytes, in records
    Limits,        \* page sizes callers ask for
    Queries,       \* [cutoff, accounting]
    Directories,   \* where backups are written
    MaxGeneration, \* bound: committed batches
    MaxRot,        \* bound: backup files that go bad
    Missing,       \* no row, no file
    Rotten         \* what a file holds that has gone bad

VARIABLES
    db,            \* the database as committed
    client,        \* what each caller is doing
    backup,        \* backup directories
    restored,      \* the database file a backup was restored to
    rot            \* backup files gone bad so far (bound)

sqliteVars == <<db, client, backup, restored, rot>>

Lines == DOMAIN LineOf

Identities == {LineOf[l].identity : l \in Lines} \cup {OtherIdentity}
Payloads   == {LineOf[l].payload : l \in Lines} \cup {"brief"}

ASSUME LinesAssumption ==
    /\ Len(LineOf) \in Nat /\ Lines = 1..Len(LineOf)
    /\ \A l \in Lines : LineOf[l].at \in Int
ASSUME LimitsAssumption == Limits \subseteq Nat \ {0}
\* What a database may hold; a record has the number of its insertion.
LedgerRows == [revision : Nat, edits : Nat, archived : BOOLEAN, line : Files \X Lines,
               identity : Identities, payload : Payloads]
LedgerValues == ({"identity"} \X Identities) \cup ({"request"} \X Payloads)
Databases ==
    [generation : Nat, records : UNION {[ids -> LedgerRows] : ids \in SUBSET Lines}, next : Nat,
     identities : SUBSET Identities, values : SUBSET LedgerValues,
     progress : {Missing} \cup [file : Files, position : Nat],
     removals : {Missing} \cup [revision : Nat, value : Nat],
     gone : SUBSET (Files \X Lines), edits : UNION {[ids -> Nat] : ids \in SUBSET Lines}]

ASSUME MissingAssumption ==
    /\ Missing \notin [file : Files, position : Nat]
    /\ Missing \notin [file : Files, from : Nat, to : Nat]
    /\ Missing \notin [revision : Nat, value : Nat]
ASSUME RottenAssumption == Rotten \notin Databases

-----------------------------------------------------------------------------
(* A batch: applyState.  A database holds rows, and two ghosts: the lines  *)
(* whose records were deleted, and how often each record was edited.       *)

NewLedger == [generation |-> 0, records |-> [id \in {} |-> 0], next |-> 1,
          identities |-> {}, values |-> {}, progress |-> Missing, removals |-> Missing,
          gone |-> {}, edits |-> [id \in {} |-> 0]]

\* Rows of ledger_values a record and its identity need.
ValuesOf(r) ==
    {v \in {<<"identity", r.identity>>, <<"request", r.payload>>} : v[2] \in Large}

Held(d) == {d.records[id] : id \in DOMAIN d.records}

(* Mutant: the cursor is written without being compared. *)
CursorKnown(d, p) == d.progress = Missing \/ d.progress.file = p.file

CursorHolds(d, p) ==
    /\ d.progress # Missing => d.progress.file = p.file
    /\ p.from = IF d.progress = Missing THEN 0 ELSE d.progress.position

\* The row a mutation names is still the one the client has read.
RevisionHolds(d, m) ==
    m.id # 0 => m.id \in DOMAIN d.records /\ d.records[m.id].revision = m.revision

StateHolds(d, s) ==
    IF s.revision = 0 THEN d.removals = Missing
    ELSE d.removals # Missing /\ d.removals.revision = s.revision

Conflicts(d, batch) ==
    \/ batch.progress # Missing /\ ~CursorHolds(d, batch.progress)
    \/ batch.state # Missing /\ ~StateHolds(d, batch.state)
    \/ \E i \in DOMAIN batch.mutations : ~RevisionHolds(d, batch.mutations[i])

Row(d, m) == [revision |-> d.generation, edits |-> m.edits, archived |-> m.archived, line |-> m.line,
              identity |-> m.identity, payload |-> m.payload]

Stored(d, id, m) ==
    LET row == Row(d, m)
    IN [d EXCEPT !.records = [i \in DOMAIN @ \cup {id} |-> IF i = id THEN row ELSE @[i]],
                 !.edits = [i \in DOMAIN @ \cup {id} |-> IF i # id THEN @[i] ELSE IF i \in DOMAIN @ THEN @[i] + 1 ELSE 0],
                 !.identities = @ \cup {row.identity},
                 !.values = @ \cup ValuesOf(row)]

Mutated(d, m) ==
    CASE m.id = 0 -> [Stored(d, d.next, m) EXCEPT !.next = @ + 1]
      [] m.delete -> [d EXCEPT !.gone = @ \cup {d.records[m.id].line},
                               !.records = [i \in DOMAIN @ \ {m.id} |-> @[i]],
                               !.edits = [i \in DOMAIN @ \ {m.id} |-> @[i]]]
      [] OTHER    -> Stored(d, m.id, m)

\* Of the identities and values the batch has touched, those no row refers to.
Collected(before, after, touched) ==
    LET old  == {before.records[id] : id \in touched}
        dead == {r.identity : r \in old} \ {r.identity : r \in Held(after)}
        lost == (UNION {ValuesOf(r) : r \in old}) \ (UNION {ValuesOf(r) : r \in Held(after)})
    IN [after EXCEPT !.identities = @ \ dead, !.values = @ \ lost]

\* The rows a batch replaces or deletes.
Named(batch) == {batch.mutations[i].id : i \in DOMAIN batch.mutations} \ {0}

Applied(d, batch) ==
    LET opened  == [d EXCEPT !.generation = @ + 1,
                        !.progress = IF batch.progress = Missing THEN @
                                     ELSE [file |-> batch.progress.file, position |-> batch.progress.to],
                        !.removals = IF batch.state = Missing THEN @
                                     ELSE [revision |-> d.generation + 1, value |-> batch.state.value]]
        after[n \in 0..Len(batch.mutations)] ==
            IF n = 0 THEN opened ELSE Mutated(after[n - 1], batch.mutations[n])
    IN Collected(d, after[Len(batch.mutations)], Named(batch))

-----------------------------------------------------------------------------
(* Pages: sqliteLedgerPageQuery and readPage.                              *)

Resting == [op |-> "resting"]

\* Later first, then by id; the API and the model are the same throughout.
PageOrder(r, s) == r.at > s.at \/ (r.at = s.at /\ r.id < s.id)

Matching(d, query) ==
    {[id |-> id, revision |-> d.records[id].revision, at |-> LineOf[d.records[id].line[2]].at,
      weight |-> IF d.records[id].payload \in Large THEN PageBytes ELSE 1]
        : id \in {i \in DOMAIN d.records : /\ d.records[i].archived => query.accounting
                                           /\ LineOf[d.records[i].line[2]].at >= query.cutoff}}

\* A set of rows in that order: as many come before row n as it says.
Ordered(rows) ==
    [n \in 1..Cardinality(rows) |->
        CHOOSE r \in rows : Cardinality({q \in rows : PageOrder(q, r)}) = n - 1]

\* The longest prefix within the limit and the budget; the first row always fits.
Fitting(rows, limit) ==
    LET bytes[n \in 0..Len(rows)] == IF n = 0 THEN 0 ELSE bytes[n - 1] + rows[n].weight
        fits == {n \in 0..Len(rows) : n <= limit /\ (n > 1 => bytes[n] <= PageBytes)}
    IN SubSeq(rows, 1, CHOOSE n \in fits : \A m \in fits : m <= n)

(* Mutant: a page reads what is committed when it is asked for. *)
LatestRows(a) == Matching(db, client[a].query)

\* The rows of the view: those of the generation its first read has pinned.
PinnedRows(a) == Matching(client[a].db, client[a].query)

ReadView(a) ==
    /\ client[a] = Resting
    /\ \E query \in Queries :
          client' = [client EXCEPT ![a] = [op |-> "view", db |-> db, query |-> query, pages |-> <<>>, ended |-> FALSE]]
    /\ UNCHANGED <<db, backup, restored, rot>>

ReadPage(a, limit) ==
    /\ client[a].op = "view" /\ ~client[a].ended
    /\ LET after == client[a].pages
           rows  == {r \in PinnedRows(a) : after # <<>> => PageOrder(Last(after), r)}
           page  == Fitting(Ordered(rows), limit)
       IN client' = [client EXCEPT ![a].pages = @ \o page, ![a].ended = page = <<>>]
    /\ UNCHANGED <<db, backup, restored, rot>>

-----------------------------------------------------------------------------
(* The batches callers make of what a view has shown them.                 *)

Asking(a, batch) ==
    /\ client' = [client EXCEPT ![a] = [op |-> "apply", batch |-> batch]]
    /\ UNCHANGED <<db, backup, restored, rot>>

\* A migration of file goes on behind the cursor of the view.
ResumeImport(a, file, n) ==
    /\ client[a].op = "view" /\ client[a].pages = <<>>
    /\ LET seen == client[a].db.progress
           from == IF seen = Missing THEN 0 ELSE seen.position
           insert(l) == [id |-> 0, revision |-> 0, delete |-> FALSE, archived |-> FALSE, edits |-> 0,
                         line |-> <<file, l>>, identity |-> LineOf[l].identity, payload |-> LineOf[l].payload]
       IN /\ from + n \in Lines
          /\ Asking(a, [progress |-> [file |-> file, from |-> from, to |-> from + n], state |-> Missing,
                        mutations |-> [i \in 1..n |-> insert(from + i)]])

\* A repair edits the records it has read: it archives one and gives it
\* another identity, or deletes one and counts the removal.
Amend(a, delete) ==
    /\ client[a].op = "view" /\ client[a].pages # <<>>
    /\ \E ids \in (SUBSET {r.id : r \in ToSet(client[a].pages)}) \ {{}} :
          LET seen == client[a].db
              edit(id) == LET r == seen.records[id]
                          IN [id |-> id, revision |-> r.revision, delete |-> delete, archived |-> TRUE, edits |-> r.edits + 1,
                              line |-> r.line, identity |-> OtherIdentity, payload |-> "brief"]
              counted == IF seen.removals = Missing THEN [revision |-> 0, value |-> Cardinality(ids)]
                         ELSE [revision |-> seen.removals.revision, value |-> seen.removals.value + Cardinality(ids)]
          IN Asking(a, [progress |-> Missing, state |-> IF delete THEN counted ELSE Missing,
                        mutations |-> SetToSeq({edit(id) : id \in ids})])

\* The batch runs to its commit or is rolled back; the client may not learn
\* which, and then asks again.
ApplyBatch(a) ==
    /\ client[a].op = "apply"
    /\ IF Conflicts(db, client[a].batch) THEN UNCHANGED db
       ELSE db.generation < MaxGeneration /\ db' = Applied(db, client[a].batch)
    /\ \/ client' = [client EXCEPT ![a] = Resting]
       \/ UNCHANGED client
    /\ UNCHANGED <<backup, restored, rot>>

\* Cancelled, expired or the ledger closed: the view or transaction is gone.
Abandon(a) ==
    /\ client[a] # Resting
    /\ client' = [client EXCEPT ![a] = Resting]
    /\ UNCHANGED <<db, backup, restored, rot>>

-----------------------------------------------------------------------------
(* Backups.  A directory has its database file and, last of all, its       *)
(* manifest, which holds the generation and checksum of that file.         *)

NoDirectory == [made |-> FALSE, running |-> FALSE, file |-> Missing, manifest |-> Missing]

MakeDirectory(b) ==
    /\ ~backup[b].made
    /\ backup' = [backup EXCEPT ![b] = [NoDirectory EXCEPT !.made = TRUE, !.running = TRUE]]
    /\ UNCHANGED <<db, client, restored, rot>>

VacuumInto(b) ==
    /\ backup[b].running /\ backup[b].file = Missing
    /\ backup' = [backup EXCEPT ![b].file = db]
    /\ UNCHANGED <<db, client, restored, rot>>

\* The copy is inspected and hashed, and the manifest renamed into place.
PublishManifest(b) ==
    /\ backup[b].running /\ backup[b].file # Missing /\ backup[b].manifest = Missing
    /\ backup' = [backup EXCEPT ![b].manifest = backup[b].file]
    /\ UNCHANGED <<db, client, restored, rot>>

\* The directories are synced.
BackupDone(b) ==
    /\ backup[b].running /\ backup[b].manifest # Missing
    /\ backup' = [backup EXCEPT ![b].running = FALSE]
    /\ UNCHANGED <<db, client, restored, rot>>

\* Any error, of the last sync too, removes the files and the directory.
BackupFails(b) ==
    /\ backup[b].running
    /\ backup' = [backup EXCEPT ![b] = NoDirectory]
    /\ UNCHANGED <<db, client, restored, rot>>

Rot(b) ==
    /\ rot < MaxRot /\ backup[b].manifest # Missing /\ backup[b].file # Rotten
    /\ backup' = [backup EXCEPT ![b].file = Rotten] /\ rot' = rot + 1
    /\ UNCHANGED <<db, client, restored>>

\* verifySQLiteLedgerBackup.
Verified(b) == backup[b].manifest # Missing /\ backup[b].file = backup[b].manifest

\* restoreSQLiteLedgerBackup: verified, copied with its checksum taken again,
\* and linked to a path that does not exist.
RestoreBackup(b) ==
    /\ Verified(b) /\ restored = Missing
    /\ restored' = backup[b].file
    /\ UNCHANGED <<db, client, backup, rot>>

\* The process dies: callers and unfinished backups are gone, files stay.
ProcessDies ==
    /\ (\E a \in Callers : client[a] # Resting) \/ \E b \in Directories : backup[b].running
    /\ client' = [a \in Callers |-> Resting]
    /\ backup' = [b \in Directories |-> [backup[b] EXCEPT !.running = FALSE]]
    /\ UNCHANGED <<db, restored, rot>>

SqliteInit ==
    /\ db = NewLedger /\ restored = Missing /\ rot = 0
    /\ client = [a \in Callers |-> Resting]
    /\ backup = [b \in Directories |-> NoDirectory]

SqliteNext ==
    \/ \E a \in Callers : ReadView(a)
    \/ \E a \in Callers, limit \in Limits : ReadPage(a, limit)
    \/ \E a \in Callers, file \in Files, n \in Lines : ResumeImport(a, file, n)
    \/ \E a \in Callers, delete \in BOOLEAN : Amend(a, delete)
    \/ \E a \in Callers : ApplyBatch(a)
    \/ \E a \in Callers : Abandon(a)
    \/ \E b \in Directories : MakeDirectory(b)
    \/ \E b \in Directories : VacuumInto(b)
    \/ \E b \in Directories : PublishManifest(b)
    \/ \E b \in Directories : BackupDone(b)
    \/ \E b \in Directories : BackupFails(b)
    \/ \E b \in Directories : Rot(b)
    \/ \E b \in Directories : RestoreBackup(b)
    \/ ProcessDies

SqliteSpec == SqliteInit /\ [][SqliteNext]_sqliteVars

-----------------------------------------------------------------------------

\* The lines the cursor has passed, each in one record or deleted; every edit
\* kept; the removals counted; identities and values those in use.
Sound(d) ==
    LET passed == IF d.progress = Missing THEN {}
                  ELSE {<<d.progress.file, l>> : l \in 1..d.progress.position}
        live == {d.records[id].line : id \in DOMAIN d.records}
    IN /\ live \cup d.gone = passed /\ live \cap d.gone = {}
       /\ Cardinality(live) = Cardinality(DOMAIN d.records)
       /\ \A id \in DOMAIN d.records : d.records[id].edits = d.edits[id]
       /\ Cardinality(d.gone) = IF d.removals = Missing THEN 0 ELSE d.removals.value
       /\ d.identities = {r.identity : r \in Held(d)}
       /\ d.values = UNION {ValuesOf(r) : r \in Held(d)}

(* Whoever opens the database, a view of it, a published backup or the     *)
(* file one was restored to finds a sound ledger, whatever was cancelled,  *)
(* repeated or raced: sqlite_ledger.go:277, sqlite_ledger_backup.go:25.    *)
LedgerSound ==
    /\ Sound(db)
    /\ \A a \in Callers : client[a].op = "view" => Sound(client[a].db)
    /\ \A b \in Directories : backup[b].manifest # Missing => Sound(backup[b].manifest)
    /\ restored # Missing => restored # Rotten /\ Sound(restored)

(* The pages a view has joined are the records of its generation in order, *)
(* none missing or twice, though others commit between them: readPage.         *)
PagesComplete ==
    \A a \in Callers : client[a].op = "view" =>
        LET rows == Ordered(Matching(client[a].db, client[a].query))
        IN /\ IsPrefix(client[a].pages, rows)
           /\ client[a].ended => client[a].pages = rows
=============================================================================
