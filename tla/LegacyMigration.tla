--------------------------- MODULE LegacyMigration ---------------------------
(***************************************************************************)
(* The migration of a legacy snapshot into the SQLite database, as far as  *)
(* the code goes: the file is staged in batches (sqlite_migration.go), the *)
(* staged bytes are scanned (sqlite_migration_parse.go) and projected into *)
(* a tree (sqlite_migration_projection.go), and the tree is walked         *)
(* (sqlite_migration_projection_read.go) into a catalog of accounting      *)
(* groups (sqlite_migration_snapshot.go, _totals.go).  Every phase commits *)
(* its cursor with its rows, may be cancelled between two commits, is      *)
(* resumed by a later attempt and may be run by several at once.  The old  *)
(* writer may still touch the file, and staged bytes may read damaged.     *)
(*                                                                         *)
(* A document is JSON as written, duplicate members included; one staged   *)
(* unit is the bytes of one item of its scan.                              *)
(***************************************************************************)
EXTENDS Integers, Sequences, FiniteSets, SequencesExt, FiniteSetsExt, TLC

CONSTANTS
    Content,       \* what the legacy file may hold: name |-> JSON document
    Rewrites,      \* those it may be overwritten with
    Names,         \* every member name, in byte order
    Attempts,      \* callers that may run a phase at the same time
    Clocks,        \* recovery times a caller may pass to the analysis
    StageUnits,    \* units of a staging batch
    BatchSizes,    \* items after which a projection or catalog batch commits
    MaxWrites,     \* bound: changes of the legacy file
    MaxSpoils,     \* bound: times a staged unit reads damaged
    None           \* no row yet

VARIABLES
    legacy,        \* the file: its content, and the stamp size and mtime give
    source,        \* row of migration_sources
    chunks,        \* migration_chunks: the content each unit was read from
    damaged,       \* the staged unit that reads damaged at present, or 0
    damages,       \* times a unit was damaged (bound)
    nodes,         \* migration_projection_nodes with their edges and values
    projection,    \* row of migration_projections
    catalog,       \* row of migration_snapshot_catalogs, groups, providers
    call           \* what every attempt is doing, and the cursor it has seen

migrationVars == <<legacy, source, chunks, damaged, damages,
                   nodes, projection, catalog, call>>

-----------------------------------------------------------------------------
(* Values.  A JSON atom is the function of the fields it sets: null sets   *)
(* none, a number sets one, and a request detail any of several.           *)

Nothing == [x \in {} |-> x]

Field(value, name, default) == IF name \in DOMAIN value THEN value[name] ELSE default

IsNull(v) == v.json = "null"

-----------------------------------------------------------------------------
(* The scan: sqliteSnapshotParser.                                         *)

Counters ==
    ("total_requests" :> <<"value", "count">>) @@ ("input_tokens" :> <<"value", "count">>)

Structs ==
    ("snapshot" :> ("usage" :> <<"object", "usage">>)) @@
    ("usage" :> (Counters @@ ("apis" :> <<"object", "apis">>)
                          @@ ("requests_by_day" :> <<"object", "map:count">>))) @@
    ("api"   :> (Counters @@ ("models" :> <<"object", "models">>))) @@
    ("model" :> (Counters @@ ("details" :> <<"array", "detail">>)
                          @@ ("accounting" :> <<"array", "detail">>)
                          @@ ("providers" :> <<"array", "provider">>)))

Maps == ("apis" :> <<"object", "api">>) @@ ("models" :> <<"object", "model">>)
        @@ ("map:count" :> <<"value", "count">>)

\* What a member of an object of this scope is decoded as; unknown fields
\* of a struct are skipped, keys of a map are kept.
Member(scope, name) ==
    IF scope \in DOMAIN Maps THEN Maps[scope]
    ELSE Field(Structs[scope], name, <<"skipped", "">>)

Item(kind, scope, path, value) ==
    [kind |-> kind, scope |-> scope, path |-> path, value |-> value]

\* The items of a value met at path: object, array, end, value and null.
RECURSIVE Scan(_, _, _, _)
Scan(v, form, scope, path) ==
    CASE form = "skipped" -> <<>>
      [] form = "value"   -> << Item("value", scope, path, v.value) >>
      [] form \in {"object", "array"} /\ IsNull(v) -> << Item("null", scope, path, Nothing) >>
      [] OTHER ->
            LET inside(scanned, m) ==
                    LET as == IF form = "array" THEN <<"value", scope>> ELSE Member(scope, m[1])
                    IN scanned \o Scan(m[2], as[1], as[2], Append(path, m[1]))
            IN FoldLeft(inside, << Item(form, scope, path, Nothing) >>, v.members)
               \o << Item("end", scope, path, Nothing) >>

Documents == DOMAIN Content
ItemsOf   == [d \in Documents |-> Scan(Content[d], "object", "snapshot", <<>>)]
Size(document) == Len(ItemsOf[document])

-----------------------------------------------------------------------------
(* The projection: sqliteProjectionBuilder.  A build is the rows the       *)
(* transaction has written and the stack of open containers.               *)

Fresh(kind, scope) ==
    [kind |-> kind, scope |-> scope, length |-> 0, kids |-> Nothing, fragments |-> <<>>]

Frame(id, kind, scope, reuse) ==
    [id |-> id, kind |-> kind, scope |-> scope, length |-> 0, reuse |-> reuse]

(* Mutant: the hidden tail of a shortened list is forgotten. *)
ReusableButElements(parent, item) ==
    \/ item.kind = "object" /\ item.scope \in {"usage", "apis", "models", "map:count"}
    \/ item.kind = "array" /\ parent.scope = "model"

\* Structs and maps that are decoded in place, a model's lists, and the
\* elements of a list whose backing array is being reused.
Reusable(parent, item) ==
    \/ item.kind = "object" /\ item.scope \in {"usage", "apis", "models", "map:count"}
    \/ item.kind = "array" /\ parent.scope = "model"
    \/ item.kind = "value" /\ parent.kind = "array" /\ parent.reuse

\* null into a struct or into a scalar field of one leaves it as it is.
KeepsOld(parent, item) ==
    \/ item.kind = "null" /\ item.scope = "usage"
    \/ item.kind = "value" /\ item.value = Nothing /\ parent.scope \in DOMAIN Structs

Link(rows, parent, name, id) ==
    [rows EXCEPT ![parent].kids = (name :> id) @@ @]

\* The end of a container: a list closed empty over a reused one gets a new
\* node, so that nothing of the old backing array can come back.
Close(build, item) ==
    LET top    == Last(build.frames)
        under  == Front(build.frames)
        fresh  == Len(build.nodes) + 1
        name   == Last(item.path)
    IN [frames |-> under,
        nodes  |-> CASE top.kind # "array" -> build.nodes
                     [] top.kind = "array" /\ top.length = 0 /\ top.reuse ->
                            Link(Append(build.nodes, Fresh("array", top.scope)), Last(under).id, name, fresh)
                     [] OTHER -> [build.nodes EXCEPT ![top.id].length = top.length]]

\* Any other item: find or create its node under the open container, store
\* the fragment of a value, and open a container.
Place(build, item, at, spoiled) ==
    LET depth   == Len(build.frames)
        parent  == build.frames[depth]
        name    == Last(item.path)
        kids    == build.nodes[parent.id].kids
        reuse   == /\ Reusable(parent, item) /\ name \in DOMAIN kids
                   /\ build.nodes[kids[name]].kind = item.kind
                   /\ build.nodes[kids[name]].scope = item.scope
        id      == IF reuse THEN kids[name] ELSE Len(build.nodes) + 1
        linked  == IF reuse THEN build.nodes
                   ELSE Link(Append(build.nodes, Fresh(item.kind, item.scope)), parent.id, name, id)
        valued  == IF item.kind # "value" THEN linked
                   ELSE [linked EXCEPT ![id].fragments = Append(@, [at |-> at, spoiled |-> spoiled])]
        counted == IF parent.kind = "array" THEN [build.frames EXCEPT ![depth].length = @ + 1]
                   ELSE build.frames
    IN [nodes  |-> valued,
        frames |-> IF item.kind \in {"object", "array"}
                   THEN Append(counted, Frame(id, item.kind, item.scope, reuse)) ELSE counted]

Apply(build, root, item, at, spoiled) ==
    IF item.kind = "end" THEN Close(build, item)
    ELSE IF item.path = <<>> THEN [build EXCEPT !.frames = << Frame(root, "object", "snapshot", FALSE) >>]
    ELSE IF KeepsOld(Last(build.frames), item) THEN build
    ELSE Place(build, item, at, spoiled)

-----------------------------------------------------------------------------
(* The walk of the effective tree: sqliteProjectionReader.                 *)

Spoiled == [x \in {"tokens"} |-> 99]

StagedItem(i) == ItemsOf[chunks[i]][i]

FragmentValue(f) == IF f.spoiled THEN Spoiled ELSE StagedItem(f.at).value

\* Successive fragments are decoded into one value, later fields winning.
ValueOf(node) ==
    FoldLeft(LAMBDA value, f : FragmentValue(f) @@ value, Nothing, node.fragments)

\* Children in the order they are paged: by name, or by position below the
\* length of the list.
Children(node) ==
    SelectSeq(IF node.kind = "array" THEN [i \in 1..node.length |-> ToString(i - 1)] ELSE Names,
              LAMBDA name : name \in DOMAIN node.kids)

RECURSIVE Walk(_, _)
Walk(id, path) ==
    LET node    == nodes[id]
        seen(kind, value) == << [node |-> id, kind |-> kind, scope |-> node.scope, path |-> path,
                                 value |-> value, fragments |-> node.fragments] >>
    IN CASE node.kind = "value" -> seen("value", ValueOf(node))
         [] node.kind = "null"  -> seen("null", Nothing)
         [] OTHER -> FoldLeft(LAMBDA walked, name : walked \o Walk(node.kids[name], Append(path, name)),
                              seen(node.kind, Nothing), Children(node)) \o seen("end", Nothing)

-----------------------------------------------------------------------------
(* The catalog: sqliteSnapshotCatalogBuilder.  Totals stand for the eleven *)
(* counters by one of each kind: request counts are taken as the snapshot  *)
(* has them, token components are filled up from the details.              *)

Totals(requests, tokens) == [requests |-> requests, tokens |-> tokens]
Zero == Totals(0, 0)

Larger(a, b) == IF a > b THEN a ELSE b

AddTotals(a, b)  == Totals(a.requests + b.requests, a.tokens + b.tokens)
FillTotals(a, b) == Totals(a.requests, Larger(a.tokens, b.tokens))
Residual(a, b)   == Totals(Larger(a.requests - b.requests, 0), Larger(a.tokens - b.tokens, 0))

NewGroup(scope, name, parent, ignored) ==
    [scope |-> scope, name |-> name, parent |-> parent, ignored |-> ignored, closed |-> FALSE,
     raw |-> Zero, details |-> Zero, children |-> Zero, splitChildren |-> Zero,
     restored |-> Zero, split |-> Zero, apis |-> {}, splitModel |-> FALSE, rebuild |-> FALSE,
     size |-> 1, providers |-> Nothing, visible |-> 0, archived |-> 0]

IsSplit(g) == Cardinality(g.apis) > 1

FinishGroup(g) ==
    LET filled == FillTotals(g.raw, IF g.scope = "model" THEN g.details ELSE g.children)
        split  == IF g.scope = "model" THEN AddTotals(g.details, Residual(g.raw, g.details))
                  ELSE g.splitChildren
        whole  == g.scope = "usage" /\ filled.requests = 0 /\ g.details.requests > 0
        kept   == CASE g.scope = "model" /\ g.splitModel -> split
                    [] g.scope = "api" /\ IsSplit(g)     -> split
                    [] whole                             -> g.details
                    [] OTHER                             -> filled
    IN [g EXCEPT !.closed = TRUE, !.rebuild = whole,
                 !.restored = IF g.ignored THEN Zero ELSE kept,
                 !.split    = IF g.ignored THEN Zero ELSE split]

AddChild(g, child) ==
    LET sized == [g EXCEPT !.size = @ + child.size]
    IN IF child.ignored THEN sized
       ELSE [sized EXCEPT !.children = AddTotals(@, child.restored),
                          !.splitChildren = AddTotals(@, child.split),
                          !.details = AddTotals(@, child.details),
                          !.visible = @ + child.visible, !.archived = @ + child.archived,
                          !.apis = IF g.scope = "api" THEN @ \cup child.apis ELSE @]

\* finishGroup: close the group and hand its totals to the one above.
Finish(groups, id) ==
    LET g == FinishGroup(groups[id])
        closed == [groups EXCEPT ![id] = g]
    IN IF g.parent = 0 THEN closed ELSE [closed EXCEPT ![g.parent] = AddChild(@, g)]

NoProvider == [snapshot |-> Zero, details |-> Zero]

AddProvider(g, key, snapshot, details) ==
    LET p == Field(g.providers, key, NoProvider)
    IN [g EXCEPT !.providers = (key :> [snapshot |-> AddTotals(p.snapshot, snapshot),
                                        details  |-> AddTotals(p.details, details)]) @@ @]

ProviderKey(value) == Field(value, "provider", "none")

AddDetail(g, apiName, value, archived) ==
    LET one == Totals(1, Field(value, "tokens", 0))
    IN IF g.ignored THEN g
       ELSE AddProvider([g EXCEPT !.details = AddTotals(@, one),
                                  !.apis = @ \cup {Field(value, "api", apiName)},
                                  !.splitModel = @ \/ Field(value, "model", g.name) # g.name,
                                  !.visible = IF archived THEN @ ELSE @ + 1,
                                  !.archived = IF archived THEN @ + 1 ELSE @],
                        ProviderKey(value), Zero, one)

SetScalar(g, name, value) ==
    [g EXCEPT !.raw = IF name = "total_requests" THEN [@ EXCEPT !.requests = Field(value, "n", 0)]
                      ELSE [@ EXCEPT !.tokens = Field(value, "n", 0)]]

\* The open group of a scope, kept while a committed prefix is replayed too.
OpenGroup(walk, k, scope) ==
    LET opened == {j \in 1..k : walk[j].scope = scope /\ walk[j].kind # "end"}
    IN walk[Max(opened)].node

\* One item of the walk (consume and apply).
Consume(walk, groups, k) ==
    LET item  == walk[k]
        depth == Len(item.path)
        model == OpenGroup(walk, k, "model")
        api   == OpenGroup(walk, k, "api")
        above == IF item.scope = "model" THEN api ELSE walk[1].node
        begun == IF item.kind = "end" THEN groups
                 ELSE (item.node :> NewGroup(item.scope, Last(item.path), above,
                                             groups[above].ignored \/ (item.scope = "api" /\ Last(item.path) = ""))) @@ groups
    IN CASE item.scope \in {"api", "model"} ->
                IF item.kind = "object" THEN begun ELSE Finish(begun, item.node)
         [] item.scope = "snapshot" /\ item.kind = "end" -> Finish(groups, item.node)
         [] item.scope = "detail" /\ item.kind = "value" ->
                [groups EXCEPT ![model] = AddDetail(@, groups[api].name, item.value, item.path[6] = "accounting")]
         [] item.scope = "provider" /\ item.kind = "value" /\ Field(item.value, "requests", 0) > 0 ->
                [groups EXCEPT ![model] = IF @.ignored THEN @ ELSE AddProvider(@, ProviderKey(item.value),
                    Totals(item.value.requests, Field(item.value, "tokens", 0)), Zero)]
         [] item.scope = "count" /\ depth \in {2, 4, 6} ->
                LET of == IF depth = 2 THEN walk[1].node ELSE IF depth = 4 THEN api ELSE model
                IN [groups EXCEPT ![of] = SetScalar(@, Last(item.path), item.value)]
         [] OTHER -> groups

-----------------------------------------------------------------------------
(* Attempts.  Each action is one committed transaction, with the reads the *)
(* attempt made since its previous one; an error or a cancellation leaves  *)
(* the attempt idle and the last committed cursor in the database.         *)

Idle == [op |-> "idle"]
Stop(a) == call' = [call EXCEPT ![a] = Idle]
Cancelled(a) == Stop(a) /\ UNCHANGED <<legacy, source, chunks, damaged, damages, nodes, projection, catalog>>

Least(m, n) == IF m < n THEN m ELSE n

StagedIntact ==
    /\ damaged = 0 /\ Len(chunks) = Size(source.fingerprint)
    /\ \A i \in DOMAIN chunks : chunks[i] = source.fingerprint

\* StageSource up to its loop: hash the file, register it, and resume at the
\* position of the row, unless the row is of another content.
BeginStage(a) ==
    /\ call[a] = Idle
    /\ source' = IF source # None THEN source
                 ELSE [fingerprint |-> legacy.content, position |-> 0, ready |-> FALSE]
    /\ call' = IF source'.fingerprint # legacy.content THEN call
               ELSE [call EXCEPT ![a] = [op |-> "stage", stamp |-> legacy.stamp, position |-> source'.position]]
    /\ UNCHANGED <<legacy, chunks, damaged, damages, nodes, projection, catalog>>

\* The file is still what was hashed (the unchanged closure).
Unchanged(a) == legacy.stamp = call[a].stamp

StageBatch(a) ==
    /\ call[a].op = "stage" /\ call[a].position < Size(source.fingerprint)
    /\ LET position == call[a].position
           n == Least(StageUnits, Size(source.fingerprint) - position)
       IN IF Unchanged(a) /\ source.position = position /\ ~source.ready
          THEN /\ source' = [source EXCEPT !.position = @ + n]
               /\ chunks' = chunks \o [i \in 1..n |-> legacy.content]
               /\ call' = [call EXCEPT ![a].position = position + n]
               /\ UNCHANGED <<legacy, damaged, damages, nodes, projection, catalog>>
          ELSE Cancelled(a)

FinishStage(a) ==
    /\ call[a].op = "stage" /\ call[a].position = Size(source.fingerprint)
    /\ source' = IF Unchanged(a) /\ StagedIntact THEN [source EXCEPT !.ready = TRUE] ELSE source
    /\ Stop(a)
    /\ UNCHANGED <<legacy, chunks, damaged, damages, nodes, projection, catalog>>

-----------------------------------------------------------------------------

\* A signature of the items read is the set of those that read spoiled.
ReadSpoiled(first, last) == {i \in first..last : i = damaged}

\* The first row, and the row restartMigrationProjection writes: a new root.
NewProjection == [root |-> Len(nodes) + 1, events |-> 0, prefix |-> {}, frames |-> <<>>, complete |-> FALSE]
WithRoot == Append(nodes, Fresh("object", "snapshot"))

PrefixHolds == ReadSpoiled(1, projection.events) = projection.prefix

Projecting(a, row) ==
    call' = [call EXCEPT ![a] = [op |-> "project", root |-> row.root, events |-> row.events,
                                 frames |-> row.frames, read |-> ReadSpoiled(1, row.events)]]

\* ProjectMigrationSource up to the first item it applies: the committed
\* prefix is read again and compared; when it differs, and the whole source
\* verifies, the tree is abandoned and built anew.
BeginProject(a) ==
    /\ call[a] = Idle /\ source # None /\ source.ready
    /\ projection # None => ~projection.complete
    /\ IF projection # None /\ PrefixHolds
       THEN Projecting(a, projection) /\ UNCHANGED <<nodes, projection>>
       ELSE IF projection # None /\ damaged # 0
       THEN UNCHANGED <<call, nodes, projection>>
       ELSE projection' = NewProjection /\ nodes' = WithRoot /\ Projecting(a, NewProjection)
    /\ UNCHANGED <<legacy, source, chunks, damaged, damages, catalog>>

\* The row is still as this attempt last saw it.
ProjectionCurrent(a) ==
    projection.root = call[a].root /\ projection.events = call[a].events /\ ~projection.complete

\* The items up to m applied to the tree, and committed with the cursor and
\* the stack; after the last one only if all that was read has the checksum.
CommitProjection(a, m, done) ==
    LET k == call[a].events
        step(build, i) == Apply(build, call[a].root, StagedItem(k + i), k + i, k + i = damaged)
        build == FoldLeft(step, [nodes |-> nodes, frames |-> call[a].frames], [i \in 1..(m - k) |-> i])
        read == call[a].read \cup ReadSpoiled(k + 1, m)
    IN IF ProjectionCurrent(a) /\ (done => read = {})
       THEN /\ nodes' = build.nodes
            /\ projection' = [projection EXCEPT !.events = m, !.prefix = read, !.frames = build.frames, !.complete = done]
            /\ call' = [call EXCEPT ![a] = IF done THEN Idle
                                           ELSE [@ EXCEPT !.events = m, !.frames = build.frames, !.read = read]]
            /\ UNCHANGED <<legacy, source, chunks, damaged, damages, catalog>>
       ELSE Cancelled(a)

ProjectBatch(a, n) ==
    /\ call[a].op = "project" /\ call[a].events + n <= Size(source.fingerprint)
    /\ CommitProjection(a, call[a].events + n, FALSE)

FinishProject(a, n) ==
    /\ call[a].op = "project" /\ call[a].events + n > Size(source.fingerprint)
    /\ CommitProjection(a, Size(source.fingerprint), TRUE)

-----------------------------------------------------------------------------

NewCatalog(now) ==
    [clock |-> now, events |-> 0, complete |-> FALSE,
     groups |-> projection.root :> NewGroup("usage", "", 0, FALSE)]

\* CatalogMigrationSnapshot up to the first new item: the source verifies,
\* and the catalog is new or of the same recovery time.
BeginCatalog(a, now) ==
    /\ call[a] = Idle /\ projection # None /\ projection.complete /\ damaged = 0
    /\ catalog # None => catalog.clock = now /\ ~catalog.complete
    /\ catalog' = IF catalog = None THEN NewCatalog(now) ELSE catalog
    /\ call' = [call EXCEPT ![a] = [op |-> "catalog", events |-> catalog'.events]]
    /\ UNCHANGED <<legacy, source, chunks, damaged, damages, nodes, projection>>

FragmentsVerify(item) == \A i \in DOMAIN item.fragments : item.fragments[i].at # damaged

(* Mutant: a batch is added whatever cursor it was counted from. *)
CatalogOpen(a) == ~catalog.complete

CatalogCurrent(a) == catalog.events = call[a].events /\ ~catalog.complete

\* The items up to m counted, and the groups committed with the cursor.
CommitCatalog(a, walk, m, done) ==
    LET k == call[a].events
        step(groups, i) == Consume(walk, groups, k + i)
    IN IF CatalogCurrent(a) /\ \A i \in (k + 1)..m : FragmentsVerify(walk[i])
       THEN /\ catalog' = [catalog EXCEPT !.events = m, !.complete = done,
                                          !.groups = FoldLeft(step, @, [i \in 1..(m - k) |-> i])]
            /\ call' = [call EXCEPT ![a] = IF done THEN Idle ELSE [@ EXCEPT !.events = m]]
            /\ UNCHANGED <<legacy, source, chunks, damaged, damages, nodes, projection>>
       ELSE Cancelled(a)

CatalogBatch(a, n) ==
    /\ call[a].op = "catalog"
    /\ LET walk == Walk(projection.root, <<>>)
       IN call[a].events + n <= Len(walk) /\ CommitCatalog(a, walk, call[a].events + n, FALSE)

FinishCatalog(a, n) ==
    /\ call[a].op = "catalog"
    /\ LET walk == Walk(projection.root, <<>>)
       IN call[a].events + n > Len(walk) /\ CommitCatalog(a, walk, Len(walk), TRUE)

-----------------------------------------------------------------------------

\* The caller gives up, the database closes or the process dies.
Cancel(a) == call[a] # Idle /\ Cancelled(a)

\* The old writer, which the caller should have stopped, writes once more.
LegacyWrite(document) ==
    /\ legacy.stamp < MaxWrites /\ document # legacy.content
    /\ legacy' = [content |-> document, stamp |-> legacy.stamp + 1]
    /\ UNCHANGED <<source, chunks, damaged, damages, nodes, projection, catalog, call>>

\* A staged unit that holds a value reads damaged, and later reads well.
SpoilUnit(i) ==
    /\ damaged = 0 /\ damages < MaxSpoils
    /\ source # None /\ i \in DOMAIN chunks /\ ItemsOf[source.fingerprint][i].value # Nothing
    /\ damaged' = i /\ damages' = damages + 1
    /\ UNCHANGED <<legacy, source, chunks, nodes, projection, catalog, call>>

HealUnit ==
    /\ damaged # 0 /\ damaged' = 0
    /\ UNCHANGED <<legacy, source, chunks, damages, nodes, projection, catalog, call>>

MigrationInit ==
    /\ legacy \in [content : Documents, stamp : {0}]
    /\ source = None /\ chunks = <<>> /\ damaged = 0 /\ damages = 0
    /\ nodes = <<>> /\ projection = None /\ catalog = None
    /\ call = [a \in Attempts |-> Idle]

Units == UNION {1..Size(d) : d \in Documents}

MigrationNext ==
    \/ \E a \in Attempts : BeginStage(a) \/ StageBatch(a) \/ FinishStage(a)
    \/ \E a \in Attempts : BeginProject(a) \/ Cancel(a)
    \/ \E a \in Attempts, n \in BatchSizes : ProjectBatch(a, n) \/ FinishProject(a, n)
    \/ \E a \in Attempts, n \in BatchSizes : CatalogBatch(a, n) \/ FinishCatalog(a, n)
    \/ \E a \in Attempts, now \in Clocks : BeginCatalog(a, now)
    \/ \E document \in Rewrites : LegacyWrite(document)
    \/ \E i \in Units : SpoilUnit(i)
    \/ HealUnit

MigrationSpec == MigrationInit /\ [][MigrationNext]_migrationVars

-----------------------------------------------------------------------------
(* What the live storage makes of the same document: encoding/json decodes *)
(* it into the Go structures of the snapshot, and                          *)
(* restoreStorageSnapshotLocked (stats.go) adds them up.                   *)

Absent == [kind |-> "absent", kids |-> Nothing, length |-> 0, value |-> Nothing]

\* json.Unmarshal of a value into a variable that holds old.  A list keeps
\* the elements behind its length until it is emptied or set to null.
RECURSIVE Decode(_, _, _, _)
Decode(v, form, scope, old) ==
    LET struct == scope \in DOMAIN Structs
        member(kids, m) ==
            LET as == IF form = "array" THEN <<"value", scope>> ELSE Member(scope, m[1])
                now == IF struct \/ form = "array" THEN Field(kids, m[1], Absent) ELSE Absent
            IN IF \/ as[1] = "skipped"
                  \/ struct /\ IsNull(m[2]) /\ (as[1] = "value" \/ as[2] = "usage")
               THEN kids ELSE (m[1] :> Decode(m[2], as[1], as[2], now)) @@ kids
        kids == FoldLeft(member, IF form = "array" /\ v.members = <<>> THEN Nothing ELSE old.kids, v.members)
    IN CASE form = "value" -> [Absent EXCEPT !.kind = "value", !.value = v.value @@ old.value]
         [] form \in {"object", "array"} /\ IsNull(v) -> [Absent EXCEPT !.kind = "null"]
         [] OTHER -> [Absent EXCEPT !.kind = form, !.kids = kids,
                                    !.length = IF form = "array" THEN Len(v.members) ELSE 0]

\* The tree of a node, with what a list keeps behind its length.
RECURSIVE Tree(_)
Tree(id) ==
    LET node == nodes[id]
    IN [kind |-> node.kind, length |-> node.length, value |-> ValueOf(node),
        kids |-> [name \in DOMAIN node.kids |-> Tree(node.kids[name])]]

Reference == [d \in Documents |-> Decode(Content[d], "object", "snapshot", Absent)]

\* The effective children of a value of the snapshot, by name.
Within(v, name) == Field(v.kids, name, Absent)
Listed(v) == {i \in DOMAIN v.kids : \E n \in 1..v.length : i = ToString(n - 1)}
Scalar(v, name) == Field(Within(v, name).value, "n", 0)
RawTotals(v) == Totals(Scalar(v, "total_requests"), Scalar(v, "input_tokens"))


\* Sum over S of the totals that basis gives.
Added(S, basis(_)) == FoldSet(LAMBDA x, sum : AddTotals(sum, basis(x)), Zero, S)

\* The details of a model, visible and archived ones.
Details(model) ==
    UNION {{<<list, i>> : i \in Listed(Within(model, list))} : list \in {"details", "accounting"}}
DetailAt(model, d) == Within(model, d[1]).kids[d[2]].value
DetailTotals(model) ==
    LET one(d) == Totals(1, Field(DetailAt(model, d), "tokens", 0)) IN Added(Details(model), one)

\* A model is restored as it was summed up, with its token components filled
\* up, unless a detail names another model: then as its details and the rest.
SplitBasis(model) == AddTotals(DetailTotals(model), Residual(RawTotals(model), DetailTotals(model)))
ModelBasis(model, name) ==
    IF \E d \in Details(model) : Field(DetailAt(model, d), "model", name) # name
    THEN SplitBasis(model) ELSE FillTotals(RawTotals(model), DetailTotals(model))

ApiBasis(api, name) ==
    LET models == Within(api, "models").kids
        named  == UNION {{Field(DetailAt(models[m], d), "api", name) : d \in Details(models[m])} : m \in DOMAIN models}
        split(m) == SplitBasis(models[m])
        whole(m) == ModelBasis(models[m], m)
    IN IF Cardinality(named) > 1 THEN Added(DOMAIN models, split)
       ELSE FillTotals(RawTotals(api), Added(DOMAIN models, whole))

\* restoreStorageSnapshotLocked: APIs without a name are left out, and with no
\* requests in the snapshot everything is rebuilt from the details.
LegacyBasis == [document \in Documents |->
    LET usage  == Within(Reference[document], "usage")
        apis   == Within(usage, "apis").kids
        kept   == DOMAIN apis \ {""}
        basis(a) == ApiBasis(apis[a], a)
        every(a) == LET models == Within(apis[a], "models").kids
                        one(m) == DetailTotals(models[m])
                    IN Added(DOMAIN models, one)
        filled == FillTotals(RawTotals(usage), Added(kept, basis))
        details == Added(kept, every)
    IN IF filled.requests = 0 /\ details.requests > 0 THEN details ELSE filled]

-----------------------------------------------------------------------------

(* A projection that is complete is the document as the old decoder reads  *)
(* it, whatever was cancelled, run twice, read damaged or rebuilt on the   *)
(* way: sqlite_migration_projection.go.                                    *)
ProjectionMeansSource ==
    projection # None /\ projection.complete => Tree(projection.root) = Reference[source.fingerprint]

(* A complete catalog adds up to what the live storage would restore from  *)
(* the same snapshot, and every detail is counted once, in one provider of *)
(* one group: sqlite_migration_snapshot.go, stats.go:1885.                 *)
CatalogCountsOnce ==
    catalog # None /\ catalog.complete =>
        LET root == catalog.groups[projection.root]
            providers(id) == LET p == catalog.groups[id].providers
                                 one(key) == p[key].details
                             IN Added(DOMAIN p, one)
        IN /\ root.restored = LegacyBasis[source.fingerprint]
           /\ root.size = Cardinality(DOMAIN catalog.groups)
           /\ Added(DOMAIN catalog.groups, providers) = root.details
           /\ root.visible + root.archived = root.details.requests
=============================================================================
