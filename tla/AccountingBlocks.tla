-------------------------- MODULE AccountingBlocks --------------------------
(* The archived accounting records of one model (accounting_blocks.go):    *)
(* bounded blocks of rows, frozen by copying their slice headers, copied   *)
(* on the first write after that, and the range aggregates that are kept   *)
(* for groups of rows (range_cache.go).  Every operation runs under the    *)
(* statistics lock; the frozen headers are read without it.                *)
(*                                                                         *)
(* Abstractions.  A row is a model value that stands for its content and   *)
(* timestamp.  Go's arrays are a heap whose unreachable arrays are empty.  *)
(* An aggregate is the rows it was computed from.                          *)
EXTENDS Integers, Sequences, FiniteSets

CONSTANTS
    Values,        \* the rows
    Blank,         \* the zero row
    Views,         \* the snapshots and exports that may hold frozen headers
    Arrays,        \* the backing arrays of the instance
    BlockRecords,  \* accountingBlockRecords
    GroupRecords,  \* rangeAggregateBlockRecords
    GroupMin,      \* rangeAggregateMinRecords
    MaxCount       \* bound: rows of the model

ASSUME SizesAssumption ==
    /\ BlockRecords \in Nat \ {0} /\ GroupRecords \in Nat \ {0}
    /\ GroupMin \in Nat \ {0} /\ MaxCount \in Nat
ASSUME BlankAssumption == Blank \notin Values

BlockOf(i) == (i \div BlockRecords) + 1
SlotOf(i)  == (i % BlockRecords) + 1
GroupOf(i) == (i \div GroupRecords) + 1

(* The heap has an array more than the model and all readers can reach.    *)
ASSUME ArraysAssumption ==
    /\ IsFiniteSet(Views)
    /\ IsFiniteSet(Arrays) =>
         Cardinality(Arrays) > (Cardinality(Views) + 1) * BlockOf(MaxCount - 1)

VARIABLES
    ledger,  \* the accountingBlocks struct and the arrays it points to
    views    \* the frozen headers each reader holds

vars == <<ledger, views>>

-----------------------------------------------------------------------------
(* The structure, with 0-based row numbers as in the code.                 *)

NoAggregate == [valid |-> FALSE, end |-> 0, rows |-> <<>>]

(* The rows behind slice headers; every block but the last is full. *)
Rows(heap, headers) ==
    LET last == Len(headers)
        n    == IF last = 0 THEN 0 ELSE (last - 1) * BlockRecords + headers[last].len
    IN  [i \in 1..n |-> heap[headers[BlockOf(i - 1)].arr][SlotOf(i - 1)]]

Contents(L) == Rows(L.heap, L.blocks)

Reached(headers) == {headers[b].arr : b \in DOMAIN headers}
Held == UNION {Reached(views[w]) : w \in Views}
Unused(L) == CHOOSE a \in Arrays : a \notin Reached(L.blocks) \cup Held

(* Arrays nobody points to are collected. *)
Collected(L, vs) ==
    LET live == Reached(L.blocks) \cup UNION {Reached(vs[w]) : w \in Views}
    IN  [L EXCEPT !.heap = [a \in Arrays |-> IF a \in live THEN L.heap[a] ELSE <<>>]]

First(s, n) == SubSeq(s, 1, IF Len(s) > n THEN n ELSE Len(s))

IsShared(L, b) == b \in DOMAIN L.shared /\ L.shared[b]

At(L, i) == L.heap[L.blocks[BlockOf(i)].arr][SlotOf(i)]

-----------------------------------------------------------------------------
(* Aggregates of groups of rows.                                           *)

Invalidate(L, g) ==
    IF g \in DOMAIN L.groups THEN [L EXCEPT !.groups[g] = NoAggregate] ELSE L

InvalidateFrom(L, i) ==
    [L EXCEPT !.groups = [g \in DOMAIN L.groups |->
        IF g >= GroupOf(i) THEN NoAggregate ELSE L.groups[g]]]

GroupEnd(L, g) == IF g * GroupRecords < L.count THEN g * GroupRecords ELSE L.count
GroupRows(L, g) == SubSeq(Contents(L), (g - 1) * GroupRecords + 1, GroupEnd(L, g))

(* A query prepares every group that is large enough to be kept. *)
Kept(L) ==
    {g \in 1..MaxCount : GroupEnd(L, g) >= (g - 1) * GroupRecords + GroupMin}

Prepare(L) ==
    LET n == IF Kept(L) = {} THEN 0 ELSE CHOOSE g \in Kept(L) : \A h \in Kept(L) : h <= g
        size == IF n > Len(L.groups) THEN n ELSE Len(L.groups)
        Now(g) == IF g \in DOMAIN L.groups THEN L.groups[g] ELSE NoAggregate
    IN  [L EXCEPT !.groups = [g \in 1..size |->
            IF g \notin Kept(L) \/ (Now(g).valid /\ Now(g).end = GroupEnd(L, g))
            THEN Now(g)
            ELSE [valid |-> TRUE, end |-> GroupEnd(L, g), rows |-> GroupRows(L, g)]]]

-----------------------------------------------------------------------------
(* Writing.                                                                *)

(* Mutant: the block is written in place. *)
WriteShared(L, b) == L

(* A block that a frozen view may reference is copied first. *)
Writable(L, b) ==
    IF IsShared(L, b)
    THEN LET a    == Unused(L)
             old  == L.heap[L.blocks[b].arr]
             used == L.blocks[b].len
         IN  [L EXCEPT !.heap[a] = [i \in DOMAIN old |-> IF i <= used THEN old[i] ELSE Blank],
                       !.blocks[b].arr = a,
                       !.shared[b] = FALSE]
    ELSE L

(* Mutant: the aggregate of the group is kept. *)
PutKeepsAggregate(L, i, v) ==
    LET W == Writable(L, BlockOf(i))
    IN  [W EXCEPT !.heap[W.blocks[BlockOf(i)].arr][SlotOf(i)] = v]

(* *b.mutableAt(i) = v *)
Put(L, i, v) ==
    LET W == Writable(Invalidate(L, GroupOf(i)), BlockOf(i))
    IN  [W EXCEPT !.heap[W.blocks[BlockOf(i)].arr][SlotOf(i)] = v]

(* Mutant: the dropped tail of the last block is not cleared. *)
TruncateKeepsTail(L, n) ==
    LET last == BlockOf(n - 1)
        W    == Writable(InvalidateFrom(L, n), last)
    IN  IF n = 0
        THEN [L EXCEPT !.blocks = <<>>, !.shared = <<>>, !.groups = <<>>, !.count = 0]
        ELSE [W EXCEPT
               !.blocks = [SubSeq(@, 1, last) EXCEPT ![last].len = SlotOf(n - 1)],
               !.shared = First(@, last),
               !.count = n,
               !.groups = First(@, GroupOf(n - 1))]

(* Rows after the first n are dropped: whole blocks are released, the tail *)
(* of the last one is cleared.                                             *)
Truncate(L, n) ==
    LET last == BlockOf(n - 1)
        keep == SlotOf(n - 1)
        upTo == L.blocks[last].len
        W    == Writable(InvalidateFrom(L, n), last)
        a    == W.blocks[last].arr
    IN  IF n = 0
        THEN [L EXCEPT !.blocks = <<>>, !.shared = <<>>, !.groups = <<>>, !.count = 0]
        ELSE [W EXCEPT
               !.heap[a] = [i \in DOMAIN @ |-> IF i \in keep + 1..upTo THEN Blank ELSE @[i]],
               !.blocks = [SubSeq(@, 1, last) EXCEPT ![last].len = keep],
               !.shared = First(@, last),
               !.count = n,
               !.groups = First(@, GroupOf(n - 1))]

(* The last block, after append has made room in it: unchanged, moved to a *)
(* larger array that no view references, or a new block.                   *)
Room(L) ==
    LET last == Len(L.blocks)
        a    == Unused(L)
        old  == L.heap[L.blocks[last].arr]
        size == IF 2 * Len(old) < BlockRecords THEN 2 * Len(old) ELSE BlockRecords
        Fresh(n) == [i \in 1..n |-> Blank]
    IN  IF last = 0
        THEN [L EXCEPT !.heap[a] = Fresh(1), !.blocks = <<[arr |-> a, len |-> 0]>>]
        ELSE IF L.blocks[last].len = BlockRecords
        THEN [L EXCEPT !.heap[a] = Fresh(BlockRecords),
                       !.blocks = Append(@, [arr |-> a, len |-> 0])]
        ELSE IF L.blocks[last].len = Len(old)
        THEN [L EXCEPT !.heap[a] = [i \in 1..size |-> IF i <= Len(old) THEN old[i] ELSE Blank],
                       !.blocks[last].arr = a,
                       !.shared = [b \in DOMAIN @ |-> IF b = last THEN FALSE ELSE @[b]]]
        ELSE L

AppendRow(L, v) ==
    LET R    == Room(Invalidate(L, GroupOf(L.count)))
        last == Len(R.blocks)
        n    == R.blocks[last].len + 1
    IN  [R EXCEPT !.heap[R.blocks[last].arr][n] = v,
                  !.blocks[last].len = n,
                  !.count = @ + 1]

Shift(M, k) == Put(M, k - 1, At(M, k))

RemoveRow(L, i) ==
    LET shifted[n \in 0..L.count - 1 - i] ==
            IF n = 0 THEN L ELSE Shift(shifted[n - 1], i + n)
    IN  Truncate(shifted[L.count - 1 - i], L.count - 1)

(* pruneAccounting: the surviving rows move to the front while the loop    *)
(* reads through the header it took at the start of each block; then each  *)
(* survivor gets its identity rewritten.                                   *)
Scan(S, i, old) ==
    LET from == IF SlotOf(i) = 1 THEN S.L.blocks[BlockOf(i)].arr ELSE S.from
        row  == S.L.heap[from][SlotOf(i)]
    IN  IF row \in old THEN [S EXCEPT !.from = from]
        ELSE [from |-> from, kept |-> S.kept + 1,
              L |-> IF S.kept # i THEN Put(S.L, S.kept, row) ELSE S.L]

Reintern(M, i) == Put(M, i, At(M, i))

Scanned(L, old) ==
    LET scan[n \in 0..L.count] ==
            IF n = 0 THEN [from |-> Blank, kept |-> 0, L |-> L]
            ELSE Scan(scan[n - 1], n - 1, old)
    IN  scan[L.count]

Reinterned(L) ==
    LET touch[n \in 0..L.count] == IF n = 0 THEN L ELSE Reintern(touch[n - 1], n - 1)
    IN  touch[L.count]

PruneRows(L, old) ==
    LET done == Scanned(L, old)
    IN  IF done.kept = L.count THEN done.L ELSE Reinterned(Truncate(done.L, done.kept))

Freeze(L) == IF L.count = 0 THEN L ELSE [L EXCEPT !.shared = [b \in DOMAIN L.blocks |-> TRUE]]

-----------------------------------------------------------------------------
(* Actions: one per critical section that touches the archive.             *)

Init ==
    /\ ledger = [heap   |-> [a \in Arrays |-> <<>>], blocks |-> <<>>,
                 shared |-> <<>>, groups |-> <<>>, count |-> 0]
    /\ views = [w \in Views |-> <<>>]

Become(L) == ledger' = Collected(L, views) /\ UNCHANGED views

ArchiveDetail(v) == ledger.count < MaxCount /\ Become(AppendRow(ledger, v))

SetDetailAt(i, v) == Become(Put(ledger, i, v))

RemoveDetailAt(i) == Become(RemoveRow(ledger, i))

PruneAccounting(old) == ledger.count > 0 /\ Become(PruneRows(ledger, old))

QueryRange == Become(Prepare(ledger))

(* captureStorageSnapshotLocked, for a snapshot or an export. *)
CaptureView(w) ==
    /\ views[w] = <<>>
    /\ ledger' = Freeze(ledger)
    /\ views' = [views EXCEPT ![w] = ledger.blocks]

(* The reader is done with its copy. *)
ReleaseView(w) ==
    /\ views[w] # <<>>
    /\ views' = [views EXCEPT ![w] = <<>>]
    /\ ledger' = Collected(ledger, [views EXCEPT ![w] = <<>>])

Next ==
    \/ \E v \in Values : ArchiveDetail(v)
    \/ \E i \in 0..ledger.count - 1 :
         RemoveDetailAt(i) \/ \E v \in Values : SetDetailAt(i, v)
    \/ \E old \in SUBSET Values : PruneAccounting(old)
    \/ QueryRange
    \/ \E w \in Views : CaptureView(w) \/ ReleaseView(w)

Spec == Init /\ [][Next]_vars

-----------------------------------------------------------------------------
(* Correctness.                                                            *)

(* The shape of the structure: every block but the last is full, no two    *)
(* blocks share an array, and the rows past the end of a private block are *)
(* cleared, so that the collector can take what they held.                 *)
TypeOK ==
    /\ ledger.count = Len(Contents(ledger))
    /\ Len(ledger.shared) <= Len(ledger.blocks)
    /\ \A b \in DOMAIN ledger.blocks :
         LET block == ledger.blocks[b]
         IN  /\ block.len \in 1..BlockRecords
             /\ b < Len(ledger.blocks) => block.len = BlockRecords
             /\ block.len <= Len(ledger.heap[block.arr])
             /\ ~IsShared(ledger, b)
                  => \A i \in block.len + 1..Len(ledger.heap[block.arr]) :
                       ledger.heap[block.arr][i] = Blank
             /\ \A c \in DOMAIN ledger.blocks : b # c => ledger.blocks[c].arr # block.arr
    /\ \A i \in DOMAIN Contents(ledger) : Contents(ledger)[i] \in Values

(* An aggregate that a query would use is the one it would compute. *)
AggregatesCurrent ==
    \A g \in DOMAIN ledger.groups :
        ledger.groups[g].valid /\ ledger.groups[g].end = GroupEnd(ledger, g)
            => ledger.groups[g].rows = GroupRows(ledger, g)

(* The blocks are a sequence of rows, and what a reader sees through its   *)
(* frozen headers is the sequence of the moment it froze them, whatever is *)
(* appended, rewritten, removed or pruned meanwhile.                       *)
Sequence == INSTANCE FrozenLedger WITH
    records <- Contents(ledger),
    frozen  <- [w \in Views |-> Rows(ledger.heap, views[w])]

ImplementsFrozenLedger == Sequence!FrozenSpec
=============================================================================
