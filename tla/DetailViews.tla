----------------------------- MODULE DetailViews -----------------------------
(* The visible details of one model and what the dashboard keeps of them:  *)
(* event lists that follow the details through shared references           *)
(* (event_index.go), aggregates of blocks of the details' array            *)
(* (range_cache.go), and finished pages and summaries (stats.go).  The     *)
(* array advances when old details are archived, reuses its cleared front, *)
(* grows, shrinks, and takes late requests in the middle; every step runs  *)
(* under the statistics lock, and every query first lets details expire.   *)
(*                                                                         *)
(* Abstractions.  A detail is its request and whether it was enriched; a   *)
(* filter stands for a value of any of the indexed keys, a minute for the  *)
(* bucket of a ranged answer.  What the byte budgets admit is arbitrary.   *)
(* An aggregate is the requests it sums, with the price version; archived  *)
(* rows are read directly here (their blocks: AccountingBlocks).  The      *)
(* version an index was built for matters only as "the current one".       *)
EXTENDS Integers, FiniteSets, SequencesExt, TLC

CONSTANTS
    Requests,      \* the requests
    Nobody,        \* the zero detail
    TimeOf,        \* the minute of each request; 0: it has no timestamp
    FilterOf,      \* the value of the indexed key of each request
    Everything,    \* the list of all details
    Plain,         \* the filters an index answers alone (all, or one API)
    EventQueries,  \* [filter, span, offset, limit]; span 0: all; limit 0: no pages
    Summaries,     \* [reader, span]: the ranged summaries that are asked for
    DetailPages,   \* [reader, span]: the pages of an API's details
    RecentLimit,   \* how many recent events such a page lists
    Restored,      \* the arrays of details a snapshot can leave
    VisibleLimits, \* the settings of maxDetailsPerModel
    KeepFor,       \* retention in minutes; 0: for ever
    QueueMax,      \* dashboardEventPendingMax
    PageMax,       \* dashboardEventCacheMax
    SummaryMax,    \* dashboardSummaryRangeCacheMax
    BlockRows,     \* rangeAggregateBlockRecords
    BlockLeast,    \* rangeAggregateMinRecords
    Compactable,   \* the capacity below which an array is never compacted
    Minutes,       \* bound: the clock
    MaxRepairs,    \* bound: requests enriched or retracted
    MaxReprices    \* bound: changes of the prices

(* Snapshots hold a detail once; a range is a number of minutes back.      *)
ASSUME RequestsAssumption == TimeOf \in [Requests -> Nat] /\ Nobody \notin Requests
ASSUME RestoredAssumption == Restored \subseteq Seq(Requests) /\ \A a \in Restored : IsInjective(a)
ASSUME SettingsAssumption ==
    BlockRows \in Nat \ {0} /\ KeepFor \in Nat /\ VisibleLimits \subseteq Nat
ASSUME SpansAssumption == \A q \in Summaries \cup DetailPages : q.span \in Nat

VARIABLES
    stats,    \* the model's details and the views of them, as a record
    minute,   \* the clock
    arrivals  \* the requests in order of arrival, as they should be shown

viewVars == <<stats, minute, arrivals>>

-----------------------------------------------------------------------------
(* The details: stats.n rows of an array, behind stats.first cleared ones. *)

Vacant == [id |-> Nobody, rich |-> FALSE, seq |-> 0]
Vacancies(k) == [i \in 1..k |-> Vacant]

Details(s)  == SubSeq(s.slots, s.first + 1, s.first + s.n)
Capacity(s) == Len(s.slots) - s.first
Shown(s)    == {Details(s)[i].id : i \in 1..s.n}
PlaceOf(s, r) == CHOOSE i \in 1..s.n : Details(s)[i].id = r

Larger(a, b)  == IF a > b THEN a ELSE b
Smaller(a, b) == IF a < b THEN a ELSE b

(* The references of the rows from "from" (0-based) on follow the rows. A  *)
(* reference to 0 reads an array the model no longer uses; a request       *)
(* outside the domain has none, or a cleared one.                          *)
Rebind(s, from) ==
    [s EXCEPT !.refs = [r \in DOMAIN @ |->
        IF \E i \in from + 1..s.n : Details(s)[i].id = r
        THEN s.first + PlaceOf(s, r) ELSE @[r]]]
Astray(s) == [r \in DOMAIN s.refs |-> 0]

(* Mutant: the references of details that are gone stay in the lists. *)
WithoutNone(refs, gone) == refs

Without(refs, gone) == [r \in DOMAIN refs \ gone |-> refs[r]]

(* A map with one more key; one that it has keeps its value. *)
WithKey(f, key, value) == [k \in DOMAIN f \cup {key} |-> IF k \in DOMAIN f THEN f[k] ELSE value]

(* Blocks are of positions in the array; an invalid block is dropped. *)
DropBlocks(s, from) ==
    [s EXCEPT !.blocks = [b \in {b \in DOMAIN @ : b < (s.first + from) \div BlockRows} |-> @[b]]]

HasLists(s) == DOMAIN s.lists # {}

ClearLists(s) ==
    [s EXCEPT !.lists = <<>>, !.pending = <<>>, !.dirty = FALSE, !.current = FALSE]

DropResponses(s) ==
    [s EXCEPT !.pages = <<>>, !.summaries = <<>>, !.current = HasLists(s)]

InvalidateSummary(s) == [ClearLists(DropResponses(s)) EXCEPT !.blocks = <<>>]

-----------------------------------------------------------------------------
(* Adding and archiving details.                                           *)

(* A restored array is numbered before anything is added or listed. *)
Number(s) ==
    IF s.next # 0 THEN s
    ELSE [s EXCEPT !.next = s.n,
                   !.slots = [k \in DOMAIN @ |->
                       IF k \in s.first + 1..s.first + s.n
                       THEN [@[k] EXCEPT !.seq = k - s.first] ELSE @[k]]]

(* Behind the details that are not later. A full array first takes back    *)
(* its cleared front, or grows; then every row has moved.                  *)
AppendDetail(s, r) ==
    LET t     == Number(s)
        full  == t.n = Capacity(t)
        grown == full /\ t.first = 0
        first == IF full THEN 0 ELSE t.first
        at    == Cardinality({i \in 1..t.n : TimeOf[Details(t)[i].id] <= TimeOf[r]})
        rows  == InsertAt(Details(t), at + 1, [id |-> r, rich |-> FALSE, seq |-> t.next + 1])
        size  == IF grown THEN Larger(1, 2 * t.n) ELSE Len(t.slots)
        moved == IF full THEN 0 ELSE at
    IN  Rebind(DropBlocks(
            [t EXCEPT !.slots = Vacancies(first) \o rows \o Vacancies(size - first - Len(rows)),
                      !.first = first, !.n = @ + 1, !.next = @ + 1,
                      !.refs = IF grown THEN Astray(t) ELSE @], moved), moved)

(* A much too large array is replaced by one with room for a quarter more. *)
CompactStorage(s, before) ==
    LET size == Larger(before, Len(s.slots))
    IN  IF s.n = 0 THEN [s EXCEPT !.slots = <<>>, !.first = 0, !.blocks = <<>>]
        ELSE IF size < Compactable \/ s.n > size \div 4 THEN s
        ELSE Rebind([s EXCEPT !.slots = Details(s) \o Vacancies(Larger(1, s.n \div 4)),
                              !.first = 0, !.blocks = <<>>, !.refs = Astray(s)], 0)

(* Details beyond the limit are archived; their references are cleared. *)
Trim(s) ==
    LET over == s.n - s.limit
        gone == {Details(s)[i].id : i \in 1..over}
    IN  IF over <= 0 THEN s
        ELSE CompactStorage(
            [s EXCEPT !.slots = [k \in DOMAIN @ |-> IF k <= s.first + over THEN Vacant ELSE @[k]],
                      !.first = @ + over, !.n = s.limit,
                      !.archive = @ \cup gone,
                      !.refs = Without(@, gone),
                      !.dirty = @ \/ gone \cap DOMAIN s.refs # {}], Capacity(s))

Expired(r) == KeepFor # 0 /\ TimeOf[r] # 0 /\ TimeOf[r] + KeepFor < minute

(* The next expiry among these requests; 0: nothing expires. *)
NextExpiry(ids) ==
    LET due == {TimeOf[r] + KeepFor : r \in {r \in ids : TimeOf[r] # 0}}
    IN  IF KeepFor = 0 \/ due = {} THEN 0 ELSE CHOOSE e \in due : \A f \in due : e <= f

(* What is left of these rows, in their order. *)
Unexpired(rows) ==
    LET kept[n \in 0..Len(rows)] ==
            IF n = 0 THEN <<>>
            ELSE IF Expired(rows[n].id) THEN kept[n - 1] ELSE Append(kept[n - 1], rows[n])
    IN  kept[Len(rows)]

(* Expired rows leave the archive and the details; what is left moves to   *)
(* the front of the rows, and may still be too much.                       *)
PruneDetails(s) ==
    LET kept == Unexpired(Details(s))
        gone == {r \in Shown(s) : Expired(r)}
        left == {r \in s.archive : ~Expired(r)}
        t    == [s EXCEPT !.slots = IF kept = <<>> THEN <<>>
                                    ELSE Vacancies(s.first) \o kept \o Vacancies(Capacity(s) - Len(kept)),
                          !.first = IF kept = <<>> THEN 0 ELSE @,
                          !.n = Len(kept),
                          !.archive = left,
                          !.refs = Without(@, gone),
                          !.expiry = NextExpiry(left \cup (Shown(s) \ gone))]
        u    == Rebind(t, 0)
        v    == IF u.n > u.limit THEN Trim(u) ELSE CompactStorage(u, Capacity(u))
    IN  IF gone # {} \/ left # s.archive \/ u.n > u.limit THEN InvalidateSummary(v) ELSE v

PruneExpired(s) == IF s.expiry # 0 /\ minute > s.expiry THEN PruneDetails(s) ELSE s

(* A new detail waits for the lists that exist; a log that is too long, or *)
(* over the budget, is dropped with them.                                  *)
QueueEvent(s, r, over) ==
    IF r \notin DOMAIN s.refs \/ ~HasLists(s) THEN s
    ELSE IF Len(s.pending) >= QueueMax \/ over THEN ClearLists(s)
    ELSE [s EXCEPT !.pending = Append(@, [id |-> r, seq |-> s.next]), !.dirty = TRUE]

(* One that was enriched keeps its place, its number and its reference. *)
SetDetail(s, r) ==
    LET i == PlaceOf(s, r)
    IN  [DropBlocks(s, i - 1) EXCEPT !.slots[s.first + i].rich = TRUE]

RemoveDetail(s, r) ==
    IF r \in s.archive THEN [s EXCEPT !.archive = @ \ {r}]
    ELSE LET i    == PlaceOf(s, r)
             rows == RemoveAt(Details(s), i)
             t    == DropBlocks(s, i - 1)
         IN  IF rows = <<>>
             THEN [t EXCEPT !.slots = Vacancies(Capacity(s)), !.first = 0, !.n = 0, !.refs = Without(@, {r})]
             ELSE Rebind([t EXCEPT !.slots = Vacancies(s.first) \o rows \o Vacancies(Capacity(s) - Len(rows)),
                                   !.n = @ - 1, !.refs = Without(@, {r})], i - 1)

-----------------------------------------------------------------------------
(* Event lists.  An entry has the reference of its detail and its number.  *)

Pointed(s, e) ==
    IF e.id \notin DOMAIN s.refs THEN Vacant
    ELSE IF s.refs[e.id] = 0 THEN Vacant ELSE s.slots[s.refs[e.id]]

PointedTime(s, e) == IF Pointed(s, e).id = Nobody THEN 0 ELSE TimeOf[Pointed(s, e).id]

(* The newest first; what happened at the same time as it arrived. *)
EventBefore(s, a, b) ==
    \/ PointedTime(s, a) > PointedTime(s, b)
    \/ PointedTime(s, a) = PointedTime(s, b) /\ a.seq < b.seq

Selects(filter, r) == filter = Everything \/ (r # Nobody /\ FilterOf[r] = filter)

Alive(s, list) == SelectSeq(list, LAMBDA e : e.id \in DOMAIN s.refs)

Place(s, list, e) ==
    InsertAt(list, 1 + Cardinality({i \in DOMAIN list : ~EventBefore(s, e, list[i])}), e)

MergeEvents(s, filter, pending) ==
    FoldLeft(LAMBDA list, e : Place(s, list, e), Alive(s, s.lists[filter]),
             SelectSeq(Alive(s, pending), LAMBDA e : Selects(filter, Pointed(s, e).id)))

(* Entries of details that are gone leave every list, pending ones enter   *)
(* theirs; lists over the budget are dropped.                              *)
ApplyUpdates(s, over) ==
    LET pending == SortSeq(s.pending, LAMBDA a, b : EventBefore(s, a, b))
        t == [s EXCEPT !.lists = [f \in DOMAIN @ |-> MergeEvents(s, f, pending)],
                       !.pending = <<>>, !.dirty = FALSE]
    IN  IF ~s.dirty THEN s
        ELSE IF over THEN [ClearLists(t) EXCEPT !.current = TRUE] ELSE t

RefreshLists(s, over) ==
    ApplyUpdates(IF s.current THEN s ELSE [ClearLists(s) EXCEPT !.current = TRUE], over)

(* Listing gives every listed detail a reference, and all details numbers. *)
Refer(s, filter) ==
    LET mine == {r \in Shown(s) : Selects(filter, r)}
    IN  IF mine = {} \/ filter \in DOMAIN s.lists THEN s
        ELSE Rebind([Number(s) EXCEPT !.refs = @ @@ [r \in mine |-> 0]], 0)

ListEvents(s, filter) ==
    IF filter \in DOMAIN s.lists THEN s.lists[filter]
    ELSE LET rows == SelectSeq(Details(s), LAMBDA d : Selects(filter, d.id))
         IN  SortSeq([i \in DOMAIN rows |-> [id |-> rows[i].id, seq |-> rows[i].seq]],
                     LAMBDA a, b : EventBefore(s, a, b))

(* In a range the time of a request counts, and one without time does not. *)
Past(r, span) == span # 0 /\ (r = Nobody \/ TimeOf[r] = 0 \/ TimeOf[r] < minute - span)

Page(rows, q) ==
    [total |-> Len(rows),
     rows  |-> IF q.limit = 0 THEN rows
               ELSE SubSeq(rows, q.offset + 1, Smaller(q.offset + q.limit, Len(rows)))]

(* A plain list is shown as it is; a filtered one is searched up to the    *)
(* first detail before the range.                                          *)
Matches(s, list, q) ==
    LET rows == [i \in DOMAIN list |->
                    [id |-> Pointed(s, list[i]).id, rich |-> Pointed(s, list[i]).rich]]
        live == SelectSeq(rows, LAMBDA d : d.id # Nobody)
        in   == {i \in 0..Len(live) : \A j \in 1..i : ~Past(live[j].id, q.span)}
    IN  IF q.span = 0 /\ q.filter \in Plain THEN rows
        ELSE SelectSeq(SubSeq(live, 1, CHOOSE i \in in : \A j \in in : j <= i),
                       LAMBDA d : Selects(q.filter, d.id))

PageKey(q) == [query |-> q, at |-> IF q.span = 0 THEN 0 ELSE minute]
Cached(s, key) == SelectSeq(s.pages, LAMBDA p : p.key = key)

(* What a query answers, and what it leaves in the lists and the pages:    *)
(* the list if it is admitted, the page unless it is too large.            *)
AnswerEvents(s, q) ==
    LET hit == Cached(s, PageKey(q))
    IN  IF q.limit # 0 /\ hit # <<>> THEN hit[1].answer
        ELSE LET t == Refer(RefreshLists(s, FALSE), q.filter)
             IN  Page(Matches(t, ListEvents(t, q.filter), q), q)

KeepPage(s, q, answer) ==
    LET pages == Append(s.pages, [key |-> PageKey(q), answer |-> answer])
    IN  [s EXCEPT !.pages = IF Len(pages) > PageMax THEN Tail(pages) ELSE pages]

QueryEvents(s, q, over, admit, keep) ==
    LET t    == Refer(RefreshLists(s, over), q.filter)
        list == ListEvents(t, q.filter)
        u    == IF admit /\ q.filter \notin DOMAIN t.lists
                THEN [t EXCEPT !.lists = WithKey(@, q.filter, list)] ELSE t
    IN  IF q.limit # 0 /\ Cached(s, PageKey(q)) # <<>> THEN s
        ELSE IF q.limit # 0 /\ keep THEN KeepPage(u, q, Page(Matches(t, list, q), q)) ELSE u

-----------------------------------------------------------------------------
(* Range aggregates.                                                       *)

(* Aggregates of an earlier price table are dropped, the blocks stay. *)
Reprice(s) ==
    IF s.priced = s.price THEN s
    ELSE [s EXCEPT !.priced = s.price,
                   !.blocks = [b \in DOMAIN @ |-> [@[b] EXCEPT !.sums = <<>>]]]

Sum(s, ids, span) == {[id |-> r, price |-> s.price] : r \in {r \in ids : ~Past(r, span)}}

(* The blocks the details are in now; small ones are scanned every time. *)
Touched(s) == IF s.n = 0 THEN {} ELSE (s.first \div BlockRows)..((s.first + s.n - 1) \div BlockRows)
BlockFrom(s, b) == Larger(s.first, b * BlockRows)
BlockEnd(s, b)  == Smaller(s.first + s.n, (b + 1) * BlockRows)
BlockIds(s, b)  == {s.slots[k].id : k \in BlockFrom(s, b) + 1..BlockEnd(s, b)}

(* Mutant: a block is known by its end alone. *)
PrepareBlockByEnd(s, b) ==
    IF b \in DOMAIN s.blocks /\ s.blocks[b].end = BlockEnd(s, b)
    THEN s.blocks[b]
    ELSE [from |-> BlockFrom(s, b), end |-> BlockEnd(s, b), sums |-> <<>>,
          times |-> {TimeOf[r] : r \in BlockIds(s, b)}]

PrepareBlock(s, b) ==
    IF b \in DOMAIN s.blocks /\ s.blocks[b].from = BlockFrom(s, b) /\ s.blocks[b].end = BlockEnd(s, b)
    THEN s.blocks[b]
    ELSE [from |-> BlockFrom(s, b), end |-> BlockEnd(s, b), sums |-> <<>>,
          times |-> {TimeOf[r] : r \in BlockIds(s, b)}]

BlocksOf(s) == {b \in Touched(s) : BlockEnd(s, b) - BlockFrom(s, b) >= BlockLeast}

Complete(block, span) ==
    span = 0 \/ (0 \notin block.times /\ \A t \in block.times : t >= minute - span)
OutOfRange(block, span) == span # 0 /\ \A t \in block.times : t < minute - span

MergeBlock(s, b, q) ==
    LET block == PrepareBlock(s, b)
    IN  IF b \notin BlocksOf(s) THEN Sum(s, BlockIds(s, b), q.span)
        ELSE IF OutOfRange(block, q.span) THEN {}
        ELSE IF Complete(block, q.span) /\ q.reader \in DOMAIN block.sums THEN block.sums[q.reader]
        ELSE Sum(s, BlockIds(s, b), q.span)

(* The aggregates a query leaves, if they are admitted. *)
KeepSums(s, q, admit) ==
    [s EXCEPT !.blocks = [b \in DOMAIN @ \cup BlocksOf(s) |->
        IF b \notin BlocksOf(s) THEN @[b]
        ELSE LET block == PrepareBlock(s, b)
             IN  IF admit /\ ~OutOfRange(block, q.span) /\ Complete(block, q.span)
                 THEN [block EXCEPT !.sums = WithKey(@, q.reader, MergeBlock(s, b, q))] ELSE block]]

(* How many requests a sum counts, and which. *)
Total(s, q) ==
    LET archived == Sum(s, s.archive, q.span)
        parts == [b \in Touched(s) |-> MergeBlock(s, b, q)]
    IN  [rows  |-> archived \cup UNION {parts[b] : b \in Touched(s)},
         count |-> FoldFunction(LAMBDA part, n : n + Cardinality(part), Cardinality(archived), parts)]

SummaryKey(q) == [query |-> q, at |-> minute]

AnswerSummary(s, q) ==
    IF SummaryKey(q) \in DOMAIN s.summaries THEN s.summaries[SummaryKey(q)]
    ELSE Total(Reprice(s), q)

(* The newest details of a range are searched from the end, up to one that *)
(* is older than enough others.                                            *)
Recent(s, span) ==
    LET rows      == Details(s)
        In(i)     == ~Past(rows[i].id, span)
        Time(i)   == TimeOf[rows[i].id]
        After(i)  == {j \in i + 1..s.n : In(j)}
        Stops(i)  == Cardinality(After(i)) >= RecentLimit /\ \A j \in After(i) : Time(i) < Time(j)
        Before(i, j) == Time(i) > Time(j) \/ (Time(i) = Time(j) /\ i < j)
        found     == SortSeq(SetToSeq({i \in 1..s.n : In(i) /\ \A j \in i..s.n : ~Stops(j)}), Before)
    IN  [k \in 1..Smaller(RecentLimit, Len(found)) |->
            [id |-> rows[found[k]].id, rich |-> rows[found[k]].rich]]

AnswerDetail(s, q) == [total |-> Total(Reprice(s), q), recent |-> Recent(s, q.span)]

-----------------------------------------------------------------------------
(* Actions.                                                                *)

(* A snapshot left details without numbers or references, in time order. *)
ViewInit ==
    \E array \in Restored, limit \in VisibleLimits :
        /\ Len(array) <= limit
        /\ minute = 1
        /\ arrivals = [i \in DOMAIN array |-> [id |-> array[i], rich |-> FALSE, counts |-> TRUE]]
        /\ stats = [slots |-> [i \in DOMAIN array |-> [Vacant EXCEPT !.id = array[i]]],
                    first |-> 0, n |-> Len(array), next |-> 0, limit |-> limit, archive |-> {},
                    expiry |-> NextExpiry({array[i] : i \in DOMAIN array}), refs |-> <<>>,
                    lists |-> <<>>, pending |-> <<>>, dirty |-> FALSE, current |-> FALSE, pages |-> <<>>,
                    blocks |-> <<>>, summaries |-> <<>>, price |-> 0, priced |-> 0]

Arrived == {arrivals[i].id : i \in DOMAIN arrivals}
Counted == {arrivals[i].id : i \in {i \in DOMAIN arrivals : arrivals[i].counts}}

(* A request is recorded, soon or late; a live one always has a time. *)
RecordRequest(r, over) ==
    LET s == IF HasLists(stats) THEN [stats EXCEPT !.refs = WithKey(@, r, 0)] ELSE stats
        a == AppendDetail(s, r)
        e == IF KeepFor # 0 /\ (a.expiry = 0 \/ a.expiry > TimeOf[r] + KeepFor)
             THEN TimeOf[r] + KeepFor ELSE a.expiry
        b == QueueEvent(DropResponses([a EXCEPT !.expiry = e]), r, over)
        c == IF KeepFor # 0 /\ minute >= b.expiry THEN PruneDetails(b) ELSE b
    IN  /\ r \notin Arrived /\ TimeOf[r] \in 1..minute
        /\ over => HasLists(stats)
        /\ stats' = Trim(c)
        /\ arrivals' = Append(arrivals, [id |-> r, rich |-> FALSE, counts |-> TRUE])
        /\ UNCHANGED minute

Enriched(r)  == [i \in DOMAIN arrivals |-> [arrivals[i] EXCEPT !.rich = @ \/ arrivals[i].id = r]]
Retracted(arrived, r) == [i \in DOMAIN arrived |-> [arrived[i] EXCEPT !.counts = @ /\ arrived[i].id # r]]

Amended == {i \in DOMAIN arrivals : arrivals[i].rich \/ ~arrivals[i].counts}

(* Request metadata completes a detail. *)
EnrichRequest(r) ==
    /\ r \in Shown(stats)
    /\ ~Details(stats)[PlaceOf(stats, r)].rich /\ Cardinality(Amended) < MaxRepairs
    /\ stats' = DropResponses(SetDetail(stats, r))
    /\ arrivals' = Enriched(r)
    /\ UNCHANGED minute

(* A record is retracted, or a repair finds that it must not count. *)
RemoveRequest(r) ==
    /\ r \in Shown(stats) \cup stats.archive /\ Cardinality(Amended) < MaxRepairs
    /\ stats' = InvalidateSummary(RemoveDetail(stats, r))
    /\ arrivals' = Retracted(arrivals, r)
    /\ UNCHANGED minute

(* A fallback gives its metadata to the native record and goes. *)
ReconcileRequest(native, fallback) ==
    /\ native # fallback /\ native \in Shown(stats) /\ Cardinality(Amended) < MaxRepairs
    /\ fallback \in Shown(stats) \cup stats.archive
    /\ stats' = InvalidateSummary(PruneDetails(RemoveDetail(SetDetail(stats, native), fallback)))
    /\ arrivals' = Retracted(Enriched(native), fallback)
    /\ UNCHANGED minute

ChangePrices ==
    /\ stats.price < MaxReprices
    /\ stats' = DropResponses([stats EXCEPT !.price = @ + 1])
    /\ UNCHANGED <<minute, arrivals>>

ChangeLimit(limit) ==
    /\ limit # stats.limit
    /\ stats' = InvalidateSummary(PruneDetails([stats EXCEPT !.limit = limit]))
    /\ UNCHANGED <<minute, arrivals>>

ViewTick ==
    /\ minute < Minutes
    /\ minute' = minute + 1
    /\ UNCHANGED <<stats, arrivals>>

ShowEvents(q, over, admit, keep) ==
    /\ (over => stats.dirty) /\ (keep => q.limit # 0) /\ (admit => q.filter \notin DOMAIN stats.lists \/ over)
    /\ stats' = QueryEvents(PruneExpired(stats), q, over, admit, keep)
    /\ UNCHANGED <<minute, arrivals>>

ShowSummary(q, admit) ==
    LET s   == PruneExpired(stats)
        u   == Reprice(s)
        all == WithKey(s.summaries, SummaryKey(q), Total(u, q))
    IN  /\ IF SummaryKey(q) \in DOMAIN s.summaries THEN stats' = s
           ELSE \E kept \in SUBSET DOMAIN all :
                    /\ SummaryKey(q) \in kept
                    /\ Cardinality(kept) = Smaller(SummaryMax, Cardinality(DOMAIN all))
                    /\ stats' = [KeepSums(u, q, admit) EXCEPT !.summaries = [k \in kept |-> all[k]]]
        /\ UNCHANGED <<minute, arrivals>>

(* The page of an API's details is not kept. *)
ShowDetail(q, admit) ==
    /\ stats' = KeepSums(Reprice(PruneExpired(stats)), q, admit)
    /\ UNCHANGED <<minute, arrivals>>

ViewNext ==
    \/ \E r \in Requests, over \in BOOLEAN : RecordRequest(r, over)
    \/ \E r \in Requests : EnrichRequest(r) \/ RemoveRequest(r)
    \/ \E r, f \in Requests : ReconcileRequest(r, f)
    \/ ChangePrices
    \/ \E limit \in VisibleLimits : ChangeLimit(limit)
    \/ ViewTick
    \/ \E q \in EventQueries, over, admit, keep \in BOOLEAN : ShowEvents(q, over, admit, keep)
    \/ \E q \in Summaries, admit \in BOOLEAN : ShowSummary(q, admit)
    \/ \E q \in DetailPages, admit \in BOOLEAN : ShowDetail(q, admit)

ViewSpec == ViewInit /\ [][ViewNext]_viewVars

-----------------------------------------------------------------------------
(* Properties.                                                             *)

(* The visible requests that should be listed, the newest first and those  *)
(* of one minute in the order they arrived.                                *)
ExpectedEvents(q) ==
    LET mine == SelectSeq(arrivals, LAMBDA a :
                    a.counts /\ a.id \in Shown(stats) /\ ~Expired(a.id) /\ ~Past(a.id, q.span) /\ Selects(q.filter, a.id))
        Newer(i, j) == \/ TimeOf[mine[i].id] > TimeOf[mine[j].id]
                       \/ TimeOf[mine[i].id] = TimeOf[mine[j].id] /\ i < j
        order == SortSeq([i \in DOMAIN mine |-> i], Newer)
    IN  Page([k \in DOMAIN mine |-> [id |-> mine[order[k]].id, rich |-> mine[order[k]].rich]], q)

Latest(span) == [filter |-> Everything, span |-> span, offset |-> 0, limit |-> RecentLimit]

(* Every request that counts and has not expired, once, at today's price. *)
ExpectedRange(q) ==
    LET rows == Sum(stats, {r \in Counted : ~Expired(r)}, q.span)
    IN  [rows |-> rows, count |-> Cardinality(rows)]

(* Whatever was recorded late, archived, enriched, removed, expired or     *)
(* repriced since a list or a page was kept, and wherever the details have *)
(* moved, every query lists what a search of the whole history would       *)
(* (queryEventsAt, QueryAPIDetailForClientAPIAt).                          *)
EventsCurrent ==
    /\ \A q \in EventQueries : AnswerEvents(PruneExpired(stats), q) = ExpectedEvents(q)
    /\ \A q \in DetailPages :
         AnswerDetail(PruneExpired(stats), q).recent = ExpectedEvents(Latest(q.span)).rows

(* And whatever of this happened since an aggregate or a summary was kept, *)
(* a range sums every request that counts and has not expired, once, at    *)
(* today's prices (rangeSummaryLocked, QueryAPIDetailForClientAPIAt).      *)
RangesCurrent ==
    /\ \A q \in Summaries : AnswerSummary(PruneExpired(stats), q) = ExpectedRange(q)
    /\ \A q \in DetailPages : AnswerDetail(PruneExpired(stats), q).total = ExpectedRange(q)
=============================================================================
