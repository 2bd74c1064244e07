---------------------------- MODULE QuotaWindows ----------------------------
(* One quota window of one credential (quota_cycles.go, quota_storage.go,  *)
(* quota_pricing.go): observations and revocations arrive late and out of  *)
(* order from request callbacks, from the dashboard, from the journal at a *)
(* restart and from imported backups.  A window keeps the current period   *)
(* and the one before it.  Every step runs under the statistics lock.      *)
(*                                                                         *)
(* Abstractions.  Time is a number of minutes, 0 the zero time; usage is a *)
(* percentage.  The identity of the window (provider, credential, group,   *)
(* slot, source) is fixed, and so are its display fields.                  *)
EXTENDS Integers, Sequences, FiniteSets, SequencesExt

CONSTANTS
    Observations,         \* [at, reset, length, used, revoked]: what may be observed
    Absent,               \* no period, or no window
    QMinute,              \* time.Minute, the largest tolerated drift
    DropTolerance,        \* quotaResetDropTolerance, in percent
    MaxSamples,           \* 64, the samples of a period
    RevocationRetention,  \* revocationRetention
    FutureSlack,          \* how far ahead of the clock an observation may be
    QuotaEnd,             \* bound: the last time of the clock
    QuotaTicks,           \* how far the clock may move in one step
    MaxLogged,            \* bound: entries of the journal
    MaxDownloaded         \* bound: samples of a period in the backup

ASSUME QuotaLimitsAssumption ==
    /\ QMinute \in Nat \ {0} /\ DropTolerance \in Nat /\ MaxSamples \in Nat \ {0}
    /\ {RevocationRetention, FutureSlack, QuotaEnd, MaxLogged, MaxDownloaded} \subseteq Nat
    /\ QuotaTicks \subseteq Nat \ {0}
ASSUME ObservationsAssumption ==
    Observations \subseteq [at : Int, reset : Int, length : Int, used : Int, revoked : BOOLEAN]

Periods == [start : Int, end : Int, since : Int, samples : Seq(Observations),
            byReset : BOOLEAN, estimated : BOOLEAN]
Windows == [length : Int, hidden : BOOLEAN, updated : Int,
            current : Periods \cup {Absent}, previous : Periods \cup {Absent}]
ASSUME AbsentAssumption == Absent \notin Periods /\ Absent \notin Windows

VARIABLES
    window,   \* the entry of q.Windows, or Absent
    quotaNow, \* the clock
    started,  \* q.StartedAt, when this process began to collect
    storing,  \* storageEnabled
    saved,    \* the window in the storage snapshot
    journal,  \* the accepted observations in the shards replay reads
    backup,   \* the window in a downloaded backup
    revokedAt \* history: the latest revocation taken

quotaVars == <<window, quotaNow, started, storing, saved, journal, backup, revokedAt>>

-----------------------------------------------------------------------------
(* Periods.                                                                *)

LastOf(p) == p.samples[Len(p.samples)]

Period(start, end, since, samples) ==
    [start |-> start, end |-> end, since |-> since, samples |-> samples,
     byReset |-> FALSE, estimated |-> FALSE]

(* Within a minute, or a quarter of a shorter window. *)
DriftIsSmall(a, b, length) ==
    \A d \in {a - b, b - a} : d <= QMinute /\ 4 * d <= length

Precedes(end, start, length) == end <= start \/ DriftIsSmall(end, start, length)

ObservedAt(w) ==
    LET ends == {LastOf(p).at : p \in {q \in {w.current, w.previous} : q # Absent /\ q.samples # <<>>}}
    IN  IF ends = {} THEN 0 ELSE CHOOSE t \in ends : \A u \in ends : u <= t

Consumed(samples) == \E i \in DOMAIN samples : samples[i].used > 0

-----------------------------------------------------------------------------
(* Resets within a period.                                                 *)

ResetCandidate(peak, used) == used < peak - DropTolerance \/ (used = 0 /\ peak > 0)

(* The next sample confirms a drop at "i" from the peak. *)
Confirmed(samples, end, peak, i) ==
    LET Used(j) == samples[j].used
    IN  /\ peak > 0 /\ i < Len(samples) /\ samples[i].at < end
        /\ ResetCandidate(Used(peak), Used(i))
        /\ 2 * Used(i + 1) < Used(peak) + Used(i)

Looked(samples, end, found, i) ==
    IF Confirmed(samples, end, found.top, i) THEN [peak |-> found.top, drop |-> i, top |-> i]
    ELSE IF found.top = 0 \/ samples[i].used > samples[found.top].used THEN [found EXCEPT !.top = i]
    ELSE found

(* What was found after each sample. *)
Look(samples, end) ==
    LET look[n \in 0..Len(samples)] ==
            IF n = 0 THEN [peak |-> 0, drop |-> 0, top |-> 0] ELSE Looked(samples, end, look[n - 1], n)
    IN  look

(* The latest confirmed drop, and the peak before it. *)
LatestReset(samples, end) == Look(samples, end)[Len(samples)]

(* How many samples were taken before a reset card moved the deadline.     *)
PreReset(samples, span, end) ==
    LET moved == {i \in DOMAIN samples :
                    LET d == end - samples[i].reset IN d > QMinute /\ 24 * d > span}
    IN  IF moved = {} THEN 0 ELSE CHOOSE i \in moved : \A j \in moved : j <= i

(* A period without what came before a reset card. *)
Carded(whole, before, earlier, after, start) ==
    LET guessed == start < whole.samples[before].at \/ start > after[1].at
    IN  IF before = 0 \/ after = <<>> THEN whole
        ELSE IF Consumed(earlier.samples)
        THEN [start |-> IF guessed THEN after[1].at ELSE start, samples |-> after,
              reset |-> TRUE, estimated |-> whole.estimated \/ guessed]
        ELSE IF earlier.reset THEN [earlier EXCEPT !.samples = @ \o after]
        ELSE whole

(* A period without what came before a drop of its usage. *)
Dropped(p, drop) ==
    IF drop = 0 THEN p
    ELSE [start |-> p.samples[drop].at, reset |-> TRUE, estimated |-> TRUE,
          samples |-> SubSeq(p.samples, drop, Len(p.samples))]

AfterDrop(p, end) == Dropped(p, LatestReset(p.samples, end).drop)

(* The part of a period after its latest reset; "prior" has that of the     *)
(* first n samples.                                                        *)
Segment(samples, start, end, span, estimated, prior) ==
    LET before == PreReset(samples, span, end)
    IN  AfterDrop(Carded([start |-> start, samples |-> samples, reset |-> FALSE, estimated |-> estimated],
                         before, prior[before], SubSeq(samples, before + 1, Len(samples)), start), end)

(* What is shown of a period. *)
Effective(p) ==
    LET span == p.end - p.start
        prior[n \in 1..Len(p.samples)] ==
            Segment(SubSeq(p.samples, 1, n), p.samples[n].reset - span, p.samples[n].reset,
                    span, FALSE, prior)
    IN  Segment(p.samples, p.start, p.end, span, p.estimated, prior)

-----------------------------------------------------------------------------
(* Samples of a period.                                                    *)

(* Mutant: only the newest samples and the first one are kept. *)
CompactNewest(p) ==
    IF Len(p.samples) <= MaxSamples THEN p
    ELSE [p EXCEPT !.samples = <<Head(@)>> \o SubSeq(@, Len(@) - MaxSamples + 2, Len(@))]

(* The samples of which the period shown may depend. *)
Essential(p, reset, card) ==
    LET s     == p.samples
        live  == {i \in DOMAIN s : s[i].at >= p.since}
        full  == {i \in DOMAIN s : s[i].used = 100}
    IN  {1, reset.peak, reset.drop, reset.drop + 1, card, card + 1}
            \cup {i \in live : \A j \in live : i <= j} \cup {i \in full : \A j \in full : j <= i}

(* The samples at the positions of a set. *)
Chosen(samples, places) ==
    LET pick[n \in 0..Len(samples)] ==
            IF n = 0 THEN <<>>
            ELSE IF n \in places THEN Append(pick[n - 1], samples[n]) ELSE pick[n - 1]
    IN  pick[Len(samples)]

(* The oldest of the spare samples go, as many as are too many. *)
Dropping(p, spare) ==
    LET surplus == Len(p.samples) - MaxSamples
        gone    == {i \in spare : Cardinality({j \in spare : j <= i}) <= surplus}
    IN  [p EXCEPT !.samples = Chosen(@, DOMAIN @ \ gone)]

(* The samples around the latest reset survive, then the newest ones. *)
Compact(p) ==
    IF Len(p.samples) <= MaxSamples THEN p
    ELSE Dropping(p, DOMAIN p.samples \ Essential(p, LatestReset(p.samples, p.end),
                                                  PreReset(p.samples, p.end - p.start, p.end)))

(* Mutant: a sample is appended where it arrived. *)
AppendUnsorted(p, o, since) == [p EXCEPT !.samples = Append(@, o)]

(* quotaAppendSample of a sample the period does not have. *)
Insert(p, o, since) ==
    LET n == Cardinality({i \in DOMAIN p.samples : p.samples[i].at <= o.at})
        baseline == IF p.since = 0 \/ (o.at >= since /\ since > p.since) THEN since ELSE p.since
    IN  Compact([p EXCEPT !.samples = InsertAt(@, n + 1, o), !.since = baseline])

Has(p, o) == o \in ToSet(p.samples)

(* Mutant: a sample joins a period that already has it. *)
JoinAgain(p, o, since) == Insert(p, o, since)

With(p, o, since) == IF Has(p, o) THEN p ELSE Insert(p, o, since)

WithAll(p, samples, since) ==
    LET grown[n \in 0..Len(samples)] == IF n = 0 THEN p ELSE With(grown[n - 1], samples[n], since)
    IN  grown[Len(samples)]

-----------------------------------------------------------------------------
(* The archive of the segment that a reset ended.                          *)

(* "segment" is what was shown before the reset, up to the sample "last". *)
ResetArchive(w, eff, last, segment) ==
    LET old     == w.previous
        after   == old # Absent /\ old.byReset /\ eff.start > old.end
                   /\ segment.start < old.end /\ last.at >= old.end
        within  == old # Absent /\ old.byReset /\ old.start < eff.start /\ eff.start <= old.end
        archive == [start |-> IF after THEN old.end ELSE IF within THEN old.start ELSE segment.start,
                    end |-> eff.start, since |-> w.current.since, samples |-> segment.samples,
                    byReset |-> TRUE, estimated |-> eff.estimated]
    IN  IF segment.start >= eff.start THEN old
        ELSE IF within
        THEN WithAll(archive, Chosen(old.samples, {i \in DOMAIN old.samples : old.samples[i].at < eff.start}),
                     old.since)
        ELSE archive

BeforeReset(w, eff, cut) ==
    LET last == w.current.samples[cut]
    IN  ResetArchive(w, eff, last,
            Effective(Period(last.reset - w.length, last.reset, w.current.since,
                             SubSeq(w.current.samples, 1, cut))))

WithArchive(w, new) ==
    IF w.previous # Absent /\ [new EXCEPT !.since = w.previous.since] = w.previous THEN w
    ELSE [w EXCEPT !.previous = new]

ArchiveShown(w, eff) ==
    LET cut == Len(w.current.samples) - Len(eff.samples)
    IN  IF ~eff.reset \/ cut = 0
           \/ (w.previous # Absent /\ ~w.previous.byReset /\ w.previous.end > eff.start)
        THEN w
        ELSE WithArchive(w, BeforeReset(w, eff, cut))

(* quotaArchiveResetPeriod *)
Archive(w) == IF w.current = Absent THEN w ELSE ArchiveShown(w, Effective(w.current))

(* quotaDropEmptyResetArchive *)
DropEmptyArchive(w) ==
    IF w.previous # Absent /\ w.previous.byReset /\ w.previous.samples # <<>>
       /\ ~Consumed(w.previous.samples)
    THEN [w EXCEPT !.previous = Absent]
    ELSE w

-----------------------------------------------------------------------------
(* applyQuotaObservationLocked.  Each operator gives the set of windows    *)
(* that may result: one, or none when the observation is refused.          *)

NewWindow(length) ==
    [length |-> length, hidden |-> FALSE, updated |-> 0, current |-> Absent, previous |-> Absent]

ValidObservation(o) ==
    /\ o.at > 0
    /\ o.revoked \/ (o.length > 0 /\ o.reset > 0 /\ o.reset - o.length <= o.at /\ o.at <= o.reset)

Revoke(w, o) ==
    IF w # Absent /\ (o.at < w.updated \/ (w.hidden /\ o.at = w.updated))
    THEN {}
    ELSE LET known == IF w = Absent THEN NewWindow(0) ELSE w
         IN  {[known EXCEPT !.hidden = TRUE, !.updated = o.at]}

(* An observation older than the window: it refines what is kept. *)
ApplyLate(w, o) ==
    LET same == w.length = o.length
        cur  == w.current
        prev == w.previous
        Near(p) == same /\ p # Absent /\ DriftIsSmall(p.end, o.reset, o.length) /\ ~Has(p, o)
        carded  == same /\ prev # Absent /\ prev.byReset /\ prev.start <= o.at /\ o.at < prev.end
                   /\ prev.samples # <<>> /\ DriftIsSmall(LastOf(prev).reset, o.reset, o.length)
        older   == same /\ cur # Absent /\ (prev = Absent \/ o.reset > prev.end)
                   /\ Precedes(o.reset, cur.start, o.length)
        end     == IF DriftIsSmall(o.reset, cur.start, o.length) THEN cur.start ELSE o.reset
    IN  IF carded
        THEN IF Has(prev, o) THEN {}
             ELSE {[w EXCEPT !.previous = Insert(prev, o, started),
                             !.current  = IF cur # Absent /\ cur.start <= prev.end
                                          THEN With(cur, o, started) ELSE cur]}
        ELSE IF Near(cur)  THEN {[w EXCEPT !.current = Insert(cur, o, started)]}
        ELSE IF Near(prev) THEN {[w EXCEPT !.previous = Insert(prev, o, started)]}
        ELSE IF older THEN {[w EXCEPT !.previous = Period(end - o.length, end, started, <<o>>)]}
        ELSE {}

(* Mutant: the predecessor keeps its end when the boundary drifts. *)
AlignedNot(w, length) == w

(* The shared boundary is the start of the current period. *)
Aligned(w, length) ==
    LET cur  == w.current
        prev == w.previous
        moved == [w EXCEPT !.previous.end = cur.start, !.previous.start = cur.start - length]
    IN  IF cur = Absent \/ prev = Absent THEN w
        ELSE IF prev.byReset THEN w
        ELSE IF \/ DriftIsSmall(prev.end, cur.start, length)
                \/ /\ prev.end > cur.start /\ prev.start < cur.start
                   /\ 4 * (prev.end - cur.start) <= length
        THEN moved
        ELSE IF Precedes(prev.end, cur.start, length) THEN w
        ELSE [w EXCEPT !.previous = Absent]

(* An observation at least as new as the window: the periods roll over,    *)
(* drift or begin.                                                         *)
ApplyFresh(w, o) ==
    LET start == o.reset - o.length
        sized == IF w.length = o.length THEN w ELSE NewWindow(o.length)
        over  == sized.current # Absent
                 /\ (sized.current.end <= start \/ DriftIsSmall(sized.current.end, start, o.length))
        r     == IF over THEN [sized EXCEPT !.previous = sized.current, !.current = Absent] ELSE sized
        cur   == r.current
        expired == cur = Absent /\ r.previous # Absent
                   /\ DriftIsSmall(r.previous.end, o.reset, o.length)
        next  ==
            IF expired
            THEN IF Has(r.previous, o) THEN {} ELSE {[r EXCEPT !.previous = Insert(@, o, started)]}
            ELSE IF cur # Absent /\ cur.end = o.reset
            THEN IF Has(cur, o) THEN {} ELSE {[r EXCEPT !.current = Insert(@, o, started)]}
            ELSE IF cur # Absent
            THEN IF o.at < cur.end /\ cur.samples # <<>>
                 THEN {[r EXCEPT !.current =
                           With([cur EXCEPT !.start = start, !.end = o.reset], o, started)]}
                 ELSE {}
            ELSE {[r EXCEPT !.current = Period(start, o.reset, started, <<o>>)]}
    IN  {[Aligned(n, o.length) EXCEPT !.length = o.length, !.updated = o.at, !.hidden = FALSE]
            : n \in next}

(* Usage older than a revocation advances the history, hidden as before.   *)
Apply(w, o) ==
    LET known   == IF w = Absent THEN NewWindow(o.length) ELSE w
        revoked == known.hidden /\ o.at <= known.updated
        base    == IF revoked THEN [known EXCEPT !.updated = ObservedAt(known)] ELSE known
        late    == o.at < base.updated \/ (base.hidden /\ o.at = base.updated)
        next    == IF late THEN ApplyLate(base, o) ELSE ApplyFresh(base, o)
        Committed(n) == DropEmptyArchive(Archive(n))
    IN  IF ~ValidObservation(o) THEN {}
        ELSE IF o.revoked THEN Revoke(w, o)
        ELSE {IF revoked THEN [Committed(n) EXCEPT !.hidden = TRUE, !.updated = known.updated]
              ELSE Committed(n) : n \in next}

Outcome(w, next) == IF next = {} THEN w ELSE CHOOSE n \in next : TRUE
AfterObservation(w, o) == Outcome(w, Apply(w, o))

-----------------------------------------------------------------------------
(* Time passing and retention.                                             *)

RolledOver(w, now) ==
    IF w.current # Absent /\ now >= w.current.end
    THEN [w EXCEPT !.previous = w.current, !.current = Absent]
    ELSE w

(* advanceQuotaCyclesLocked *)
Advance(w, now) == IF w = Absent THEN w ELSE RolledOver(Archive(w), now)

(* Mutant: expiring usage takes its newer revocation along. *)
PruneForgets(w, now) ==
    LET p == IF w.current # Absent THEN w.current ELSE w.previous
    IN  IF w # Absent /\ w.hidden /\ p # Absent /\ now > p.end + w.length THEN Absent ELSE w

(* pruneQuotaLocked, the part about windows. *)
Prune(w, now) ==
    LET p       == IF w.current # Absent THEN w.current ELSE w.previous
        expired == p = Absent \/ now > p.end + w.length
        kept    == now <= w.updated + RevocationRetention
    IN  IF w = Absent THEN w
        ELSE IF ~w.hidden \/ ~expired THEN w
        ELSE IF ~kept THEN Absent
        ELSE [w EXCEPT !.current = Absent, !.previous = Absent,
                       !.length = IF p = Absent THEN @ ELSE 0]

(* The windows are pruned once a minute and advanced at every call. *)
PrunedOrNot(w) == {w, Prune(w, quotaNow)}
Housekept(w) == PrunedOrNot(Advance(w, quotaNow))

-----------------------------------------------------------------------------
(* Snapshots and backups.                                                  *)

ValidSpan(p, length) ==
    p.start < p.end /\ p.end - p.start <= length /\ (p.byReset \/ p.end - p.start = length)

Sorted(samples) ==
    \A i, j \in DOMAIN samples : i < j => samples[i].at <= samples[j].at

(* repairQuotaPeriods of a window this version wrote: its periods have at  *)
(* most MaxSamples sorted samples.                                         *)
Repaired(w) ==
    LET Span(p) == IF p # Absent /\ ~ValidSpan(p, w.length) THEN Absent ELSE p
    IN  IF w = Absent THEN w
        ELSE DropEmptyArchive([w EXCEPT !.current = Span(@), !.previous = Span(@)])

SharesWindow(a, b) ==
    /\ a # Absent /\ b # Absent /\ a.samples # <<>> /\ b.samples # <<>>
    /\ a.start < b.end /\ b.start < a.end
    /\ a.samples[1].at < b.end /\ b.samples[1].at < a.end

(* A period of the other history becomes the predecessor if it is later    *)
(* than the one known.                                                     *)
Installed(w, p) ==
    LET end  == IF DriftIsSmall(p.end, w.current.start, w.length) THEN w.current.start ELSE p.end
        copy == [p EXCEPT !.end = end, !.samples = <<>>,
                          !.start = IF p.byReset THEN @ ELSE end - w.length]
    IN  IF /\ w.current # Absent
           /\ w.previous = Absent
              \/ (p.end > w.previous.end /\ ~DriftIsSmall(p.end, w.previous.end, w.length))
           /\ Precedes(p.end, w.current.start, w.length)
           /\ copy.start < copy.end
        THEN [w EXCEPT !.previous = copy]
        ELSE w

(* Its samples join the period they belong to, if there is just one. *)
Joined(w, p) ==
    LET Near(q)  == q # Absent /\ DriftIsSmall(q.end, p.end, w.length)
        sharing  == {f \in {"previous", "current"} : SharesWindow(w[f], p)}
        target   == IF Near(w.previous) THEN {"previous"}
                    ELSE IF Near(w.current) THEN {"current"}
                    ELSE IF Cardinality(sharing) = 1 THEN sharing ELSE {}
    IN  [w EXCEPT !.previous = IF "previous" \in target THEN WithAll(@, p.samples, p.since) ELSE @,
                  !.current  = IF "current" \in target THEN WithAll(@, p.samples, p.since) ELSE @]

Gained(w, p) == IF p = Absent THEN w ELSE Joined(Installed(w, p), p)

HistoryInto(to, from) ==
    IF to.length # from.length THEN to ELSE Gained(Gained(to, from.previous), from.current)

(* mergeQuotaWindowHistory *)
WithHistory(w, other) ==
    LET swap == w.hidden /\ other.length > 0
                /\ (w.length = 0 \/ ObservedAt(other) > ObservedAt(w))
    IN  HistoryInto(IF swap THEN [other EXCEPT !.updated = w.updated, !.hidden = TRUE] ELSE w,
                    IF swap THEN w ELSE other)

(* mergeQuotaSnapshotLocked, the part about windows. *)
Merged(w, in) ==
    LET older == in.updated < w.updated \/ (in.updated = w.updated /\ (~in.hidden \/ w.hidden))
    IN  IF in = Absent THEN w
        ELSE Archive(IF w = Absent THEN in
                     ELSE WithHistory(IF older THEN w ELSE in, IF older THEN in ELSE w))

-----------------------------------------------------------------------------
(* Steps.                                                                  *)

QuotaPeriods == IF window = Absent THEN {} ELSE {window.current, window.previous} \ {Absent}

QuotaInit ==
    /\ window = Absent /\ quotaNow = 1 /\ started = 1 /\ storing \in BOOLEAN
    /\ saved = Absent /\ journal = <<>> /\ backup = Absent /\ revokedAt = 0

(* An accepted change goes to the writer, unless statistics are kept in    *)
(* memory only.                                                            *)
Logged(entries) ==
    /\ Len(journal) + Len(entries) <= MaxLogged
    /\ journal' = IF storing THEN journal \o entries ELSE journal

Take(o, next) ==
    /\ Logged(IF next = {} THEN <<>> ELSE <<o>>)
    /\ revokedAt' = IF o.revoked /\ next # {} THEN o.at ELSE revokedAt
    /\ window' \in Housekept(Outcome(window, next))

(* A request's headers, or one observation of a dashboard batch. *)
Observe(o) ==
    /\ o.at <= quotaNow + FutureSlack
    /\ Take(o, Apply(window, o))
    /\ UNCHANGED <<quotaNow, started, storing, saved, backup>>

Tick(n) ==
    /\ quotaNow + n <= QuotaEnd
    /\ quotaNow' = quotaNow + n
    /\ UNCHANGED <<window, started, storing, saved, journal, backup, revokedAt>>

(* Any query or version poll. *)
Housekeep ==
    /\ window' \in Housekept(window)
    /\ UNCHANGED <<quotaNow, started, storing, saved, journal, backup, revokedAt>>

(* The storage snapshot; the shards it covers may be removed.  (Bound: one *)
(* snapshot and one download.)                                             *)
SaveWindows ==
    /\ storing /\ saved = Absent
    /\ window' \in Housekept(window)
    /\ saved' = window'
    /\ journal' \in {journal, <<>>}
    /\ UNCHANGED <<quotaNow, started, storing, backup, revokedAt>>

Download ==
    /\ backup = Absent
    /\ \A p \in QuotaPeriods : Len(p.samples) <= MaxDownloaded
    /\ window' \in Housekept(window)
    /\ backup' = window'
    /\ UNCHANGED <<quotaNow, started, storing, saved, journal, revokedAt>>

(* An import is logged as the windows it brought. *)
ImportBackup ==
    /\ backup # Absent
    /\ window' = Merged(window, Repaired(backup))
    /\ Logged(<<backup>>)
    /\ UNCHANGED <<quotaNow, started, storing, saved, backup, revokedAt>>

Replayed(w, entry) ==
    IF entry \in Observations THEN AfterObservation(w, entry) ELSE Merged(w, Repaired(entry))

(* A new process restores the snapshot and replays the shards; without     *)
(* storage it begins as in QuotaInit.                                      *)
Restart ==
    /\ storing
    /\ started' = quotaNow
    /\ window' = LET replay[n \in 0..Len(journal)] ==
                       IF n = 0 THEN Repaired(saved) ELSE Replayed(replay[n - 1], journal[n])
                 IN  replay[Len(journal)]
    /\ UNCHANGED <<quotaNow, storing, saved, journal, backup, revokedAt>>

QuotaNext ==
    \/ \E o \in Observations : Observe(o)
    \/ \E n \in QuotaTicks : Tick(n)
    \/ Housekeep \/ SaveWindows \/ Download \/ ImportBackup \/ Restart

QuotaSpec == QuotaInit /\ [][QuotaNext]_quotaVars

-----------------------------------------------------------------------------
(* Properties.                                                             *)

(* A window without the baselines of its periods. *)
Content(w) ==
    LET Of(p) == IF p = Absent THEN p ELSE [p EXCEPT !.since = 0]
    IN  IF w = Absent THEN w ELSE [w EXCEPT !.current = Of(@), !.previous = Of(@)]

(* What validateQuotaSnapshot demands of a stored window holds of the live *)
(* one at all times, so that neither repair nor refusal loses a period that *)
(* ran out.  (Their number is at most 64: Compact always keeps eight at     *)
(* most.)  The archive of a reset may be longer than the window, and then   *)
(* repairQuotaPeriods drops it: it ends with the first reading after the    *)
(* reset, and begins a length before the deadline of the last one before;   *)
(* deadlines that drift let that reading come after this deadline.          *)
LiveWindowLoads ==
    window # Absent =>
        /\ window.length > 0 \/ (window.hidden /\ QuotaPeriods = {} /\ window.updated > 0)
        /\ \A p \in QuotaPeriods :
              /\ p.start < p.end /\ (p.byReset \/ p.end - p.start = window.length)
              /\ Sorted(p.samples)
              /\ \A o \in ToSet(p.samples) :
                    ValidObservation(o) /\ ~o.revoked /\ o.length = window.length

(* A predecessor that ran out ends where the current period begins or      *)
(* earlier, however the deadlines drift (quota_cycles.go, "a request       *)
(* cannot belong to both periods").                                        *)
BoundaryShared ==
    window # Absent /\ window.current # Absent /\ window.previous # Absent /\ ~window.previous.byReset
        => window.previous.end <= window.current.start

(* A window is shown only by usage observed after its latest revocation,   *)
(* whatever arrives late, is merged, expires or is replayed.               *)
RevocationHolds ==
    window # Absent /\ ~window.hidden /\ revokedAt # 0
        /\ quotaNow <= revokedAt + RevocationRetention
        => window.updated > revokedAt

(* The samples at which a reset is found.                                  *)
Resets(samples, end) == {samples[i] : i \in {Look(samples, end)[n].drop : n \in DOMAIN samples} \ {0}}

(* A reset found in a period is not erased by dropping samples: what is     *)
(* shown begins where it does with every sample kept, so that it does not   *)
(* include costs from before the reset (quotaCompactSamples).  Not so if a  *)
(* dropped sample is the one that denied a drop, as then another reset is   *)
(* found; nor is it said of resets by card, which compaction tells apart by *)
(* the deadlines on both sides, and not by the usage before them.           *)
CompactionKeepsReset ==
    \A p \in QuotaPeriods : \A o \in Observations :
        LET all  == InsertAt(p.samples, Cardinality({i \in DOMAIN p.samples : p.samples[i].at <= o.at}) + 1, o)
            full == [p EXCEPT !.samples = all]
            kept == Compact(full)
        IN  /\ ValidObservation(o) /\ ~o.revoked /\ o.length = window.length /\ ~Has(p, o)
            /\ LatestReset(all, p.end).drop # 0 /\ PreReset(all, p.end - p.start, p.end) = 0
            /\ Resets(kept.samples, p.end) \subseteq Resets(all, p.end)
            => Effective(kept).start = Effective(full).start

(* Importing what was just exported changes no period, sample or mark,     *)
(* where the readings' deadlines drift or move on but do not jump back,    *)
(* unless a period is full, or a reset came so shortly before the deadline *)
(* that the archive and the current period have the same end but for the   *)
(* tolerated drift.                                                        *)
OwnBackupNeutral ==
    LET Apart(p, q) == p # Absent /\ q # Absent => ~DriftIsSmall(p.end, q.end, window.length)
    IN  /\ window # Absent /\ Apart(window.previous, window.current)
        /\ \A p \in QuotaPeriods : Len(p.samples) < MaxSamples
        => Content(Merged(window, Repaired(window))) = Content(window)

(* The predecessor that a reset ended and the period shown after it share  *)
(* no instant (docs/guides/quota-cycles.md).                               *)
ShownDisjoint ==
    window # Absent /\ window.current # Absent /\ window.previous # Absent
        => window.previous.end <= Effective(window.current).start
=============================================================================
