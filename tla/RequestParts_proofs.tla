------------------------- MODULE RequestParts_proofs -------------------------
(* Proofs about the components that complete and price a request.          *)
(* RequestMetadata: the cached observations are bounded, and a report is   *)
(* never completed with the metadata of another execution, unless its own  *)
(* was going on when a suspension ended.  PriceBook: the catalog belongs   *)
(* to the settings, the costs are those of the tables, and at most one     *)
(* time rule applies at a time, for any models, catalogs, rules and files. *)
EXTENDS RequestMetadata, PriceBook, FiniteSetTheorems, TLAPS

-----------------------------------------------------------------------------
(* The metadata of requests.                                               *)

(* What is known of the executions of the host. *)
HostOrdered ==
    \A e \in Execs :
        /\ begun[e] <= now
        /\ ended[e] # 0 => begun[e] # 0 /\ begun[e] <= ended[e] /\ ended[e] <= now
        /\ until[e] = 0 => e \notin exclusive
        /\ begun[e] = 0 => until[e] = 0

(* A cached observation began when enrichment was not suspended, and its   *)
(* interval contains the whole execution.                                  *)
Sound(set, unsafe) ==
    \A e \in set :
        /\ begun[e] >= unsafe
        /\ until[e] # 0 => /\ ended[e] # 0 /\ ended[e] <= until[e]
                           /\ e \in exclusive => ended[e] < until[e]

(* An execution is remembered, or it began before the end of a suspension, *)
(* or it ended so long ago that its reports are refused.                   *)
Remembered(set, unsafe) ==
    \A e \in Execs :
        begun[e] # 0 => \/ e \in set
                        \/ begun[e] < unsafe
                        \/ ended[e] # 0 /\ ended[e] + TTL < now

CacheInvariant ==
    /\ HostOrdered
    /\ unsafeUntil <= now + TTL
    /\ Sound(kept, unsafeUntil)
    /\ Remembered(kept, unsafeUntil)

-----------------------------------------------------------------------------
(* What a cleanup leaves.                                                  *)

LEMMA CleanType ==
    ASSUME TypeOK
    PROVE  /\ CleanKept \subseteq kept
           /\ CleanUnsafe \in Times
           /\ IsFiniteSet(CleanKept)
           /\ Cardinality(CleanKept) \in Nat
           /\ Cardinality(CleanKept) <= MaxEntries
<1>1. CleanKept \subseteq kept
  BY DEF CleanKept
<1>2. CleanUnsafe \in Times
  BY TimesAssumption DEF CleanUnsafe, TypeOK, Times
<1>3. kept \subseteq Execs
  BY DEF TypeOK
<1>4. IsFiniteSet(kept)
  BY <1>3, ExecsAssumption, FS_Subset
<1>5. IsFiniteSet(CleanKept) /\ Cardinality(CleanKept) <= Cardinality(kept)
  BY <1>1, <1>4, FS_Subset
<1>6. Cardinality(CleanKept) \in Nat /\ Cardinality(kept) \in Nat
  BY <1>4, <1>5, FS_CardinalityType
<1> QED BY <1>1, <1>2, <1>5, <1>6, TimesAssumption DEF TypeOK

LEMMA CleanInvariant ==
    ASSUME TypeOK, CacheInvariant
    PROVE  /\ CleanUnsafe <= now + TTL
           /\ Sound(CleanKept, CleanUnsafe)
           /\ Remembered(CleanKept, CleanUnsafe)
<1> USE TimesAssumption
<1>0. now \in Nat /\ unsafeUntil \in Nat /\ TTL \in Nat /\ TTL > 0
  BY DEF TypeOK, Times
<1>t. \A e \in Execs : begun[e] \in Nat /\ ended[e] \in Nat /\ until[e] \in Nat
  BY DEF TypeOK
<1>1. CASE Due /\ Outlived
  <2>1. CleanKept = {} /\ CleanUnsafe = now + TTL
    BY <1>1 DEF CleanKept, CleanUnsafe
  <2>2. \A e \in Execs : begun[e] < now + TTL
    BY <1>0, <1>t DEF CacheInvariant, HostOrdered
  <2> QED BY <1>0, <2>1, <2>2 DEF Sound, Remembered
<1>2. CASE ~(Due /\ Outlived)
  <2>1. CleanUnsafe = unsafeUntil /\ CleanKept \subseteq kept
    BY <1>2 DEF CleanKept, CleanUnsafe
  <2>2. \A e \in kept \ CleanKept : ended[e] # 0 /\ ended[e] + TTL < now
    <3> SUFFICES ASSUME NEW e \in kept \ CleanKept
                 PROVE  ended[e] # 0 /\ ended[e] + TTL < now
      OBVIOUS
    <3>1. until[e] # 0 /\ ~(until[e] + TTL >= now)
      BY <1>2 DEF CleanKept, Retained
    <3>2. ended[e] # 0 /\ ended[e] <= until[e]
      BY <3>1 DEF CacheInvariant, Sound
    <3>3. ended[e] \in Nat /\ until[e] \in Nat
      BY <1>t DEF TypeOK
    <3> QED BY <1>0, <3>1, <3>2, <3>3
  <2>3. Sound(CleanKept, CleanUnsafe)
    BY <2>1 DEF CacheInvariant, Sound
  <2>4. Remembered(CleanKept, CleanUnsafe)
    BY <2>1, <2>2 DEF CacheInvariant, Remembered
  <2> QED BY <2>1, <2>3, <2>4 DEF CacheInvariant
<1> QED BY <1>1, <1>2

-----------------------------------------------------------------------------
(* Types.                                                                  *)

LEMMA InitType == Init => TypeOK
<1> SUFFICES ASSUME Init PROVE TypeOK
  OBVIOUS
<1>1. Cardinality({}) = 0
  BY FS_EmptySet
<1> QED BY <1>1, TimesAssumption DEF Init, TypeOK, Times

LEMMA CleanupType ==
    ASSUME TypeOK, Cleanup
    PROVE  nextCleanup' \in Times
  BY TimesAssumption DEF TypeOK, Cleanup, Times

LEMMA StepType == TypeOK /\ [Next]_vars => TypeOK'
<1> SUFFICES ASSUME TypeOK, [Next]_vars PROVE TypeOK'
  OBVIOUS
<1> USE TimesAssumption
<1>0. /\ CleanKept \subseteq kept /\ CleanUnsafe \in Times
      /\ Cardinality(CleanKept) <= MaxEntries
  BY CleanType
<1>1. ASSUME NEW e \in Execs, Begin(e) PROVE TypeOK'
  <2>1. begun' \in [Execs -> 0..MaxTime] /\ begun'[e] # 0
        /\ \A f \in Execs : begun[f] # 0 => begun'[f] # 0
    BY <1>1 DEF Begin, TypeOK
  <2>2. nextCleanup' \in Times
    BY <1>1, CleanupType DEF Begin, Observe
  <2>3. /\ kept' \subseteq CleanKept \cup {e} /\ unsafeUntil' \in Times
        /\ until' \in [Execs -> 0..MaxTime] /\ exclusive' \subseteq Execs
        /\ Cardinality(kept') <= MaxEntries
    <3>1. CASE Skip
      BY <1>0, <3>1 DEF Skip, TypeOK
    <3>2. CASE Suspend
      <4>1. Cardinality(kept') = 0
        BY <3>2, FS_EmptySet DEF Suspend
      <4> QED BY <3>2, <4>1 DEF Suspend, TypeOK, Times
    <3>3. CASE ~Full /\ Store(e)
      <4>1. kept' = CleanKept \cup {e}
        BY <3>3 DEF Store
      <4>2. Cardinality(CleanKept) \in Nat /\ Cardinality(CleanKept) < MaxEntries
        BY <3>3, CleanType DEF Full
      <4>3. \/ Cardinality(kept') = Cardinality(CleanKept)
            \/ Cardinality(kept') = Cardinality(CleanKept) + 1
        BY <4>1, CleanType, FS_AddElement
      <4>4. Cardinality(kept') <= MaxEntries
        BY <4>2, <4>3
      <4>5. OpenOf(Request[e]) \subseteq Execs
        BY <1>0 DEF OpenOf, TypeOK
      <4>6. unsafeUntil' \in Times /\ until' \in [Execs -> 0..MaxTime]
            /\ exclusive' \subseteq Execs
        BY <1>0, <3>3, <4>5 DEF Store, TypeOK
      <4> QED BY <4>1, <4>4, <4>6
    <3> QED BY <1>1, <3>1, <3>2, <3>3 DEF Begin, Observe
  <2> QED BY <1>0, <1>1, <2>1, <2>2, <2>3 DEF Begin, TypeOK
<1>2. ASSUME NEW e \in Execs, End(e) PROVE TypeOK'
  BY <1>2 DEF End, cache, TypeOK
<1>3. ASSUME NEW e \in Execs, NEW at \in 1..MaxTime, Complete(Request[e], at)
      PROVE TypeOK'
  <2>1. nextCleanup' \in Times
    BY <1>3, CleanupType DEF Complete, Close
  <2>2. until' \in [Execs -> 0..MaxTime]
    BY <1>3 DEF Complete, Close, TypeOK
  <2> QED BY <1>0, <1>3, <2>1, <2>2 DEF Complete, Close, host, TypeOK
<1>4. CASE Report
  <2>1. nextCleanup' \in Times
    BY <1>4, CleanupType DEF Report
  <2> QED BY <1>0, <1>4, <2>1 DEF Report, Skip, host, TypeOK
<1>5. CASE Tick
  BY <1>5 DEF Tick, host, cache, TypeOK
<1>6. CASE UNCHANGED vars
  BY <1>6 DEF vars, host, cache, TypeOK
<1> QED BY <1>1, <1>2, <1>3, <1>4, <1>5, <1>6 DEF Next

(* Every variable keeps its type; no more observations are kept than the   *)
(* limit allows.                                                           *)
THEOREM TypeCorrect == Spec => []TypeOK
<1> QED BY InitType, StepType, PTL DEF Spec

-----------------------------------------------------------------------------
(* The invariant of the cache.                                             *)

LEMMA InitCache == Init => CacheInvariant
  BY TimesAssumption DEF Init, CacheInvariant, HostOrdered, Sound, Remembered

LEMMA StepCache == TypeOK /\ CacheInvariant /\ [Next]_vars => CacheInvariant'
<1> SUFFICES ASSUME TypeOK, CacheInvariant, [Next]_vars PROVE CacheInvariant'
  OBVIOUS
<1> USE TimesAssumption
<1>0. /\ now \in Nat /\ unsafeUntil \in Nat /\ CleanUnsafe \in Nat
      /\ TTL \in Nat /\ TTL > 0 /\ now > 0 /\ CleanUnsafe <= now + TTL
  BY CleanType, CleanInvariant DEF TypeOK, Times
<1>t. \A e \in Execs : begun[e] \in Nat /\ ended[e] \in Nat /\ until[e] \in Nat
  BY DEF TypeOK
<1>c. /\ CleanKept \subseteq kept /\ kept \subseteq Execs
      /\ \A e \in kept : begun[e] # 0
  BY CleanType DEF TypeOK
<1>s. Sound(CleanKept, CleanUnsafe) /\ Remembered(CleanKept, CleanUnsafe)
  BY CleanInvariant
<1>h. HostOrdered
  BY DEF CacheInvariant
<1>1. ASSUME NEW e \in Execs, Begin(e) PROVE CacheInvariant'
  <2>1. /\ begun[e] = 0 /\ begun' = [begun EXCEPT ![e] = now]
        /\ now' = now /\ ended' = ended /\ e \notin CleanKept
        /\ begun'[e] = now /\ \A f \in Execs \ {e} : begun'[f] = begun[f]
    BY <1>1, <1>c DEF Begin, TypeOK
  <2>2. CASE Skip /\ now < CleanUnsafe
    <3>1. HostOrdered'
      BY <1>0, <1>t, <1>h, <2>1, <2>2 DEF HostOrdered, Skip
    <3>2. Sound(kept, unsafeUntil)'
      BY <1>s, <1>c, <2>1, <2>2 DEF Sound, Skip
    <3>3. Remembered(kept, unsafeUntil)'
      BY <1>s, <2>1, <2>2 DEF Remembered, Skip
    <3> QED BY <1>0, <2>1, <2>2, <3>1, <3>2, <3>3 DEF CacheInvariant, Skip
  <2>3. CASE Suspend
    <3>1. HostOrdered'
      BY <1>0, <1>t, <1>h, <2>1, <2>3 DEF HostOrdered, Suspend
    <3>2. Sound(kept, unsafeUntil)'
      BY <2>3 DEF Sound, Suspend
    <3>3. \A f \in Execs : begun'[f] < unsafeUntil'
      BY <1>0, <1>t, <1>h, <2>1, <2>3 DEF HostOrdered, Suspend
    <3>4. Remembered(kept, unsafeUntil)'
      BY <3>3 DEF Remembered
    <3> QED BY <1>0, <2>1, <2>3, <3>1, <3>2, <3>4 DEF CacheInvariant, Suspend
  <2>4. CASE Store(e) /\ now >= CleanUnsafe
    <3> DEFINE open == OpenOf(Request[e])
    <3>1. /\ kept' = CleanKept \cup {e} /\ unsafeUntil' = CleanUnsafe
          /\ exclusive' = exclusive \cup open
          /\ \A f \in Execs : until'[f] = IF f \in open THEN now ELSE until[f]
      BY <2>4 DEF Store
    <3>2. /\ open \subseteq CleanKept
          /\ \A f \in open : until[f] = 0 /\ ended[f] # 0 /\ ended[f] < now
      BY <1>1, <1>c DEF Begin, OpenOf, Attempts
    <3>3. e \notin open /\ until[e] = 0
      BY <1>h, <2>1, <3>2 DEF HostOrdered
    <3> HIDE DEF open
    <3>4. HostOrdered'
      <4> SUFFICES ASSUME NEW f \in Execs
                   PROVE  /\ begun'[f] <= now'
                          /\ ended'[f] # 0 => /\ begun'[f] # 0
                                              /\ begun'[f] <= ended'[f]
                                              /\ ended'[f] <= now'
                          /\ until'[f] = 0 => f \notin exclusive'
                          /\ begun'[f] = 0 => until'[f] = 0
        BY DEF HostOrdered
      <4>1. CASE f = e
        BY <1>0, <1>t, <1>h, <2>1, <3>1, <3>3, <4>1 DEF HostOrdered
      <4>2. CASE f # e
        BY <1>0, <1>t, <1>h, <1>c, <2>1, <3>1, <3>2, <4>2 DEF HostOrdered
      <4> QED BY <4>1, <4>2
    <3>5. Sound(kept, unsafeUntil)'
      <4> SUFFICES ASSUME NEW f \in CleanKept \cup {e}
                   PROVE  /\ begun'[f] >= CleanUnsafe
                          /\ until'[f] # 0 =>
                               /\ ended[f] # 0 /\ ended[f] <= until'[f]
                               /\ f \in exclusive' => ended[f] < until'[f]
        BY <2>1, <3>1 DEF Sound
      <4>1. CASE f = e
        BY <2>1, <2>4, <3>1, <3>3, <4>1
      <4>2. CASE f \in open
        BY <1>0, <1>c, <1>t, <1>s, <2>1, <3>1, <3>2, <3>3, <4>2 DEF Sound
      <4>3. CASE f # e /\ f \notin open
        BY <1>c, <1>s, <2>1, <3>1, <4>3 DEF Sound
      <4> QED BY <4>1, <4>2, <4>3
    <3>6. Remembered(kept, unsafeUntil)'
      BY <1>s, <2>1, <3>1 DEF Remembered
    <3> QED BY <1>0, <2>1, <3>1, <3>4, <3>5, <3>6 DEF CacheInvariant
  <2> QED BY <1>0, <1>1, <2>2, <2>3, <2>4 DEF Begin, Observe
<1>2. ASSUME NEW e \in Execs, End(e) PROVE CacheInvariant'
  <2>1. /\ begun[e] # 0 /\ ended[e] = 0 /\ now' = now /\ begun' = begun
        /\ ended'[e] = now /\ \A f \in Execs \ {e} : ended'[f] = ended[f]
        /\ UNCHANGED cache
    BY <1>2 DEF End, TypeOK
  <2>2. HostOrdered'
    BY <1>0, <1>t, <1>h, <2>1 DEF HostOrdered, cache
  <2>3. e \in kept => until[e] = 0
    BY <2>1 DEF CacheInvariant, Sound
  <2>4. Sound(kept, unsafeUntil)'
    BY <1>c, <2>1, <2>3 DEF CacheInvariant, Sound, cache
  <2>5. Remembered(kept, unsafeUntil)'
    BY <2>1 DEF CacheInvariant, Remembered, cache
  <2> QED BY <2>1, <2>2, <2>4, <2>5 DEF CacheInvariant, cache
<1>3. ASSUME NEW e \in Execs, NEW at \in 1..MaxTime, Complete(Request[e], at)
      PROVE CacheInvariant'
  <2> DEFINE shut == {f \in OpenOf(Request[e]) : begun[f] <= at}
  <2>1. /\ now' = now /\ begun' = begun /\ ended' = ended
        /\ kept' = CleanKept /\ unsafeUntil' = CleanUnsafe /\ exclusive' = exclusive
        /\ \A f \in Execs : until'[f] = IF f \in shut THEN at ELSE until[f]
    BY <1>3 DEF Complete, Close, host
  <2>2. /\ shut \subseteq CleanKept
        /\ \A f \in shut : until[f] = 0 /\ ended[f] # 0 /\ ended[f] <= at
    BY <1>3, <1>c DEF Complete, OpenOf, Attempts
  <2> HIDE DEF shut
  <2>3. \A f \in shut : f \notin exclusive /\ begun[f] # 0
    BY <1>c, <1>h, <2>2 DEF HostOrdered
  <2>4. HostOrdered'
    BY <1>h, <2>1, <2>3 DEF HostOrdered
  <2>5. Sound(kept, unsafeUntil)'
    <3> SUFFICES ASSUME NEW f \in CleanKept
                 PROVE  /\ begun[f] >= CleanUnsafe
                        /\ until'[f] # 0 =>
                             /\ ended[f] # 0 /\ ended[f] <= until'[f]
                             /\ f \in exclusive => ended[f] < until'[f]
      BY <2>1 DEF Sound
    <3>1. CASE f \in shut
      BY <1>c, <1>s, <2>1, <2>2, <2>3, <3>1 DEF Sound
    <3>2. CASE f \notin shut
      BY <1>c, <1>s, <2>1, <3>2 DEF Sound
    <3> QED BY <3>1, <3>2
  <2>6. Remembered(kept, unsafeUntil)'
    BY <1>s, <2>1 DEF Remembered
  <2> QED BY <1>0, <2>1, <2>4, <2>5, <2>6 DEF CacheInvariant
<1>4. CASE Report
  <2>1. /\ UNCHANGED <<now, begun, ended, until, exclusive>>
        /\ kept' = CleanKept /\ unsafeUntil' = CleanUnsafe
    BY <1>4 DEF Report, Skip, host
  <2>2. HostOrdered' /\ Sound(kept, unsafeUntil)' /\ Remembered(kept, unsafeUntil)'
    BY <1>h, <1>s, <2>1 DEF HostOrdered, Sound, Remembered
  <2> QED BY <1>0, <2>1, <2>2 DEF CacheInvariant
<1>5. CASE Tick
  <2>1. now' = now + 1 /\ UNCHANGED <<host, cache>>
    BY <1>5 DEF Tick
  <2>2. HostOrdered'
    BY <1>0, <1>t, <1>h, <2>1 DEF HostOrdered, host, cache
  <2>3. Sound(kept, unsafeUntil)'
    BY <2>1 DEF CacheInvariant, Sound, host, cache
  <2>4. Remembered(kept, unsafeUntil)'
    BY <1>0, <1>t, <2>1 DEF CacheInvariant, Remembered, host, cache
  <2> QED BY <1>0, <2>1, <2>2, <2>3, <2>4 DEF CacheInvariant, host, cache
<1>6. CASE UNCHANGED vars
  BY <1>6 DEF vars, host, cache, CacheInvariant, HostOrdered, Sound, Remembered
<1> QED BY <1>1, <1>2, <1>3, <1>4, <1>5, <1>6 DEF Next

LEMMA CacheSafe == Spec => [](TypeOK /\ CacheInvariant)
<1> QED BY InitType, StepType, InitCache, StepCache, PTL DEF Spec

-----------------------------------------------------------------------------
(* What the invariant means for the answers of enrich.                     *)

LEMMA OwnCandidate ==
    ASSUME TypeOK, CacheInvariant,
           NEW e \in Execs, NEW at \in 1..MaxTime, NEW native \in BOOLEAN,
           Reporting(e, at), Accepted(at), begun[e] >= CleanUnsafe
    PROVE  e \in Candidates(e, at, native)
<1> USE TimesAssumption
<1>1. /\ now \in Nat /\ CleanUnsafe \in Nat /\ TTL \in Nat
      /\ begun[e] \in Nat /\ ended[e] \in Nat /\ until[e] \in Nat
  BY CleanType DEF TypeOK, Times
<1>2. e \in CleanKept
  <2>1. ~(ended[e] # 0 /\ ended[e] + TTL < now)
    BY <1>1 DEF Reporting, Accepted
  <2> QED BY <1>1, <2>1, CleanInvariant DEF Remembered, Reporting
<1>3. Covers(e, at)
  <2>1. until[e] # 0 => /\ ended[e] # 0 /\ ended[e] <= until[e]
                        /\ e \in exclusive => ended[e] < until[e]
    BY <1>2, CleanInvariant DEF Sound
  <2> QED BY <1>1, <2>1 DEF Covers, Reporting
<1> QED BY <1>2, <1>3 DEF Candidates

(* The observation of an execution that was not dropped by a suspension is *)
(* a candidate for each of its reports that enrich still accepts.          *)
THEOREM OwnIsFound == Spec => []ReportFindsItsOwn
<1>1. TypeOK /\ CacheInvariant => ReportFindsItsOwn
  BY OwnCandidate DEF ReportFindsItsOwn
<1> QED BY <1>1, CacheSafe, PTL

(* A report is only completed with what is true of its own execution,      *)
(* whatever the other executions, retries, limits and times are, unless    *)
(* that execution was going on when a suspension ended.                    *)
THEOREM NoFalseMatch == Spec => []TruthfulUnlessSpanning
<1>1. ASSUME TypeOK, CacheInvariant,
             NEW e \in Execs, NEW at \in 1..MaxTime, NEW native \in BOOLEAN,
             Reporting(e, at), ~(begun[e] < CleanUnsafe /\ CleanUnsafe <= at)
      PROVE  Truthful(e, at, native)
  <2>0. CleanUnsafe \in Nat /\ begun[e] \in Nat
    BY <1>1, CleanType, TimesAssumption DEF TypeOK, Times
  <2>1. ASSUME Accepted(at), NEW f \in Candidates(e, at, native)
        PROVE  e \in Candidates(e, at, native)
    <3>1. f \in CleanKept /\ begun[f] <= at
      BY <2>1 DEF Candidates, Covers
    <3>2. begun[f] >= CleanUnsafe /\ f \in Execs /\ begun[f] \in Nat
      BY <1>1, <3>1, CleanInvariant, CleanType, TimesAssumption DEF Sound, TypeOK
    <3>3. begun[e] >= CleanUnsafe
      BY <1>1, <2>0, <3>1, <3>2
    <3> QED BY <1>1, <2>1, <3>3, OwnCandidate
  <2>2. ASSUME Accepted(at), Agreed(Candidates(e, at, native)),
               NEW f \in Candidates(e, at, native)
        PROVE  /\ info[f].path = info[e].path
               /\ info[f].stream = info[e].stream
               /\ TierAgreed(Candidates(e, at, native)) => info[f].tier = info[e].tier
    <3>1. e \in Candidates(e, at, native)
      BY <2>1, <2>2
    <3> QED BY <2>2, <3>1 DEF Agreed, TierAgreed
  <2> QED BY <2>2 DEF Truthful
<1>2. TypeOK /\ CacheInvariant => TruthfulUnlessSpanning
  BY <1>1 DEF TruthfulUnlessSpanning
<1> QED BY <1>2, CacheSafe, PTL

-----------------------------------------------------------------------------
(* Prices.                                                                 *)

(* What the upstream may answer. *)
Answers == [url : Catalogs, edition : Editions]

Books ==
    [on : BOOLEAN, url : Catalogs, catalog : {Nothing} \cup Answers,
     tag : {Nothing} \cup Answers, manual : Tables, path : PricePaths,
     loaded : PricePaths \cup {Nothing}, flag : [fresh : BOOLEAN, timed : BOOLEAN],
     costs : [catalog : {Nothing} \cup Answers, manual : Tables, timed : BOOLEAN]]

FileSets == [PricePaths \cup {LegacyPath} -> File \cup {Nothing}]

PriceTypeOK ==
    /\ book \in Books
    /\ settings \in {Nothing} \cup [on : BOOLEAN, url : Catalogs, path : PricePaths]
    /\ priceFile \in FileSets
    /\ touched \subseteq Models

(* The parts of the invariant that speak of one book. *)
CatalogOf(b) ==
    /\ b.catalog # Nothing => b.on /\ b.catalog.url = b.url
    /\ b.tag # Nothing => b.tag = b.catalog

(* A flag that is not known to be stale is right. *)
FlagOf(b) == b.flag.fresh => b.flag.timed = HasTimeRules(b.manual)

CostsOf(b) ==
    b.costs = [catalog |-> b.catalog, manual |-> b.manual, timed |-> HasTimeRules(b.manual)]

RulesOf(b) == \A m \in Models : b.manual[m] # Nothing => ValidRules(b.manual[m])

(* What every step between two critical sections leaves of a book, and     *)
(* what one that rebuilds the costs needs.                                 *)
Consistent(b) == b \in Books /\ CatalogOf(b) /\ FlagOf(b) /\ RulesOf(b)

(* An answer is of the URL that was asked, however long it took. *)
AnswerOfUrl ==
    /\ fetcher.pc = "asking" => fetcher.url \in Catalogs
    /\ fetcher.pc = "answered" /\ fetcher.answer # Nothing =>
          fetcher.answer \in Answers /\ fetcher.answer.url = fetcher.url

(* The shape of the worker's state. *)
Fetchers ==
    [pc : {"off", "due", "asking", "answered", "asleep"}, stop : BOOLEAN,
     url : {Nothing} \cup Catalogs, tag : {Nothing} \cup Answers,
     answer : {Nothing} \cup Answers]

FetcherType == fetcher \in Fetchers

PriceInvariant ==
    /\ PriceTypeOK /\ FetcherType /\ AnswerOfUrl
    /\ Consistent(book) /\ CostsOf(book)

-----------------------------------------------------------------------------
(* The operations on a book.                                               *)

LEMMA HasTimeRulesBoolean ==
    \A table : HasTimeRules(table) \in BOOLEAN
BY DEF HasTimeRules

(* rebuildCostSeriesLocked computes the costs of a consistent book.        *)
LEMMA RebuiltCurrent ==
    ASSUME NEW b, Consistent(b)
    PROVE  Consistent(Rebuilt(b)) /\ CostsOf(Rebuilt(b)) /\ Rebuilt(b).path = b.path
<1> DEFINE f == Flagged(b)
<1>1. HasTimeRules(b.manual) \in BOOLEAN
  BY HasTimeRulesBoolean
<1>2. /\ f \in Books /\ f.flag.timed = HasTimeRules(b.manual)
      /\ f.manual = b.manual /\ f.catalog = b.catalog /\ f.tag = b.tag
      /\ f.on = b.on /\ f.url = b.url /\ f.path = b.path
  BY <1>1 DEF Consistent, Books, FlagOf, Flagged
<1> HIDE DEF f
<1>3. Rebuilt(b) = [f EXCEPT !.costs = [catalog |-> f.catalog, manual |-> f.manual, timed |-> f.flag.timed]]
  BY DEF Rebuilt, f
<1>4. /\ Rebuilt(b) \in Books
      /\ Rebuilt(b).costs = [catalog |-> b.catalog, manual |-> b.manual, timed |-> HasTimeRules(b.manual)]
      /\ Rebuilt(b).flag = f.flag /\ Rebuilt(b).manual = b.manual
      /\ Rebuilt(b).catalog = b.catalog /\ Rebuilt(b).tag = b.tag
      /\ Rebuilt(b).on = b.on /\ Rebuilt(b).url = b.url /\ Rebuilt(b).path = b.path
  BY <1>1, <1>2, <1>3 DEF Books
<1>5. CatalogOf(Rebuilt(b)) /\ FlagOf(Rebuilt(b)) /\ RulesOf(Rebuilt(b)) /\ CostsOf(Rebuilt(b))
  BY <1>2, <1>4 DEF Consistent, CatalogOf, FlagOf, RulesOf, CostsOf
<1> QED BY <1>4, <1>5 DEF Consistent

(* A flag that became stale says nothing.                                  *)
LEMMA ChangedConsistent ==
    ASSUME NEW b, b \in Books, CatalogOf(b), RulesOf(b)
    PROVE  Consistent(Changed(b)) /\ Changed(b).path = b.path
<1>1. /\ Changed(b) \in Books /\ ~Changed(b).flag.fresh
      /\ Changed(b).manual = b.manual /\ Changed(b).catalog = b.catalog
      /\ Changed(b).tag = b.tag /\ Changed(b).on = b.on /\ Changed(b).url = b.url
      /\ Changed(b).path = b.path
  BY DEF Changed, Books
<1> QED BY <1>1 DEF Consistent, CatalogOf, FlagOf, RulesOf

(* What loadModelPricesLocked takes from a file is valid.                  *)
LEMMA LoadableValid ==
    ASSUME NEW prices \in Tables
    PROVE  /\ Loadable(prices) \in Tables
           /\ \A m \in Models : Loadable(prices)[m] # Nothing => ValidRules(Loadable(prices)[m])
BY DEF Tables, Loadable

(* The path that is read is one of the paths files may be at.              *)
LEMMA SourceType ==
    ASSUME NEW files \in FileSets, NEW path \in PricePaths
    PROVE  /\ ReadFrom(files, path) \in PricePaths \cup {LegacyPath}
           /\ files[ReadFrom(files, path)] \in File \cup {Nothing}
<1>1. ReadFrom(files, path) \in PricePaths \cup {LegacyPath}
  BY DEF ReadFrom
<1> QED BY <1>1 DEF FileSets

LEMMA LoadedConsistent ==
    ASSUME NEW b, Consistent(b), NEW files \in FileSets
    PROVE  /\ Consistent(Loaded(b, files))
           /\ Loaded(b, files).path = b.path
           /\ CostsOf(b) => CostsOf(Loaded(b, files))
<1> DEFINE source == files[ReadFrom(files, b.path)]
           table  == IF source = Nothing THEN NoPrices ELSE Loadable(source.prices)
           read   == [b EXCEPT !.loaded = b.path, !.manual = table]
<1>1. CASE b.loaded = b.path \/ (source # Nothing /\ ~source.readable)
  <2>1. Loaded(b, files) = b
    BY <1>1 DEF Loaded
  <2> QED BY <2>1
<1>2. CASE ~(b.loaded = b.path \/ (source # Nothing /\ ~source.readable))
  <2>1. Loaded(b, files) = Rebuilt(Changed(read))
    BY <1>2 DEF Loaded
  <2>2. b.path \in PricePaths
    BY DEF Consistent, Books
  <2>3. source \in File \cup {Nothing}
    BY <2>2, SourceType
  <2>4. table \in Tables /\ \A m \in Models : table[m] # Nothing => ValidRules(table[m])
    <3>1. CASE source = Nothing
      BY <3>1 DEF NoPrices, Tables
    <3>2. CASE source # Nothing
      <4>1. source.prices \in Tables
        BY <2>3, <3>2 DEF File
      <4> QED BY <3>2, <4>1, LoadableValid
    <3> QED BY <3>1, <3>2
  <2> HIDE DEF table
  <2>5. /\ read \in Books /\ read.manual = table /\ read.catalog = b.catalog
        /\ read.tag = b.tag /\ read.on = b.on /\ read.url = b.url /\ read.path = b.path
    BY <2>2, <2>4 DEF Consistent, Books
  <2> HIDE DEF read
  <2>6. CatalogOf(read) /\ RulesOf(read)
    BY <2>4, <2>5 DEF Consistent, CatalogOf, RulesOf
  <2>7. Consistent(Changed(read)) /\ Changed(read).path = b.path
    BY <2>5, <2>6, ChangedConsistent
  <2> QED BY <2>1, <2>7, RebuiltCurrent
<1> QED BY <1>1, <1>2

(* The files after the old location was, or was not, copied.               *)
LEMMA MigratedType ==
    ASSUME NEW b, Consistent(b), NEW files \in FileSets
    PROVE  Migrated(b, files) \subseteq FileSets
<1> DEFINE content == [prices |-> Loaded(b, files).manual, readable |-> TRUE]
<1>1. content \in File /\ b.path \in PricePaths
  BY LoadedConsistent DEF Consistent, Books, File
<1> HIDE DEF content
<1>2. [files EXCEPT ![b.path] = content] \in FileSets
  BY <1>1 DEF FileSets
<1> QED BY <1>2 DEF Migrated, content

LEMMA SetCatalogConsistent ==
    ASSUME NEW b, Consistent(b), NEW on \in BOOLEAN, NEW url \in Catalogs
    PROVE  Consistent(SetCatalog(b, on, url))
<1> DEFINE moved == [b EXCEPT !.on = on, !.url = url]
           empty == [moved EXCEPT !.catalog = Nothing, !.tag = Nothing]
<1>1. CASE on = b.on /\ url = b.url /\ on
  BY <1>1 DEF SetCatalog
<1>2. CASE ~(on = b.on /\ url = b.url /\ on)
  <2>1. SetCatalog(b, on, url) = Changed(empty)
    BY <1>2 DEF SetCatalog
  <2>2. /\ empty \in Books /\ empty.catalog = Nothing /\ empty.tag = Nothing
        /\ empty.manual = b.manual
    BY DEF Consistent, Books
  <2> HIDE DEF empty
  <2>3. CatalogOf(empty) /\ RulesOf(empty)
    BY <2>2 DEF Consistent, CatalogOf, RulesOf
  <2> QED BY <2>1, <2>2, <2>3, ChangedConsistent
<1> QED BY <1>1, <1>2

(* Settings that are applied leave costs that belong to the new tables.    *)
LEMMA SettledConsistent ==
    ASSUME NEW b, Consistent(b), NEW on \in BOOLEAN, NEW url \in Catalogs,
           NEW path \in PricePaths, NEW files \in FileSets,
           NEW c, c = [SetCatalog(b, on, url) EXCEPT !.path = path]
    PROVE  /\ Consistent(Rebuilt(Loaded(c, files)))
           /\ CostsOf(Rebuilt(Loaded(c, files)))
           /\ Migrated(c, files) \subseteq FileSets
<1> DEFINE d == SetCatalog(b, on, url)
<1>1. Consistent(d)
  BY SetCatalogConsistent
<1> HIDE DEF d
<1>2. c = [d EXCEPT !.path = path]
  BY DEF d
<1>3. /\ c \in Books /\ c.manual = d.manual /\ c.catalog = d.catalog /\ c.tag = d.tag
      /\ c.on = d.on /\ c.url = d.url /\ c.flag = d.flag
  BY <1>1, <1>2 DEF Consistent, Books
<1>4. Consistent(c)
  BY <1>1, <1>3 DEF Consistent, CatalogOf, FlagOf, RulesOf
<1> QED BY <1>4, LoadedConsistent, RebuiltCurrent, MigratedType

(* An edit of one price.                                                   *)
LEMMA EditedConsistent ==
    ASSUME NEW b, Consistent(b), NEW m \in Models, NEW price \in Submitted
    PROVE  /\ Consistent(Edited(b, m, price)) /\ CostsOf(Edited(b, m, price))
           /\ Edited(b, m, price).path = b.path
<1> DEFINE e == [b EXCEPT !.manual[m] = price]
<1>1. price \in RuleSets \cup {Nothing} /\ (price # Nothing => ValidRules(price))
  BY DEF Submitted
<1>2. /\ e \in Books /\ e.manual = [b.manual EXCEPT ![m] = price]
      /\ e.catalog = b.catalog /\ e.tag = b.tag /\ e.on = b.on /\ e.url = b.url
      /\ e.path = b.path
  BY <1>1 DEF Consistent, Books, Tables
<1> HIDE DEF e
<1>3. b.manual \in Tables /\ RulesOf(b)
  BY DEF Consistent, Books
<1>4. RulesOf(e)
  BY <1>1, <1>2, <1>3 DEF RulesOf, Tables
<1>5. CatalogOf(e)
  BY <1>2 DEF Consistent, CatalogOf
<1>6. Consistent(Changed(e)) /\ Changed(e).path = b.path
  BY <1>2, <1>4, <1>5, ChangedConsistent
<1> QED BY <1>6, RebuiltCurrent DEF Edited, e

(* A catalog that is published with or without its tag.                    *)
LEMMA PublishedConsistent ==
    ASSUME NEW b, Consistent(b), b.on, NEW a \in Answers, a.url = b.url,
           NEW tag \in {Nothing, a}
    PROVE  Consistent(Published(b, a, tag)) /\ CostsOf(Published(b, a, tag))
<1> DEFINE p == [b EXCEPT !.catalog = a, !.tag = tag]
<1>1. /\ p \in Books /\ p.catalog = a /\ p.tag = tag /\ p.on = b.on /\ p.url = b.url
      /\ p.manual = b.manual
  BY DEF Consistent, Books
<1> HIDE DEF p
<1>2. CatalogOf(p) /\ RulesOf(p)
  BY <1>1 DEF Consistent, CatalogOf, RulesOf
<1>3. Consistent(Changed(p))
  BY <1>1, <1>2, ChangedConsistent
<1> QED BY <1>3, RebuiltCurrent DEF Published, p

(* A book as a new process has it.                                         *)
LEMMA FreshConsistent ==
    Consistent(FreshBook(DefaultPath)) /\ CostsOf(FreshBook(DefaultPath))
<1> DEFINE b == FreshBook(DefaultPath)
<1>1. (CHOOSE u \in Catalogs : TRUE) \in Catalogs
  BY PriceAssumption
<1>2. NoPrices \in Tables /\ \A m \in Models : NoPrices[m] = Nothing
  BY DEF NoPrices, Tables
<1>3. HasTimeRules(NoPrices) = FALSE
  BY <1>2 DEF HasTimeRules
<1>4. b \in Books
  BY <1>1, <1>2, PriceAssumption DEF FreshBook, Books
<1>5. /\ b.catalog = Nothing /\ b.tag = Nothing /\ ~b.flag.fresh /\ b.manual = NoPrices
      /\ b.costs = [catalog |-> Nothing, manual |-> NoPrices, timed |-> FALSE]
  BY DEF FreshBook
<1> HIDE DEF b
<1>6. CatalogOf(b) /\ FlagOf(b) /\ RulesOf(b)
  BY <1>2, <1>5 DEF CatalogOf, FlagOf, RulesOf
<1>7. CostsOf(b)
  BY <1>3, <1>5 DEF CostsOf
<1> QED BY <1>4, <1>6, <1>7 DEF Consistent, b

-----------------------------------------------------------------------------
(* The invariant.                                                          *)

LEMMA NoFetcherType == NoFetcher \in Fetchers
BY DEF NoFetcher, Fetchers

LEMMA PriceInitially == PriceInit => PriceInvariant
<1> SUFFICES ASSUME PriceInit PROVE PriceInvariant
  OBVIOUS
<1>1. Consistent(book) /\ CostsOf(book)
  BY FreshConsistent DEF PriceInit
<1>2. PriceTypeOK
  BY <1>1, PriceAssumption DEF PriceInit, PriceTypeOK, Consistent, FileSets
<1>3. FetcherType /\ AnswerOfUrl
  <2>1. fetcher = NoFetcher /\ NoFetcher.pc = "off"
    BY DEF PriceInit, NoFetcher
  <2> QED BY <2>1, NoFetcherType DEF FetcherType, AnswerOfUrl
<1> QED BY <1>1, <1>2, <1>3 DEF PriceInvariant

(* A worker that has not asked yet holds no answer.                        *)
LEMMA IdleFetchers ==
    ASSUME fetcher' \in {Fetching, NoFetcher}
    PROVE  FetcherType' /\ AnswerOfUrl'
<1>1. fetcher'.pc \in {"due", "off"}
  BY DEF Fetching, NoFetcher
<1>2. AnswerOfUrl'
  BY <1>1 DEF AnswerOfUrl
<1>3. Fetching \in Fetchers
  BY NoFetcherType DEF Fetching, Fetchers
<1>4. FetcherType'
  BY <1>3, NoFetcherType DEF FetcherType
<1> QED BY <1>2, <1>4

(* The actions of the reconfiguration.                                     *)
LEMMA SettingsStep ==
    ASSUME PriceInvariant,
           \/ \E on \in BOOLEAN, u \in Catalogs, p \in PricePaths : BeginSettings(on, u, p)
           \/ ApplySettings
           \/ \E p \in PricePaths : SetPath(p)
    PROVE  PriceInvariant'
<1> USE DEF PriceInvariant
<1>1. ASSUME NEW on \in BOOLEAN, NEW u \in Catalogs, NEW p \in PricePaths, BeginSettings(on, u, p)
      PROVE  PriceInvariant'
  <2>1. UNCHANGED <<book, priceFile, touched>> /\ settings' = [on |-> on, url |-> u, path |-> p]
    BY <1>1 DEF BeginSettings
  <2>2. Consistent(book)' /\ CostsOf(book)'
    BY <2>1
  <2>3. PriceTypeOK'
    BY <2>1 DEF PriceTypeOK
  <2>4. FetcherType' /\ AnswerOfUrl'
    BY <1>1 DEF BeginSettings, FetcherType, Fetchers, AnswerOfUrl
  <2> QED BY <2>2, <2>3, <2>4
<1>2. ASSUME ApplySettings PROVE PriceInvariant'
  <2> DEFINE c == [SetCatalog(book, settings.on, settings.url) EXCEPT !.path = settings.path]
  <2>1. settings \in [on : BOOLEAN, url : Catalogs, path : PricePaths]
    BY <1>2 DEF ApplySettings, PriceTypeOK
  <2>2. settings.on \in BOOLEAN /\ settings.url \in Catalogs /\ settings.path \in PricePaths
    BY <2>1
  <2>3. priceFile \in FileSets
    BY DEF PriceTypeOK
  <2>4. /\ Consistent(Rebuilt(Loaded(c, priceFile))) /\ CostsOf(Rebuilt(Loaded(c, priceFile)))
        /\ Migrated(c, priceFile) \subseteq FileSets
    BY <2>2, <2>3, SettledConsistent
  <2>5. book' = Rebuilt(Loaded(c, priceFile)) /\ priceFile' \in Migrated(c, priceFile)
    BY <1>2 DEF ApplySettings
  <2> HIDE DEF c
  <2>6. Consistent(book)' /\ CostsOf(book)' /\ priceFile' \in FileSets
    BY <2>4, <2>5
  <2>7. settings' = Nothing /\ touched' = touched /\ fetcher' \in {Fetching, NoFetcher}
    BY <1>2 DEF ApplySettings
  <2>8. PriceTypeOK'
    BY <2>6, <2>7 DEF PriceTypeOK, Consistent
  <2>9. FetcherType' /\ AnswerOfUrl'
    BY <2>7, IdleFetchers
  <2> QED BY <2>6, <2>8, <2>9 DEF PriceInvariant
<1>3. ASSUME NEW p \in PricePaths, SetPath(p) PROVE PriceInvariant'
  <2> DEFINE c == [SetCatalog(book, book.on, book.url) EXCEPT !.path = p]
  <2>1. book.on \in BOOLEAN /\ book.url \in Catalogs /\ priceFile \in FileSets
    BY DEF PriceTypeOK, Books
  <2>2. /\ Consistent(Rebuilt(Loaded(c, priceFile))) /\ CostsOf(Rebuilt(Loaded(c, priceFile)))
        /\ Migrated(c, priceFile) \subseteq FileSets
    BY <2>1, SettledConsistent
  <2>3. /\ book' = Rebuilt(Loaded(c, priceFile)) /\ priceFile' \in Migrated(c, priceFile)
        /\ UNCHANGED <<fetcher, settings, touched>>
    BY <1>3 DEF SetPath
  <2> HIDE DEF c
  <2>4. Consistent(book)' /\ CostsOf(book)' /\ priceFile' \in FileSets
    BY <2>2, <2>3
  <2>5. PriceTypeOK'
    BY <2>3, <2>4 DEF PriceTypeOK, Consistent
  <2>6. FetcherType' /\ AnswerOfUrl'
    BY <2>3 DEF FetcherType, Fetchers, AnswerOfUrl
  <2> QED BY <2>4, <2>5, <2>6
<1> QED BY <1>1, <1>2, <1>3

(* The actions of the worker.                                              *)
LEMMA FetcherStep ==
    ASSUME PriceInvariant, Ask \/ Answer \/ Publish \/ Wake \/ FetcherEnds
    PROVE  PriceInvariant'
<1> USE DEF PriceInvariant
<1>1. book \in Books /\ FetcherType /\ AnswerOfUrl
  BY DEF PriceTypeOK
<1>2. ASSUME UNCHANGED <<book, settings, priceFile, touched>>, FetcherType', AnswerOfUrl'
      PROVE  PriceInvariant'
  BY <1>2 DEF PriceTypeOK
<1>3. ASSUME Ask PROVE FetcherType' /\ AnswerOfUrl'
  BY <1>1, <1>3 DEF Ask, FetcherType, Fetchers, AnswerOfUrl, Books, NoFetcher
<1>4. ASSUME Answer PROVE FetcherType' /\ AnswerOfUrl'
  <2>1. PICK a \in {Nothing} \cup {[url |-> fetcher.url, edition |-> e] : e \in Editions} :
           fetcher' = [fetcher EXCEPT !.pc = "answered", !.answer = a]
    BY <1>4 DEF Answer
  <2>2. fetcher.url \in Catalogs
    BY <1>1, <1>4 DEF Answer, AnswerOfUrl
  <2>3. a # Nothing => a \in Answers /\ a.url = fetcher.url
    BY <2>1, <2>2 DEF Answers
  <2>4. /\ fetcher'.pc = "answered" /\ fetcher'.answer = a /\ fetcher'.url = fetcher.url
    BY <1>1, <2>1 DEF FetcherType, Fetchers
  <2>5. FetcherType'
    BY <1>1, <2>1, <2>3 DEF FetcherType, Fetchers
  <2>6. AnswerOfUrl'
    BY <2>3, <2>4 DEF AnswerOfUrl
  <2> QED BY <2>5, <2>6
<1>5. ASSUME Wake \/ FetcherEnds PROVE FetcherType' /\ AnswerOfUrl'
  <2>1. CASE Wake
    BY <1>1, <2>1 DEF Wake, FetcherType, Fetchers, AnswerOfUrl
  <2>2. CASE FetcherEnds
    BY <2>2, IdleFetchers DEF FetcherEnds
  <2> QED BY <1>5, <2>1, <2>2
<1>6. ASSUME Publish PROVE PriceInvariant'
  <2>1. UNCHANGED <<settings, priceFile, touched>>
    BY <1>6 DEF Publish
  <2>2. Consistent(book)' /\ CostsOf(book)'
    <3>1. CASE fetcher.answer = Nothing \/ ~book.on \/ book.url # fetcher.url
      <4>1. book' = book
        BY <1>6, <3>1 DEF Publish
      <4> QED BY <4>1
    <3>2. CASE ~(fetcher.answer = Nothing \/ ~book.on \/ book.url # fetcher.url)
      <4>1. PICK tag \in {Nothing, fetcher.answer} : book' = Published(book, fetcher.answer, tag)
        BY <1>6, <3>2 DEF Publish
      <4>2. fetcher.answer \in Answers /\ fetcher.answer.url = book.url
        BY <1>1, <1>6, <3>2 DEF Publish, AnswerOfUrl
      <4>3. Consistent(Published(book, fetcher.answer, tag)) /\ CostsOf(Published(book, fetcher.answer, tag))
        BY <3>2, <4>2, PublishedConsistent
      <4> QED BY <4>1, <4>3
    <3> QED BY <3>1, <3>2
  <2>3. PriceTypeOK'
    BY <2>1, <2>2 DEF PriceTypeOK, Consistent
  <2>4. FetcherType' /\ AnswerOfUrl'
    BY <1>1, <1>6 DEF Publish, FetcherType, Fetchers, AnswerOfUrl, NoFetcher
  <2> QED BY <2>2, <2>3, <2>4
<1>7. Ask \/ Answer \/ Wake \/ FetcherEnds => UNCHANGED <<book, settings, priceFile, touched>>
  BY DEF Ask, Answer, Wake, FetcherEnds
<1> QED BY <1>2, <1>3, <1>4, <1>5, <1>6, <1>7

(* The price API, files that recover, and a new process.                   *)
LEMMA PriceApiStep ==
    ASSUME PriceInvariant,
           \/ QueryPrices
           \/ \E m \in Models, price \in RuleSets \cup {Nothing} : EditPrice(m, price)
           \/ \E p \in PricePaths : Recover(p)
           \/ PriceRestart
    PROVE  PriceInvariant'
<1> USE DEF PriceInvariant
<1>1. Consistent(book) /\ CostsOf(book) /\ priceFile \in FileSets
  BY DEF PriceTypeOK
<1>2. ASSUME QueryPrices PROVE PriceInvariant'
  <2>1. /\ book' = Loaded(book, priceFile) /\ priceFile' \in Migrated(book, priceFile)
        /\ UNCHANGED <<fetcher, settings, touched>>
    BY <1>2 DEF QueryPrices
  <2>2. Consistent(book)' /\ CostsOf(book)' /\ priceFile' \in FileSets
    BY <1>1, <2>1, LoadedConsistent, MigratedType
  <2>3. PriceTypeOK'
    BY <2>1, <2>2 DEF PriceTypeOK, Consistent
  <2>4. FetcherType' /\ AnswerOfUrl'
    BY <2>1 DEF FetcherType, Fetchers, AnswerOfUrl
  <2> QED BY <2>2, <2>3, <2>4
<1>3. ASSUME NEW m \in Models, NEW price \in RuleSets \cup {Nothing}, EditPrice(m, price)
      PROVE  PriceInvariant'
  <2> DEFINE l == Loaded(book, priceFile)
             b == Edited(l, m, price)
             saved == [b EXCEPT !.loaded = b.path]
             content == [prices |-> b.manual, readable |-> TRUE]
  <2>1. price \in Submitted
    BY <1>3 DEF EditPrice
  <2>2. Consistent(l)
    BY <1>1, LoadedConsistent
  <2> HIDE DEF l
  <2>3. Consistent(b) /\ CostsOf(b)
    BY <2>1, <2>2, EditedConsistent
  <2>4. /\ \/ book' = saved /\ priceFile' = [priceFile EXCEPT ![b.path] = content]
           \/ book' = b /\ priceFile' \in Migrated(book, priceFile)
        /\ touched' = touched \cup {m} /\ UNCHANGED <<fetcher, settings>>
    BY <1>3 DEF EditPrice, l
  <2> HIDE DEF b
  <2>5. Consistent(book)' /\ CostsOf(book)' /\ priceFile' \in FileSets
    <3>1. CASE book' = b /\ priceFile' \in Migrated(book, priceFile)
      BY <1>1, <2>3, <3>1, MigratedType
    <3>2. CASE book' = saved /\ priceFile' = [priceFile EXCEPT ![b.path] = content]
      <4>1. /\ saved \in Books /\ saved.manual = b.manual /\ saved.catalog = b.catalog
            /\ saved.tag = b.tag /\ saved.on = b.on /\ saved.url = b.url
            /\ saved.flag = b.flag /\ saved.costs = b.costs
        BY <2>3 DEF Consistent, Books
      <4>2. content \in File /\ b.path \in PricePaths
        BY <2>3 DEF Consistent, Books, File
      <4> HIDE DEF saved, content
      <4>3. Consistent(saved) /\ CostsOf(saved)
        BY <2>3, <4>1 DEF Consistent, CatalogOf, FlagOf, RulesOf, CostsOf
      <4>4. priceFile' \in FileSets
        BY <1>1, <3>2, <4>2 DEF FileSets
      <4> QED BY <3>2, <4>3, <4>4
    <3> QED BY <2>4, <3>1, <3>2
  <2>6. PriceTypeOK'
    BY <2>4, <2>5 DEF PriceTypeOK, Consistent
  <2>7. FetcherType' /\ AnswerOfUrl'
    BY <2>4 DEF FetcherType, Fetchers, AnswerOfUrl
  <2> QED BY <2>5, <2>6, <2>7
<1>4. ASSUME NEW p \in PricePaths, Recover(p) PROVE PriceInvariant'
  <2>1. /\ priceFile[p] \in File /\ priceFile' = [priceFile EXCEPT ![p].readable = TRUE]
        /\ UNCHANGED <<book, fetcher, settings, touched>>
    BY <1>1, <1>4 DEF Recover, FileSets
  <2>2. priceFile' \in FileSets
    BY <1>1, <2>1 DEF FileSets, File
  <2>3. PriceTypeOK' /\ FetcherType' /\ AnswerOfUrl'
    BY <2>1, <2>2 DEF PriceTypeOK, FetcherType, Fetchers, AnswerOfUrl
  <2> QED BY <1>1, <2>1, <2>3
<1>5. ASSUME PriceRestart PROVE PriceInvariant'
  <2>1. /\ book' = FreshBook(DefaultPath) /\ fetcher' = NoFetcher
        /\ UNCHANGED <<settings, priceFile, touched>>
    BY <1>5 DEF PriceRestart
  <2>2. Consistent(book)' /\ CostsOf(book)'
    BY <2>1, FreshConsistent
  <2>3. PriceTypeOK'
    BY <2>1, <2>2 DEF PriceTypeOK, Consistent
  <2>4. FetcherType' /\ AnswerOfUrl'
    BY <2>1, IdleFetchers
  <2> QED BY <2>2, <2>3, <2>4
<1> QED BY <1>2, <1>3, <1>4, <1>5

LEMMA PriceStep == PriceInvariant /\ [PriceNext]_priceVars => PriceInvariant'
<1> SUFFICES ASSUME PriceInvariant, [PriceNext]_priceVars PROVE PriceInvariant'
  OBVIOUS
<1>1. CASE UNCHANGED priceVars
  BY <1>1 DEF priceVars, PriceInvariant, PriceTypeOK, FetcherType, Fetchers, AnswerOfUrl
<1> QED BY <1>1, SettingsStep, FetcherStep, PriceApiStep DEF PriceNext

-----------------------------------------------------------------------------
(* Time rules.                                                             *)

(* Two rules that apply to one instant meet: validateModelPriceRules,      *)
(* which splits a rule at midnight, and ruleMatchesInstant, which does     *)
(* not, agree.                                                             *)
LEMMA TogetherMeet ==
    ASSUME NEW r \in Rule, NEW q \in Rule, NEW day \in Weekdays,
           NEW minute \in 0 .. DayMinutes - 1,
           Matches(r, day, minute), Matches(q, day, minute)
    PROVE  Meet(r, q)
<1>1. /\ r.start \in 0 .. DayMinutes - 1 /\ r.end \in 0 .. DayMinutes - 1
      /\ q.start \in 0 .. DayMinutes - 1 /\ q.end \in 0 .. DayMinutes - 1
  BY DEF Rule
<1>2. DayMinutes \in Nat
  BY PriceAssumption
<1>3. RuleDays(r) \cap RuleDays(q) # {}
  BY DEF Matches
<1>4. ASSUME NEW x \in Rule, Matches(x, day, minute)
      PROVE  \E s \in Spans(x) : s[1] <= minute /\ minute < s[2]
  <2>1. x.start \in 0 .. DayMinutes - 1 /\ x.end \in 0 .. DayMinutes - 1
    BY DEF Rule
  <2>2. CASE x.start < x.end
    <3>1. <<x.start, x.end>> \in Spans(x)
      BY <2>2 DEF Spans
    <3> QED BY <1>4, <2>2, <3>1 DEF Matches
  <2>3. CASE ~(x.start < x.end)
    <3>1. <<x.start, DayMinutes>> \in Spans(x) /\ <<0, x.end>> \in Spans(x)
      BY <2>3 DEF Spans
    <3> QED BY <1>2, <1>4, <2>1, <2>3, <3>1 DEF Matches
  <2> QED BY <2>2, <2>3
<1>5. PICK s \in Spans(r) : s[1] <= minute /\ minute < s[2]
  BY <1>4
<1>6. PICK t \in Spans(q) : t[1] <= minute /\ minute < t[2]
  BY <1>4
<1>7. s[1] \in Int /\ s[2] \in Int /\ t[1] \in Int /\ t[2] \in Int
  BY <1>1, <1>2, <1>5, <1>6 DEF Spans
<1>8. s[1] < t[2] /\ t[1] < s[2]
  BY <1>5, <1>6, <1>7
<1> QED BY <1>3, <1>5, <1>6, <1>8 DEF Meet

LEMMA ValidApplyOnce ==
    ASSUME NEW rules \in RuleSets, ValidRules(rules), NEW day \in Weekdays,
           NEW minute \in 0 .. DayMinutes - 1
    PROVE  Cardinality(Applicable(rules, day, minute)) <= 1
<1> DEFINE A == Applicable(rules, day, minute)
<1>1. rules \subseteq Rule
  BY PriceAssumption
<1>2. \A r, q \in A : r = q
  BY <1>1, TogetherMeet DEF Applicable, ValidRules
<1>3. CASE A = {}
  BY <1>3, FS_EmptySet
<1>4. CASE A # {}
  <2>1. PICK r : r \in A
    BY <1>4
  <2>2. A = {r}
    BY <1>2, <2>1
  <2>3. Cardinality(A) = 1
    BY <2>2, FS_Singleton
  <2> QED BY <2>3
<1> QED BY <1>3, <1>4

-----------------------------------------------------------------------------
(* The results.                                                            *)

(* Every part of the price tables is consistent with every other, whenever *)
(* the statistics lock is free: refreshModelsDevPricesOnceWithStop,        *)
(* SetConfig, loadModelPricesLocked, UpsertModelPrice, DeleteModelPrice.   *)
THEOREM PricesConsistent == PriceSpec => []PriceInvariant
BY PriceInitially, PriceStep, PTL DEF PriceSpec

(* Whatever answers are under way while the settings change, the catalog   *)
(* and the tag sent with the next request are of the configured URL        *)
(* (refreshModelsDevPricesOnceWithStop, setModelsDevPriceSettingsLocked).  *)
THEOREM CatalogBelongs == PriceSpec => []CatalogMatchesSettings
<1>1. PriceInvariant => CatalogMatchesSettings
  BY DEF PriceInvariant, Consistent, CatalogOf, CatalogMatchesSettings
<1> QED BY <1>1, PricesConsistent, PTL

(* Every holder of the statistics lock finds costs of the tables in use    *)
(* (rebuildCostSeriesLocked, hasTimeBasedPricesLocked).                    *)
THEOREM CostsAreCurrent == PriceSpec => []CostsCurrent
<1>1. PriceInvariant => CostsCurrent
  BY DEF PriceInvariant, CostsOf, CostsCurrent
<1> QED BY <1>1, PricesConsistent, PTL

(* No instant has two prices, whatever rules were submitted or left in a   *)
(* file (validateModelPriceRules, effectivePrice).                         *)
THEOREM OnePriceApplies == PriceSpec => []OneRuleApplies
<1>1. PriceInvariant => OneRuleApplies
  <2> SUFFICES ASSUME PriceInvariant, NEW m \in Models, book.manual[m] # Nothing,
                      NEW day \in Weekdays, NEW minute \in 0 .. DayMinutes - 1
               PROVE  Cardinality(Applicable(book.manual[m], day, minute)) <= 1
    BY DEF OneRuleApplies
  <2>1. book.manual[m] \in RuleSets /\ ValidRules(book.manual[m])
    BY DEF PriceInvariant, Consistent, Books, Tables, RulesOf
  <2> QED BY <2>1, ValidApplyOnce
<1> QED BY <1>1, PricesConsistent, PTL
=============================================================================
