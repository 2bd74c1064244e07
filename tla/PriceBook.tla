------------------------------ MODULE PriceBook ------------------------------
(* Model prices (stats.go): the table of models.dev with its background    *)
(* worker, the manual table with its file, the time rules of a manual      *)
(* price, and the costs derived from them.                                 *)
(*                                                                         *)
(* Abstractions.  A catalog is the edition of a URL; a manual price is its *)
(* set of time rules; models are compared by their normalised names.  An   *)
(* ETag names an edition of a URL; an answer may come from any edition.    *)
(* Time of day has DayMinutes minutes.                                     *)
EXTENDS Integers, FiniteSets

CONSTANTS
    Catalogs,        \* the URLs a catalog may be configured at
    Models,          \* the models with manual prices
    RuleSets,        \* the sets of time rules a caller may submit or a file hold
    PricePaths,      \* the configurable price files
    DefaultPath,     \* defaultPriceStoragePath
    LegacyPath,      \* legacyPriceStoragePath, read when the default is missing
    LeftFiles,       \* the price files that earlier processes may have left
    Nothing,         \* no catalog, no tag, no price, no file
    DayMinutes,      \* 1440
    Weekdays,        \* 0 .. 6
    Editions         \* the editions a catalog may be answered in

(* A rule begins and ends at a minute of the day (parsePricingMinute) and  *)
(* applies every day if there is none in "days".                           *)
Rule == [start : 0 .. DayMinutes - 1, end : 0 .. DayMinutes - 1, days : SUBSET Weekdays]

(* Of each model its rules, or Nothing; and what a price file holds.       *)
Tables == [Models -> RuleSets \cup {Nothing}]
File   == [prices : Tables, readable : BOOLEAN]

ASSUME PriceAssumption ==
    /\ DayMinutes \in Nat
    /\ DefaultPath \in PricePaths /\ LegacyPath \notin PricePaths
    /\ Nothing \notin RuleSets /\ Nothing \notin Catalogs /\ Nothing \notin PricePaths
    /\ Catalogs # {} /\ RuleSets \subseteq SUBSET Rule
    /\ Nothing \notin [url : Catalogs, edition : Editions]
    /\ LeftFiles \subseteq [PricePaths \cup {LegacyPath} -> File \cup {Nothing}]
    /\ Nothing \notin File

VARIABLES
    book,      \* the tables, their settings and what is derived from them
    fetcher,   \* modelsDevPriceWorker
    settings,  \* the reconfiguration that is going on, or Nothing
    priceFile, \* the files: Nothing, or [prices, readable]
    touched    \* history: the models whose price a caller has edited

priceVars == <<book, fetcher, settings, priceFile, touched>>

-----------------------------------------------------------------------------
(* Time rules.                                                             *)

RuleDays(r) == IF r.days = {} THEN Weekdays ELSE r.days

(* A rule across midnight is two spans, both on the days of the rule. *)
Spans(r) == IF r.start < r.end THEN {<<r.start, r.end>>}
            ELSE {<<r.start, DayMinutes>>, <<0, r.end>>}

(* Mutant: a rule across midnight is compared as if it ended at midnight. *)
MeetBeforeMidnight(r, q) ==
    /\ RuleDays(r) \cap RuleDays(q) # {}
    /\ r.start < (IF q.start < q.end THEN q.end ELSE DayMinutes)
    /\ q.start < (IF r.start < r.end THEN r.end ELSE DayMinutes)

Meet(r, q) ==
    /\ RuleDays(r) \cap RuleDays(q) # {}
    /\ \E s \in Spans(r), t \in Spans(q) : s[1] < t[2] /\ t[1] < s[2]

(* validateModelPriceRules *)
ValidRules(rules) ==
    /\ \A r \in rules : r.start # r.end
    /\ \A r, q \in rules : r # q => ~Meet(r, q)

(* ruleContainsMinute, ruleMatchesInstant *)
Matches(r, day, minute) ==
    /\ day \in RuleDays(r)
    /\ r.start # r.end
    /\ IF r.start < r.end THEN r.start <= minute /\ minute < r.end
       ELSE r.start <= minute \/ minute < r.end

(* effectivePrice takes the first rule that matches. *)
Applicable(rules, day, minute) == {r \in rules : Matches(r, day, minute)}

-----------------------------------------------------------------------------
(* The tables.                                                             *)

NoPrices == [m \in Models |-> Nothing]

HasTimeRules(prices) == \E m \in Models : prices[m] \notin {Nothing, {}}

(* hasTimeBasedPricesLocked *)
Flagged(b) ==
    IF b.flag.fresh THEN b
    ELSE [b EXCEPT !.flag = [fresh |-> TRUE, timed |-> HasTimeRules(b.manual)]]

(* rebuildCostSeriesLocked: every cost, with the differences the rules make *)
Rebuilt(b) ==
    LET f == Flagged(b)
    IN  [f EXCEPT !.costs = [catalog |-> f.catalog, manual |-> f.manual, timed |-> f.flag.timed]]

(* priceVersion moves away from the version of the flag. *)
Changed(b) == [b EXCEPT !.flag.fresh = FALSE]

(* Mutant: the version moves after the costs were computed. *)
EditedLate(b, m, price) == Changed(Rebuilt([b EXCEPT !.manual[m] = price]))

Edited(b, m, price) == Rebuilt(Changed([b EXCEPT !.manual[m] = price]))

(* Prices of a file that fail validation are skipped. *)
Loadable(prices) ==
    [m \in Models |-> IF prices[m] = Nothing \/ ~ValidRules(prices[m]) THEN Nothing ELSE prices[m]]

(* The file that is read for a path: the old default location, if there is *)
(* nothing at the default path.                                            *)
ReadFrom(files, path) ==
    IF path = DefaultPath /\ files[path] = Nothing THEN LegacyPath ELSE path

(* loadModelPricesLocked: a table that could not be read stays unloaded. *)
Loaded(b, files) ==
    LET source == files[ReadFrom(files, b.path)]
    IN  IF b.loaded = b.path \/ (source # Nothing /\ ~source.readable) THEN b
        ELSE Rebuilt(Changed([b EXCEPT !.loaded = b.path,
                    !.manual = IF source = Nothing THEN NoPrices ELSE Loadable(source.prices)]))

(* The legacy file is copied; a failure of the copy only leaves a message. *)
Migrated(b, files) ==
    LET from == ReadFrom(files, b.path)
        copy == [files EXCEPT ![b.path] =
                    [prices |-> Loaded(b, files).manual, readable |-> TRUE]]
    IN  IF b.loaded # b.path /\ from # b.path /\ files[from] # Nothing /\ files[from].readable
        THEN {files, copy}
        ELSE {files}

-----------------------------------------------------------------------------
(* A new process, with any setting.                                        *)

NoFetcher == [pc |-> "off", stop |-> FALSE, url |-> Nothing, tag |-> Nothing, answer |-> Nothing]
Fetching  == [NoFetcher EXCEPT !.pc = "due"]

(* NewRequestStatistics *)
FreshBook(path) ==
    [on |-> FALSE, url |-> CHOOSE u \in Catalogs : TRUE, catalog |-> Nothing, tag |-> Nothing,
     manual |-> NoPrices, path |-> path, loaded |-> Nothing,
     flag |-> [fresh |-> FALSE, timed |-> FALSE],
     costs |-> [catalog |-> Nothing, manual |-> NoPrices, timed |-> FALSE]]

PriceInit ==
    /\ book = FreshBook(DefaultPath)
    /\ fetcher = NoFetcher /\ settings = Nothing
    /\ priceFile \in LeftFiles
    /\ touched = {}

-----------------------------------------------------------------------------
(* Reconfiguration: the worker is stopped and awaited before the settings  *)
(* change under the statistics lock.                                       *)

BeginSettings(on, url, path) ==
    /\ settings = Nothing
    /\ settings' = [on |-> on, url |-> url, path |-> path]
    /\ fetcher' = IF fetcher.pc = "off" THEN fetcher ELSE [fetcher EXCEPT !.stop = TRUE]
    /\ UNCHANGED <<book, priceFile, touched>>

(* Mutant: only turning the catalog off drops its table. *)
SetCatalogKept(b, on, url) ==
    IF on THEN [b EXCEPT !.on = on, !.url = url]
    ELSE Changed([b EXCEPT !.on = on, !.url = url, !.catalog = Nothing, !.tag = Nothing])

(* A catalog that was turned on, off, or moved starts empty. *)
SetCatalog(b, on, url) ==
    LET moved == [b EXCEPT !.on = on, !.url = url]
    IN  IF on = b.on /\ url = b.url /\ on THEN b
        ELSE Changed([moved EXCEPT !.catalog = Nothing, !.tag = Nothing])

ApplySettings ==
    /\ settings # Nothing /\ fetcher.pc = "off"
    /\ LET b == [SetCatalog(book, settings.on, settings.url) EXCEPT !.path = settings.path]
       IN  /\ book' = Rebuilt(Loaded(b, priceFile))
           /\ priceFile' \in Migrated(b, priceFile)
    /\ fetcher' = IF settings.on THEN Fetching ELSE NoFetcher
    /\ settings' = Nothing
    /\ UNCHANGED touched

(* A patch that does not touch the catalog leaves its worker running. *)
SetPath(path) ==
    /\ settings = Nothing
    /\ LET b == [SetCatalog(book, book.on, book.url) EXCEPT !.path = path]
       IN  /\ book' = Rebuilt(Loaded(b, priceFile))
           /\ priceFile' \in Migrated(b, priceFile)
    /\ UNCHANGED <<fetcher, settings, touched>>

-----------------------------------------------------------------------------
(* The worker: refreshModelsDevPricesOnceWithStop.                         *)

Ask ==
    /\ fetcher.pc = "due"
    /\ fetcher' = IF book.on THEN [fetcher EXCEPT !.pc = "asking", !.url = book.url, !.tag = book.tag]
                  ELSE [fetcher EXCEPT !.pc = "asleep"]
    /\ UNCHANGED <<book, settings, priceFile, touched>>

(* The upstream answers with an edition, with "not modified" if that is    *)
(* the one it was asked about, or fails; a stop cancels the request.       *)
Answer ==
    /\ fetcher.pc = "asking"
    /\ \E a \in {Nothing} \cup ({[url |-> fetcher.url, edition |-> e] : e \in Editions} \ {fetcher.tag}) :
          fetcher' = [fetcher EXCEPT !.pc = "answered", !.answer = a]
    /\ UNCHANGED <<book, settings, priceFile, touched>>

(* Mutant: the tag of an answer is kept with the table it replaces. *)
PublishTagOnly(b, a, tag) == [b EXCEPT !.tag = tag]

(* The catalog and everything derived from it change together. *)
Published(b, a, tag) == Rebuilt(Changed([b EXCEPT !.catalog = a, !.tag = tag]))

(* An answer without a tag is possible; errors only leave a message. *)
Publish ==
    /\ fetcher.pc = "answered"
    /\ book' \in IF fetcher.answer = Nothing \/ ~book.on \/ book.url # fetcher.url THEN {book}
                 ELSE {Published(book, fetcher.answer, tag) : tag \in {Nothing, fetcher.answer}}
    /\ fetcher' = [fetcher EXCEPT !.pc = "asleep", !.url = Nothing, !.tag = Nothing, !.answer = Nothing]
    /\ UNCHANGED <<settings, priceFile, touched>>

(* The timer, also when it fires together with a stop. *)
Wake ==
    /\ fetcher.pc = "asleep"
    /\ fetcher' = [fetcher EXCEPT !.pc = "due"]
    /\ UNCHANGED <<book, settings, priceFile, touched>>

FetcherEnds ==
    /\ fetcher.pc = "asleep" /\ fetcher.stop
    /\ fetcher' = NoFetcher
    /\ UNCHANGED <<book, settings, priceFile, touched>>

-----------------------------------------------------------------------------
(* The price API.                                                          *)

(* ModelPrices, QueryModelPrices: a file that could not be read is tried   *)
(* again.                                                                  *)
QueryPrices ==
    /\ book.loaded # book.path
    /\ book' = Loaded(book, priceFile)
    /\ priceFile' \in Migrated(book, priceFile)
    /\ UNCHANGED <<fetcher, settings, touched>>

(* What UpsertModelPrice accepts, and the deletion of DeleteModelPrice. *)
Submitted == {Nothing} \cup {rules \in RuleSets : ValidRules(rules)}

(* UpsertModelPrice, DeleteModelPrice: the edit stays in memory if it      *)
(* cannot be saved.                                                        *)
EditPrice(m, price) ==
    /\ price \in Submitted
    /\ LET b == Edited(Loaded(book, priceFile), m, price)
       IN  \/ /\ book' = [b EXCEPT !.loaded = b.path]
              /\ priceFile' = [priceFile EXCEPT ![b.path] = [prices |-> b.manual, readable |-> TRUE]]
           \/ /\ book' = b
              /\ priceFile' \in Migrated(book, priceFile)
    /\ touched' = touched \cup {m}
    /\ UNCHANGED <<fetcher, settings>>

-----------------------------------------------------------------------------
(* The world.                                                              *)

(* A file that could not be read, for want of permission say, can be. *)
Recover(path) ==
    /\ priceFile[path] # Nothing /\ ~priceFile[path].readable
    /\ priceFile' = [priceFile EXCEPT ![path].readable = TRUE]
    /\ UNCHANGED <<book, fetcher, settings, touched>>

(* A new process has loaded nothing. *)
PriceRestart ==
    /\ settings = Nothing
    /\ book' = FreshBook(DefaultPath) /\ fetcher' = NoFetcher
    /\ UNCHANGED <<settings, priceFile, touched>>

PriceNext ==
    \/ \E on \in BOOLEAN, u \in Catalogs, p \in PricePaths : BeginSettings(on, u, p)
    \/ ApplySettings
    \/ \E p \in PricePaths : SetPath(p)
    \/ Ask \/ Answer \/ Publish \/ Wake \/ FetcherEnds
    \/ QueryPrices
    \/ \E m \in Models, price \in RuleSets \cup {Nothing} : EditPrice(m, price)
    \/ \E p \in PricePaths : Recover(p)
    \/ PriceRestart

PriceSpec == PriceInit /\ [][PriceNext]_priceVars

-----------------------------------------------------------------------------
(* Properties.                                                             *)

(* The catalog in use is an edition of the configured URL, and the tag     *)
(* that is sent with the next request names that very edition: "not        *)
(* modified" can only confirm what is in use.                              *)
CatalogMatchesSettings ==
    /\ book.catalog # Nothing => book.on /\ book.catalog.url = book.url
    /\ book.tag # Nothing => book.tag = book.catalog

(* Whoever takes the statistics lock finds costs computed from the tables  *)
(* it finds, with the time rules if and only if there are some.            *)
CostsCurrent ==
    book.costs = [catalog |-> book.catalog, manual |-> book.manual,
                  timed |-> HasTimeRules(book.manual)]

(* Of the time rules in use at most one applies to an instant, so that     *)
(* their order does not matter (effectivePrice takes the first).           *)
OneRuleApplies ==
    \A m \in Models : book.manual[m] # Nothing =>
        \A day \in Weekdays, minute \in 0 .. DayMinutes - 1 :
            Cardinality(Applicable(book.manual[m], day, minute)) <= 1

(* A price in the file that nobody edited is never lost: a file that could *)
(* not be read is read before it is written (stats.go, "A failed initial   *)
(* read can recover during a later price API request").                    *)
UneditedPricesKept ==
    [][\A p \in PricePaths, m \in Models :
          priceFile[p] # Nothing /\ m \notin touched' /\ Loadable(priceFile[p].prices)[m] # Nothing
          => priceFile'[p] # Nothing /\ priceFile'[p].prices[m] = priceFile[p].prices[m]]_priceVars
=============================================================================
