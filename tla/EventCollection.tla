-------------------------- MODULE EventCollection --------------------------
(***************************************************************************)
(* The resumable collection of company events                              *)
(* (app/providers/tushare_event_collection.py).                            *)
(*                                                                         *)
(* A collector walks over the partitions (a source and a stock each).  Of  *)
(* the five sources the model has two: "forecast", whose rows may carry a  *)
(* first announcement date later than the announcement, which is removed   *)
(* and kept as an anomaly; and "share_float", whose query by stock may be  *)
(* cut off at the row limit or mix stocks up.  The other three are asked   *)
(* for like "forecast", without anomalies.                                 *)
(*                                                                         *)
(* When a share_float answer cannot be trusted the collector asks for      *)
(* every day of the coverage, for all stocks, page by page, keeps each day *)
(* in a cache that all stocks share (on disk and in memory) and selects    *)
(* its stock's rows.                                                       *)
(*                                                                         *)
(* The collector may be killed between any two file writes and started     *)
(* again; the provider may change its answers, between pages as well.      *)
(* Directories left by earlier versions of the code, except for a request  *)
(* without the anomaly policy, are not modelled.                           *)
(***************************************************************************)
EXTENDS StagingFiles, Integers, SequencesExt

CONSTANTS
    EventWalk,      \* the partitions, in the order they are collected
    ListedOn,       \* per stock the day of its listing
    LastCovered,    \* the coverage is the days 1..LastCovered
    EventWorlds,    \* what the provider may answer
    PageLimit,      \* documented row limit of an answer
    MaxPages,       \* _SHARE_FLOAT_MAX_PAGES
    OwnMarket,      \* the market snapshot of this collection
    Markets         \* the snapshots runs find in market_dir

EventParts == ToSet(EventWalk)
Stocks == {p.stock : p \in EventParts}
Covered == 1..LastCovered

ASSUME EventConstants ==
    /\ EventWalk \in Seq(EventParts)
    /\ \A p \in EventParts : p = [source |-> p.source, stock |-> p.stock]
    /\ ListedOn \in [Stocks -> Nat] /\ LastCovered \in Nat
    /\ PageLimit \in Nat \ {0} /\ MaxPages \in Nat \ {0}
    /\ OwnMarket \in Markets

\* A row: the stock, the announcement day, whether the first announcement day
\* is later than that, and the rest.
\* A world: the answers per partition; the rows of each day, all stocks; and
\* whether the provider ignores offsets.
ASSUME EventAnswers ==
    \A w \in EventWorlds :
        /\ w.ignoresOffset \in BOOLEAN
        /\ DOMAIN w.answers = EventParts /\ DOMAIN w.market = Covered
        /\ \A p \in EventParts : \A answer \in w.answers[p] : answer \in Seq(ToSet(answer))
        /\ \A d \in Covered : \A rows \in w.market[d] : rows \in Seq(ToSet(rows))

VARIABLES
    eventWorld,
    eventRequest,   \* collection_request.json
    eventPartition, \* per partition the rows of its file
    audits,         \* query-audit: per stock, of a fallback
    anomalies,      \* rows whose first announcement day was removed
    marketDays,     \* query-cache/share_float/all-market: per day its rows
    symbolDays,     \* query-cache/share_float/<stock>: per stock and day
    exports,
    eventSource,    \* source_manifest.json
    eventQuality,   \* quality_report.json
    eventManifest,  \* collection_manifest.json
    collector,
    answered,       \* (history) per partition the answer it was built from
    eventKills

eventCaches == <<marketDays, symbolDays>>
eventSeals == <<exports, eventSource, eventQuality, eventManifest>>
eventFrame == <<eventWorld, eventKills>>
eventVars == <<eventFrame, eventRequest, eventPartition, audits, anomalies, eventCaches, eventSeals,
               collector, answered>>

NoDays == [d \in Covered |-> Missing]
Resting == [pc |-> "off", at |-> 1, rows |-> {}, mode |-> "none", day |-> 1, pages |-> << >>, memory |-> NoDays]

-----------------------------------------------------------------------------
(* Rows *)

InCoverage(row) == row.ann \in Covered
Sanitized(row) == [row EXCEPT !.late = FALSE]
Select(rows, stock) == {row \in rows : row.stock = stock}

\* A page of a day's rows.
Page(rows, offset) == SubSeq(rows, offset + 1, Min({Len(rows), offset + PageLimit}))

\* _prepare_partition refuses foreign rows, and rows outside of the coverage in
\* all sources but share_float.
PartitionRefuses(p, rows) ==
    \E row \in rows : row.stock # p.stock \/ (p.source # "share_float" /\ ~InCoverage(row))
Prepared(p, rows) ==
    IF p.source = "share_float" THEN {row \in rows : InCoverage(row)} ELSE {Sanitized(row) : row \in rows}

\* Why a share_float answer by stock is not trusted; UntrustedBeyondLimit would
\* take an answer of exactly the limit for complete.
UntrustedBeyondLimit(stock, answer) ==
    answer # << >> /\ (Len(answer) > PageLimit \/ {row.stock : row \in ToSet(answer)} # {stock})
Untrusted(stock, answer) ==
    answer # << >> /\ (Len(answer) >= PageLimit \/ {row.stock : row \in ToSet(answer)} # {stock})

\* Why an answer of another source ends the run.
CutOff(source, answer) == source # "share_float" /\ Len(answer) >= PageLimit

-----------------------------------------------------------------------------
(* What is computed from the staging directory *)

\* path.exists(); a file without rows must not count as missing.
PresentWithRows(p) == eventPartition[p] \notin {Missing, {}}
Present(p) == eventPartition[p] # Missing

\* The audit counts the cached days of its stock, whoever wrote them.
CachedDays(stock) == Cardinality({d \in Covered : symbolDays[stock][d] # Missing})

\* _read_query_audits
AuditsReadable ==
    \A p \in EventParts : (p.source = "share_float" /\ audits[p.stock] # Missing) =>
        Present(p) /\ audits[p.stock].files = CachedDays(p.stock)

AllRows(source) == UNION {eventPartition[p] : p \in {q \in EventParts : q.source = source}}
Exported == [source \in {p.source : p \in EventParts} |-> AllRows(source)]
Quality == [request |-> eventRequest, data |-> eventPartition, audits |-> audits, anomalies |-> Cardinality(anomalies)]
EventManifest ==
    [request |-> eventRequest, data |-> eventPartition, exports |-> exports, source |-> eventSource,
     quality |-> eventQuality, audits |-> audits, caches |-> eventCaches, anomalies |-> anomalies]

\* _verify_collection_manifest
EventVerified ==
    /\ eventManifest = EventManifest
    /\ \A p \in EventParts : Present(p)
    /\ eventSource.exports = exports
    /\ eventQuality.anomalies = Cardinality(anomalies)

-----------------------------------------------------------------------------
(* collect_tushare_a_share_events *)

\* An error ends the run.
EndRun == collector' = Resting

OwnRequest(market) == [market |-> market, policy |-> TRUE]

\* The core of the request must be the same; a request without the anomaly
\* policy gets it.
StartEvents(market) ==
    /\ collector.pc = "off"
    /\ IF eventRequest = Missing \/ eventRequest.market = market
       THEN /\ eventRequest' = OwnRequest(market)
            /\ collector' = IF eventManifest = Missing THEN [Resting EXCEPT !.pc = "walking"] ELSE Resting
       ELSE EndRun /\ UNCHANGED eventRequest
    /\ UNCHANGED <<eventFrame, eventPartition, audits, anomalies, eventCaches, eventSeals, answered>>

Current == EventWalk[collector.at]
InWalk == collector.pc = "walking" /\ collector.at <= Len(EventWalk)

\* Having handled a partition; what is in memory stays there.
NextPart == collector' = [Resting EXCEPT !.pc = "walking", !.at = collector.at + 1, !.memory = collector.memory]

\* A partition that is on disk must be what _prepare_partition makes of it.
ReuseEvents ==
    /\ InWalk /\ Present(Current)
    /\ IF PartitionRefuses(Current, eventPartition[Current])
          \/ Prepared(Current, eventPartition[Current]) # eventPartition[Current]
       THEN EndRun ELSE NextPart
    /\ UNCHANGED <<eventFrame, eventRequest, eventPartition, audits, anomalies, eventCaches, eventSeals, answered>>

\* A stock that was listed after the coverage has an empty partition.
WriteUnlisted ==
    /\ InWalk /\ ~Present(Current)
    /\ ListedOn[Current.stock] > LastCovered
    /\ eventPartition' = [eventPartition EXCEPT ![Current] = {}]
    /\ NextPart
    /\ UNCHANGED <<eventFrame, eventRequest, audits, anomalies, eventCaches, eventSeals, answered>>

\* _query_source
QueryEvents ==
    /\ InWalk /\ ~Present(Current)
    /\ ListedOn[Current.stock] <= LastCovered
    /\ \E answer \in eventWorld.answers[Current] :
         IF Current.source = "share_float" /\ Untrusted(Current.stock, answer)
         THEN collector' = [collector EXCEPT !.pc = "fallback", !.mode = "fallback"]
         ELSE IF PartitionRefuses(Current, ToSet(answer)) \/ CutOff(Current.source, answer)
         THEN EndRun
         ELSE collector' = [collector EXCEPT !.pc = "answered", !.rows = ToSet(answer), !.mode = "primary"]
    /\ UNCHANGED <<eventFrame, eventRequest, eventPartition, audits, anomalies, eventCaches, eventSeals, answered>>

-----------------------------------------------------------------------------
(* _query_share_float_by_ann_date: a day of the fallback *)

Day == collector.day
InFallback == collector.pc = "fallback" /\ Day <= LastCovered
KeepDay(rows) == collector' = [collector EXCEPT !.pc = "fallback", !.rows = @ \cup rows, !.day = @ + 1, !.pages = << >>]

\* The stock's own cache of the day.
UseSymbolDay ==
    LET file == symbolDays[Current.stock][Day] IN
    /\ InFallback /\ file # Missing
    /\ KeepDay(file)
    /\ UNCHANGED <<eventFrame, eventRequest, eventPartition, audits, anomalies, eventCaches, eventSeals, answered>>

\* Before its listing a stock has no rows, which the cache records.
SkipUnlistedDay ==
    /\ InFallback /\ symbolDays[Current.stock][Day] = Missing
    /\ Day < ListedOn[Current.stock]
    /\ symbolDays' = [symbolDays EXCEPT ![Current.stock][Day] = {}]
    /\ KeepDay({})
    /\ UNCHANGED <<eventFrame, eventRequest, eventPartition, audits, anomalies, marketDays, eventSeals, answered>>

\* What this run or an earlier one has of the day, for all stocks.
KnownDay == IF collector.memory[Day] # Missing THEN collector.memory[Day] ELSE marketDays[Day]

UseMarketDay ==
    /\ InFallback /\ symbolDays[Current.stock][Day] = Missing
    /\ Day >= ListedOn[Current.stock]
    /\ KnownDay # Missing
    /\ collector' = [collector EXCEPT !.rows = @ \cup Select(KnownDay, Current.stock), !.day = @ + 1,
                                      !.memory[Day] = KnownDay]
    /\ UNCHANGED <<eventFrame, eventRequest, eventPartition, audits, anomalies, eventCaches, eventSeals, answered>>

\* _query_share_float_ann_date_pages: a short page is the last one; a full page
\* that was seen before, or too many pages, end the run.
FetchPage ==
    LET offset == IF eventWorld.ignoresOffset THEN 0 ELSE Len(collector.pages) * PageLimit IN
    /\ InFallback /\ symbolDays[Current.stock][Day] = Missing
    /\ Day >= ListedOn[Current.stock]
    /\ KnownDay = Missing
    /\ \E rows \in eventWorld.market[Day] :
         LET page == Page(rows, offset)
             full == Len(page) = PageLimit
         IN IF \/ \E i \in 1..Len(page) : page[i].ann # Day
               \/ full /\ page \in ToSet(collector.pages)
               \/ full /\ Len(collector.pages) + 1 >= MaxPages
            THEN EndRun
            ELSE collector' = [collector EXCEPT !.pages = Append(@, page), !.pc = IF full THEN @ ELSE "paged"]
    /\ UNCHANGED <<eventFrame, eventRequest, eventPartition, audits, anomalies, eventCaches, eventSeals, answered>>

\* The day is cached for all stocks, in the directory and in memory;
\* KeepMarketDay would do only the latter.
KeepMarketDay ==
    LET rows == UNION {ToSet(collector.pages[i]) : i \in 1..Len(collector.pages)} IN
    /\ collector.pc = "paged"
    /\ collector' = [collector EXCEPT !.pc = "cached", !.memory[Day] = rows]
    /\ UNCHANGED <<eventFrame, eventRequest, eventPartition, audits, anomalies, eventCaches, eventSeals, answered>>
WriteMarketDay ==
    LET rows == UNION {ToSet(collector.pages[i]) : i \in 1..Len(collector.pages)} IN
    /\ collector.pc = "paged"
    /\ marketDays' = [marketDays EXCEPT ![Day] = rows]
    /\ collector' = [collector EXCEPT !.pc = "cached", !.memory[Day] = rows]
    /\ UNCHANGED <<eventFrame, eventRequest, eventPartition, audits, anomalies, symbolDays, eventSeals, answered>>

\* Only the stock that asked for the day gets a cache of its own.
WriteSymbolDay ==
    LET rows == Select(collector.memory[Day], Current.stock) IN
    /\ collector.pc = "cached"
    /\ symbolDays' = [symbolDays EXCEPT ![Current.stock][Day] = rows]
    /\ KeepDay(rows)
    /\ UNCHANGED <<eventFrame, eventRequest, eventPartition, audits, anomalies, marketDays, eventSeals, answered>>

\* Selecting a later stock's rows does not count in another stock's audit.
WriteAudit ==
    /\ collector.pc = "fallback" /\ Day > LastCovered
    /\ audits' = [audits EXCEPT ![Current.stock] = [files |-> CachedDays(Current.stock), rows |-> Cardinality(collector.rows)]]
    /\ collector' = [collector EXCEPT !.pc = "answered"]
    /\ UNCHANGED <<eventFrame, eventRequest, eventPartition, anomalies, eventCaches, eventSeals, answered>>

-----------------------------------------------------------------------------
(* The partition, and the seal *)

\* The anomalies of the answer that have no artifact yet.
Unrecorded ==
    IF Current.source = "forecast" THEN {row \in collector.rows : row.late} \ anomalies ELSE {}

RecordAnomaly ==
    /\ collector.pc = "answered"
    /\ \E row \in Unrecorded : anomalies' = anomalies \cup {row}
    /\ UNCHANGED <<eventFrame, eventRequest, eventPartition, audits, eventCaches, eventSeals, collector, answered>>

\* The partition comes last, since what is on disk is not asked for again.
WriteEventPartitionEarly ==
    /\ collector.pc = "answered"
    /\ eventPartition' = [eventPartition EXCEPT ![Current] = Prepared(Current, collector.rows)]
    /\ answered' = [answered EXCEPT ![Current] = [mode |-> collector.mode, rows |-> collector.rows]]
    /\ NextPart
    /\ UNCHANGED <<eventFrame, eventRequest, audits, anomalies, eventCaches, eventSeals>>
WriteEventPartition ==
    /\ collector.pc = "answered"
    /\ Unrecorded = {}
    /\ eventPartition' = [eventPartition EXCEPT ![Current] = Prepared(Current, collector.rows)]
    /\ answered' = [answered EXCEPT ![Current] = [mode |-> collector.mode, rows |-> collector.rows]]
    /\ NextPart
    /\ UNCHANGED <<eventFrame, eventRequest, audits, anomalies, eventCaches, eventSeals>>

\* _aggregate_partitions and _write_exports
WriteExports ==
    /\ collector.pc = "walking" /\ collector.at > Len(EventWalk)
    /\ exports' = Exported
    /\ collector' = [collector EXCEPT !.pc = "source"]
    /\ UNCHANGED <<eventFrame, eventRequest, eventPartition, audits, anomalies, eventCaches,
                   eventSource, eventQuality, eventManifest, answered>>

WriteEventSource ==
    /\ collector.pc = "source"
    /\ \E instant \in Instants : eventSource' = [exports |-> exports, at |-> instant]
    /\ collector' = [collector EXCEPT !.pc = "quality"]
    /\ UNCHANGED <<eventFrame, eventRequest, eventPartition, audits, anomalies, eventCaches,
                   exports, eventQuality, eventManifest, answered>>

WriteEventQuality ==
    /\ collector.pc = "quality"
    /\ IF AuditsReadable
       THEN eventQuality' = Quality /\ collector' = [collector EXCEPT !.pc = "manifest"]
       ELSE EndRun /\ UNCHANGED eventQuality
    /\ UNCHANGED <<eventFrame, eventRequest, eventPartition, audits, anomalies, eventCaches,
                   exports, eventSource, eventManifest, answered>>

WriteEventManifest ==
    /\ collector.pc = "manifest"
    /\ eventManifest' = EventManifest
    /\ EndRun
    /\ UNCHANGED <<eventFrame, eventRequest, eventPartition, audits, anomalies, eventCaches,
                   exports, eventSource, eventQuality, answered>>

KillCollector ==
    /\ collector.pc # "off"
    /\ eventKills < MaxKills
    /\ eventKills' = eventKills + 1
    /\ EndRun
    /\ UNCHANGED <<eventWorld, eventRequest, eventPartition, audits, anomalies, eventCaches, eventSeals, answered>>

-----------------------------------------------------------------------------

\* The directory is new, or an earlier version has left a request in it.
EventInit ==
    /\ eventWorld \in EventWorlds
    /\ eventRequest \in {Missing, [market |-> OwnMarket, policy |-> FALSE]}
    /\ eventPartition = [p \in EventParts |-> Missing]
    /\ audits = [s \in Stocks |-> Missing]
    /\ anomalies = {}
    /\ marketDays = NoDays
    /\ symbolDays = [s \in Stocks |-> NoDays]
    /\ exports = Missing /\ eventSource = Missing /\ eventQuality = Missing /\ eventManifest = Missing
    /\ collector = Resting
    /\ answered = [p \in EventParts |-> Missing]
    /\ eventKills = 0

CollectorStep ==
    \/ ReuseEvents \/ WriteUnlisted \/ QueryEvents
    \/ UseSymbolDay \/ SkipUnlistedDay \/ UseMarketDay \/ FetchPage
    \/ WriteMarketDay \/ WriteSymbolDay \/ WriteAudit
    \/ RecordAnomaly \/ WriteEventPartition
    \/ WriteExports \/ WriteEventSource \/ WriteEventQuality \/ WriteEventManifest

EventNext ==
    \/ \E market \in Markets : StartEvents(market)
    \/ CollectorStep
    \/ KillCollector

-----------------------------------------------------------------------------
(* Properties *)

\* A provider that keeps to its answers and honours offsets.
Stable ==
    /\ ~eventWorld.ignoresOffset
    /\ \A p \in EventParts : p.source = "share_float" =>
         \E answer \in eventWorld.answers[p] : eventWorld.answers[p] = {answer}
    /\ \A d \in Covered : \E rows \in eventWorld.market[d] : eventWorld.market[d] = {rows}

\* What a day has of a stock, in such a world.
Published(stock, d) == Select(UNION {ToSet(rows) : rows \in eventWorld.market[d]}, stock)

\* The row limit cuts nothing off: whatever the queries by stock return, a
\* share_float partition has every row of its stock, across the pages, the
\* caches, kills and restarts; and when the provider changes its mind, stocks
\* that went through the fallback still agree on one version of each day.
NoEventIsCutOff ==
    \A p \in EventParts : (p.source = "share_float" /\ answered[p] # Missing) =>
        /\ Stable => eventPartition[p] = UNION {Published(p.stock, d) : d \in Covered}
        /\ answered[p].mode = "fallback" =>
             eventPartition[p] = UNION {Select(marketDays[d], p.stock) : d \in {e \in Covered : e >= ListedOn[p.stock]}}

\* No correction is silent: a row whose first announcement day was removed has
\* an artifact that shows the original, and nothing else about it has changed.
CorrectionsAreOnRecord ==
    \A p \in EventParts : (p.source = "forecast" /\ answered[p] # Missing) =>
        /\ eventPartition[p] = {Sanitized(row) : row \in answered[p].rows}
        /\ {row \in answered[p].rows : row.late} \subseteq anomalies

\* A pack that has its manifest is one the next start accepts.
EventPackVerifies == eventManifest # Missing => EventVerified

\* What the caches hold agrees with the days they were selected from, and the
\* audit of a finished partition counts the files that are there, so that no
\* sequence of kills makes the quality report refuse it.
EventTypeOK ==
    /\ \A s \in Stocks, d \in Covered :
         symbolDays[s][d] # Missing =>
             IF d < ListedOn[s] THEN symbolDays[s][d] = {}
             ELSE marketDays[d] # Missing /\ symbolDays[s][d] = Select(marketDays[d], s)
    /\ \A d \in Covered : collector.memory[d] \in {Missing, marketDays[d]}
    /\ \A p \in EventParts : (p.source = "share_float" /\ Present(p) /\ audits[p.stock] # Missing) =>
         audits[p.stock].files = CachedDays(p.stock)

\* Parts are held once and sealed as they are.
EventPack == INSTANCE StagedCollection
    WITH Parts <- EventParts,
         held <- eventPartition,
         sealed <- IF eventManifest = Missing THEN Missing ELSE eventManifest.data
EventsRefineStaged == EventPack!Spec

\* What can keep the pack from being sealed: another market snapshot owns the
\* directory, or the provider may answer with what is refused.
EventsBlocked ==
    \/ eventRequest # Missing /\ eventRequest.market # OwnMarket
    \/ eventWorld.ignoresOffset
    \/ \E p \in EventParts : ~Present(p) /\ \E answer \in eventWorld.answers[p] :
         /\ ~(p.source = "share_float" /\ Untrusted(p.stock, answer))
         /\ PartitionRefuses(p, ToSet(answer)) \/ CutOff(p.source, answer)
    \/ \E d \in Covered : \E rows \in eventWorld.market[d] :
         Len(rows) >= MaxPages * PageLimit \/ \E i \in 1..Len(rows) : rows[i].ann # d
    \/ \E d \in Covered : Cardinality(eventWorld.market[d]) > 1
=============================================================================
