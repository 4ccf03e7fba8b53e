------------------------ MODULE AllMarketCollection ------------------------
(***************************************************************************)
(* The resumable collection of the history of all A shares, and what is    *)
(* made of it offline                                                      *)
(* (app/providers/tushare_all_market_history.py, with the suspension rules *)
(* of app/providers/tushare_normalize.py).                                 *)
(*                                                                         *)
(* A gatherer stages reference tables, then a partition per API and open   *)
(* day, page by page, then explains the gaps: a listed stock without a bar *)
(* on a target day that has no full-day suspension either needs a legacy   *)
(* suspension interval, and a close from before it.  Then come the index   *)
(* tables, the quality report and the manifest.  A sealed collection that  *)
(* is started again is verified, walked over and sealed once more.         *)
(*                                                                         *)
(* Some tables are staged before they are looked at closely: what a        *)
(* restart finds there is not asked for again.  The gatherer may be killed *)
(* between two file writes, the provider may change its answers, between   *)
(* pages as well, and an incomplete attempt of an earlier version may have *)
(* left an interval file.  Days are indices of the trading calendar.       *)
(***************************************************************************)
EXTENDS StagingFiles, Integers, SequencesExt

CONSTANTS
    OwnScope,       \* the request of this collection
    Scopes,         \* the requests gatherers are started with
    Listing,        \* stock_basic: per stock, listed from a day until another
    FirstTarget,    \* first day of the requested range; those before warm up
    LastTarget,
    WarmUp,         \* days of liquidity history before the range, 19 in the code
    DayPageLimit,   \* rows of a page
    DayPages,       \* bound on the pages that are told apart
    MarketWorlds,   \* what the provider may answer
    LeftIntervals   \* what an earlier attempt may have left as intervals

SourceHistory == {"daily", "adj_factor", "suspend_d"}
References == <<"trade_cal", "stock_basic", "namechange", "index_daily", "index_global">>
TableNames == {References[i] : i \in DOMAIN References}
Indices == {"index_daily", "index_global"}

SourceDays == 1..LastTarget
TargetDays == FirstTarget..LastTarget

\* API by API, day by day; the days of three APIs start before the range.
ApiWalk(api) ==
    LET first == IF api \in SourceHistory THEN 1 ELSE FirstTarget
    IN [i \in 1..(LastTarget + 1 - first) |-> [api |-> api, day |-> first + i - 1]]
DayWalk ==
    ApiWalk("daily") \o ApiWalk("adj_factor") \o ApiWalk("daily_basic")
        \o ApiWalk("stk_limit") \o ApiWalk("suspend_d")
DayParts == {DayWalk[i] : i \in DOMAIN DayWalk}
Table(name) == [api |-> name, day |-> 0]
Files == DayParts \cup {Table(name) : name \in TableNames}

ASSUME MarketConstants ==
    /\ OwnScope \in Scopes /\ Missing \notin Scopes
    /\ \A s \in DOMAIN Listing : Listing[s].from \in Nat /\ Listing[s].until \in Nat
    /\ LastTarget \in Nat /\ FirstTarget \in 1..LastTarget /\ WarmUp \in 0..(FirstTarget - 1)
    /\ DayPageLimit \in Nat \ {0} /\ DayPages \in Nat \ {0}
    /\ Missing \notin {"good", "unusable"}

\* A world: per reference table "good", "refused" (before it is staged) or
\* "unusable" (after); per day partition its rows; per stock its legacy
\* intervals and the days of its earlier bars; whether offsets are ignored.
\* A row has its stock, day and, in suspend_d, its timing.
ASSUME MarketAnswers ==
    \A w \in MarketWorlds :
        /\ \A r \in TableNames : w.tables[r] \subseteq {"good", "refused", "unusable"}
        /\ \A r \in Indices : "unusable" \notin w.tables[r]
        /\ DOMAIN w.rows = DayParts
        /\ \A p \in DayParts : \A rows \in w.rows[p] : rows \in Seq(ToSet(rows))
        /\ \A s \in DOMAIN Listing : \A days \in w.earlier[s] : days \subseteq Nat

VARIABLES
    marketWorld,
    marketRequest,  \* collection_request.json
    files,          \* reference/<table>.parquet, partitions/<api>/<day>.parquet
    intervals,      \* reference/suspend_intervals.parquet
    seeds,          \* reference/suspend_seed_daily.parquet
    marketQuality,  \* quality_report.json
    marketManifest, \* collection_manifest.json
    gatherer,
    materialized,   \* daily bars of the snapshot made of the collection
    marketKills

marketSeals == <<marketQuality, marketManifest>>
marketFrame == <<marketWorld, materialized, marketKills>>
marketVars == <<marketFrame, marketRequest, files, intervals, seeds, marketSeals, gatherer>>

GathererOff == [pc |-> "off", at |-> 1, rows |-> << >>]

-----------------------------------------------------------------------------
(* Stocks, days and gaps *)

\* select_historical_a_share
Chosen == {s \in DOMAIN Listing : Listing[s].from =< LastTarget /\ Listing[s].until > FirstTarget}
IsListed(s, d) == Listing[s].from =< d /\ d < Listing[s].until
ListedDays(days) == {m \in Chosen \X days : IsListed(m[1], m[2])}

StocksIn(api, d) == {row.stock : row \in files[[api |-> api, day |-> d]]}
Quoted(days) == {m \in Chosen \X days : m[1] \in StocksIn("daily", m[2])}

\* _full_day_suspends: a suspension of part of a day is none.
FullDay(days) ==
    {m \in Chosen \X days : \E row \in files[[api |-> "suspend_d", day |-> m[2]]] :
        row.stock = m[1] /\ row.timing = "full"}

\* _unknown_active_gaps
Gaps == ListedDays(TargetDays) \ (Quoted(TargetDays) \cup FullDay(TargetDays))
GapStocks == {m[1] : m \in Gaps}

\* An interval without a resume date (0) goes on for ever.
Spans(i, m) == i.stock = m[1] /\ i.from =< m[2] /\ (i.resume = 0 \/ m[2] < i.resume)
InInterval(days) == {m \in Chosen \X days : \E i \in intervals : Spans(i, m)}

\* _assert_intervals_cover_unknown_gaps; GapStocksHaveIntervals would be content
\* with any interval of the stock.
GapStocksHaveIntervals == intervals # {} /\ \A s \in GapStocks : \E i \in intervals : i.stock = s
IntervalsCoverGaps == intervals # {} /\ Gaps \subseteq InInterval(TargetDays)

\* _validate_day_partition, and the repeated keys _query_paginated_day refuses
MustTrade == {"daily", "adj_factor", "daily_basic", "stk_limit"}
DayPartitionOK(p, rows) ==
    /\ rows = {} => p.api \notin MustTrade
    /\ \A row \in rows : row.day = p.day
RepeatedKeys(rows) == ~IsInjective([i \in DOMAIN rows |-> [stock |-> rows[i].stock, day |-> rows[i].day]])
ChosenRows(rows) == {row \in ToSet(rows) : row.stock \in Chosen}

-----------------------------------------------------------------------------
(* What is computed from the staging directory *)

MarketFiles == [files |-> files, intervals |-> intervals, seeds |-> seeds]
MarketReport == [stocks |-> Chosen, partitions |-> {p \in DayParts : files[p] # Missing}]

\* _verify_collection_manifest
MarketVerified ==
    /\ marketManifest.request = marketRequest
    /\ marketManifest.data = MarketFiles
    /\ marketManifest.quality = marketQuality

-----------------------------------------------------------------------------
(* collect_tushare_all_a_share_history *)

\* An error ends the run.
GiveUp == gatherer' = GathererOff
GoTo(pc, at) == gatherer' = [pc |-> pc, at |-> at, rows |-> << >>]

\* The request is compared with the one on disk, or written; a manifest that is
\* there must verify, and everything is gone through again.
StartMarket(scope) ==
    /\ gatherer.pc = "off"
    /\ IF marketRequest \in {Missing, scope}
       THEN /\ marketRequest' = scope
            /\ IF marketManifest = Missing \/ MarketVerified THEN GoTo("tables", 1) ELSE GiveUp
       ELSE GiveUp /\ UNCHANGED marketRequest
    /\ UNCHANGED <<marketFrame, files, intervals, seeds, marketSeals>>

\* The tables before the days, and the two of the indices after them.
AfterTable ==
    CASE gatherer.at = 3 -> GoTo("days", 1)
      [] gatherer.at = Len(References) -> GoTo("quality", 1)
      [] OTHER -> GoTo("tables", gatherer.at + 1)

\* One that is staged is used as it is, whoever could ask again.
ReuseTable ==
    LET table == Table(References[gatherer.at]) IN
    /\ gatherer.pc = "tables"
    /\ files[table] # Missing
    /\ IF files[table] = "good" THEN AfterTable ELSE GiveUp
    /\ UNCHANGED <<marketFrame, marketRequest, files, intervals, seeds, marketSeals>>

\* A namechange table, a calendar without a day of the range and a stock_basic
\* no stock can be selected from are staged before they end the run.
StageTable ==
    LET table == Table(References[gatherer.at]) IN
    /\ gatherer.pc = "tables"
    /\ files[table] = Missing
    /\ \E answer \in marketWorld.tables[table.api] :
         /\ files' = IF answer = "refused" THEN files ELSE [files EXCEPT ![table] = answer]
         /\ IF answer = "good" THEN AfterTable ELSE GiveUp
    /\ UNCHANGED <<marketFrame, marketRequest, intervals, seeds, marketSeals>>

AtDay == DayWalk[gatherer.at]
OverDays == gatherer.pc = "days" /\ gatherer.at =< Len(DayWalk)
AfterDay == GoTo("days", gatherer.at + 1)

\* A file is there whether it has rows or not.
ReuseDay ==
    /\ OverDays
    /\ files[AtDay] # Missing
    /\ IF DayPartitionOK(AtDay, files[AtDay]) THEN AfterDay ELSE GiveUp
    /\ UNCHANGED <<marketFrame, marketRequest, files, intervals, seeds, marketSeals>>

\* _query_paginated_day: an empty or a short page is the last, and the rows so
\* far are the next offset.  Where offsets are ignored nothing bounds the full
\* pages; from DayPages on they are not told apart.
DayPage(rows, offset) == SubSeq(rows, offset + 1, Min({Len(rows), offset + DayPageLimit}))
FetchDayPage ==
    LET offset == IF marketWorld.ignoresOffset THEN 0 ELSE Len(gatherer.rows) IN
    /\ OverDays
    /\ files[AtDay] = Missing
    /\ \E rows \in marketWorld.rows[AtDay] :
         LET page == DayPage(rows, offset) IN
         gatherer' = [gatherer EXCEPT
             !.rows = IF marketWorld.ignoresOffset /\ Len(@) >= DayPages * DayPageLimit THEN @ ELSE @ \o page,
             !.pc = IF Len(page) < DayPageLimit THEN "paged" ELSE @]
    /\ UNCHANGED <<marketFrame, marketRequest, files, intervals, seeds, marketSeals>>

WriteDay ==
    /\ gatherer.pc = "paged"
    /\ IF RepeatedKeys(gatherer.rows) \/ ~DayPartitionOK(AtDay, ChosenRows(gatherer.rows))
       THEN GiveUp /\ UNCHANGED files
       ELSE files' = [files EXCEPT ![AtDay] = ChosenRows(gatherer.rows)] /\ AfterDay
    /\ UNCHANGED <<marketFrame, marketRequest, intervals, seeds, marketSeals>>

-----------------------------------------------------------------------------
(* _collect_legacy_suspend_fallback *)

DaysDone == gatherer.pc = "days" /\ gatherer.at > Len(DayWalk)

\* Without gaps, intervals of an earlier attempt are overwritten by none.
DropIntervals ==
    /\ DaysDone
    /\ Gaps = {}
    /\ intervals' = {}
    /\ GoTo("tables", 4)
    /\ UNCHANGED <<marketFrame, marketRequest, files, seeds, marketSeals>>

\* The intervals of the stocks with gaps are asked for one by one and staged in
\* one file, before they are compared with the gaps.
StageIntervals ==
    /\ DaysDone
    /\ Gaps # {}
    /\ intervals = Missing
    /\ \E answer \in [GapStocks -> UNION {marketWorld.legacy[s] : s \in GapStocks}] :
         /\ \A s \in GapStocks : answer[s] \in marketWorld.legacy[s]
         /\ intervals' = UNION {answer[s] : s \in GapStocks}
    /\ UNCHANGED <<marketFrame, marketRequest, files, seeds, marketSeals, gatherer>>

CheckIntervals ==
    /\ DaysDone
    /\ Gaps # {}
    /\ intervals # Missing
    /\ IF IntervalsCoverGaps
       THEN IF seeds = Missing THEN GoTo("seeding", 1) ELSE GoTo("tables", 4)
       ELSE GiveUp
    /\ UNCHANGED <<marketFrame, marketRequest, files, intervals, seeds, marketSeals>>

\* Bars from before the first gap of each stock, in one file.
EarlierBars(s) == {{d \in days : \A m \in Gaps : m[1] = s => d < m[2]} : days \in marketWorld.earlier[s]}
StageSeeds ==
    /\ gatherer.pc = "seeding"
    /\ \E answer \in [GapStocks -> UNION {EarlierBars(s) : s \in GapStocks}] :
         /\ \A s \in GapStocks : answer[s] \in EarlierBars(s)
         /\ IF \E s \in GapStocks : answer[s] = {}
            THEN GiveUp /\ UNCHANGED seeds
            ELSE seeds' = UNION {{s} \X answer[s] : s \in GapStocks} /\ GoTo("tables", 4)
    /\ UNCHANGED <<marketFrame, marketRequest, files, intervals, marketSeals>>

-----------------------------------------------------------------------------
(* The seal *)

WriteMarketQuality ==
    /\ gatherer.pc = "quality"
    /\ IF MarketReport.partitions = DayParts
       THEN marketQuality' = MarketReport /\ GoTo("manifest", 1)
       ELSE GiveUp /\ UNCHANGED marketQuality
    /\ UNCHANGED <<marketFrame, marketRequest, files, intervals, seeds, marketManifest>>

WriteMarketManifest ==
    /\ gatherer.pc = "manifest"
    /\ \E instant \in Instants :
         marketManifest' = [request |-> marketRequest, data |-> MarketFiles, quality |-> marketQuality, at |-> instant]
    /\ GiveUp
    /\ UNCHANGED <<marketFrame, marketRequest, files, intervals, seeds, marketQuality>>

KillGatherer ==
    /\ gatherer.pc # "off"
    /\ marketKills < MaxKills
    /\ marketKills' = marketKills + 1
    /\ GiveUp
    /\ UNCHANGED <<marketWorld, materialized, marketRequest, files, intervals, seeds, marketSeals>>

-----------------------------------------------------------------------------
(* materialize_tushare_all_a_share_history *)

\* Bars of the partitions, and the seeds where those have none.
WithSeeds == Quoted(SourceDays) \cup (IF seeds = Missing THEN {} ELSE seeds)

Suspended(days) == FullDay(days) \cup InInterval(days)
Synthesized == (ListedDays(TargetDays) \cap Suspended(TargetDays)) \ WithSeeds

\* A synthesized bar needs a close from before it, of a bar or a seed, or the
\* official one of the first day, and a factor of an earlier day or its own; which
\* close it repeats is left out.
CanSynthesize(m) ==
    /\ \E d \in 0..m[2] :
         \/ d < m[2] /\ <<m[1], d>> \in WithSeeds /\ (d < FirstTarget \/ IsListed(m[1], d))
         \/ <<m[1], d>> \in Synthesized /\ m[1] \in StocksIn("stk_limit", d)
    /\ \E d \in 1..m[2] : m[1] \in StocksIn("adj_factor", d)

\* normalize_tushare: every listed day has a bar, real or synthesized, and a real
\* one has its row in the other tables.
Normalizes ==
    /\ ListedDays(TargetDays) \subseteq WithSeeds \cup Synthesized
    /\ \A m \in WithSeeds \cap ListedDays(TargetDays) :
         \A api \in {"daily_basic", "stk_limit", "adj_factor"} : m[1] \in StocksIn(api, m[2])
    /\ \A m \in Synthesized : CanSynthesize(m)

\* _liquidity_amount_history: the days before the range, for which no gaps were
\* looked for, must be known as well.
WarmUpKnown ==
    LET days == (FirstTarget - WarmUp)..(FirstTarget - 1)
    IN ListedDays(days) \subseteq WithSeeds \cup Suspended(days)

\* An operator may do this at any time; the import of the result is that of
\* SnapshotPublication.  is_suspended comes from the records of suspensions,
\* whether the stock traded or not.
Materialize ==
    /\ materialized = Missing
    /\ marketManifest # Missing
    /\ MarketVerified
    /\ Normalizes /\ WarmUpKnown
    /\ materialized' = [traded |-> WithSeeds \cap ListedDays(TargetDays),
                        suspended |-> Suspended(TargetDays) \cap ListedDays(TargetDays)]
    /\ UNCHANGED <<marketWorld, marketKills, marketRequest, files, intervals, seeds, marketSeals, gatherer>>

-----------------------------------------------------------------------------

MarketInit ==
    /\ marketWorld \in MarketWorlds
    /\ marketRequest = Missing
    /\ files = [f \in Files |-> Missing]
    /\ intervals \in LeftIntervals
    /\ seeds = Missing
    /\ marketQuality = Missing /\ marketManifest = Missing
    /\ gatherer = GathererOff
    /\ materialized = Missing
    /\ marketKills = 0

GathererStep ==
    \/ ReuseTable \/ StageTable
    \/ ReuseDay \/ FetchDayPage \/ WriteDay
    \/ DropIntervals \/ StageIntervals \/ CheckIntervals \/ StageSeeds
    \/ WriteMarketQuality \/ WriteMarketManifest

MarketNext ==
    \/ \E scope \in Scopes : StartMarket(scope)
    \/ GathererStep
    \/ KillGatherer
    \/ Materialize

MarketSpec == MarketInit /\ [][MarketNext]_marketVars

-----------------------------------------------------------------------------
(* Properties *)

\* A sealed collection is one the next start and the materialization accept, at
\* every step of a run that seals it again and after every kill of one.
MarketPackVerifies == marketManifest # Missing => MarketVerified

\* No gap is sealed that an official interval does not span, or without a close
\* from before it, whatever was staged by runs that failed; and an interval that
\* an earlier attempt left behind is gone when nothing needs it, so that a stock
\* that traded is not made a suspended one.
GapsHaveIntervals ==
    marketManifest # Missing => \A m \in Gaps : \E i \in intervals : Spans(i, m)
GapsHaveSeeds ==
    marketManifest # Missing => \A m \in Gaps : \E d \in 0..(m[2] - 1) : <<m[1], d>> \in seeds
TradersAreNotSuspended ==
    materialized # Missing /\ Gaps = {} =>
        materialized.traded \cap materialized.suspended \subseteq FullDay(TargetDays)
GapsAreExplained == GapsHaveIntervals /\ GapsHaveSeeds /\ TradersAreNotSuspended

\* Across pages, kills and restarts a day has every row of a provider that keeps
\* to its answers, and only rows of its day.
NoDayIsCutOff ==
    \A p \in DayParts : files[p] # Missing =>
        /\ \A row \in files[p] : row.day = p.day
        /\ \A rows \in marketWorld.rows[p] :
             marketWorld.rows[p] = {rows} /\ ~marketWorld.ignoresOffset => files[p] = ChosenRows(rows)

\* What the quality report and a snapshot say agrees with what is on disk.
MarketTypeOK ==
    /\ \A t \in TableNames : files[Table(t)] \in {Missing, "good", "unusable"}
    /\ marketQuality # Missing => marketQuality = MarketReport
    /\ gatherer.pc \in {"paged", "seeding", "quality", "manifest"} => \A t \in TableNames \ Indices : files[Table(t)] = "good"
    /\ materialized # Missing => materialized.traded \cup materialized.suspended = ListedDays(TargetDays)

\* The tables and day files are held once and sealed as they are.
MarketPack == INSTANCE StagedCollection
    WITH Parts <- Files,
         held <- files,
         sealed <- IF marketManifest = Missing THEN Missing ELSE marketManifest.data.files
MarketRefinesStaged == MarketPack!Spec

\* What can keep the collection from being sealed: another request owns the
\* directory; a table, or intervals, that ended a run were staged by it; or the
\* provider may answer with what is refused, or never with a last page.
MarketBlocked ==
    \/ marketRequest \notin {Missing, OwnScope}
    \/ marketWorld.ignoresOffset
    \/ \E t \in TableNames :
         files[Table(t)] = "unusable" \/ (files[Table(t)] = Missing /\ marketWorld.tables[t] # {"good"})
    \/ \E p \in DayParts : files[p] = Missing /\
         \/ Cardinality(marketWorld.rows[p]) > 1
         \/ \E rows \in marketWorld.rows[p] : RepeatedKeys(rows) \/ ~DayPartitionOK(p, ChosenRows(rows))
    \/ /\ \A p \in DayParts : files[p] # Missing
       /\ Gaps # {}
       /\ \/ intervals # Missing /\ ~IntervalsCoverGaps
          \/ seeds = Missing /\ \E s \in GapStocks : {} \in EarlierBars(s)
=============================================================================
