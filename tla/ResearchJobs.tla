---------------------------- MODULE ResearchJobs ----------------------------
(***************************************************************************)
(* The jobs of the research side on one sheet: the collections of the      *)
(* negative list, of the events and of the whole market, the ledger of     *)
(* shadow observations, and the two replays of the layer-one rules over    *)
(* the history of the index.  They have directories of their own and share *)
(* no state, so a history is about one of them.                            *)
(***************************************************************************)
EXTENDS NegativeListCollection, EventCollection, AllMarketCollection, ShadowObservation, LayerOneHistory

VARIABLE job            \* the job this history is about

vars == <<job, negativeVars, eventVars, marketVars, shadowVars, historyVars>>

Init ==
    /\ job \in {"negative", "events", "market", "shadow", "replay"}
    /\ NegativeInit /\ EventInit /\ MarketInit /\ ShadowInit /\ HistoryInit
    /\ job # "events" => eventWorld = CHOOSE w \in EventWorlds : TRUE
    /\ job # "events" => eventRequest = Missing
    /\ job # "market" => marketWorld = (CHOOSE w \in MarketWorlds : TRUE) /\ intervals = Missing
    /\ job # "negative" => world = CHOOSE w \in Worlds : TRUE
    /\ job # "replay" => slippage = (CHOOSE s \in Slippages : TRUE) /\ weekday = 1

OnNegative(A) == job = "negative" /\ A /\ UNCHANGED <<job, eventVars, marketVars, shadowVars, historyVars>>
OnEvents(A) == job = "events" /\ A /\ UNCHANGED <<job, negativeVars, marketVars, shadowVars, historyVars>>
OnMarket(A) == job = "market" /\ A /\ UNCHANGED <<job, negativeVars, eventVars, shadowVars, historyVars>>
OnShadow(A) == job = "shadow" /\ A /\ UNCHANGED <<job, negativeVars, eventVars, marketVars, historyVars>>
OnReplay(A) == job = "replay" /\ A /\ UNCHANGED <<job, negativeVars, eventVars, marketVars, shadowVars>>

Next ==
    \/ OnNegative(NegativeNext)
    \/ OnEvents(EventNext)
    \/ OnMarket(MarketNext)
    \/ OnShadow(ShadowNext)
    \/ OnReplay(HistoryNext)

\* A collector that runs goes on, and the operator starts it again while the
\* collection is not sealed.
Fairness ==
    /\ WF_vars(OnNegative(WorkerStep)) /\ WF_vars(OnNegative(OpenStaging(Own)))
    /\ WF_vars(OnEvents(CollectorStep)) /\ WF_vars(OnEvents(StartEvents(OwnMarket)))
    /\ WF_vars(OnMarket(GathererStep)) /\ WF_vars(OnMarket(StartMarket(OwnScope)))

Spec == Init /\ [][Next]_vars /\ Fairness

-----------------------------------------------------------------------------

\* The types of each collection's files and of what its process has in memory,
\* and of the accounts of the replays.
JobsTypeOK == CollectionTypeOK /\ EventTypeOK /\ MarketTypeOK /\ ShadowTypeOK /\ HistoryTypeOK

\* Whatever kills and changed answers went before, what a collector has sealed
\* or recorded is what its own verifier computes again from the files; and the
\* market is not sealed with a day of a stock that nothing explains.
WhatIsSealedVerifies ==
    SealedMeansVerified /\ EventPackVerifies /\ MarketPackVerifies /\ GapsAreExplained /\ ChainVerifies

\* Limits of rows and pages cut nothing off: not from a stock's share_float, not
\* from a day of the market.
NothingIsCutOff == NoEventIsCutOff /\ NoDayIsCutOff

\* Each collector implements what it promises: parts held once and sealed as
\* they are held (StagedCollection), a log that only grows (AppendOnlyLog).
CollectionsKeepTheirPromise == RefinesStaged /\ EventsRefineStaged /\ MarketRefinesStaged /\ RefinesLog

\* A collection that is started again after every error and kill ends sealed,
\* unless something blocks it that no restart removes (the collectors'
\* docstrings call them resumable).
SealedUnlessBlocked ==
    <>[](CASE job = "negative" -> manifest # Missing \/ Blocked
           [] job = "events" -> eventManifest # Missing \/ EventsBlocked
           [] job = "market" -> marketManifest # Missing \/ MarketBlocked
           [] job \in {"shadow", "replay"} -> TRUE)
=============================================================================
