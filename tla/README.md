# A verification of the stateful core of ai-quant-research

The repository is a research system for A-share strategies: it imports market
snapshots, scores and ranks stocks, backtests strategies, keeps the evidence of
out-of-sample evaluations, and records the decisions of a two-layer allocation
under a manually authorized risk budget. This directory holds TLA+ models of
the parts whose correctness depends on sequences of operations, the TLC
configurations that check them, and TLAPS proofs about them. Paths below are
relative to the root of the repository.

## 1. Inventory

| component | state it keeps | operations | what is hard | what makes it correct |
|---|---|---|---|---|
| Layer-one regime engine `src/app/research/layer_one_regime.py` | none: the prior state is an argument | evaluate one target day | thresholds, cooling count, precedence of trigger over unlock, deferred raises | budget within the ceiling, lock released only when earned, no raise within a week |
| Layer-one risk-state store `src/app/research/layer_one_persistence.py`, `src/app/persistence/` | current row, audit chain, authorization, evidence and unlock rows in a SQL database | initialize, register evidence, authorize ceiling, submit unlock, commit decision; read state, list audits | concurrent sessions that read first and write later, lost replies and retries, stale rows, a verifier that never repairs | operations act as if alone, retries take effect once, the store stays readable |
| Risk-state API `src/app/api/layer_one.py` | none | HTTP endpoints over the store | a new store per request, so no lock in the process | as the store |
| Backtest engine `src/app/backtest/` | cash, positions, pending orders, cooldowns, audit | per day: fill, exit, order | deferral over days, slots, halts and price limits, horizon and cooldown at the end of the calendar | nothing is lost silently, cash reconciles, exits keep T+1 and the horizon |
| Snapshot storage `src/app/storage/` | directories of parquet files and manifests | import, open, query | a publication of two renames with an error handler, crashes, concurrent importers, queries that read the path again | no snapshot is lost, a gap closes, what is opened is whole |
| Event, fundamental and ownership overlays `src/app/storage/import_*.py` | directories as above | import, load | as above, line for line | as above |
| Resumable collectors `src/app/providers/tushare_*collection.py`, `tushare_all_market_history.py` | a staging directory: request, tables, partitions, caches, receipts, audits, manifests | collect, resume, seal, verify, materialize | kills between any two files, answers that change, pages and row limits, quarantine, gaps that need an explanation | what is sealed is complete, of one request, and verifies; a restarted collection ends; no day of a stock is missing unexplained |
| Universe, features, scoring, strategies, ranking | none | functions of tables | point-in-time joins | no look-ahead |
| Out-of-sample evaluation `src/app/research/portfolio_oos_*.py`, `event_candidate_oos_*.py` | authorization, output directory, consumption receipt | authorize, evaluate once, verify | two renames, a crash between them, two runs, imports while it runs | evaluated at most once, a receipt for each output, results of the named snapshot |
| Shadow observation `src/app/research/index_shadow_*.py` | raw quotes and records in a hash chain | weekly and boundary runs, verify | kills between files, quotes of different times, boundaries of a year | an append-only chain, one record per day and boundary |
| Layer-one historical validation and recovery `src/app/research/layer_one_historical_validation.py`, `layer_one_recovery_counterfactual.py` | an account and its lock, day by day | replay a history, build a report | rules of the engine written again, locks that last for ever in cash, epochs of risk capital | the replays decide as the engine does, losses of an old epoch lock nothing |
| Layer-two allocator, schedules and lifecycle `src/app/research/layer_two_stateful_allocator.py`, `layer_two_longitudinal_state_transitions.py`, ... | sealed JSON reports passed from step to step: cash, tranches, positions | plan phases, allocate, enter, hold, exit, string together | long sequences, deferred exits, constraints carried between days, bound and unbound files | tranches rest, sleeve and sales are as the rules say |
| Layer-two contracts, freezes, ledgers, statistics | sealed JSON files | build, validate | - | validators agree with builders |
| CLI, frontend, demo, scripts | none | - | - | - |

How they interact: the API creates a store per request over one database, so
the database is the only thing callers share. The store evaluates a decision's
report through the regime engine again before it accepts it. The backtest
engine calls scoring and the market store (which implement the ranking and the
calendar) and shares nothing with the layer-one store. Collectors write staging
directories that the importers publish; loaders, the backtest and the
evaluations read the published directories. An evaluation and an importer share
the path of a snapshot and nothing that would lock it. The layer-two reports
are handed on by their caller and are recomputed from the files they name.

Every component is listed in `PROJECT.json`, with the hazards of this code at
the line where each bites and the properties that cover it.

## 2. Modules

    LayerOneRegime                the evaluation as operators, no variables
      ^ LayerOneLedger            the store as an atomic ledger (the promise)
          ^ LayerOneLedger_proofs   theorems about the ledger
          ^ MCLayerOneLedger        instances for TLC
          ^ LayerOneStore         the store as concurrent sessions
              ^ LayerOneStore_proofs  refinement and what follows from it
              ^ MCLayerOneStore       instances for TLC
    Backtest                      the day loop of the backtest engine
      ^ Backtest_proofs           theorems about every backtest
      ^ MCBacktest                instances for TLC
    SnapshotPublication           importers and readers of a snapshot's directory
      ^ OneShotEvaluation         evaluators between them; implements OneShotAuthorization
          ^ OneShotEvaluation_proofs
          ^ MCOneShotEvaluation
    StagingFiles                  what staging directories have in common
      ^ NegativeListCollection    implements StagedCollection
      ^ EventCollection           implements StagedCollection
      ^ AllMarketCollection       implements StagedCollection
          ^ AllMarketCollection_proofs
      ^ ShadowObservation         implements AppendOnlyLog
    LayerOneHistory               two replays of the layer-one rules; instantiates LayerOneRegime
      ^ LayerOneHistory_proofs
      ^ MCLayerOneHistory
    ResearchJobs                  the four of StagingFiles and the replays, for one run
      ^ ResearchJobs_proofs       also the negative list, the events and the observations
      ^ MCResearchJobs
    LayerTwoTranches              layer two from the phase schedule to the carried tranches
      ^ LayerTwoTranches_proofs
      ^ MCLayerTwoTranches

(`^` means "is extended by".)

### LayerOneRegime

`evaluate_layer_one_regime` with the functions it calls. Ratios, volatilities,
drawdowns and budgets are integers in basis points, with the thresholds of the
code. Market days are numbered and `WeekStarts` are the days that open their
ISO week. Of the lock's conditions, `UnlockRejections` lists those the code
collects, except the confirmation flag, which the store requires of every
request beforehand. The minimum cooling (20 days in the code) is the constant
`CoolingDays`.

### LayerOneLedger

The abstract specification of the store: each action is one operation that
reads, checks and writes at one instant.

| TLA+ | code |
|---|---|
| `current` | the row of `LayerOneCurrentState` |
| `audits` | `LayerOneAuditRecord` by `sequence_no`, each with the specialized row bound to it |
| `consumedBy` | `consumed`, `consumed_by_decision_id` of the unlock rows, the only mutable ones |
| `Initialize`, `RegisterDeploymentEvidence`, `AuthorizeManualCeiling`, `SubmitUnlockRequest`, `CommitDecision` | the methods of those names |
| `Accepted`, `UpgradeAllowed`, ... | their guards |
| `RowAfter`, `AuditOf`, `ConsumedAfter` | what they write |
| `Integrity` | `verify_storage_integrity` |

Hashes are modelled by identity: an audit's id is its position, two states have
the same id when they are equal, two requests the same digest when they are
equal. Two things hashing does here are modelled by what they do, because
something depends on them: an unlock request is sealed over the instant as it
was written and verified from the instant in UTC, and instants are stored as
ISO texts and compared as texts (`IsoTextAtLeast`). Instants are numbers,
`TicksPerDay` to a day; in the comparison of texts two make a second, the odd
one with a fraction. `MinStage` stands for three months. What a
request must pass before the ledger is read (confirmed, right contracts, not in
the future) says which requests exist.

### LayerOneStore

The same operations as sessions of several clients. A session reads the current
row, then the audits, then the specialized rows, verifies them, looks for an
idempotent replay, applies the guards, writes in one transaction with a
compare-and-swap, and answers. Other sessions run between any two of these
steps, which is what SQLite does with this engine configuration: every SELECT
sees what is committed when it runs, and the transaction opens at the first
write. `Abandon` ends a session anywhere: the process stops, the database stays
locked, or the reply is lost after the commit; the client may then send the
same request again. `Submit` and `Abandon` stand for callers and are external.
Every operation runs through the same steps, so they are written once; the map
names the lines of `authorize_manual_ceiling` for most of them.

A reader that races a commit is refused with an integrity error although
nothing is broken (`ReadAudits`, `ReadSpecializedRows`): the model keeps this.

### Backtest

`BacktestEngine.run`. One day is `OpenDay` (the candidates and the equal-weight
target), `AttemptEntry` once per order, `EntriesDone`, `ManageExit` once per
position, and `GenerateOrders`; `Finish` expires what is left.

| TLA+ | code |
|---|---|
| `cash`, `positions`, `pending`, `cooldownUntil` | locals of `run` |
| `queue`, `target` | the slice and the allocation in `_execute_pending` |
| `unmanaged` | the rest of the loop in `_manage_exits` |
| `audit` | `SignalAttribution`, the counters of orders and blocked exits; the two reasons to block and the two to refuse an order are one counter each |
| `realized`, `lastExit` | the trades |
| `phase = "raised"` | a `ValueError` of a missing bar |

Bars, gates and rankings are whatever they may be: the picks of a signal day
are any sequence of distinct stocks that are neither held, pending nor cooling
down, as score, membership and correlation filters may remove any of them. Money is in integers
per lot of 100 shares and slippage is a tick, so the rounding of floats is left
out, and whether a stock opens at its limit is a fact of the bar. The positions
of a day are managed in any order; the code takes them in the order of the
dictionary, and no result depends on it. The list of candidates (`NotHeld`) is
a recursive function rather than `SelectSeq`, and sums over the stocks held are
`SumFunction`, as both can be expanded in proofs.

### SnapshotPublication

`write_snapshot_atomically` and the readers of what it writes. A directory is
renamed as a whole and never changed in place, so a snapshot is one value.

| TLA+ | code |
|---|---|
| `dest` | what stands at the path of the snapshot |
| `importer[i]` | local variables of `write_snapshot_atomically`: the step reached, the snapshot brought, the one moved aside (`backup`) |
| `LookAtDest`, `MoveAside`, `MoveIn`, `DropBackup` | the renames and the removal, in the order of the code |
| `OperationFails`, then `Restore`, `RescueLeavingBackup` or `RescueDroppingBackup` | its `except` branch: what was moved aside goes back if nothing stands at the path, and is removed otherwise |
| `orphans` | snapshots left in a directory moved aside by a process that is gone |
| `reader[r]` | a `DuckDbMarketStore`: the manifest and the tables it read when it was opened |

A crash may come between any two steps, and any rename may fail (`MaxFaults`).
Two importers may run at once: nothing in the code prevents it.

### OneShotEvaluation

`evaluate_portfolio_oos`: the unused check of output and receipt, opening the
authorized snapshot, the preflight, three backtest scenarios, the
classification by the gates, the output by one rename, the receipt by another,
and the read-only verifier. Each backtest queries the path again, so its
result is that of the snapshot that then stands there. `facts` says what the
data would make of each stage; a scenario passes its gates, misses some or
fails. `OneShotAuthorization` is the promise: consumed by one report that
nothing changes, acknowledged at most once by a receipt for that report.
`RefinesOneShot` instantiates it over `output` and `receipt`. The module
extends `SnapshotPublication`: evaluators are its readers, and an import may
fall between any two of their queries.

### StagingFiles, NegativeListCollection, EventCollection, StagedCollection

The collectors keep a staging directory in which each file is renamed into
place. A worker walks over the partitions, reuses what is on disk, asks for
the rest and seals at the end; it may be killed between any two files and
started again, and the provider may change its answer to a question between two times it is asked.

| TLA+ | code |
|---|---|
| `request`, `partition`, `receipts`, `sourceManifest`, `qualityReport`, `manifest` | the files of the negative list's staging directory |
| `Boundary`, `Kept`, `Quarantined` | `evaluate_response_boundary` on the three dates of a row |
| `eventPartition`, `audits`, `anomalies`, `marketDays`, `symbolDays` | partitions, query audits, anomaly receipts and the two day caches of the event collection |
| `worker`, `collector` | local variables of one process |
| `source`, `answered` | history: the answer a partition was built from |
| `SealedMeansVerified`, `EventPackVerifies` | the verifiers of the sealed packs, computed from the files alone |

Rows are a date or three and a key. Of the five event sources the model has the two with rules of their own:
`forecast`, whose impossible first announcement days are removed and kept as
anomalies, and `share_float`, whose answers at the row limit are replaced by
pages per day that all stocks share. `StagedCollection` is the promise of both:
each part is held once, with a content never replaced, and all are sealed once
as they are held.

### AllMarketCollection

`collect_tushare_all_a_share_history`, which stages reference tables, one
partition per API and open day, and then looks for gaps: a listed stock without
a bar on a target day on which it was not suspended all day. Gaps need a legacy
suspension interval that spans them and a bar from before them. Then come the
index tables, the quality report and the manifest; a sealed collection that is
started again is verified, walked over and sealed once more.
`materialize_tushare_all_a_share_history` makes a snapshot of it, by the rules of
`tushare_normalize.py` for suspended days.

| TLA+ | code |
|---|---|
| `marketRequest`, `files`, `intervals`, `seeds`, `marketQuality`, `marketManifest` | the files of the staging directory |
| `gatherer` | local variables of one process: the step, the table or partition of the turn, the pages fetched of it |
| `ReuseTable`, `StageTable` | `_collect_stock_basic`, `_collect_reference`, `_collect_namechange` |
| `FetchDayPage`, `WriteDay`, `ReuseDay` | `_query_paginated_day` and the loop over the partitions |
| `Gaps`, `IntervalsCoverGaps` | `_unknown_active_gaps`, `_assert_intervals_cover_unknown_gaps` |
| `DropIntervals`, `StageIntervals`, `CheckIntervals`, `StageSeeds` | `_collect_legacy_suspend_fallback` |
| `Normalizes`, `WarmUpKnown` | what `_normalize_daily` and `_liquidity_amount_history` refuse |
| `materialized` | which bars of the snapshot are from trading and which are marked suspended |

A table is good, refused before it is staged, or staged and refused then
(`unusable`): the last kind is what a restart finds again. A row has its stock,
its day and, for suspensions, whether it is one of the whole day. Of the prices
the model knows nothing.

### ShadowObservation, AppendOnlyLog

A run asks the exchange for the two quotes of a day, writes two raw files and
the day's record, which names the hashes of the raw files and its predecessor.
The weekly run names its day; the boundary runs (final week of a year, first
ten days of the next) take it from the answer. `shown` is the clock of the
exchange. A record's hash is the record itself: two records have the same hash
exactly when they are equal. `AppendOnlyLog` is the promise. One process writes
the ledger at a time; the deployment sees to that
(`docs/research/index-shadow-cloud-continuity-v1.md`, section 1) and the code
does not.

### LayerOneHistory

The day loops of the two replays over one market: `validated` is the account
of `_advance_path` (a lock is final), `recovered` that of `_advance` in the
counterfactual (a simulated confirmation releases it, with a new epoch of risk
capital and a first budget of at most 30%).

| TLA+ | code |
|---|---|
| `AdvanceValidated`, `StaysLocked` | `_advance_path`, `new_lock` |
| `AdvanceRecovered`, `DaysLocked`, `EligibleMarket`, `Confirms`, `EpochPeak` | `_advance`: `lock_start_index`, the eligibility of the week opening, the confirmation, `epoch_peak` |
| `MarketTarget` | `raw_market_target` of `_market_features` |
| `TradeCost`, `NextEquity` | `_trade_cost`, the return on the old budget and the costs of the new |
| `ReplayDay` | one turn of the loops of `_build_daily_path`, `_build_path` |

The index features of a day are any of `Features`, its return any of
`Returns`; money is in whole yuan, so a path is computed with rounding where
the code uses floats. `Engine` is an instance of `LayerOneRegime` with a
calendar of two days, one that opens a week and one that does not: the
properties compare the replays with the engine itself.

### LayerTwoTranches

One history from the phase schedule to the longitudinal report. A report is what
its recomputation gives, so what the caller hands in leaves a choice of rankings
and of events only.

| TLA+ | code |
|---|---|
| `SlotCount`, `Offset`, `HasTurn` | `layer_two_tranche_phase_schedule` |
| `StateAccepted`, `GatePassed`, `Admissible`, `Proposed` | `layer_two_constraint_assembler`, `layer_two_stateful_allocator`, `layer_two_allocation_protocol` |
| `Enter` | the next open in `layer_two_entry_execution_diagnostic`: a fill, or an order that lapses |
| `ExitClosed`, `ExitDeferred`, `ExitUnknown` | `layer_two_fixed_horizon_exit_diagnostic`: the first open day from the scheduled one on |
| `cash`, `positions`, `transitions` | the rows of `layer_two_longitudinal_state_transitions` |
| `bound` | whether the reports are verified against files |

## 3. Runs

All passing runs are exhaustive. Deadlock is checked in `research_jobs` and
`history_reentry` and nowhere else: the ledger stops at its quotas, the store at
its bound on sessions, a backtest and a layer-two history end, and an
evaluation is over when its evaluators, importers and faults are used up.

| run | question | instance | result |
|---|---|---|---|
| `ledger_ceiling` | Does the ceiling climb by earned rungs only? Can an accepted history break the verifier, or 9000 be authorized over a lock of the stage? | from the empty ledger (two evidence filings, two ceilings, a decision), from the 6000 stage (a ceiling, an unlock, two decisions), and from there with a cut to 3000, new evidence and another ceiling; whole seconds, UTC | holds |
| `ledger_week` | Budgets against authorizations, weeks and locks; the decision chain; earned releases | from the 3000 stage; four decisions on days of two weeks, two unlock requests, another ceiling | holds |
| `ledger_subsecond` | `ledger_ceiling`'s third property with a half second | from the 6000 stage, one odd instant | violated |
| `ledger_offset` | unlock requests written at another offset | offsets 0 and 1 | violated |
| `store_sessions` | Do concurrent sessions implement the ledger? Replays, receipts, stale guards | two clients, five sessions | holds |
| `store_receipt` | Is the first receipt the one a replay returns? | as above | violated |
| `backtest` | Orders, slots, cash, exits and cooldown over the window | 3 stocks, 5 days, 6 kinds of bar, three configurations | holds |
| `evaluation` | Is an authorization consumed once, whatever fails? Is a snapshot ever lost? Do gaps close? | two evaluators, two importers, two versions, one crash or failed operation anywhere | holds |
| `evaluation_swap` | Do verified results come from the snapshot they name? | one evaluator, one importer, two imports, no fault | violated |
| `research_jobs` | Do the collectors and the shadow ledger keep their promises and end sealed? Is no gap of the market sealed unexplained? Do the replays follow the engine, and do locks end? | two kills anywhere, changing answers; five worlds per collection, four kinds of market for the replays; 261,390 states | holds |
| `history_reentry` | Is the first budget after a lock at most 30%? | two kinds of market, two returns | violated |
| `tranches` | Do tranches rest, does the sleeve hold what it must, is each sale on its day? | 16 days, four stocks, four markets, three budgets, bound and unbound | holds |

Bounds, and why they are enough for the question asked:

- `Quota` bounds the audits per kind. A property of the ledger relates at most
  two authorizations, or a trigger, its release and an authorization, or two
  decisions and what lies between; each run's quotas hold one such situation
  with the requests it needs, and a second lock or ceiling where it matters
  (`ledger_week`). The broken guards of the mutants are all found within them.
  `MaxRevision` bounds the audit ids a ceiling request may name as evidence, and
  covers every position from which a later request of the run can name it (in the
  runs of the store, the first two audits only). `ledger_ceiling` reaches the
  first two rungs from the empty ledger, the last from the 6000 stage, and the
  second again after a cut from there (at once, so that the wait can pass, or at
  the end of the old wait, so that it must start anew). Decisions of the first
  part have one target day and its evidence ends on days 0 and 1; what differs
  over target days is `ledger_week`'s.
  Request ids are interchangeable in both runs, hence the symmetry.
- `Stamps` leaves several operations on one instant (the monotonic check
  admits ties) and others a day apart, before and after `MinStage`.
- Runs that start late fix their first requests by an `ACTION_CONSTRAINT`
  (`StartsAtThreeThousand`, `StartsAtSixThousand`,
  and the parts of `ClimbOrStage`); these requests pass the
  same guards as any other, so every state is reachable by the ledger.
- `Attempts = 5` sessions of two clients are enough for initialize, two racing
  operations, and a retry of each after a lost reply; symmetry is over the two
  interchangeable clients.
- `LastDay = 5` of the backtest with horizons and delays of one or two days is long enough for
  an order to be deferred twice, filled, held over its horizon by a halt, sold,
  cooled down and ordered again. `SnapshotEnd = 6` leaves the
  calendar one day beyond the window: it has every cooldown of one day, and not
  that of three days after an exit on day 4.
- `evaluation`: two imports are the fewest that can swap a snapshot and swap it
  back; one fault (`MaxFaults`) anywhere, because the handlers are judged one
  failure at a time, and a second one in the same process only leaves earlier what the first left.
- `research_jobs`: `MaxKills = 2`, so that a run that was resumed is killed
  again. Three partitions of the negative list (one of them after the window), with rows on each side of the
  window and answers that change between receipt and partition; a stock listed
  from the start, one listed later and one after the coverage, two
  covered days and pages of two rows for the events, so that a page is full,
  short, empty or repeated. The shadow calendar is 24, 25 and 31 December 2026, 4 and 8
  January 2027: a Friday in the final week of a year, its last day, and the first
  ten days of the next. The replays cool for three days (20 in the code), a week has two days and `MaxMoves = 4`
  bounds the days with a return or a purchase: enough for a fall to the
  trigger, a release, a second epoch and a second lock. The market has a day
  before the range and two in it, a stock that trades on all of them, one that
  is delisted on the last and one listed on it; pages of two rows, so that a day
  has a full page, and a second one that is short or empty. Where an endpoint
  ignores offsets full pages never end, and `DayPages = 2` of them are told apart. Its five worlds are a suspension of a whole day; one of a
  part of a day, whose gap needs an interval, with intervals that span it,
  miss it or are not there; an endpoint that ignores offsets; tables that are
  refused, with a bar missing before the range; and answers that change, between
  the pages of a day as well. A first run may find an interval without
  resume date left behind. The five jobs share no
  state, so a history is about one of them and their states add up.
- `tranches`: cycles of six days (40 in the code) and 16 days hold two full
  cycles and the deferrals after them; four worlds of suspensions, limit days,
  unknown days and a stock that changes its cluster; budgets of none, 0.3 and
  0.6, amounts in whole yuan and prices per lot.

Each property of a passing run has a mutant of the code in `PROJECT.json`
that breaks it; the mutated operators stand before their originals in the modules, marked
"Plausible bug". The type invariants of the ledger, the store sessions, the
evaluation and the layer-two run are proved (section 4) and not run again.

### Liveness and fairness

- `GapCloses` (`evaluation`): a path without a snapshot gets one again, unless the
  process that opened the gap dies in it. Fairness: an import under way goes on (`WF` of `ImportStep`), which is
  what a process that is not killed does; crashes are not bound by it.
- `SealedUnlessBlocked` (`research_jobs`): a collection ends sealed unless
  something blocks it that no restart removes. Fairness: a collector that runs
  goes on, and the operator starts it again with the same request while it is
  not sealed; that is what resuming is for. `Blocked`,
  `EventsBlocked` and `MarketBlocked` name every exception: a refused answer, an
  answer staged before it was refused, a receipt that
  contradicts a changed answer, a temporary file among the receipts, a foreign
  request, a provider that ignores the offset of a page.
- `LocksAreReleased` (`research_jobs`): no fairness; that eligible week openings keep
  coming is the antecedent, as no code can see to that.
- In the store a request gives way to whoever commits first and is refused, not
  retried, so the code promises no progress to a caller; in the backtest and
  in layer two every action consumes an order, a position or a day.

### What the violations show

1. **A trigger within the second in which a stage opened is missed**
   (`layer_one_persistence.py:1653`). ISO texts of whole seconds have no
   fraction, and `...00.5Z` sorts before `...00Z`. The doc promises that the
   whole stage is free of triggers
   (`docs/research/layer-one-risk-state-persistence.md:49`).
2. **An unlock request not written in UTC makes the store unreadable**
   (`layer_one_persistence.py:1030`): its evidence id is sealed over the
   instant as written and verified over the stored UTC one. The doc promises
   exact replays (line 21).
3. **A first receipt may report another caller's state**
   (`layer_one_persistence.py:1540`, also 1391 and 1786), read again after the
   commit; a replay returns the recorded one (line 20 of the doc).
4. **Results of one snapshot under the name of another**
   (`storage/duckdb_store.py:134`): the manifest is compared once, on opening,
   and every later query reads the path again. An import during an evaluation,
   undone before the verification, leaves sealed results of the other snapshot,
   which verify. `README.md:75` promises one snapshot id for scores, backtests
   and API, and a failure where content and manifest differ.
5. **The first budget after a lock may be 60% or 90%**
   (`layer_one_recovery_counterfactual.py:242`): the cap is applied on the day
   of the confirmation only. If the index is more than 20% under its high that
   day, nothing is bought, and the next week opening buys without the cap.
   `docs/research/layer-one-risk-lock-recovery-policy.md:12` caps the first
   re-entry at 30%.

### Observations

These are not against a sentence of the repository, or only a matter of its
reading, or, with the closes of suspended days, about prices, which the
collections' models leave out; they are kept here for whoever changes the code.

- The cooldown after an exit is recorded only when the calendar still has all its days
  (`backtest/engine.py:525`); near the end of a snapshot a stock is free at
  once. With a cooldown of three days, an exit on day 4 of 5 and a calendar that
  ends with day 6, the stock can be ordered again the same evening: the run
  `backtest` reaches this under `ShortOfCash`. The calendar of the test
  (`tests/test_exit_controls.py:81`) reaches far enough. `CooldownKept` allows
  exactly these orders, `CooldownsAreKept` proves it for every calendar, and
  `CoveredCooldownsAreKept` proves that there is none when the calendar covers
  the cooldowns.
- The equal-weight target of an order filled at the open is computed from the
  closes of the same day (`backtest/engine.py:174`).
- A layer-two run bound to its files holds one position at a time: the
  constraint report carries the equity the phases were planned with, the
  commission of the first purchase parts it from the carried equity, and the
  allocator then refuses every entry (`ABoundRunHoldsOnePosition`). The tests
  restate the equity by hand
  (`tests/test_layer_two_longitudinal_state_transitions.py:363`).
- A tranche is entered only every second cycle (`ATrancheRestsACycle`):
  a position sold at the end of a cycle is still there when the
  tranche has its next opportunity.
- "Locked for ever" (`docs/research/layer-one-risk-lock-recovery-policy.md:3`) is not
  strict: the return of the trigger day still falls on the old budget, and
  a bounce on it can leave a frozen drawdown above the trigger, at which the
  engine itself would release on request.
- Nothing locks a staging directory. The collectors are modelled with one
  process each, as they are used.
- A process killed between writing the temporary file of a quarantine receipt
  and its rename leaves a file that bars sealing until someone removes it.
- A suspended day repeats the last close only in the first suspension of a
  stock (`providers/tushare_normalize.py:261`): `last_close` is looked up once
  and not renewed by the bars that follow, so that the bars of a second
  suspension, days of trading later, repeat the close from before the first.
  `docs/tushare.md:82` wants the previous close; line 353 renews the variable in
  a loop that no longer reads it; the tests have one suspension per stock.
- What ended one run of the market collection ends all: suspension intervals
  that do not cover the gaps, and name changes, are staged before they are
  looked at, and reused as they are (`providers/tushare_all_market_history.py:724`, 679).
- An endpoint that ignores offsets and answers with full pages keeps
  `_query_paginated_day` asking for ever: repeated rows are looked for after the
  last page only (line 918), where `_query_paginated_reference` compares each
  page (line 949).
- An interval without a resume date that explains a gap also marks the later days as
  suspended, on which the stock may have traded. The comment at line 709 names this for
  collections without gaps, where the intervals are dropped; with gaps they
  stay, hence the condition in `TradersAreNotSuspended`.
- A sealed collection may be one that cannot be materialized: gaps before the
  range, and rows missing in the other tables, are first looked for then.

## 4. Proofs

TLAPS checks these for all values of the constants, under the assumptions
`RegimeConstants`, `LedgerConstants`, `StoreConstants`, `SnapshotConstants`,
`EvaluationConstants`, `MarketConstants`, `BacktestConstants` and `BacktestInputs`,
those of `LayerTwoTranches` and `HistoryConstants` that
the modules state (sets of numbers of the right kind;
no bound is assumed to be small, and only the stocks of a backtest to be finitely many).

| theorem | states |
|---|---|
| `LedgerTypes` | `Spec => []TypeOK` |
| `BudgetsAreAuthorized` | `Spec => []BudgetWithinAuthorization` |
| `LedgerStaysReadable` | `Spec => []StoreStaysReadable`, if `Offsets = {0}` |
| `DecisionsAreOneChain` | `Spec => []DecisionsFormOneChain` |
| `BudgetsRestWithinAWeek` | `Spec => []NoRaiseWithinAWeek` |
| `LockReleasesAreEarned` | `Spec => []LockReleaseIsEarned` |
| `CeilingClimbs` | `Spec => []CeilingClimbsByEarnedSteps` |
| `NineNeedsACleanStage` | `Spec => []NineOnlyAfterACleanStage`, if texts sort as instants do |
| `StoreInvAlways`, `StoreTypes` | `StoreSpec => []StoreInv`, `[]StoreTypeOK` |
| `StoreImplementsLedger` | `StoreSpec => ImplementsLedger` |
| `GuardsAreNotStale` | `StoreSpec => []GuardsHoldAtCommit` |
| `StoreBudgetsAreAuthorized`, `StoreStaysReadableAlways`, `StoreKeepsTheChain`, `StoreEarnsLockReleases` | the ledger's results, of the concurrent store |
| `RequestsTakeEffectOnce` | `StoreSpec => []NoRequestTwice` |
| `AnswersStand` | `StoreSpec => []AnswersStandInTheLedger` |
| `TypesHold` | types of the publication and of the evaluators |
| `NoSnapshotIsLost` | `Spec => []NothingLost` |
| `OutputsGetReceipts` | `Spec => []UnreceiptedOutputHasAFault` |
| `CleanRunsVerify` | `Spec => []CleanEvaluationVerifies` |
| `ConsumedOnce` | `Spec => RefinesOneShot` |
| `BacktestTypes` | `Spec => []BacktestTypeOK` |
| `NothingIsOverCommitted` | `Spec => []NeverOverCommitted` |
| `EveryOrderIsAccountedFor` | `Spec => []OrdersAccountedFor` |
| `DeferredOrdersAreTried` | `Spec => []DeferredOrdersAreTriedDaily` |
| `OverdueDaysAreCounted` | `Spec => []OverdueHoldingsWereBlocked` |
| `BooksAlwaysBalance` | `Spec => []BooksBalance` |
| `CashAlwaysMatches` | `Spec => []CashMatchesTheTrades`, if no sale costs more than it brings |
| `NoPositionLeavesEarly` | `Spec => NoEarlyExit` |
| `CooldownsAreKept` | `Spec => []CooldownKept` |
| `CoveredCooldownsAreKept` | every cooldown is kept, if the calendar covers the cooldowns |
| `LayerTwoTypes` | types of the layer-two run |
| `TranchesRest` | `Spec => []ATrancheRestsACycle` |
| `SalesAreFirstOpenDays` | `Spec => []SoldOnTheFirstOpenDay` |
| `BoundRunsHoldOne` | `Spec => []ABoundRunHoldsOnePosition` |
| `PositionsFitTheSleeve` | `Spec => []CarriedWithinTheSleeve` |
| `HistoryTypes` | `HistorySpec => []HistoryTypeOK` |
| `ReplaysFollow` | `HistorySpec => ReplaysFollowTheEngine` |
| `NewLocksAreNewLosses` | `HistorySpec => ANewLockIsANewLoss` |
| `NoGapIsSealedUnexplained` | `MarketSpec => [](GapsHaveIntervals /\ TradersAreNotSuspended)` |
| `SealedCollectionsVerify` | `MarketSpec => []MarketPackVerifies` |
| `GapsAreSealedWithSeeds` | `MarketSpec => []GapsAreExplained` |
| `NoDayLosesRows` | `MarketSpec => []NoDayIsCutOff` |
| `MarketTypes`, `MarketIsStaged` | `MarketSpec => []MarketTypeOK`, `MarketSpec => MarketRefinesStaged` |
| `OneRecordClaimsABoundary` | `Spec => []OneRecordPerBoundary` |
| `RecordsVerify`, `RecordsAreALog` | `Spec => []ChainVerifies`, `Spec => RefinesLog` |
| `RowsAreAccountedFor` | `Spec => []RowsAccountedFor` |
| `WindowIsKept` | `Spec => []WindowSplitsTheRows` |
| `SealedListVerifies`, `NegativeListIsStaged` | `Spec => []SealedMeansVerified`, `Spec => RefinesStaged` |
| `CorrectionsAreRecorded` | `Spec => []CorrectionsAreOnRecord` |
| `NoEventIsLost` | `Spec => []NoEventIsCutOff`, if `ProviderAgrees` |
| `SealedEventsVerify`, `EventPackIsStaged` | `Spec => []EventPackVerifies`, `Spec => EventsRefineStaged` |
| `JobsAreTyped` | `Spec => []JobsTypeOK` |
| `TheSealedVerifies` | `Spec => []WhatIsSealedVerifies` |
| `NothingIsLost` | `Spec => []NothingIsCutOff`, if `ProviderAgrees` |
| `PromisesAreKept` | `Spec => CollectionsKeepTheirPromise` |

From `OneRecordClaimsABoundary` on `Spec` is that of `ResearchJobs`.

**The ledger.** `TypeInv` is inductive by itself. `BudgetWithinAuthorization`
is not: that a new decision is bounded by the row's ceiling helps only if the
row's ceiling is that of the latest authorization, and a deferred raise carries
the previous budget on. `RowAgrees` ties the row to the audits: it is what
`verify_storage_integrity` compares, so its proof is most of that of
`LedgerStaysReadable` too. `RawTargetBounds` says that no observation yields a
target above the ceiling, and a carried budget lies below the raw target it
replaces. `StoreStaysReadable` adds, per step, that evidence once accepted
still stands (`EvidenceStep`) and that each consumed request is quoted by
exactly the decision that consumed it (`UnlockStep`). The assumption `Offsets = {0}`
excludes the second violation above, and nothing else.

The order of the audits carries the rest. `ChainInv` says that instants do not
go back, that the decision which quotes a request is the one that consumed it,
and that a lock which is held began with a decision that triggered it and has
kept every budget at zero since (`HeldLockHasATrigger`). `LockReleaseIsEarned`
follows with it, because a release quotes a request nothing stood against, and
nobody else can have quoted that. Budgets rest within a week by `RowAgrees`: the row the
engine compares with is the state of the last decision. For the ceilings,
`StageIsCurrent` says that the stage a new ceiling ends is the one the row describes.
`NineNeedsACleanStage` assumes `TextOrderIsTimeOrder`, that stored instants sort as
texts as they do in time; `ledger_subsecond` shows that the code needs it and does not have it.

**The store.** `StoreInv` is the argument of optimistic concurrency control:
if the row a session has read still has the current revision, then it is the
current row, what the session has read since is unchanged, and the guards it
passed still hold (`Fresh`). It is needed because the guards themselves mention
rows that other sessions write. Each commit advances the revision, so it makes
every other session stale, and a stale session fails `CasHolds`. A commit is
then exactly one `Apply` of the ledger (`CommitIsApply`) and all other steps
leave the ledger unchanged (`OtherStepsStutter`), which gives the refinement;
the ledger's theorems carry over by it. `NoRequestTwice` is then the ledger's own: no step
appends a request it knows. `AnswersStandInTheLedger` needs in addition that a session
which has committed knows its audit (`CommittedIsRecorded`), and that audits are only ever appended.

**The backtest.** None of its properties is inductive. That no order is lost
(`NothingIsOverCommitted`, `EveryOrderIsAccountedFor`) needs `SlotsInv`: what is
held, being tried and waiting are three sets of stocks that fit `max_positions`
together, in the middle of an opening as well, so that neither the slice of
candidates nor the return without free slots ever drops one. `DelayInv` says of an order in hand that it
has waited one day less than one that was tried today; `DaysInv` says of a position not
yet managed today that its holding days are those up to yesterday, from which T+1
and `min_holding_days` follow (`NoPositionLeavesEarly`). `BooksBalance` needs the
cost of what is held, a sum over a set. Such sums and greatest numbers are recursive
functions; what a purchase or a sale does to them (`SumStep`, `SumWithout`,
`SumOfTheSame`) is proved by a smallest counterexample, with `WFMin` of the
library. Two hypotheses are not the code's to guarantee. `SalesCoverTheirCosts`:
the proceeds of any sale cover its commission and tax, as they do for lots of 100 shares at
the usual rates; `CostConfig` accepts others, and then a sale may lower the cash
below zero. `CalendarCoversCooldowns`, of `CoveredCooldownsAreKept` only: see the
observation above.

**Publication and evaluation.** The inductive invariant says where each
snapshot is at each step of an importer: moved aside by it, at the path, or in
what it brings; `NothingLost` needs it because the handler removes a directory
only after it has seen another at the path. For the one-shot refinement, the
rename of the output is the linearization point: an evaluator past it is the
only one, and what it will write as receipt is its output. An undisturbed
evaluator's draft is of one of the shapes the classification can seal, for every
world, which is what the verifier asks for.

**Layer two.** `TrancheInv` ties positions to the rows they came from: a
position has its entry, a sale its position (`HeldOrSold`). Turns of a tranche
are a cycle apart and a sale comes at least a cycle after its entry
(`TurnsAreCyclesApart`), so the next turn finds the tranche taken. For bound
runs, what is carried stays below the capital by at least one commission while
something is held (`OneCarried`, `CommissionIsCharged`), and the allocator's
equality of equities fails. `CarriedWithinTheSleeve` needs sums over sets of positions, as in
the backtest, and `Fits`: amounts are whole and not negative, so a sale makes room (`FitsWithout`);
an entry takes at most its target, which pays the commission as well (`FitsWith`); and a deferred
position goes back into the room it left.

**The replays.** `HistoryInv` gives integers to compare: the equity is positive
and at most its peak, so that the drawdown is defined. Then each rule is
compared with the engine's: the caps are taken in another order
(`RawTargetsAgree`), without a request the engine's lock is the replay's
(`EngineWithoutRequest`), and at a week opening the conditions of a
confirmation are those the engine collects, but for the drawdown
(`ConfirmsLikeTheEngine`). `ANewLockIsANewLoss` needs `FreshInv`: an account that held nothing
since its epoch began stands at its peak, because cash does not move
(`CashStandsStill`).

**The market collection.** Gaps are computed from the day files, and intervals
are compared with them only once; so the argument is that past that comparison
nothing it read can change. A day file is written only where there is none, and
a run comes to the comparison only over all of them (`WalkIsHeld`, over the five
APIs one after the other); from then on (`PastTheGaps`) every day is held, in every later run
too, and the intervals stand, or are emptied where nothing needs them
(`Settled`). `SealInv` adds that under a seal every file which is written only
where it is missing is there, the tables along their own walk and the seeds
where there are gaps, and that what a later run does write again comes out the
same. Three more invariants follow from these. The seeds are of exactly the stocks
with gaps and from before their first ones (`SeedsFit`), because the query ends on the day before; the
pages of a day read so far are the first rows of one answer, all of them after a page that
is not full (`DaysInv`); and what reports and snapshots said is still on disk (`SaysInv`).
A step of the collection is then one of `StagedCollection` or a stutter (`MarketIsStaged`).

**The observations.** Between looking at the records and writing its own, a run
keeps raw quotes and may be killed. `RunInv` says that it is for a day after all that are recorded,
and for a boundary nobody claims, so a record is of a new last day, its number is the
number of records, and the log grows at its end. Nothing writes quotes for a
recorded day any more, which is why the chain goes on to verify.

**The negative list.** `NegativeInv` says of each file that it was built from
one accepted answer, which it splits into its rows, the receipts and those after the window (`RowsSplit`).
Receipts are written one by one before the partition, from an answer the run still holds;
a restart may be given another answer, and the equality with the receipts is
lost then, but not the inclusion. What a run has counted is a cardinality over the
partitions it passed; past the end of the walk those are all, so the totals in
the manifest are those of the files, reused ones included (`SealsAgree`).

**The events.** The argument is about the caches of days. They only grow, a
stock's cache is what it selected from the market's, and an audit is written when the walk
has no day left that is missing, so no later run can add a file the audit did not
count. The pages of a day are a prefix of its rows (`NoEventIsLost`), and a
partition that went through the fallback is the selection of all its days.
`ProviderAgrees` is only about partitions that did not: that an answer by stock, below the
row limit, has what the provider publishes by day. The code trusts
such an answer as well, and the worlds of `research_jobs` satisfy it.

The theorems about collections assume that the value which stands for a file that is not
there (`Missing`) is no content of a file, in the words of each part:
`MissingIsNoTable`, `MissingIsNoRows`, `MissingIsNoEvents`, `MissingIsNoQuote`,
`MissingIsNoRecord`, together `MissingIsNothing`. TLC's model values see to that in the run.
TLA+ leaves it open otherwise whether such values are equal.

Every safety property and action property that a passing run checks is stated by a theorem.
Only model-checked are the liveness properties
(`GapCloses`, `SealedUnlessBlocked`, `LocksAreReleased`): liveness and `ENABLED` are outside what the
prover can do. So is induction by
the library's theorems, which take an operator as a parameter; where a sum or a
list has to be reasoned about, the proof is by a smallest counterexample instead.

## 5. Not modelled

The table of section 1 says what each component keeps; `PROJECT.json` says for
each why it is not modelled, or only partly. Floating-point arithmetic, hashing as such,
table queries, wording and HTTP status codes are left out everywhere. In the
store, the wall clock and tampering with stored rows are left out: the verifier
is modelled as the demand it makes of the rows the operations themselves write.
In the backtest, the validity check of ATR barriers, the correlation series,
metrics and the stamp-tax schedule are left out. In the publication, the
removal of a directory is taken to succeed. Of the collections, directories of
earlier versions of the code are left out, and of the market collection prices,
turnover and name changes as such, and the daily universe derived from it. In the shadow ledger, the figures of
a record and the reports that only read it; in layer two, phase families, stress
scenarios, the occupancy attribution and seals; in the replays, the metrics and
gates computed once from a finished path.

Statistics, features, scoring and strategies are numerical functions without
state; contracts, policies and run contracts are sealed JSON files whose
validators compare fields with constants; frontend, scripts and the command
line hold wiring. There is nothing of a sequence or an interleaving in them
for these methods to find.

## 6. Plan

Done: the ledger and its sessions, the backtest, the publication and the
one-shot evaluation, three collectors, the shadow ledger, the layer-two history,
the replays. Left, the most important first:

1. The index-history collection as a further job of `ResearchJobs`, and the
   closes of suspended days in `AllMarketCollection`.
2. The event-candidate evaluation, a variant of `OneShotEvaluation`, and the
   freezes and authorizations both start from.
3. Proofs: what `SealedUnlessBlocked` rests on, as far as it is safety: that a
   step which is not blocked is enabled cannot be stated for the prover, but that
   each run gets further along its walk can. Then the jobs of item 1.
