--------------------------- MODULE LayerOneRegime ---------------------------
(***************************************************************************)
(* The layer-one regime engine (app/research/layer_one_regime.py): a pure  *)
(* function from a sealed prior state, one observation of the index and of *)
(* the account, a manual ceiling and an optional unlock request to the     *)
(* stock budget of one target trading day.  It decides nothing about       *)
(* storage: LayerOneLedger and LayerOneStore do.                           *)
(*                                                                         *)
(* Ratios, volatilities, drawdowns and budgets are integers in basis       *)
(* points.  Market days are numbered, so that day d - 1 is the market day  *)
(* before d; instants are numbered too, TicksPerDay to a day, and the same *)
(* number names a market day and the civil day it falls on.                *)
(***************************************************************************)
EXTENDS Integers

CONSTANTS
    WeekStarts,     \* market days that open their ISO week
    CoolingDays,    \* RISK_LOCK_MIN_COOLING_TRADING_DAYS, 20 in the code
    TicksPerDay     \* instants in a civil day

ASSUME RegimeConstants ==
    /\ WeekStarts \subseteq Nat
    /\ CoolingDays \in Nat
    /\ TicksPerDay \in Nat \ {0}

-----------------------------------------------------------------------------
(* States and inputs *)

Budgets == {0, 3000, 6000, 9000}    \* ALLOWED_BUDGET_LEVELS
NoDay == -1                         \* a date that is None
NoUnlock == [kind |-> "none"]       \* a decision without an unlock request

\* LayerOneRegimeNewState; its state_id is the hash of its content, so two
\* states have the same id exactly when they are equal.
RegimeState == [applied : Budgets, locked : BOOLEAN,
                lockedAsOf : Nat \cup {NoDay}, redLine : BOOLEAN]

\* What the model validator of the state accepts.
WellFormed(s) ==
    /\ s.locked => s.applied = 0 /\ s.lockedAsOf # NoDay
    /\ ~s.locked => s.lockedAsOf = NoDay

InitialState == [applied |-> 0, locked |-> FALSE,
                 lockedAsOf |-> NoDay, redLine |-> FALSE]

\* An unlock request names an instant and the UTC offset it was written with;
\* requested_at.date() is the civil day in that offset.
DayOf(instant) == instant \div TicksPerDay
RequestedDay(unlock) == DayOf(unlock.at + unlock.offset)

-----------------------------------------------------------------------------
(* From an observation to budget caps *)

Smaller(a, b) == IF a <= b THEN a ELSE b

MapTrendRegime(ratio) ==
    CASE ratio > 10300 -> "positive"
      [] ratio >= 9700 /\ ratio <= 10300 -> "neutral"
      [] OTHER -> "negative"

TrendBase(regime) ==
    CASE regime = "positive" -> 9000
      [] regime = "neutral" -> 6000
      [] OTHER -> 3000

MapVolatilityCap(vol) ==
    IF vol <= 1800 THEN 9000
    ELSE IF vol <= 2700 THEN 6000
    ELSE IF vol <= 3600 THEN 3000 ELSE 0

MapIndexDrawdownCap(dd) ==
    IF dd <= -2000 THEN 0
    ELSE IF dd <= -1500 THEN 3000
    ELSE IF dd <= -1000 THEN 6000 ELSE 9000

MapAccountDrawdownCap(dd) ==
    IF dd <= -1800 THEN 0
    ELSE IF dd <= -1500 THEN 3000
    ELSE IF dd <= -1000 THEN 6000 ELSE 9000

TriggersRiskLock(obs) == obs.accountDrawdown <= -1800
CrossesRedLine(obs) == obs.accountDrawdown <= -2000

RawTarget(obs, ceiling) ==
    Smaller(TrendBase(MapTrendRegime(obs.ratio)),
        Smaller(MapVolatilityCap(obs.vol),
            Smaller(MapIndexDrawdownCap(obs.indexDrawdown),
                Smaller(MapAccountDrawdownCap(obs.accountDrawdown), ceiling))))

-----------------------------------------------------------------------------
(* Releasing the risk lock, and the weekly rule *)

\* Plausible bug: the day of the trigger counts as the first cooling day.
CountCoolingDaysInclusive(lockedAsOf, asOf) == asOf - lockedAsOf + 1

\* Market days in (lockedAsOf, asOf].
CountCoolingDays(lockedAsOf, asOf) == asOf - lockedAsOf

MissesCooling(prior, asOf) ==
    CountCoolingDays(prior.lockedAsOf, asOf) < CoolingDays

\* The reasons evaluate_unlock_request collects; an empty set releases the lock.
UnlockRejections(prior, obs, unlock, target, at) ==
    IF unlock = NoUnlock THEN {"no_explicit_unlock_request"}
    ELSE {r \in {"trigger", "cooling", "trend", "volatility",
                 "after_evaluation", "future_day", "before_lock"} :
            CASE r = "trigger" -> TriggersRiskLock(obs)
              [] r = "cooling" -> MissesCooling(prior, target - 1)
              [] r = "trend" -> MapTrendRegime(obs.ratio) = "negative"
              [] r = "volatility" -> obs.vol >= 2700
              [] r = "after_evaluation" -> unlock.at > at
              [] r = "future_day" -> RequestedDay(unlock) > target
              [] r = "before_lock" -> RequestedDay(unlock) < prior.lockedAsOf}

Unlocks(prior, obs, unlock, target, at) ==
    prior.locked /\ UnlockRejections(prior, obs, unlock, target, at) = {}

\* Plausible bug: a raise counts as deferred only while some budget is applied.
WeeklyAdjustmentFromZero(raw, previous, target) ==
    IF raw > previous /\ previous > 0 /\ target \notin WeekStarts THEN previous ELSE raw

\* Cut on any day; raise only on the first market day of the week.
WeeklyAdjustment(raw, previous, target) ==
    IF raw > previous /\ target \notin WeekStarts THEN previous ELSE raw

-----------------------------------------------------------------------------
(* One evaluation *)

\* The ValueErrors of the timing and of the cooling count.
Evaluable(prior, target) ==
    /\ target >= 1
    /\ prior.locked => prior.lockedAsOf <= target - 1

\* A trigger of the current observation wins over an unlock, and keeps the
\* date of the lock it renews.
StaysOrBecomesLocked(prior, obs, unlock, target, at) ==
    \/ TriggersRiskLock(obs)
    \/ prior.locked /\ ~Unlocks(prior, obs, unlock, target, at)

EvaluateRegime(prior, obs, ceiling, unlock, target, at) ==
    LET locked == StaysOrBecomesLocked(prior, obs, unlock, target, at)
    IN  [applied |->
            IF locked THEN 0
            ELSE WeeklyAdjustment(RawTarget(obs, ceiling), prior.applied, target),
         locked |-> locked,
         lockedAsOf |->
            IF ~locked THEN NoDay
            ELSE IF prior.locked THEN prior.lockedAsOf ELSE target - 1,
         redLine |-> prior.redLine \/ CrossesRedLine(obs)]
=============================================================================
