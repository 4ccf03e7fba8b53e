--------------------------- MODULE LayerOneHistory ---------------------------
(***************************************************************************)
(* The two replays of the layer-one rules over the history of the index:   *)
(* the historical validation (layer_one_historical_validation.py), in      *)
(* which a risk lock is final, and the counterfactual of the recovery      *)
(* policy (layer_one_recovery_counterfactual.py), which confirms a new     *)
(* epoch of risk capital at the first eligible week opening after a lock.  *)
(* Both read the same market, day by day; each keeps an account that is    *)
(* invested in the index to the budget the rules allow.                    *)
(*                                                                         *)
(* Money is in whole yuan, ratios and budgets are in basis points.  A week *)
(* has WeekDays days.  The rules themselves are those of LayerOneRegime,   *)
(* which the replays import in part and write again in part.               *)
(***************************************************************************)
EXTENDS Integers

CONSTANTS
    InitialCapital,     \* INITIAL_CAPITAL_CNY, 80000 in the code
    MinimumCommission,  \* MINIMUM_COMMISSION_CNY, 5 in the code
    StampTax,           \* rate of a sale, in basis points
    Slippages,          \* BASE_SLIPPAGE_BPS and STRESS_SLIPPAGE_BPS
    Cooling,            \* min_cooling_trading_days, 20 in the code
    Features,           \* features of the day before: ratio, vol, indexDrawdown
    Returns,            \* returns of the index on one day
    WeekDays,           \* days of a week
    MaxMoves            \* bound: days of returns and purchases, see Moves

ASSUME HistoryConstants ==
    /\ InitialCapital \in Nat \ {0}
    /\ MinimumCommission \in Nat /\ StampTax \in Nat /\ Slippages \subseteq Nat
    /\ Cooling \in Nat
    /\ Features \subseteq [ratio : Int, vol : Int, indexDrawdown : Int]
    /\ Returns \subseteq Int
    /\ WeekDays \in Nat \ {0} /\ MaxMoves \in Nat

ReentryCap == 3000          \* first_reentry_budget_cap
CommissionPerMillion == 250 \* BASE_COMMISSION_RATE

VARIABLES
    slippage,       \* of the path replayed, base or stress
    weekday,        \* position in its week of the day to replay
    validated,      \* the account of the historical validation
    recovered,      \* the account of the counterfactual
    moves,          \* days on which an account moved so far, see MaxMoves
    reentered       \* history: recovered held stock since its epoch began

historyVars == <<slippage, weekday, validated, recovered, moves, reentered>>

-----------------------------------------------------------------------------
(* What the replays share *)

\* The engine, asked about a target day that opens its week or one that does not.
Opening == Cooling + 2
Engine == INSTANCE LayerOneRegime
            WITH WeekStarts <- {Opening}, CoolingDays <- Cooling, TicksPerDay <- 1
TargetDay(first) == IF first THEN Opening ELSE Opening + 1

FirstOfWeek == weekday = 1

\* raw_market_target of _market_features, the manual ceiling being open.
MarketTarget(m) ==
    Engine!Smaller(Engine!TrendBase(Engine!MapTrendRegime(m.ratio)),
        Engine!Smaller(Engine!MapVolatilityCap(m.vol),
                       Engine!MapIndexDrawdownCap(m.indexDrawdown)))

\* The drawdown in basis points, rounded towards zero.
AccountDrawdown(a) == -(((a.peak - a.equity) * 10000) \div a.peak)

Observed(m, a) ==
    [ratio |-> m.ratio, vol |-> m.vol, indexDrawdown |-> m.indexDrawdown,
     accountDrawdown |-> AccountDrawdown(a)]

Abs(n) == IF n < 0 THEN -n ELSE n
Larger(n, k) == IF n >= k THEN n ELSE k

TradeCost(equity, before, after) ==
    LET notional == (Abs(after - before) * equity) \div 10000
    IN  IF notional = 0 THEN 0
        ELSE Larger((notional * CommissionPerMillion) \div 1000000, MinimumCommission)
             + (notional * slippage) \div 10000
             + (IF after < before THEN (notional * StampTax) \div 10000 ELSE 0)

\* The return of the day falls on the old budget; the new one is bought at the
\* close.
NextEquity(a, budget, return) ==
    LET gross == a.equity + (a.equity * ((a.budget * return) \div 10000)) \div 10000
    IN  gross - TradeCost(gross, a.budget, budget)

-----------------------------------------------------------------------------
(* One day of the historical validation *)

\* Plausible bug: the lock is read off the drawdown of the day alone.
ForgettingLock(a, obs) == Engine!TriggersRiskLock(obs)

\* new_lock of _advance_path: a lock is never cleared.
StaysLocked(a, obs) == a.locked \/ Engine!TriggersRiskLock(obs)

AdvanceValidated(a, m, return, first) ==
    LET obs == Observed(m, a)
        locked == StaysLocked(a, obs)
        raw == Engine!Smaller(MarketTarget(m),
                              Engine!MapAccountDrawdownCap(obs.accountDrawdown))
        budget == IF locked THEN 0
                  ELSE Engine!WeeklyAdjustment(raw, a.budget, TargetDay(first))
        equity == NextEquity(a, budget, return)
    IN  [equity |-> equity, peak |-> Larger(a.peak, equity),
         budget |-> budget, locked |-> locked]

-----------------------------------------------------------------------------
(* One day of the counterfactual *)

NewlyTriggered(a, obs) == Engine!TriggersRiskLock(obs) /\ ~a.locked

\* Plausible bug: every day that shows the drawdown of the trigger starts the
\* cooling again.
CoolingRestarted(a, obs) ==
    IF Engine!TriggersRiskLock(obs) THEN 0
    ELSE Engine!Smaller(a.lockedFor + 1, Cooling)

\* market_index - lock_start_index, counted up to what the rule asks for.
DaysLocked(a, obs) ==
    IF NewlyTriggered(a, obs) \/ ~a.locked THEN 0
    ELSE Engine!Smaller(a.lockedFor + 1, Cooling)

EligibleMarket(m, first) ==
    first /\ Engine!MapTrendRegime(m.ratio) # "negative" /\ m.vol < 2700

Confirms(a, m, first) ==
    LET obs == Observed(m, a)
    IN  /\ a.locked \/ NewlyTriggered(a, obs)
        /\ DaysLocked(a, obs) >= Cooling
        /\ EligibleMarket(m, first)

\* Plausible bug: the peak of the account survives its confirmation.
PeakKept(a, equity, confirmed) == Larger(a.peak, equity)

\* epoch_peak: a confirmation starts it from the equity it finds.
EpochPeak(a, equity, confirmed) ==
    IF confirmed THEN equity ELSE Larger(a.peak, equity)

AdvanceRecovered(a, m, return, first) ==
    LET obs == Observed(m, a)
        confirmed == Confirms(a, m, first)
        locked == (a.locked \/ NewlyTriggered(a, obs)) /\ ~confirmed
        cap == IF confirmed THEN ReentryCap
               ELSE Engine!MapAccountDrawdownCap(obs.accountDrawdown)
        budget == IF locked THEN 0
                  ELSE Engine!WeeklyAdjustment(Engine!Smaller(MarketTarget(m), cap),
                                               a.budget, TargetDay(first))
        equity == NextEquity(a, budget, return)
    IN  [equity |-> equity, peak |-> EpochPeak(a, equity, confirmed),
         legacyPeak |-> Larger(a.legacyPeak, equity),
         budget |-> budget, locked |-> locked,
         lockedFor |-> IF locked THEN DaysLocked(a, obs) ELSE 0,
         epoch |-> IF confirmed THEN a.epoch + 1 ELSE a.epoch,
         redLine |-> a.redLine \/ Engine!CrossesRedLine(obs)]

-----------------------------------------------------------------------------
(* The replay *)

HistoryInit ==
    /\ slippage \in Slippages
    /\ weekday \in 1..WeekDays
    /\ validated = [equity |-> InitialCapital, peak |-> InitialCapital,
                    budget |-> 0, locked |-> FALSE]
    /\ recovered = [equity |-> InitialCapital, peak |-> InitialCapital,
                    legacyPeak |-> InitialCapital, budget |-> 0, locked |-> FALSE,
                    lockedFor |-> 0, epoch |-> 0, redLine |-> FALSE]
    /\ moves = 0
    /\ reentered = FALSE

\* A day on which the market moved, or an account bought other than by a
\* confirmation.  Sales need no bound, nor do confirmations: each needs a lock,
\* and each lock a fall.
Moves(return, confirmed) ==
    \/ return # 0
    \/ validated'.budget > validated.budget
    \/ recovered'.budget > recovered.budget /\ ~confirmed

\* One turn of the loops of _build_daily_path and _build_path.  An equity that
\* is not positive raises.
ReplayDay(m, return) ==
    LET confirmed == Confirms(recovered, m, FirstOfWeek)
    IN  /\ validated' = AdvanceValidated(validated, m, return, FirstOfWeek)
        /\ recovered' = AdvanceRecovered(recovered, m, return, FirstOfWeek)
        /\ validated'.equity > 0 /\ recovered'.equity > 0
        /\ moves' = moves + (IF Moves(return, confirmed) THEN 1 ELSE 0)
        /\ moves' <= MaxMoves
        /\ reentered' = (recovered'.budget > 0 \/ (reentered /\ ~confirmed))
        /\ weekday' = (weekday % WeekDays) + 1
        /\ UNCHANGED slippage

HistoryNext == \E m \in Features, return \in Returns : ReplayDay(m, return)

HistorySpec == HistoryInit /\ [][HistoryNext]_historyVars

-----------------------------------------------------------------------------
(* Properties *)

\* The accounts are what the replays can compute.
HistoryTypeOK ==
    /\ slippage \in Slippages /\ weekday \in 1..WeekDays
    /\ moves \in 0..MaxMoves /\ reentered \in BOOLEAN
    /\ \A a \in {validated, recovered} :
          /\ a.equity \in Nat \ {0} /\ a.peak \in Nat /\ a.equity <= a.peak
          /\ a.budget \in Engine!Budgets /\ a.locked \in BOOLEAN
          /\ a.locked => a.budget = 0
    /\ recovered.lockedFor \in 0..Cooling /\ recovered.epoch \in Nat
    /\ recovered.legacyPeak >= recovered.peak /\ recovered.redLine \in BOOLEAN

\* The engine, asked what it makes of the account and of the market of a day,
\* with a request to unlock or without one.
PriorOf(a, lockedFor, redLine) ==
    [applied |-> a.budget, locked |-> a.locked,
     lockedAsOf |-> IF a.locked THEN TargetDay(FirstOfWeek) - 2 - lockedFor
                    ELSE Engine!NoDay,
     redLine |-> redLine]

Request == [kind |-> "unlock", at |-> TargetDay(FirstOfWeek) - 1, offset |-> 0]

EngineRejects(m) ==
    Engine!UnlockRejections(PriorOf(recovered, recovered.lockedFor, recovered.redLine),
                            Observed(m, recovered), Request,
                            TargetDay(FirstOfWeek), TargetDay(FirstOfWeek))

AnswersLikeTheEngine(a, lockedFor, redLine, m) ==
    LET decision == Engine!EvaluateRegime(PriorOf(a, lockedFor, redLine), Observed(m, a),
                        9000, Engine!NoUnlock, TargetDay(FirstOfWeek), TargetDay(FirstOfWeek))
    IN  [budget |-> decision.applied, locked |-> decision.locked]

\* The replays write the rules of the engine again (_advance_path, _advance)
\* and must not drift from them: the validation decides on every day what the
\* engine does without a request; so does the counterfactual but on the days it
\* confirms, and at a week opening it confirms exactly when the engine would
\* have nothing but the drawdown of the trigger against a release.
ReplaysFollowTheEngine ==
    [][\A m \in Features, return \in Returns : ReplayDay(m, return) =>
        /\ [budget |-> validated'.budget, locked |-> validated'.locked]
             = AnswersLikeTheEngine(validated, 0, FALSE, m)
        /\ recovered'.epoch = recovered.epoch =>
             [budget |-> recovered'.budget, locked |-> recovered'.locked]
               = AnswersLikeTheEngine(recovered, recovered.lockedFor, recovered.redLine, m)
        /\ recovered.locked /\ FirstOfWeek =>
             (recovered'.epoch > recovered.epoch <=> EngineRejects(m) \subseteq {"trigger"})]_historyVars

\* Losses of an epoch that is over lock nothing (the recovery policy, item 5):
\* the account of the counterfactual locks only after it held stock in the
\* epoch, and the two replays are the same until the first confirmation.
ANewLockIsANewLoss ==
    [][/\ ~recovered.locked /\ recovered'.locked => reentered
       /\ recovered'.epoch = 0 =>
            \A f \in DOMAIN validated' : validated'[f] = recovered'[f]]_historyVars

\* The hazard of docs/research/layer-one-risk-lock-recovery-policy.md: the
\* account in cash shows the drawdown of its trigger for ever.  With the
\* recovery policy a lock does not last, if week openings with a trend that is
\* not negative and a volatility below the threshold keep coming.
EligibleOpening == \E m \in Features, return \in Returns :
                        EligibleMarket(m, FirstOfWeek) /\ ReplayDay(m, return)

LocksAreReleased ==
    ([]<><<EligibleOpening>>_historyVars) => (recovered.locked ~> ~recovered.locked)

\* Item 6 of docs/research/layer-one-risk-lock-recovery-policy.md: the first
\* budget after a lock is at most 30%.
FirstReentryIsCapped ==
    [][(recovered'.epoch > recovered.epoch \/ (recovered.epoch > 0 /\ ~reentered))
        => recovered'.budget <= ReentryCap]_historyVars

=============================================================================
