------------------------ MODULE LayerOneHistory_proofs ------------------------
(***************************************************************************)
(* Proofs about the replays of the layer-one rules, for every market, every *)
(* length of the cooling and of the week, every cost and every bound.       *)
(*                                                                         *)
(* The types give integers to compare; then each rule the replays write    *)
(* again is compared with the one of the engine.  That a lock after a      *)
(* release is a new loss rests on the invariant that an account which has  *)
(* held nothing since its epoch began stands at its peak.                  *)
(***************************************************************************)
EXTENDS LayerOneHistory, TLAPS

-----------------------------------------------------------------------------
(* Caps and budgets *)

LEMMA SmallerIsOne ==
    ASSUME NEW n \in Int, NEW k \in Int
    PROVE  /\ Engine!Smaller(n, k) \in {n, k}
           /\ Engine!Smaller(n, k) <= n /\ Engine!Smaller(n, k) <= k
BY DEF Engine!Smaller

LEMMA SmallerAssociates ==
    ASSUME NEW n \in Int, NEW k \in Int, NEW l \in Int
    PROVE  Engine!Smaller(Engine!Smaller(n, k), l) = Engine!Smaller(n, Engine!Smaller(k, l))
BY DEF Engine!Smaller

LEMMA CapsAreBudgets ==
    ASSUME NEW m \in Features, NEW drawdown \in Int
    PROVE  /\ Engine!TrendBase(Engine!MapTrendRegime(m.ratio)) \in Engine!Budgets
           /\ Engine!MapVolatilityCap(m.vol) \in Engine!Budgets
           /\ Engine!MapIndexDrawdownCap(m.indexDrawdown) \in Engine!Budgets
           /\ Engine!MapAccountDrawdownCap(drawdown) \in Engine!Budgets
           /\ MarketTarget(m) \in Engine!Budgets
<1>1. m.ratio \in Int /\ m.vol \in Int /\ m.indexDrawdown \in Int
  BY HistoryConstants
<1>2. /\ Engine!TrendBase(Engine!MapTrendRegime(m.ratio)) \in Engine!Budgets
      /\ Engine!MapVolatilityCap(m.vol) \in Engine!Budgets
      /\ Engine!MapIndexDrawdownCap(m.indexDrawdown) \in Engine!Budgets
      /\ Engine!MapAccountDrawdownCap(drawdown) \in Engine!Budgets
  BY <1>1 DEF Engine!TrendBase, Engine!MapTrendRegime, Engine!MapVolatilityCap,
              Engine!MapIndexDrawdownCap, Engine!MapAccountDrawdownCap, Engine!Budgets
<1>3. \A n, k \in Engine!Budgets : Engine!Smaller(n, k) \in Engine!Budgets
  BY DEF Engine!Smaller, Engine!Budgets
<1>4. MarketTarget(m) \in Engine!Budgets
  BY <1>2, <1>3 DEF MarketTarget
<1> QED BY <1>2, <1>4

\* The engine takes the least of the caps in another order, and the ceiling with
\* them, which is open.
LEMMA RawTargetsAgree ==
    ASSUME NEW m \in Features, NEW a, AccountDrawdown(a) \in Int
    PROVE  Engine!RawTarget(Observed(m, a), 9000)
             = Engine!Smaller(MarketTarget(m),
                              Engine!MapAccountDrawdownCap(AccountDrawdown(a)))
<1> DEFINE trend == Engine!TrendBase(Engine!MapTrendRegime(m.ratio))
           vol == Engine!MapVolatilityCap(m.vol)
           index == Engine!MapIndexDrawdownCap(m.indexDrawdown)
           account == Engine!MapAccountDrawdownCap(AccountDrawdown(a))
<1>1. /\ trend \in Int /\ vol \in Int /\ index \in Int /\ account \in Int
      /\ account <= 9000
  BY CapsAreBudgets DEF Engine!Budgets
<1>2. Engine!RawTarget(Observed(m, a), 9000)
        = Engine!Smaller(trend, Engine!Smaller(vol, Engine!Smaller(index,
                                               Engine!Smaller(account, 9000))))
  BY DEF Engine!RawTarget, Observed
<1>3. MarketTarget(m) = Engine!Smaller(trend, Engine!Smaller(vol, index))
  BY DEF MarketTarget
<1> HIDE DEF trend, vol, index, account
<1>4. Engine!Smaller(account, 9000) = account
  BY <1>1 DEF Engine!Smaller
<1>5. /\ Engine!Smaller(index, account) \in Int
      /\ Engine!Smaller(vol, index) \in Int
  BY <1>1, SmallerIsOne
<1>6. Engine!Smaller(vol, Engine!Smaller(index, account))
        = Engine!Smaller(Engine!Smaller(vol, index), account)
  BY <1>1, SmallerAssociates
<1>7. Engine!Smaller(trend, Engine!Smaller(Engine!Smaller(vol, index), account))
        = Engine!Smaller(Engine!Smaller(trend, Engine!Smaller(vol, index)), account)
  BY <1>1, <1>5, SmallerAssociates
<1> QED BY <1>2, <1>3, <1>4, <1>6, <1>7 DEF account

LEMMA WeeklyStaysABudget ==
    ASSUME NEW raw \in Engine!Budgets, NEW previous \in Engine!Budgets, NEW target
    PROVE  Engine!WeeklyAdjustment(raw, previous, target) \in Engine!Budgets
BY DEF Engine!WeeklyAdjustment

-----------------------------------------------------------------------------
(* Types *)

LEMMA NextEquityIsAnInteger ==
    ASSUME NEW a, a.equity \in Int, a.budget \in Engine!Budgets, slippage \in Nat,
           NEW budget \in Engine!Budgets, NEW return \in Int
    PROVE  NextEquity(a, budget, return) \in Int
<1> DEFINE gross == a.equity + (a.equity * ((a.budget * return) \div 10000)) \div 10000
           notional == (Abs(budget - a.budget) * gross) \div 10000
<1>1. a.budget \in Int /\ budget \in Int
  BY DEF Engine!Budgets
<1>2. a.budget * return \in Int
  BY <1>1
<1>3. (a.budget * return) \div 10000 \in Int
  BY <1>2
<1>4. a.equity * ((a.budget * return) \div 10000) \in Int
  BY <1>3
<1>5. gross \in Int
  BY <1>4
<1> HIDE DEF gross
<1>6. Abs(budget - a.budget) \in Int
  BY <1>1 DEF Abs
<1>7. Abs(budget - a.budget) * gross \in Int
  BY <1>5, <1>6
<1>8. notional \in Int
  BY <1>7
<1> DEFINE tax == IF budget < a.budget THEN (notional * StampTax) \div 10000 ELSE 0
           fee == Larger((notional * CommissionPerMillion) \div 1000000, MinimumCommission)
           slip == (notional * slippage) \div 10000
<1>9. TradeCost(gross, a.budget, budget)
        = IF notional = 0 THEN 0 ELSE fee + slip + tax
  BY DEF TradeCost
<1>10. NextEquity(a, budget, return) = gross - TradeCost(gross, a.budget, budget)
  BY DEF NextEquity, gross
<1> HIDE DEF notional
<1>11. notional * StampTax \in Int /\ notional * slippage \in Int
  BY <1>8, HistoryConstants
<1>12. tax \in Int /\ slip \in Int
  BY <1>11
<1>13. fee \in Int
  BY <1>8, HistoryConstants DEF CommissionPerMillion, Larger
<1> HIDE DEF tax, fee, slip
<1> QED BY <1>5, <1>9, <1>10, <1>12, <1>13

AccountType(a) ==
    /\ a.equity \in Nat \ {0} /\ a.peak \in Nat /\ a.equity <= a.peak
    /\ a.budget \in Engine!Budgets /\ a.locked \in BOOLEAN
    /\ a.locked => a.budget = 0

RecoveredType(a) ==
    /\ AccountType(a)
    /\ a.lockedFor \in 0..Cooling /\ a.epoch \in Nat
    /\ a.legacyPeak \in Nat /\ a.legacyPeak >= a.peak
    /\ a.redLine \in BOOLEAN

LEMMA DrawdownIsAnInteger ==
    ASSUME NEW a, AccountType(a)
    PROVE  AccountDrawdown(a) \in Int
<1>1. a.peak \in Nat /\ a.peak > 0 /\ (a.peak - a.equity) * 10000 \in Int
  BY DEF AccountType
<1>2. ((a.peak - a.equity) * 10000) \div a.peak \in Int
  BY <1>1
<1> QED BY <1>2 DEF AccountDrawdown

LEMMA ValidatedTypes ==
    ASSUME NEW a, AccountType(a), NEW m \in Features, NEW return \in Returns,
           NEW first \in BOOLEAN, slippage \in Slippages,
           AdvanceValidated(a, m, return, first).equity > 0
    PROVE  AccountType(AdvanceValidated(a, m, return, first))
<1> DEFINE obs == Observed(m, a)
           locked == StaysLocked(a, obs)
           raw == Engine!Smaller(MarketTarget(m),
                                 Engine!MapAccountDrawdownCap(obs.accountDrawdown))
           budget == IF locked THEN 0
                     ELSE Engine!WeeklyAdjustment(raw, a.budget, TargetDay(first))
           equity == NextEquity(a, budget, return)
<1>1. AdvanceValidated(a, m, return, first)
        = [equity |-> equity, peak |-> Larger(a.peak, equity),
           budget |-> budget, locked |-> locked]
  BY DEF AdvanceValidated
<1>2. obs.accountDrawdown \in Int
  BY DrawdownIsAnInteger DEF Observed
<1>3. raw \in Engine!Budgets
  BY <1>2, CapsAreBudgets, SmallerIsOne DEF Engine!Budgets
<1>4. locked \in BOOLEAN
  BY DEF StaysLocked, AccountType, Engine!TriggersRiskLock
<1> HIDE DEF raw, locked, obs
<1>5. budget \in Engine!Budgets /\ (locked => budget = 0)
  BY <1>3, WeeklyStaysABudget DEF AccountType, Engine!Budgets
<1> HIDE DEF budget
<1>6. equity \in Int
  BY <1>5, NextEquityIsAnInteger, HistoryConstants DEF AccountType
<1> HIDE DEF equity
<1>7. equity > 0
  BY <1>1
<1> QED BY <1>1, <1>4, <1>5, <1>6, <1>7 DEF AccountType, Larger

LEMMA RecoveredTypes ==
    ASSUME NEW a, RecoveredType(a), NEW m \in Features, NEW return \in Returns,
           NEW first \in BOOLEAN, slippage \in Slippages,
           AdvanceRecovered(a, m, return, first).equity > 0
    PROVE  RecoveredType(AdvanceRecovered(a, m, return, first))
<1> DEFINE obs == Observed(m, a)
           confirmed == Confirms(a, m, first)
           locked == (a.locked \/ NewlyTriggered(a, obs)) /\ ~confirmed
           cap == IF confirmed THEN ReentryCap
                  ELSE Engine!MapAccountDrawdownCap(obs.accountDrawdown)
           raw == Engine!Smaller(MarketTarget(m), cap)
           budget == IF locked THEN 0
                     ELSE Engine!WeeklyAdjustment(raw, a.budget, TargetDay(first))
           equity == NextEquity(a, budget, return)
           days == DaysLocked(a, obs)
           redLine == a.redLine \/ Engine!CrossesRedLine(obs)
<1>1. AdvanceRecovered(a, m, return, first)
        = [equity |-> equity, peak |-> EpochPeak(a, equity, confirmed),
           legacyPeak |-> Larger(a.legacyPeak, equity),
           budget |-> budget, locked |-> locked,
           lockedFor |-> IF locked THEN days ELSE 0,
           epoch |-> IF confirmed THEN a.epoch + 1 ELSE a.epoch,
           redLine |-> redLine]
  BY DEF AdvanceRecovered
<1>2. obs.accountDrawdown \in Int
  BY DrawdownIsAnInteger DEF Observed, RecoveredType
<1>3. raw \in Engine!Budgets
  <2>1. cap \in Engine!Budgets
    BY <1>2, CapsAreBudgets DEF ReentryCap, Engine!Budgets
  <2> HIDE DEF cap
  <2> QED BY <1>2, <2>1, CapsAreBudgets, SmallerIsOne DEF Engine!Budgets
<1>4. locked \in BOOLEAN /\ confirmed \in BOOLEAN /\ redLine \in BOOLEAN
  BY DEF NewlyTriggered, Confirms, RecoveredType, AccountType
<1>5. days \in 0..Cooling
  BY HistoryConstants DEF DaysLocked, RecoveredType, Engine!Smaller
<1> HIDE DEF raw, locked, obs, confirmed, days, redLine
<1>6. budget \in Engine!Budgets /\ (locked => budget = 0)
  BY <1>3, WeeklyStaysABudget DEF RecoveredType, AccountType, Engine!Budgets
<1> HIDE DEF budget
<1>7. equity \in Int
  BY <1>6, NextEquityIsAnInteger, HistoryConstants DEF RecoveredType, AccountType
<1> HIDE DEF equity
<1>8. equity > 0
  BY <1>1
<1>9. EpochPeak(a, equity, confirmed) \in Nat /\ equity <= EpochPeak(a, equity, confirmed)
      /\ Larger(a.legacyPeak, equity) \in Nat
      /\ Larger(a.legacyPeak, equity) >= EpochPeak(a, equity, confirmed)
  BY <1>4, <1>7, <1>8 DEF EpochPeak, Larger, RecoveredType, AccountType
<1>10. /\ (IF locked THEN days ELSE 0) \in 0..Cooling
       /\ (IF confirmed THEN a.epoch + 1 ELSE a.epoch) \in Nat
  BY <1>4, <1>5, HistoryConstants DEF RecoveredType
<1> QED BY <1>1, <1>4, <1>6, <1>7, <1>8, <1>9, <1>10 DEF RecoveredType, AccountType

HistoryInv ==
    /\ HistoryTypeOK
    /\ AccountType(validated) /\ RecoveredType(recovered)

LEMMA HistoryInvStep == ASSUME HistoryInv, [HistoryNext]_historyVars PROVE HistoryInv'
<1>1. CASE UNCHANGED historyVars
  BY <1>1 DEF historyVars, HistoryInv, HistoryTypeOK, AccountType, RecoveredType
<1>2. ASSUME NEW m \in Features, NEW return \in Returns, ReplayDay(m, return)
      PROVE  HistoryInv'
  <2>1. FirstOfWeek \in BOOLEAN /\ slippage \in Slippages
    BY DEF FirstOfWeek, HistoryInv, HistoryTypeOK
  <2>2. AccountType(validated')
    BY <1>2, <2>1, ValidatedTypes DEF ReplayDay, HistoryInv
  <2>3. RecoveredType(recovered')
    BY <1>2, <2>1, RecoveredTypes DEF ReplayDay, HistoryInv
  <2>4. weekday' \in 1..WeekDays /\ slippage' \in Slippages
    BY <1>2, HistoryConstants DEF ReplayDay, HistoryInv, HistoryTypeOK
  <2>5. moves' \in 0..MaxMoves
    BY <1>2, HistoryConstants DEF ReplayDay, HistoryInv, HistoryTypeOK
  <2>6. reentered' \in BOOLEAN
    BY <1>2 DEF ReplayDay
  <2> QED BY <2>2, <2>3, <2>4, <2>5, <2>6
          DEF HistoryInv, HistoryTypeOK, AccountType, RecoveredType
<1> QED BY <1>1, <1>2 DEF HistoryNext

LEMMA HistoryInvInitially == ASSUME HistoryInit PROVE HistoryInv
<1>1. AccountType(validated)
  BY HistoryConstants DEF HistoryInit, AccountType, Engine!Budgets
<1>2. RecoveredType(recovered)
  BY HistoryConstants DEF HistoryInit, AccountType, RecoveredType, Engine!Budgets
<1>3. slippage \in Slippages /\ weekday \in 1..WeekDays /\ moves \in 0..MaxMoves
  BY HistoryConstants, SMT DEF HistoryInit
<1>4. reentered \in BOOLEAN
  BY Zenon DEF HistoryInit
<1> QED BY <1>1, <1>2, <1>3, <1>4 DEF HistoryInv, HistoryTypeOK, AccountType, RecoveredType

LEMMA HistoryInvAlways == HistorySpec => []HistoryInv
BY HistoryInvInitially, HistoryInvStep, PTL DEF HistorySpec

\* For every market: the accounts keep their types; in a locked account the
\* budget is 0, and the peak of an epoch never passes the one before all epochs.
THEOREM HistoryTypes == HistorySpec => []HistoryTypeOK
<1>1. HistoryInv => HistoryTypeOK
  BY DEF HistoryInv
<1> QED BY <1>1, HistoryInvAlways, PTL

-----------------------------------------------------------------------------
(* The replays and the engine *)

\* Without a request the engine keeps a lock, and otherwise applies the caps.
LEMMA EngineWithoutRequest ==
    ASSUME NEW a, AccountType(a), NEW m \in Features, NEW lockedFor, NEW redLine
    PROVE  LET obs == Observed(m, a)
               locked == a.locked \/ Engine!TriggersRiskLock(obs)
               raw == Engine!Smaller(MarketTarget(m),
                                     Engine!MapAccountDrawdownCap(obs.accountDrawdown))
           IN  AnswersLikeTheEngine(a, lockedFor, redLine, m)
                 = [budget |-> IF locked THEN 0
                               ELSE Engine!WeeklyAdjustment(raw, a.budget, TargetDay(FirstOfWeek)),
                    locked |-> locked]
<1> DEFINE obs == Observed(m, a)
           prior == PriorOf(a, lockedFor, redLine)
           day == TargetDay(FirstOfWeek)
           raw == Engine!Smaller(MarketTarget(m),
                                 Engine!MapAccountDrawdownCap(obs.accountDrawdown))
           decision == Engine!EvaluateRegime(prior, obs, 9000, Engine!NoUnlock, day, day)
           stays == Engine!StaysOrBecomesLocked(prior, obs, Engine!NoUnlock, day, day)
<1>1. ~Engine!Unlocks(prior, obs, Engine!NoUnlock, day, day)
  BY DEF Engine!Unlocks, Engine!UnlockRejections
<1>2. prior.locked = a.locked /\ prior.applied = a.budget
  BY DEF PriorOf
<1> DEFINE locked == a.locked \/ Engine!TriggersRiskLock(obs)
<1>3. stays = locked
  <2>1. stays <=> locked
    BY <1>1, <1>2 DEF Engine!StaysOrBecomesLocked
  <2>2. stays \in BOOLEAN
    BY DEF Engine!StaysOrBecomesLocked
  <2>3. locked \in BOOLEAN
    OBVIOUS
  <2> HIDE DEF stays, locked
  <2> QED BY <2>1, <2>2, <2>3
<1>4. Engine!RawTarget(obs, 9000) = raw
  BY DrawdownIsAnInteger, RawTargetsAgree DEF Observed
<1>5. /\ decision.applied = IF stays THEN 0
                            ELSE Engine!WeeklyAdjustment(Engine!RawTarget(obs, 9000), prior.applied, day)
      /\ decision.locked = stays
  BY DEF Engine!EvaluateRegime
<1>6. AnswersLikeTheEngine(a, lockedFor, redLine, m)
        = [budget |-> decision.applied, locked |-> decision.locked]
  BY DEF AnswersLikeTheEngine
<1> HIDE DEF decision, stays, raw, obs, prior, day, locked
<1>7. decision.applied = IF locked THEN 0 ELSE Engine!WeeklyAdjustment(raw, a.budget, day)
  BY <1>2, <1>3, <1>4, <1>5
<1>8. decision.locked = locked
  BY <1>3, <1>5
<1>9. AnswersLikeTheEngine(a, lockedFor, redLine, m)
        = [budget |-> IF locked THEN 0 ELSE Engine!WeeklyAdjustment(raw, a.budget, day),
           locked |-> locked]
  BY <1>6, <1>7, <1>8
<1> QED BY <1>9 DEF locked, obs, raw, day

LEMMA ValidatedFollows ==
    ASSUME HistoryInv, NEW m \in Features, NEW return \in Returns, ReplayDay(m, return)
    PROVE  [budget |-> validated'.budget, locked |-> validated'.locked]
             = AnswersLikeTheEngine(validated, 0, FALSE, m)
<1>1. AccountType(validated)
  BY DEF HistoryInv
<1>2. validated' = AdvanceValidated(validated, m, return, FirstOfWeek)
  BY DEF ReplayDay
<1> QED BY <1>1, <1>2, EngineWithoutRequest DEF AdvanceValidated, StaysLocked

LEMMA RecoveredFollows ==
    ASSUME HistoryInv, NEW m \in Features, NEW return \in Returns, ReplayDay(m, return),
           recovered'.epoch = recovered.epoch
    PROVE  [budget |-> recovered'.budget, locked |-> recovered'.locked]
             = AnswersLikeTheEngine(recovered, recovered.lockedFor, recovered.redLine, m)
<1> DEFINE obs == Observed(m, recovered)
<1>1. AccountType(recovered) /\ recovered.epoch \in Nat
  BY DEF HistoryInv, RecoveredType
<1>2. recovered' = AdvanceRecovered(recovered, m, return, FirstOfWeek)
  BY DEF ReplayDay
<1>3. ~Confirms(recovered, m, FirstOfWeek)
  BY <1>1, <1>2 DEF AdvanceRecovered
<1>4. (recovered.locked \/ NewlyTriggered(recovered, obs))
        = (recovered.locked \/ Engine!TriggersRiskLock(obs))
  BY <1>1 DEF NewlyTriggered, AccountType, Engine!TriggersRiskLock
<1>5. /\ recovered'.budget
           = IF recovered.locked \/ Engine!TriggersRiskLock(obs) THEN 0
             ELSE Engine!WeeklyAdjustment(
                      Engine!Smaller(MarketTarget(m),
                                     Engine!MapAccountDrawdownCap(obs.accountDrawdown)),
                      recovered.budget, TargetDay(FirstOfWeek))
      /\ recovered'.locked = (recovered.locked \/ Engine!TriggersRiskLock(obs))
  BY <1>2, <1>3, <1>4 DEF AdvanceRecovered
<1> QED BY <1>1, <1>5, EngineWithoutRequest

\* At a week opening the counterfactual asks for what the engine asks for, but
\* for the drawdown.
LEMMA ConfirmsLikeTheEngine ==
    ASSUME HistoryInv, recovered.locked, FirstOfWeek, NEW m \in Features
    PROVE  Confirms(recovered, m, FirstOfWeek) <=> EngineRejects(m) \subseteq {"trigger"}
<1> DEFINE obs == Observed(m, recovered)
           prior == PriorOf(recovered, recovered.lockedFor, recovered.redLine)
           day == TargetDay(FirstOfWeek)
           cooled == recovered.lockedFor + 1 >= Cooling
           negative == Engine!MapTrendRegime(m.ratio) = "negative"
<1>1. recovered.lockedFor \in Nat /\ day \in Nat /\ Cooling \in Nat
  BY HistoryConstants DEF HistoryInv, RecoveredType, TargetDay, Opening
<1>2. Confirms(recovered, m, FirstOfWeek) <=> cooled /\ ~negative /\ m.vol < 2700
  <2>1. DaysLocked(recovered, obs) = Engine!Smaller(recovered.lockedFor + 1, Cooling)
    BY DEF DaysLocked, NewlyTriggered
  <2>2. DaysLocked(recovered, obs) >= Cooling <=> cooled
    BY <1>1, <2>1 DEF Engine!Smaller
  <2> QED BY <2>2 DEF Confirms, EligibleMarket
<1>3. prior.lockedAsOf = day - 2 - recovered.lockedFor
  BY DEF PriorOf
<1>4. Request # Engine!NoUnlock /\ Request.at = day - 1 /\ Request.offset = 0
  BY DEF Request, Engine!NoUnlock
<1>5. Engine!RequestedDay(Request) = day - 1
  <2> HIDE DEF day
  <2>1. \A n \in Int : n \div 1 = n
    OBVIOUS
  <2>2. Request.at + Request.offset = day - 1 /\ day - 1 \in Int
    BY <1>1, <1>4
  <2> QED BY <2>1, <2>2 DEF Engine!RequestedDay, Engine!DayOf
<1>6. obs.ratio = m.ratio /\ obs.vol = m.vol
  BY DEF Observed
<1>7. Engine!MissesCooling(prior, day - 1) <=> ~cooled
  <2> HIDE DEF day, prior
  <2>1. Engine!MissesCooling(prior, day - 1)
          <=> (day - 1) - prior.lockedAsOf < Cooling
    BY DEF Engine!MissesCooling, Engine!CountCoolingDays
  <2>2. (day - 1) - prior.lockedAsOf = recovered.lockedFor + 1
    BY <1>1, <1>3
  <2> QED BY <1>1, <2>1, <2>2
<1> HIDE DEF day, cooled, obs, prior
<1>8. EngineRejects(m) = Engine!UnlockRejections(prior, obs, Request, day, day)
  BY DEF EngineRejects, prior, obs, day
<1>9. /\ ~(Request.at > day) /\ ~(Engine!RequestedDay(Request) > day)
      /\ ~(Engine!RequestedDay(Request) < prior.lockedAsOf)
  BY <1>1, <1>3, <1>4, <1>5
<1> DEFINE Against(r) ==
        \/ r = "trigger" /\ Engine!TriggersRiskLock(obs)
        \/ r = "cooling" /\ ~cooled
        \/ r = "trend" /\ negative
        \/ r = "volatility" /\ obs.vol >= 2700
<1>10. \A r : r \in EngineRejects(m) <=> Against(r)
  <2> DEFINE late == Engine!RequestedDay(Request) > day
             early == Engine!RequestedDay(Request) < prior.lockedAsOf
             after == Request.at > day
             miss == Engine!MissesCooling(prior, day - 1)
             trig == Engine!TriggersRiskLock(obs)
             down == Engine!MapTrendRegime(obs.ratio) = "negative"
             wild == obs.vol >= 2700
  <2>1. EngineRejects(m)
          = {r \in {"trigger", "cooling", "trend", "volatility",
                    "after_evaluation", "future_day", "before_lock"} :
                CASE r = "trigger" -> trig
                  [] r = "cooling" -> miss
                  [] r = "trend" -> down
                  [] r = "volatility" -> wild
                  [] r = "after_evaluation" -> after
                  [] r = "future_day" -> late
                  [] r = "before_lock" -> early}
    BY <1>4, <1>8 DEF Engine!UnlockRejections
  <2>2. ~after /\ ~late /\ ~early
    BY <1>9
  <2>3. (miss <=> ~cooled) /\ (down <=> negative)
    BY <1>6, <1>7
  <2> HIDE DEF trig, miss, down, wild, after, late, early, negative
  <2>4. \A r : r \in EngineRejects(m) <=>
          \/ r = "trigger" /\ trig
          \/ r = "cooling" /\ miss
          \/ r = "trend" /\ down
          \/ r = "volatility" /\ wild
    BY <2>1, <2>2
  <2> QED BY <2>3, <2>4 DEF trig, wild
<1>11. m.vol \in Int
  BY HistoryConstants
<1>12. obs.vol >= 2700 <=> ~(m.vol < 2700)
  BY <1>6, <1>11
<1>13. EngineRejects(m) \subseteq {"trigger"} <=> cooled /\ ~negative /\ m.vol < 2700
  <2> HIDE DEF negative
  <2>1. EngineRejects(m) \subseteq {"trigger"} => cooled /\ ~negative /\ ~(obs.vol >= 2700)
    BY <1>10
  <2>2. cooled /\ ~negative /\ ~(obs.vol >= 2700) => EngineRejects(m) \subseteq {"trigger"}
    BY <1>10
  <2> QED BY <1>12, <2>1, <2>2
<1> DEFINE confirms == Confirms(recovered, m, FirstOfWeek)
           rejects == EngineRejects(m)
           calm == m.vol < 2700
<1>14. confirms <=> cooled /\ ~negative /\ calm
  BY <1>2
<1>15. rejects \subseteq {"trigger"} <=> cooled /\ ~negative /\ calm
  BY <1>13
<1> HIDE DEF negative, confirms, rejects, calm
<1>16. confirms <=> rejects \subseteq {"trigger"}
  BY <1>14, <1>15
<1> QED BY <1>16 DEF confirms, rejects

\* For every market: the replays decide as the engine does, and confirm at the
\* week openings at which nothing but the drawdown is against a release.
THEOREM ReplaysFollow == HistorySpec => ReplaysFollowTheEngine
<1> DEFINE Follows(m) ==
        /\ [budget |-> validated'.budget, locked |-> validated'.locked]
             = AnswersLikeTheEngine(validated, 0, FALSE, m)
        /\ recovered'.epoch = recovered.epoch =>
             [budget |-> recovered'.budget, locked |-> recovered'.locked]
               = AnswersLikeTheEngine(recovered, recovered.lockedFor, recovered.redLine, m)
        /\ recovered.locked /\ FirstOfWeek =>
             (recovered'.epoch > recovered.epoch <=> EngineRejects(m) \subseteq {"trigger"})
<1>1. ASSUME HistoryInv, NEW m \in Features, NEW return \in Returns, ReplayDay(m, return)
      PROVE  Follows(m)
  <2>1. recovered' = AdvanceRecovered(recovered, m, return, FirstOfWeek) /\ recovered.epoch \in Nat
    BY <1>1 DEF ReplayDay, HistoryInv, RecoveredType
  <2>2. recovered'.epoch > recovered.epoch <=> Confirms(recovered, m, FirstOfWeek)
    BY <2>1 DEF AdvanceRecovered
  <2>3. [budget |-> validated'.budget, locked |-> validated'.locked]
          = AnswersLikeTheEngine(validated, 0, FALSE, m)
    BY <1>1, ValidatedFollows
  <2>4. recovered'.epoch = recovered.epoch =>
          [budget |-> recovered'.budget, locked |-> recovered'.locked]
            = AnswersLikeTheEngine(recovered, recovered.lockedFor, recovered.redLine, m)
    BY <1>1, RecoveredFollows
  <2>5. recovered.locked /\ FirstOfWeek =>
          (recovered'.epoch > recovered.epoch <=> EngineRejects(m) \subseteq {"trigger"})
    BY <1>1, <2>2, ConfirmsLikeTheEngine
  <2> QED BY <2>3, <2>4, <2>5
<1>2. HistoryInv => \A m \in Features, return \in Returns : ReplayDay(m, return) => Follows(m)
  BY <1>1
<1> QED BY <1>2, HistoryInvAlways, PTL DEF HistorySpec, ReplaysFollowTheEngine

-----------------------------------------------------------------------------
(* A new lock is a new loss *)

\* An account that held nothing since its epoch began stands at its peak, and
\* until the first confirmation the two replays are one.
FreshInv ==
    /\ ~reentered => recovered.equity = recovered.peak /\ recovered.budget = 0
    /\ recovered.epoch = 0 =>
          /\ validated.equity = recovered.equity /\ validated.peak = recovered.peak
          /\ validated.budget = recovered.budget /\ validated.locked = recovered.locked

LEMMA CashStandsStill ==
    ASSUME NEW a, a.equity \in Nat, a.budget = 0, NEW return \in Int
    PROVE  NextEquity(a, 0, return) = a.equity
<1>1. (0 * return) \div 10000 = 0 /\ (a.equity * 0) \div 10000 = 0
  OBVIOUS
<1>2. TradeCost(a.equity, 0, 0) = 0
  BY DEF TradeCost, Abs
<1> QED BY <1>1, <1>2 DEF NextEquity

LEMMA LocksOnlyAfterHolding ==
    ASSUME HistoryInv, FreshInv, NEW m \in Features, NEW return \in Returns,
           ReplayDay(m, return), ~recovered.locked, recovered'.locked
    PROVE  reentered
<1> DEFINE obs == Observed(m, recovered)
<1>1. recovered' = AdvanceRecovered(recovered, m, return, FirstOfWeek)
  BY DEF ReplayDay
<1>2. Engine!TriggersRiskLock(obs)
  BY <1>1 DEF AdvanceRecovered, NewlyTriggered
<1>3. AccountDrawdown(recovered) <= -1800
  BY <1>2 DEF Engine!TriggersRiskLock, Observed
<1>4. ASSUME ~reentered PROVE FALSE
  <2>1. recovered.equity = recovered.peak /\ recovered.peak \in Nat /\ recovered.peak > 0
    BY <1>4 DEF FreshInv, HistoryInv, RecoveredType, AccountType
  <2>2. (recovered.peak - recovered.equity) * 10000 = 0
    BY <2>1
  <2>3. AccountDrawdown(recovered) = 0
    BY <2>1, <2>2 DEF AccountDrawdown
  <2> QED BY <1>3, <2>3
<1> QED BY <1>4

\* What the two replays compute on a day without a confirmation depends on the
\* same four fields.
LEMMA OneUntilConfirmed ==
    ASSUME HistoryInv, FreshInv, NEW m \in Features, NEW return \in Returns,
           ReplayDay(m, return), recovered'.epoch = 0
    PROVE  /\ \A f \in DOMAIN validated' : validated'[f] = recovered'[f]
           /\ validated'.equity = recovered'.equity /\ validated'.peak = recovered'.peak
           /\ validated'.budget = recovered'.budget /\ validated'.locked = recovered'.locked
<1> DEFINE v == AdvanceValidated(validated, m, return, FirstOfWeek)
           r == AdvanceRecovered(recovered, m, return, FirstOfWeek)
           obs == Observed(m, recovered)
           confirmed == Confirms(recovered, m, FirstOfWeek)
           stays == StaysLocked(validated, obs)
           locked == (recovered.locked \/ NewlyTriggered(recovered, obs)) /\ ~confirmed
           raw == Engine!Smaller(MarketTarget(m),
                                 Engine!MapAccountDrawdownCap(obs.accountDrawdown))
           vBudget == IF stays THEN 0
                      ELSE Engine!WeeklyAdjustment(raw, validated.budget, TargetDay(FirstOfWeek))
           rBudget == IF locked THEN 0
                      ELSE Engine!WeeklyAdjustment(raw, recovered.budget, TargetDay(FirstOfWeek))
<1>1. validated' = v /\ recovered' = r /\ recovered.epoch \in Nat
  BY DEF ReplayDay, HistoryInv, RecoveredType
<1>2. recovered.epoch = 0 /\ ~confirmed
  BY <1>1 DEF AdvanceRecovered
<1>3. /\ validated.equity = recovered.equity /\ validated.peak = recovered.peak
      /\ validated.budget = recovered.budget /\ validated.locked = recovered.locked
  BY <1>2 DEF FreshInv
<1>4. Observed(m, validated) = obs
  BY <1>3 DEF Observed, AccountDrawdown
<1>5. stays = locked
  <2>1. stays <=> locked
    BY <1>2, <1>3 DEF StaysLocked, NewlyTriggered
  <2>2. stays \in BOOLEAN /\ locked \in BOOLEAN
    BY DEF StaysLocked
  <2> HIDE DEF stays, locked
  <2> QED BY <2>1, <2>2
<1>6. v = [equity |-> NextEquity(validated, vBudget, return),
           peak |-> Larger(validated.peak, NextEquity(validated, vBudget, return)),
           budget |-> vBudget, locked |-> stays]
  BY <1>4 DEF AdvanceValidated
<1>7. /\ r.equity = NextEquity(recovered, rBudget, return)
      /\ r.peak = Larger(recovered.peak, r.equity)
      /\ r.budget = rBudget /\ r.locked = locked
  BY <1>2 DEF AdvanceRecovered, EpochPeak
<1> HIDE DEF stays, locked, raw
<1>8. vBudget = rBudget
  BY <1>3, <1>5
<1> HIDE DEF vBudget, rBudget, v, r
<1>9. NextEquity(validated, vBudget, return) = NextEquity(recovered, rBudget, return)
  BY <1>3, <1>8 DEF NextEquity
<1>10. /\ v.equity = r.equity /\ v.peak = r.peak
       /\ v.budget = r.budget /\ v.locked = r.locked
  BY <1>3, <1>5, <1>6, <1>7, <1>8, <1>9
<1>11. DOMAIN v = {"equity", "peak", "budget", "locked"}
  BY <1>6
<1> QED BY <1>1, <1>10, <1>11

LEMMA FreshInvStep ==
    ASSUME HistoryInv, FreshInv, [HistoryNext]_historyVars
    PROVE  FreshInv'
<1>1. CASE UNCHANGED historyVars
  BY <1>1 DEF historyVars, FreshInv
<1>2. ASSUME NEW m \in Features, NEW return \in Returns, ReplayDay(m, return)
      PROVE  FreshInv'
  <2> DEFINE confirmed == Confirms(recovered, m, FirstOfWeek)
  <2>1. recovered' = AdvanceRecovered(recovered, m, return, FirstOfWeek)
    BY <1>2 DEF ReplayDay
  <2> DEFINE bought == recovered'.budget > 0
  <2>5. reentered' <=> bought \/ (reentered /\ ~confirmed)
    BY <1>2, Zenon DEF ReplayDay
  <2>2. RecoveredType(recovered) /\ RecoveredType(recovered')
    BY <1>2, HistoryInvStep DEF HistoryInv, HistoryNext
  <2>3. recovered'.epoch = 0 =>
          /\ validated'.equity = recovered'.equity /\ validated'.peak = recovered'.peak
          /\ validated'.budget = recovered'.budget /\ validated'.locked = recovered'.locked
    BY <1>2, OneUntilConfirmed
  <2>4. ASSUME ~reentered'
        PROVE  recovered'.equity = recovered'.peak /\ recovered'.budget = 0
    <3>1. recovered'.budget = 0
      <4>1. ~bought
        <5> HIDE DEF bought, confirmed
        <5> QED BY <2>4, <2>5
      <4>2. recovered'.budget \in {0, 3000, 6000, 9000}
        BY <2>2 DEF RecoveredType, AccountType, Engine!Budgets
      <4> QED BY <4>1, <4>2
    <3>2. ASSUME confirmed PROVE recovered'.equity = recovered'.peak
      BY <2>1, <3>2 DEF AdvanceRecovered, EpochPeak
    <3>3. ASSUME ~confirmed PROVE recovered'.equity = recovered'.peak
      <4>1. recovered.equity = recovered.peak /\ recovered.budget = 0
        BY <2>4, <2>5, <3>3 DEF FreshInv
      <4>2. recovered'.equity = NextEquity(recovered, recovered'.budget, return)
        BY <2>1 DEF AdvanceRecovered
      <4>3. recovered'.equity = recovered.equity
        BY <2>2, <3>1, <4>1, <4>2, CashStandsStill, HistoryConstants DEF RecoveredType, AccountType
      <4>4. recovered'.peak = Larger(recovered.peak, recovered'.equity)
        BY <2>1, <3>3 DEF AdvanceRecovered, EpochPeak
      <4> QED BY <3>1, <4>1, <4>3, <4>4 DEF Larger
    <3> HIDE DEF confirmed
    <3> QED BY <3>1, <3>2, <3>3
  <2> QED BY <2>3, <2>4 DEF FreshInv
<1> QED BY <1>1, <1>2 DEF HistoryNext

\* For every market: losses of an epoch that is over lock nothing, and the two
\* replays are the same until the first confirmation.
THEOREM NewLocksAreNewLosses == HistorySpec => ANewLockIsANewLoss
<1> DEFINE NewLoss ==
        /\ ~recovered.locked /\ recovered'.locked => reentered
        /\ recovered'.epoch = 0 =>
             \A f \in DOMAIN validated' : validated'[f] = recovered'[f]
<1>1. HistoryInit => FreshInv
  BY DEF HistoryInit, FreshInv
<1>2. HistoryInv /\ FreshInv /\ [HistoryNext]_historyVars => FreshInv'
  BY FreshInvStep
<1>3. HistoryInv /\ FreshInv /\ [HistoryNext]_historyVars => [NewLoss]_historyVars
  <2>1. ASSUME HistoryInv, FreshInv, NEW m \in Features, NEW return \in Returns,
               ReplayDay(m, return)
        PROVE  NewLoss
    <3>1. ~recovered.locked /\ recovered'.locked => reentered
      BY <2>1, LocksOnlyAfterHolding
    <3>2. recovered'.epoch = 0 => \A f \in DOMAIN validated' : validated'[f] = recovered'[f]
      BY <2>1, OneUntilConfirmed
    <3> QED BY <3>1, <3>2
  <2> HIDE DEF NewLoss
  <2> QED BY <2>1 DEF HistoryNext
<1> QED BY <1>1, <1>2, <1>3, HistoryInvAlways, PTL DEF HistorySpec, ANewLockIsANewLoss
=============================================================================
