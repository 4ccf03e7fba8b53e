------------------------------ MODULE Backtest ------------------------------
(***************************************************************************)
(* BacktestEngine.run (app/backtest/engine.py): the day loop that fills    *)
(* yesterday's orders at the open, manages the exits, generates the orders *)
(* of tomorrow at the close, and audits what became of every order.        *)
(*                                                                         *)
(* Days are the trading days of the snapshot: 1..LastDay are the window,   *)
(* SnapshotEnd is the last day the calendar knows.  Prices are integers    *)
(* per lot of 100 shares, and money is in the same unit; the rounding of   *)
(* floats is left out.  The bars of a day, the ranking and the gate of a   *)
(* signal day are whatever they may be.                                    *)
(***************************************************************************)
EXTENDS Integers, Sequences, FiniteSets, Functions

CONSTANTS
    Symbols,        \* stocks
    Bars,           \* daily bars a stock may have, NoBar among them
    Barriers,       \* offsets of take-profit and stop-loss from the entry
    Configs,        \* strategy configurations
    LastDay,        \* valuation_end and entry_end
    SnapshotEnd     \* last trading day in the snapshot's calendar

RateUnit == 100

ASSUME BacktestConstants ==
    /\ IsFiniteSet(Symbols)
    /\ LastDay \in Nat \ {0}
    /\ SnapshotEnd \in Nat /\ SnapshotEnd >= LastDay
    /\ Barriers \subseteq [profit : Nat \ {0}, loss : Nat \ {0}]

NoBar == [kind |-> "missing"]

\* What TradeConfig, PortfolioConfig and CostConfig accept.
ConfigOK(c) ==
    /\ c.initialCash \in Nat \ {0}
    /\ c.maxPositions \in Nat \ {0}
    /\ c.minHolding \in Nat \ {0} /\ c.maxHolding \in Nat
    /\ c.minHolding <= c.maxHolding
    /\ c.fixedHorizon \in BOOLEAN
    /\ c.fixedHorizon => c.minHolding = c.maxHolding
    /\ c.cooldown \in Nat
    /\ c.interval \in Nat \ {0} /\ c.anchor \in 1..SnapshotEnd
    /\ c.maxDelay \in Nat                    \* 0 is the policy "cancel"
    /\ c.requireTargetLot \in BOOLEAN
    /\ c.gate \subseteq Nat
    /\ {c.slippage, c.commissionRate, c.minCommission, c.stampTax} \subseteq Nat

BarOK(b) ==
    b # NoBar =>
        /\ {b.open, b.high, b.low, b.close} \subseteq Nat \ {0}
        /\ b.low <= b.open /\ b.open <= b.high
        /\ b.low <= b.close /\ b.close <= b.high
        /\ {b.suspended, b.atUpLimit, b.atDownLimit} \subseteq BOOLEAN

ASSUME BacktestInputs ==
    /\ \A c \in Configs : ConfigOK(c)
    /\ \A b \in Bars : BarOK(b)
    /\ \A c \in Configs, b \in Bars \ {NoBar} : c.slippage < b.low

VARIABLES
    config,         \* the configuration of this run
    day,            \* the trading day the loop is at
    phase,          \* where in the day the loop is
    bars,           \* bar_map: the bars of the day
    cash,
    positions,      \* per stock the open position; no lots is no position
    pending,        \* orders to try on the next day
    queue,          \* orders still to try today
    target,         \* the equal-weight allocation of today
    unmanaged,      \* positions whose exit was not looked at yet today
    cooldownUntil,  \* per stock the last day of its cooldown, 0 for none
    audit,          \* SignalAttribution: what became of the orders
    realized,       \* sum of the pnl of the trades
    lastExit        \* per stock the exit date of its last trade, 0 for none

loopVars == <<config, day, bars>>
bookVars == <<cash, positions, realized>>
exitVars == <<cooldownUntil, lastExit>>
vars == <<loopVars, phase, bookVars, pending, queue, target, unmanaged, exitVars, audit>>

-----------------------------------------------------------------------------
(* Costs (costs.py) *)

MaxOf(a, b) == IF a >= b THEN a ELSE b
MinOf(a, b) == IF a <= b THEN a ELSE b

Commission(notional) ==
    IF notional <= 0 THEN 0
    ELSE MaxOf((notional * config.commissionRate) \div RateUnit, config.minCommission)

BuyPrice(raw) == raw + config.slippage
SellPrice(raw) == raw - config.slippage

BuyCost(price, lots) == price * lots + Commission(price * lots)

SellNet(price, lots) ==
    price * lots - Commission(price * lots)
                 - (IF price * lots <= 0 THEN 0
                    ELSE (price * lots * config.stampTax) \div RateUnit)

\* The most lots that the allocation pays for, its commission included.
LotsAffordable(allocation, raw) ==
    LET fits == {n \in 1..(allocation \div BuyPrice(raw)) :
                    BuyCost(BuyPrice(raw), n) <= allocation}
    IN  IF allocation <= 0 \/ fits = {} THEN 0
        ELSE CHOOSE n \in fits : \A m \in fits : m <= n

-----------------------------------------------------------------------------
(* Positions and orders *)

NoPosition == [lots |-> 0, entered |-> 0, price |-> 0, fee |-> 0, days |-> 0,
               barrier |-> [profit |-> 0, loss |-> 0]]

Held == {s \in Symbols : positions[s].lots > 0}

CostBasis(p) == p.price * p.lots + p.fee

\* Plausible bug: the pnl of a trade leaves out what buying cost.
PnlBeforeBuyFee(p, net) == net - p.price * p.lots

Pnl(p, net) == net - CostBasis(p)

\* _mark_to_market at the closes of the day.
MarketValue(b) == SumFunction([s \in Held |-> b[s].close * positions[s].lots])

SymbolsOf(orders) == {orders[i].symbol : i \in DOMAIN orders}

\* Plausible bug: the barriers are checked, the holding horizon is not.
ExitPriceIgnoringTimeout(p, bar) ==
    LET stop == p.price - p.barrier.loss
        profit == p.price + p.barrier.profit
    IN  IF bar.open <= stop \/ bar.open >= profit THEN bar.open
        ELSE IF bar.low <= stop THEN stop
        ELSE IF bar.high >= profit THEN profit
        ELSE 0

\* What an exit would be executed at, or 0 when the position stays.  A gap at
\* the open goes before the intraday barriers, and the stop before the profit.
ExitPrice(p, bar) ==
    LET stop == p.price - p.barrier.loss
        profit == p.price + p.barrier.profit
        timeout == IF p.days >= config.maxHolding THEN bar.close ELSE 0
    IN  IF config.fixedHorizon THEN timeout
        ELSE IF bar.open <= stop \/ bar.open >= profit THEN bar.open
        ELSE IF bar.low <= stop THEN stop
        ELSE IF bar.high >= profit THEN profit
        ELSE timeout

-----------------------------------------------------------------------------
(* The window *)

\* The last day whose next trading day is still inside the window.
SignalEnd == LastDay - 1

\* Plausible bug: the engine signals on the last day of the window too.
IsSignalDayToTheEnd ==
    \/ config.interval = 1
    \/ day >= config.anchor /\ (day - config.anchor) % config.interval = 0

IsSignalDay ==
    /\ day <= SignalEnd
    /\ \/ config.interval = 1
       \/ day >= config.anchor /\ (day - config.anchor) % config.interval = 0

NewAudit == [generated |-> 0, filled |-> 0, blocked |-> 0, unfunded |-> 0,
             deferrals |-> 0, expired |-> 0, overdue |-> 0]

Init ==
    /\ config \in Configs
    /\ day = 0
    /\ phase = "closed"
    /\ bars = [s \in Symbols |-> NoBar]
    /\ cash = config.initialCash
    /\ positions = [s \in Symbols |-> NoPosition]
    /\ pending = <<>> /\ queue = <<>>
    /\ target = 0
    /\ unmanaged = {}
    /\ cooldownUntil = [s \in Symbols |-> 0]
    /\ audit = NewAudit
    /\ realized = 0
    /\ lastExit = [s \in Symbols |-> 0]

-----------------------------------------------------------------------------
(* A ValueError ends the run without a result. *)

Raise ==
    /\ phase' = "raised"
    /\ UNCHANGED <<loopVars, bookVars, pending, queue, target, unmanaged, exitVars, audit>>

-----------------------------------------------------------------------------
(* _execute_pending *)

\* The orders of a list for stocks that are not held, in their order.
NotHeld(orders) ==
    LET kept[n \in 0..Len(orders)] ==
            IF n = 0 THEN <<>>
            ELSE IF orders[n].symbol \in Held THEN kept[n - 1]
            ELSE Append(kept[n - 1], orders[n])
    IN  kept[Len(orders)]

\* Plausible bug: one slot too few is tried, and the last order is silently dropped.
CandidatesButOne(orders) ==
    LET candidates == NotHeld(orders)
    IN  SubSeq(candidates, 1,
               MinOf(config.maxPositions - Cardinality(Held) - 1, Len(candidates)))

\* The orders that get a try today: those not held, up to the free slots.
Candidates(orders) ==
    LET slots == config.maxPositions - Cardinality(Held)
        candidates == NotHeld(orders)
    IN  SubSeq(candidates, 1, MinOf(MaxOf(slots, 0), Len(candidates)))

\* A new day: the orders of yesterday, tried for an equal share of the equity.
OpenDay ==
    /\ phase = "closed"
    /\ day < LastDay
    /\ day' = day + 1
    /\ bars' \in [Symbols -> Bars]
    /\ queue' = Candidates(pending)
    /\ pending' = <<>>
    /\ IF pending = <<>> \/ Cardinality(Held) >= config.maxPositions
       THEN phase' = "entries" /\ target' = 0
       ELSE IF \E s \in Held : bars'[s] = NoBar
       THEN phase' = "raised" /\ target' = 0
       ELSE /\ phase' = "entries"
            /\ target' = (cash + MarketValue(bars')) \div config.maxPositions
    /\ UNCHANGED <<config, bookVars, unmanaged, exitVars, audit>>

\* Plausible bug: the limit of the delay is off by a day.
DelayOverADayLater(delay) == delay > config.maxDelay + 1

DelayOver(delay) == delay > config.maxDelay

\* _defer_blocked_entry: the order waits for the next day, or is given up.
Blocked(order) ==
    LET tried == [audit EXCEPT !.blocked = @ + 1]
        delay == order.delay + 1
    IN  /\ IF DelayOver(delay)
           THEN /\ audit' = [tried EXCEPT !.expired =
                                @ + (IF config.maxDelay = 0 THEN 0 ELSE 1)]
                /\ UNCHANGED pending
           ELSE /\ audit' = [tried EXCEPT !.deferrals = @ + 1]
                /\ pending' = Append(pending, [order EXCEPT !.delay = delay])
        /\ UNCHANGED bookVars

\* The lots an order buys at the open; a target too small for one lot falls
\* back on all the cash, unless the configuration forbids it.
LotsToBuy(raw) ==
    LET lots == LotsAffordable(MinOf(cash, target), raw)
    IN  IF lots > 0 \/ config.requireTargetLot THEN lots
        ELSE LotsAffordable(cash, raw)

Fill(order, lots) ==
    LET price == BuyPrice(bars[order.symbol].open)
        total == BuyCost(price, lots)
    IN  IF lots = 0 \/ total > cash
        THEN /\ audit' = [audit EXCEPT !.unfunded = @ + 1]
             /\ UNCHANGED bookVars
        ELSE /\ audit' = [audit EXCEPT !.filled = @ + 1]
             /\ cash' = cash - total
             /\ positions' = [positions EXCEPT ![order.symbol] =
                    [lots |-> lots, entered |-> day, price |-> price,
                     fee |-> Commission(price * lots), days |-> 0,
                     barrier |-> order.barrier]]
             /\ UNCHANGED realized

\* One order of the day, in the order they were ranked.
AttemptEntry ==
    /\ phase = "entries"
    /\ queue # <<>>
    /\ LET order == Head(queue)
           bar == bars[order.symbol]
       IN  IF bar = NoBar THEN Raise
           ELSE /\ queue' = Tail(queue)
                /\ \/ /\ bar.suspended \/ bar.atUpLimit
                      /\ Blocked(order)
                   \/ /\ ~bar.suspended /\ ~bar.atUpLimit
                      /\ Fill(order, LotsToBuy(bar.open))
                      /\ UNCHANGED pending
                /\ UNCHANGED <<loopVars, phase, target, unmanaged, exitVars>>

\* Plausible bug: what was bought today is managed today.
ToManageBoughtToday == Held

\* What was bought today is not looked at for an exit (bought_today).
ToManage == {s \in Held : positions[s].entered # day}

EntriesDone ==
    /\ phase = "entries"
    /\ queue = <<>>
    /\ phase' = "exits"
    /\ target' = 0
    /\ unmanaged' = ToManage
    /\ UNCHANGED <<loopVars, bookVars, pending, queue, exitVars, audit>>

-----------------------------------------------------------------------------
(* _manage_exits and _cooldown_dates *)

\* Plausible bug: the cooldown counts the day of the exit.
CooldownEndFromExitDay ==
    IF config.cooldown > 0 /\ day + config.cooldown <= SnapshotEnd
    THEN day + config.cooldown - 1 ELSE 0

\* The last day of the cooldown, or 0: a calendar that ends sooner gives none.
CooldownEnd ==
    IF config.cooldown > 0 /\ day + config.cooldown <= SnapshotEnd
    THEN day + config.cooldown ELSE 0

Sell(s, raw) ==
    LET net == SellNet(SellPrice(raw), positions[s].lots)
    IN  /\ cash' = cash + net
        /\ realized' = realized + Pnl(positions[s], net)
        /\ positions' = [positions EXCEPT ![s] = NoPosition]
        /\ lastExit' = [lastExit EXCEPT ![s] = day]
        /\ cooldownUntil' = [cooldownUntil EXCEPT ![s] =
                                IF CooldownEnd > 0 THEN CooldownEnd ELSE @]
        /\ UNCHANGED audit

Keep(s, overdue) ==
    /\ positions' = [positions EXCEPT ![s].days = @ + 1]
    /\ audit' = [audit EXCEPT !.overdue = @ + overdue]
    /\ UNCHANGED <<cash, realized, exitVars>>

\* Whether an aged position is due to leave, were its stock tradable.
DueToLeave(p, bar) ==
    p.days >= config.minHolding /\ ExitPrice(p, bar) > 0

ManageExit(s) ==
    LET bar == bars[s]
        aged == [positions[s] EXCEPT !.days = @ + 1]
    IN  /\ phase = "exits"
        /\ s \in unmanaged
        /\ IF bar = NoBar THEN Raise
           ELSE /\ unmanaged' = unmanaged \ {s}
                /\ \/ ~DueToLeave(aged, bar) /\ Keep(s, 0)
                   \/ /\ DueToLeave(aged, bar)
                      /\ bar.suspended \/ bar.atDownLimit
                      /\ Keep(s, 1)
                   \/ /\ DueToLeave(aged, bar)
                      /\ ~bar.suspended /\ ~bar.atDownLimit
                      /\ Sell(s, ExitPrice(aged, bar))
                /\ UNCHANGED <<loopVars, phase, pending, queue, target>>

-----------------------------------------------------------------------------
(* _generate_orders *)

\* Plausible bug: the orders that are still waiting take no slot.
FreeSlotsBesidesPositions == config.maxPositions - Cardinality(Held)

FreeSlots == config.maxPositions - Cardinality(Held) - Len(pending)

\* A ranked stock may be ordered when it is neither held nor pending and its
\* cooldown is over.
Orderable ==
    {s \in Symbols : /\ s \notin Held \cup SymbolsOf(pending)
                     /\ day > cooldownUntil[s]}

\* The picks of a ranking: score, membership and correlation filters may leave
\* any of the orderable stocks, in any order.
Picks(take) ==
    UNION {{q \in [1..n -> Orderable] : \A i, j \in 1..n : q[i] = q[j] => i = j} :
              n \in 0..MaxOf(take, 0)}

GenerateOrders ==
    /\ phase = "exits"
    /\ unmanaged = {}
    /\ phase' = "closed"
    /\ bars' = [s \in Symbols |-> NoBar]
    /\ \/ ~IsSignalDay /\ UNCHANGED <<pending, audit>>
       \/ /\ IsSignalDay
          /\ \E allowed \in config.gate :
             \E picks \in Picks(MinOf(allowed, FreeSlots)) :
             \E barrier \in [DOMAIN picks -> Barriers] :
                /\ pending' = pending \o
                      [i \in DOMAIN picks |->
                          [symbol |-> picks[i], signal |-> day, delay |-> 0,
                           barrier |-> barrier[i]]]
                /\ audit' = [audit EXCEPT !.generated = @ + Len(picks)]
    /\ UNCHANGED <<config, day, bookVars, queue, target, unmanaged, exitVars>>

\* After the last day: what is still deferred expires with the window.
Finish ==
    /\ phase = "closed"
    /\ day = LastDay
    /\ phase' = "done"
    /\ audit' = [audit EXCEPT !.expired = @ + Len(pending)]
    /\ UNCHANGED <<loopVars, bookVars, pending, queue, target, unmanaged, exitVars>>

Next ==
    \/ OpenDay
    \/ AttemptEntry
    \/ EntriesDone
    \/ \E s \in Symbols : ManageExit(s)
    \/ GenerateOrders
    \/ Finish

Spec == Init /\ [][Next]_vars

-----------------------------------------------------------------------------
(* Properties *)

\* Type correctness.
Order == [symbol : Symbols, signal : 1..LastDay, delay : 0..config.maxDelay,
          barrier : Barriers]

BacktestTypeOK ==
    /\ config \in Configs
    /\ day \in 0..LastDay
    /\ phase \in {"closed", "entries", "exits", "done", "raised"}
    /\ bars \in [Symbols -> Bars \cup {NoBar}]
    /\ cash \in Int /\ target \in Int /\ realized \in Int
    /\ \A s \in Symbols :
          /\ positions[s].lots \in Nat /\ positions[s].days \in Nat
          /\ positions[s].entered \in 0..day
    /\ pending \in Seq(Order) /\ queue \in Seq(Order)
    /\ unmanaged \subseteq Held
    /\ cooldownUntil \in [Symbols -> 0..SnapshotEnd]
    /\ lastExit \in [Symbols -> 0..day]
    /\ audit \in [{"generated", "filled", "blocked", "unfunded",
                   "deferrals", "expired", "overdue"} -> Nat]

\* Positions, orders in hand and orders waiting never exceed max_positions,
\* and no stock is held or ordered twice: what makes the silent cut of
\* _execute_pending (candidates[:slots], the early return) cut nothing.
NeverOverCommitted ==
    LET orders == queue \o pending
    IN  /\ Cardinality(Held) + Len(orders) <= config.maxPositions
        /\ SymbolsOf(orders) \cap Held = {}
        /\ Cardinality(SymbolsOf(orders)) = Len(orders)

\* No order disappears from the audit: each one generated is filled, refused
\* for want of money, blocked for good, or still waiting; and when the run has
\* ended, those that neither filled nor were refused are cancelled or expired.
OrdersAccountedFor ==
    /\ audit.generated = audit.filled + audit.unfunded
                         + (audit.blocked - audit.deferrals)
                         + Len(queue) + Len(pending)
    /\ phase = "done" =>
          audit.generated = audit.filled + audit.unfunded
              + (IF config.maxDelay = 0 THEN audit.blocked ELSE audit.expired)

\* A waiting order was tried on every day since its signal, and on no more
\* than max_entry_delay_days; the window never ends on an order not yet tried.
DeferredOrdersAreTriedDaily ==
    /\ phase \in {"closed", "done"} =>
          \A i \in DOMAIN pending :
              /\ pending[i].delay = day - pending[i].signal
              /\ pending[i].delay <= config.maxDelay
    /\ phase = "done" => \A i \in DOMAIN pending : pending[i].delay > 0

CostOfHoldings == SumFunction([s \in Held |-> CostBasis(positions[s])])

BooksBalance == cash = config.initialCash + realized - CostOfHoldings

\* The cash is the initial cash, plus the pnl of the trades, minus what the
\* open positions cost; and no entry is ever paid with cash that is not there.
CashMatchesTheTrades ==
    /\ BooksBalance
    /\ cash >= 0

\* How many days a position has been kept past max_holding_days.
DaysOverdue(p) == MaxOf(0, p.days - config.maxHolding + 1)

\* A position kept beyond max_holding_days was blocked from leaving on every
\* day since, and the audit counts those days.
OverdueHoldingsWereBlocked ==
    SumFunction([s \in Held |-> DaysOverdue(positions[s])]) <= audit.overdue

\* A position leaves only min_holding_days or more trading days after the day
\* it was filled, and so never on that day (T+1).
NoEarlyExit ==
    [][\A s \in Held : s \notin Held' =>
          day - positions[s].entered >= config.minHolding]_vars

\* A stock is not ordered again before cooldown_days trading days have passed
\* since its exit, unless the calendar of the snapshot ends before the last of
\* them: then it may be ordered again on the day of the exit.
CooldownKept ==
    config.cooldown > 0 =>
        \A i \in DOMAIN pending :
            LET exit == lastExit[pending[i].symbol]
            IN  exit > 0 /\ exit + config.cooldown <= SnapshotEnd =>
                    pending[i].signal > exit + config.cooldown

=============================================================================
