----------------------------- MODULE MCBacktest -----------------------------
(***************************************************************************)
(* Instances of Backtest for TLC.                                          *)
(***************************************************************************)
EXTENDS Backtest, TLC

\* Prices per lot around 10, a tick of slippage and a commission of at least 1.
Quiet == [kind |-> "bar", open |-> 10, high |-> 10, low |-> 10, close |-> 10,
          suspended |-> FALSE, atUpLimit |-> FALSE, atDownLimit |-> FALSE]
Halted == [Quiet EXCEPT !.suspended = TRUE]
UpLimit == [Quiet EXCEPT !.open = 12, !.high = 12, !.low = 12, !.close = 12,
                         !.atUpLimit = TRUE]
Crash == [Quiet EXCEPT !.open = 7, !.high = 7, !.low = 7, !.close = 7,
                       !.atDownLimit = TRUE]
Swing == [Quiet EXCEPT !.high = 14, !.low = 7, !.close = 12]

AllBars == {Quiet, Halted, UpLimit, Crash, Swing, NoBar}
OneBarrier == {[profit |-> 3, loss |-> 3]}

Deferring ==
    [initialCash |-> 40, maxPositions |-> 2, minHolding |-> 1, maxHolding |-> 2, fixedHorizon |-> FALSE,
     cooldown |-> 1, interval |-> 1, anchor |-> 1, maxDelay |-> 2,
     requireTargetLot |-> FALSE, gate |-> {0, 2}, slippage |-> 1,
     commissionRate |-> 10, minCommission |-> 1, stampTax |-> 10]

Rebalancing ==
    [Deferring EXCEPT !.minHolding = 2, !.fixedHorizon = TRUE, !.cooldown = 0,
                      !.interval = 2, !.anchor = 1, !.maxDelay = 0,
                      !.requireTargetLot = TRUE]

\* Half of this cash is less than a lot costs; its first exit is on day 4, and
\* the calendar ends before the cooldown of that exit.
ShortOfCash ==
    [Deferring EXCEPT !.initialCash = 22, !.minHolding = 2, !.cooldown = 3, !.maxDelay = 1]

AllConfigs == {Deferring, Rebalancing, ShortOfCash}

SymbolNames == Permutations(Symbols)
=============================================================================
