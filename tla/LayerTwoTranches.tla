-------------------------- MODULE LayerTwoTranches --------------------------
(***************************************************************************)
(* Layer two's chain of diagnostics over one history: a phase schedule     *)
(* planned once, at each of its opportunities an allocation from the       *)
(* carried state, the entry at the next open, the exit after a full        *)
(* holding cycle, and the longitudinal report that strings entries and     *)
(* exits together as cash and occupied tranches.                           *)
(*                                                                         *)
(* A caller hands in the reports day by day; what a report may say is      *)
(* recomputed from its inputs, so the caller is left with a choice of      *)
(* rankings and of the events handed in at all.  Files are bound to the    *)
(* run or not: bound, the constraint report is recomputed from the phase   *)
(* report; unbound, only its own hash is checked and a caller may restate  *)
(* the account's equity in it, as the tests do.                            *)
(*                                                                         *)
(* Days are indices of the phase calendar, whose first day is the anchor.  *)
(* Prices are of one board lot, amounts in whole yuan.                     *)
(***************************************************************************)
EXTENDS Integers, FiniteSets, Sequences, FiniteSetsExt

CONSTANTS
    Symbols,      \* the stocks ranked
    Clusters,     \* the identifiers of risk clusters
    Rankings,     \* the rankings a caller may hand in
    Worlds,       \* the market, the clusters and the size factors of a history
    Budgets,      \* risk budgets, in tenths of the equity
    MaxSlots,     \* the cap on active slots of each budget
    Capital,      \* the initial cash and the equity of the phase report
    MinSlot,      \* the least base slot
    Cycle,        \* trading days in a holding cycle
    LastDay       \* the bound on a history

ASSUME CycleAssumption == Cycle \in Nat \ {0}
ASSUME SlotsAssumption == \A b \in Budgets : b \in Nat /\ MaxSlots[b] \in 0..Cycle
ASSUME MoneyAssumption == Capital \in Nat /\ MinSlot \in Nat \ {0} /\ LastDay \in Nat \ {0}

\* What a store says of a stock on a day, with the limits published for it.
Quotes == [status : {"tradable", "known_full_day_suspension", "unknown"}, open : Nat, low : Nat, high : Nat]

ASSUME WorldsAssumption ==
    \A w \in Worlds :
        /\ w.market \in [Symbols -> [1..LastDay -> Quotes]]
        /\ w.cluster \in [Symbols -> [1..LastDay -> Clusters]]
        /\ w.factor \in [Symbols -> 0..1000]

VARIABLES
    world,        \* what market data and evidence say of each day
    budget,       \* the risk budget of the phase report
    bound,        \* whether reports are verified against files
    day,          \* the day of the longitudinal run
    cash, positions,
    transitions,  \* the rows of the longitudinal report
    halted        \* an exit could not be observed

vars == <<world, budget, bound, day, cash, positions, transitions, halted>>

-----------------------------------------------------------------------------
(* The phase schedule *)

Sleeve == (Capital * budget) \div 10
SlotCount == IF budget = 0 THEN 0 ELSE Min({MaxSlots[budget], Sleeve \div MinSlot})
SlotNotional == Sleeve \div SlotCount

\* Uniformly staggered over the cycle.
Offset(tranche) == (tranche * Cycle) \div SlotCount

\* The tranche whose turn it is on a day, if any.
HasTurn(tranche, d) == tranche \in 0..(SlotCount - 1) /\ Offset(tranche) = (d - 1) % Cycle

-----------------------------------------------------------------------------
(* The constraint report of a decision day *)

Cluster(s, d) == world.cluster[s][d]
ClusterCap == (35 * Sleeve) \div 100

\* Factors are per mille of a slot; 0 stands for a candidate excluded or unknown.
Target(s) == (SlotNotional * world.factor[s]) \div 1000
Usable(s) == world.factor[s] > 0 /\ Target(s) =< ClusterCap

-----------------------------------------------------------------------------
(* The allocation of one opportunity *)

Notional(ps) == MapThenSumSet(LAMBDA p : p.notional, ps)
OfCluster(c) == {p \in positions : p.cluster = c}

\* A bound constraint report has the equity of the phase report; an unbound one
\* is whatever makes the state pass.  A held stock that is ranked again must
\* still be in the cluster it was bought in, and its tranche must exist.
StateAccepted(ranked, d) ==
    /\ bound => cash + Notional(positions) = Capital
    /\ Cardinality(positions) =< SlotCount
    /\ \A p \in positions :
          /\ p.tranche < SlotCount
          /\ (\E i \in DOMAIN ranked : ranked[i] = p.symbol) => Cluster(p.symbol, d) = p.cluster

GatePassed(tranche) ==
    /\ SlotCount > 0
    /\ \A p \in positions :
          Cardinality(OfCluster(p.cluster)) =< 2 /\ Notional(OfCluster(p.cluster)) =< ClusterCap
    /\ Notional(positions) =< Sleeve
    /\ \A p \in positions : p.tranche # tranche

AdmissibleByCount(s, d) ==
    /\ \A p \in positions : p.symbol # s
    /\ Usable(s)
    /\ Target(s) =< cash
    /\ Notional(positions) + Target(s) =< Sleeve
    /\ Cardinality(OfCluster(Cluster(s, d))) < 2

Admissible(s, d) ==
    /\ \A p \in positions : p.symbol # s
    /\ Usable(s)
    /\ Target(s) =< cash
    /\ Notional(positions) + Target(s) =< Sleeve
    /\ Cardinality(OfCluster(Cluster(s, d))) < 2
    /\ Notional(OfCluster(Cluster(s, d))) + Target(s) =< ClusterCap

\* The first admissible candidate of the ranking takes the slot.
Proposed(s, ranked, d) ==
    \E i \in DOMAIN ranked :
        /\ ranked[i] = s
        /\ Admissible(s, d)
        /\ \A j \in 1..(i - 1) : ~Admissible(ranked[j], d)

-----------------------------------------------------------------------------
(* Entry and exit against the market *)

Quote(s, d) == world.market[s][d]

Commission(notional) == Max({5, (notional * 25) \div 100000})

\* The open with 5 basis points of slippage, within the published limits.
BuyPrice(q) == Min({q.open + (q.open * 5) \div 10000, q.high})
SellPrice(q) == Max({q.open - (q.open * 5) \div 10000, q.low})

Cost(lots, price) == lots * price + Commission(lots * price)

\* The lots a target pays for, the commission included, tried from the most down.
Affordable(target, price) ==
    {n \in 1..(target \div price) :
        /\ Cost(n, price) =< target
        /\ \A m \in (n + 1)..(target \div price) : Cost(m, price) > target}

Fillable(q) == q.status = "tradable" /\ q.open < q.high

\* The stamp tax is that of the days before 28 August 2023, which halved it.
NetSale(lots, price) ==
    LET gross == lots * price IN gross - Commission(gross) - gross \div 1000

ExitCountedFromTheDecision(entered) == entered + Cycle - 1

ScheduledExit(entered) == entered + Cycle

UnknownIsABlock(q) == IF q.status = "tradable" /\ q.open > q.low THEN "exitable" ELSE "blocked"

Attempt(q) ==
    CASE q.status = "unknown" -> "unknown"
      [] q.status = "tradable" /\ q.open > q.low -> "exitable"
      [] OTHER -> "blocked"

\* The observations run from the scheduled day on without a gap and end with the
\* first that is not a block, so a report of this day has blocks before it.
ObservedUntil(p, d) ==
    /\ d >= ScheduledExit(p.entered)
    /\ \A e \in ScheduledExit(p.entered)..(d - 1) : Attempt(Quote(p.symbol, e)) = "blocked"

-----------------------------------------------------------------------------
(* The longitudinal run *)

Init ==
    /\ world \in Worlds
    /\ budget \in Budgets
    /\ bound \in BOOLEAN
    /\ day = 1
    /\ cash = Capital
    /\ positions = {}
    /\ transitions = {}
    /\ halted = FALSE

Record(kind, p) ==
    transitions' = transitions \cup
        {[day |-> day, kind |-> kind, tranche |-> p.tranche, symbol |-> p.symbol, entered |-> p.entered]}

CarriedAtCost(s, tranche, lots, price) ==
    [tranche |-> tranche, symbol |-> s, cluster |-> Cluster(s, day - 1), entered |-> day, lots |-> lots,
     notional |-> Cost(lots, price), used |-> Cost(lots, price), status |-> "open"]

\* The position an entry diagnostic opens: bought today, decided the day before,
\* and carried at what the stock cost.
Opened(s, tranche, lots, price) ==
    [tranche |-> tranche, symbol |-> s, cluster |-> Cluster(s, day - 1), entered |-> day, lots |-> lots,
     notional |-> lots * price, used |-> Cost(lots, price), status |-> "open"]

\* One entry a day and before the exits: decided from the state the day starts
\* with, which is the state after the exits of the day before.
Enter ==
    /\ ~halted
    /\ day > 1
    /\ \A t \in transitions : t.day < day
    /\ \E tranche \in 0..(SlotCount - 1), ranked \in Rankings, s \in Symbols :
          /\ HasTurn(tranche, day - 1)
          /\ StateAccepted(ranked, day - 1)
          /\ GatePassed(tranche)
          /\ Proposed(s, ranked, day - 1)
          /\ Fillable(Quote(s, day))
          /\ \E lots \in Affordable(Target(s), BuyPrice(Quote(s, day))) :
                LET p == Opened(s, tranche, lots, BuyPrice(Quote(s, day)))
                IN  /\ p.used =< cash
                    /\ cash' = cash - p.used
                    /\ positions' = positions \cup {p}
                    /\ Record("entry_opened", p)
    /\ UNCHANGED <<world, budget, bound, day, halted>>

\* Sold at the open: cash and tranche are free again.
ExitClosed(p) ==
    /\ Attempt(Quote(p.symbol, day)) = "exitable"
    /\ cash' = cash + NetSale(p.lots, SellPrice(Quote(p.symbol, day)))
    /\ positions' = positions \ {p}
    /\ Record("exit_closed", p)
    /\ UNCHANGED halted

\* The observations end on a block: the report is used up and the position
\* keeps its tranche for the rest of the run.
ExitDeferred(p) ==
    /\ Attempt(Quote(p.symbol, day)) = "blocked"
    /\ positions' = (positions \ {p}) \cup {[p EXCEPT !.status = "deferred_still_open"]}
    /\ Record("exit_deferred", p)
    /\ UNCHANGED <<cash, halted>>

\* Nothing is known of the day: the run ends here.
ExitUnknown(p) ==
    /\ Attempt(Quote(p.symbol, day)) = "unknown"
    /\ positions' = (positions \ {p}) \cup {[p EXCEPT !.status = "unknown_halted"]}
    /\ halted' = TRUE
    /\ Record("exit_unknown_halt", p)
    /\ UNCHANGED cash

Exit ==
    /\ ~halted
    /\ \E p \in positions :
          /\ p.status = "open"
          /\ ObservedUntil(p, day)
          /\ ExitClosed(p) \/ ExitDeferred(p) \/ ExitUnknown(p)
    /\ UNCHANGED <<world, budget, bound, day>>

NextDay ==
    /\ ~halted
    /\ day < LastDay
    /\ day' = day + 1
    /\ UNCHANGED <<world, budget, bound, cash, positions, transitions, halted>>

Next == Enter \/ Exit \/ NextDay

Spec == Init /\ [][Next]_vars

-----------------------------------------------------------------------------
(* Properties *)

Statuses == {"open", "deferred_still_open", "unknown_halted"}
Kinds == {"entry_opened", "exit_closed", "exit_deferred", "exit_unknown_halt"}
Positions ==
    [tranche : Nat, symbol : Symbols, cluster : Clusters, entered : Nat, lots : Nat,
     notional : Int, used : Int, status : Statuses]
Rows == [day : Nat, kind : Kinds, tranche : Nat, symbol : Symbols, entered : Nat]

\* The types of what the longitudinal report carries from day to day.
LayerTwoTypeOK ==
    /\ world \in Worlds /\ budget \in Budgets /\ bound \in BOOLEAN /\ halted \in BOOLEAN
    /\ day \in 1..LastDay /\ cash \in Int
    /\ positions \subseteq Positions
    /\ transitions \subseteq Rows

Entries == {t \in transitions : t.kind = "entry_opened"}

\* A tranche bought again after an exit rests a cycle in between: it is still
\* occupied at the decision one cycle after its last, because the buy comes a
\* day after the decision and the sale a cycle after the buy.  Each tranche is
\* therefore entered at most every second cycle (layer_two_tranche_phase_schedule
\* against layer_two_fixed_horizon_exit_diagnostic, the next open and the rule that
\* exits of a day do not free its entry).
ATrancheRestsACycle ==
    \A t, u \in Entries : t.tranche = u.tranche /\ t.day < u.day => u.day >= t.day + 2 * Cycle

\* With files bound a run holds one position at a time, whatever number of
\* tranches the budget plans: the allocator wants the carried equity to be that
\* of the phase report, and the commission of the first buy is gone from it
\* (_validate_state_against_constraint, assemble_layer_two_constraints).
ABoundRunHoldsOnePosition == bound => Cardinality(positions) =< 1

\* Whatever is deferred, sold and bought again, the positions carried fit in the
\* sleeve, no two share a stock or a tranche, and no cluster has more than two or
\* more than its share (_reject_candidate, _portfolio_gate_reason).
CarriedWithinTheSleeve ==
    /\ Notional(positions) =< Sleeve
    /\ \A p, q \in positions : p # q => p.symbol # q.symbol /\ p.tranche # q.tranche
    /\ \A p \in positions :
          Cardinality(OfCluster(p.cluster)) =< 2 /\ Notional(OfCluster(p.cluster)) =< ClusterCap

\* A sale is on the first day from the scheduled one on that was open to sellers,
\* with every day before it known to be blocked (_scan_exit_attempts).
SoldOnTheFirstOpenDay ==
    \A t \in transitions : t.kind = "exit_closed" =>
        /\ t.day >= t.entered + Cycle
        /\ Attempt(Quote(t.symbol, t.day)) = "exitable"
        /\ \A e \in (t.entered + Cycle)..(t.day - 1) :
              Quote(t.symbol, e).status # "unknown" /\ Attempt(Quote(t.symbol, e)) = "blocked"
=============================================================================
