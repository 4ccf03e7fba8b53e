SPECIFICATION Spec
CONSTANTS
    Symbols = {x, y, z}
    Bars <- AllBars
    Barriers <- OneBarrier
    Configs <- AllConfigs
    LastDay = 5
    SnapshotEnd = 6
SYMMETRY SymbolNames
INVARIANTS
    BacktestTypeOK
    NeverOverCommitted
    OrdersAccountedFor
    DeferredOrdersAreTriedDaily
    CashMatchesTheTrades
    OverdueHoldingsWereBlocked
    CooldownKept
PROPERTY
    NoEarlyExit
CHECK_DEADLOCK FALSE
