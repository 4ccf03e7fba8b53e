SPECIFICATION Spec
CONSTANTS
    a = a
    b = b
    c = c
    d = d
    Symbols <- Stocks
    Clusters = {"x", "y"}
    Rankings <- SomeRankings
    Worlds <- SomeWorlds
    Budgets = {0, 3, 6}
    MaxSlots <- Caps
    Capital = 80000
    MinSlot = 8000
    Cycle = 6
    LastDay = 16
INVARIANTS
    ATrancheRestsACycle
    ABoundRunHoldsOnePosition
    CarriedWithinTheSleeve
    SoldOnTheFirstOpenDay
CHECK_DEADLOCK FALSE
