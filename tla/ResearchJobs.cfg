SPECIFICATION Spec
CONSTANTS
    income = income
    audit = audit
    late = late
    Walk <- IncomeFirst
    Endpoint <- Endpoints
    PostWindow <- Late
    Worlds <- SomeWorlds
    RowLimit = 4
    Own = own
    Requests = {own, other}
    Instants = {1, 2}
    a = a
    b = b
    c = c
    beijing = beijing
    EventWalk <- ForecastFirst
    ListedOn <- Listings
    LastCovered = 2
    EventWorlds <- SomeEventWorlds
    PageLimit = 2
    MaxPages = 2
    OwnMarket = own
    Markets = {own, other}
    OwnScope = own
    Scopes = {own, other}
    Listing <- Stay
    FirstTarget = 2
    LastTarget = 3
    WarmUp = 1
    DayPageLimit = 2
    DayPages = 2
    MarketWorlds <- SomeMarkets
    LeftIntervals <- Leftovers
    Closes = 5
    Fridays = {2, 5}
    FinalWeek = {1, 2, 3}
    FirstTen = {4, 5}
    YearOf <- Years
    SnapshotTimes = {1, 2}
    Missing = Missing
    MaxKills = 2
    InitialCapital = 80000
    MinimumCommission = 5
    StampTax = 10
    Slippages = {5, 15}
    Cooling = 3
    Features <- SomeFeatures
    Returns <- SomeReturns
    WeekDays = 2
    MaxMoves = 4
INVARIANTS
    JobsTypeOK
    WhatIsSealedVerifies
    RowsAccountedFor
    WindowSplitsTheRows
    NothingIsCutOff
    CorrectionsAreOnRecord
    OneRecordPerBoundary
PROPERTIES
    CollectionsKeepTheirPromise
    SealedUnlessBlocked
    ReplaysFollowTheEngine
    ANewLockIsANewLoss
    LocksAreReleased
