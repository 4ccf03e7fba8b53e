SPECIFICATION HistorySpec
CONSTANTS
    InitialCapital = 80000
    MinimumCommission = 5
    StampTax = 10
    Slippages = {5}
    Cooling = 3
    Features <- SomeFeatures
    Returns <- SomeReturns
    WeekDays = 2
    MaxMoves = 4
PROPERTY
    FirstReentryIsCapped
