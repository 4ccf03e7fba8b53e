SPECIFICATION StoreSpec
CONSTANTS
    WeekStarts = {1}
    CoolingDays = 1
    TicksPerDay = 2
    Stamps = {0}
    Days = {1, 2}
    Observations <- CalmAndLock
    Offsets = {0}
    Ceilings = {3000}
    CeilingIds = {c1}
    UnlockIds = {u1}
    EvidenceSpans <- Day0
    Snapshots = {s1}
    MinStage = 2
    MaxRevision = 2
    Quota <- NoQuota
    Clients = {a, b}
    Attempts = 5
SYMMETRY ClientNames
INVARIANTS
    NoRequestTwice
    AnswersStandInTheLedger
    GuardsHoldAtCommit
PROPERTY
    ImplementsLedger
CHECK_DEADLOCK FALSE
