SPECIFICATION Spec
CONSTANTS
    WeekStarts = {1, 3}
    CoolingDays = 1
    TicksPerDay = 2
    Stamps = {0, 2, 4}
    Days = {1, 2, 3}
    Observations <- CalmAndLock
    Offsets = {0}
    Ceilings = {0, 3000, 6000, 9000}
    CeilingIds = {c1, c2, c3, c4}
    UnlockIds = {u1}
    EvidenceSpans <- EvidenceToDay2
    Snapshots = {s1}
    MinStage = 2
    MaxRevision = 7
    Quota <- ClimbQuota
SYMMETRY RequestIds
ACTION_CONSTRAINT ClimbOrStage
INVARIANTS
    CeilingClimbsByEarnedSteps
    StoreStaysReadable
    NineOnlyAfterACleanStage
CHECK_DEADLOCK FALSE
