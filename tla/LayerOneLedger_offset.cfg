SPECIFICATION Spec
CONSTANTS
    WeekStarts = {1, 3}
    CoolingDays = 1
    TicksPerDay = 2
    Stamps = {0, 2, 4}
    Days = {1, 2}
    Observations <- CalmAndLock
    Offsets = {0, 1}
    Ceilings = {0}
    CeilingIds = {c1}
    UnlockIds = {u1}
    EvidenceSpans <- EvidenceToDay0
    Snapshots = {s1}
    MinStage = 2
    MaxRevision = 2
    Quota <- SealQuota
INVARIANT StoreStaysReadable
CHECK_DEADLOCK FALSE
