SPECIFICATION Spec
CONSTANTS
    WeekStarts = {1, 4}
    CoolingDays = 2
    TicksPerDay = 2
    Stamps = {0, 6}
    Days = {1, 3, 4, 6}
    Observations <- CalmAndRedLine
    Offsets = {0}
    Ceilings = {0, 3000}
    CeilingIds = {c1, c2}
    UnlockIds = {u1, u2}
    EvidenceSpans <- EvidenceToDay0
    Snapshots = {s1}
    MinStage = 2
    MaxRevision = 2
    Quota <- WeekQuota
SYMMETRY RequestIds
ACTION_CONSTRAINT StartsAtThreeThousand
INVARIANTS
    BudgetWithinAuthorization
    NoRaiseWithinAWeek
    DecisionsFormOneChain
    LockReleaseIsEarned
CHECK_DEADLOCK FALSE
