SPECIFICATION Spec
CONSTANTS
    v1 = v1
    v2 = v2
    Importers = {i1, i2}
    Readers = {e1, e2}
    Versions = {v1, v2}
    None = None
    Tables = 1
    MaxImports = 2
    MaxFaults = 1
    Authorized = v1
    Worlds <- SomeWorlds
    Nothing = Nothing
INVARIANTS
    NothingLost
    UnreceiptedOutputHasAFault
    CleanEvaluationVerifies
PROPERTIES
    RefinesOneShot
    GapCloses
CHECK_DEADLOCK FALSE
