SPECIFICATION Spec
CONSTANTS
    v1 = v1
    v2 = v2
    Importers = {i1}
    Readers = {e1}
    Versions = {v1, v2}
    None = None
    Tables = 2
    MaxImports = 2
    MaxFaults = 0
    Authorized = v1
    Worlds <- Twins
    Nothing = Nothing
INVARIANT
    VerifiedResultsComeFromTheNamedSnapshot
CHECK_DEADLOCK FALSE
