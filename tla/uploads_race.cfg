SPECIFICATION Spec
CONSTANTS
    Requests = {r1, r2}
    Sessions = {s1, s2, s3}
    Chunks = {c1, c2}
    NoSession = none
    Standings = {"open"}
    MaxActive = 1
    StatementsFail = TRUE
    DiskFails = FALSE
    MaxFiles = 2
SYMMETRY Symmetric
INVARIANTS
    TypeOK
    RowFile
    ActiveWithinRace
    PartsHaveTheirSession
