SPECIFICATION Spec
CONSTANTS
    Requests = {r1}
    Sessions = {s1, s2, s3}
    Chunks = {c1, c2}
    NoSession = none
    Standings = {"open", "closed", "deleted"}
    MaxActive = 2
    StatementsFail = TRUE
    DiskFails = TRUE
    MaxFiles = 2
SYMMETRY Symmetric
INVARIANTS
    Downloadable
    ActiveLimit
PROPERTY GradedIsFinal
