SPECIFICATION Spec
CONSTANTS
    Requests = {r1, r2}
    Sessions = {s1, s2}
    Chunks = {c1}
    NoSession = none
    Standings = {"open"}
    MaxActive = 1
    StatementsFail = FALSE
    DiskFails = FALSE
    MaxFiles = 3
PROPERTY GradedIsFinal
