SPECIFICATION Spec
CONSTANTS
    Requests = {r1, r2}
    Duration = 2
    OpensAt = 0
    EndTime = 3
    Grace = 1
    TicksPerSecond = 2
    MaxAttempts = 1
    Total = 1
    GuestsAllowed = FALSE
    StatementsFail = FALSE
    MaxTime = 5
    MaxRows = 2
SYMMETRY Symmetric
INVARIANTS
    TypeOK
    AttemptsWithinRace
    GradedInTime
    ScoreHasItsDetails
PROPERTIES
    AttemptLife
    KeepsLedger
