SPECIFICATION Spec
CONSTANTS
    Requests = {r1}
    Duration = 2
    OpensAt = 2
    EndTime = 3
    Grace = 1
    TicksPerSecond = 2
    MaxAttempts = 1
    Total = 1
    GuestsAllowed = TRUE
    StatementsFail = TRUE
    MaxTime = 5
    MaxRows = 3
INVARIANTS
    SubmittedOnce
