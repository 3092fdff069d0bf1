SPECIFICATION FairPageSpec
CONSTANTS
    Requests = {r1, r2}
    Duration = 1
    OpensAt = 0
    EndTime = 1
    Grace = 0
    TicksPerSecond = 1
    MaxAttempts = 2
    Total = 1
    GuestsAllowed = FALSE
    StatementsFail = FALSE
    MaxTime = 2
    MaxRows = 2
    Pages = {t1}
    NoPage = NoPage
    MaxFaults = 1
    MaxLoads = 2
CHECK_DEADLOCK FALSE
INVARIANTS
    PageTypeOK
    ResultWasSaved
    OwnResult
    OnePageSubmitsOnce
    DraftIsThePage
PROPERTIES
    InsistingSettles
    CountdownSettles
