SPECIFICATION Spec
CONSTANTS
    Requests = {r1, r2}
    Sources = {s1, s2}
    NoSource = none
    MaxForms = 2
    StatementsFail = TRUE
    MayCrash = TRUE
SYMMETRY Symmetric
INVARIANTS
    TypeOK
    ApprovedOnce
    OwnAnswers
    UsedIsApproved
PROPERTY
    UsedIsFrozen
