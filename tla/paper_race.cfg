SPECIFICATION Spec
CONSTANTS
    Editors = {e1, e2}
    Students = {a1}
    q1 = q1
    q2 = q2
    q3 = q3
    Questions <- MCQuestions
    Lists <- MCLists
    StatementsFail = TRUE
    MayCrash = TRUE
SYMMETRY Symmetric
INVARIANTS
    TypeOK
    PaperIsLast
    ReportedIsRight
    RecoveredOnSameSize
