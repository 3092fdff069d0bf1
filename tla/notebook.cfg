SPECIFICATION FairSpec
CONSTANTS
    Requests = {r1, r2}
    Questions = {1, 2}
    Limit = 1
    MaxExams = 1
    MaxMishaps = 1
INVARIANTS
    TypeOK
    NotebookRule
PROPERTIES
    MasteredTold
    PersistenceEmpties
