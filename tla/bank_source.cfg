SPECIFICATION Spec
CONSTANTS
    Requests = {r1}
    Sources = {s1, s2}
    NoSource = none
    MaxForms = 2
    StatementsFail = FALSE
    MayCrash = FALSE
SYMMETRY Symmetric
INVARIANT
    SourceIsTheChecked
