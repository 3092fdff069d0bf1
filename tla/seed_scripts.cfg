SPECIFICATION Spec
CONSTANTS
    BANKS <- Few
    Watched = {2, 3}
    CutAt = {2}
    MaxStarts = 3
    MaxChanges = 2
INVARIANTS
    TypeOK
    OneRightAnswer
    UnderOwnSubject
    SampleNamesItsSubject
    FinishedBuildAgrees
    OrphansNeedARace
