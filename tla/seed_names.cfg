SPECIFICATION Spec
CONSTANTS
    BANKS <- All
    Watched = {}
    CutAt = {}
    MaxStarts = 1
    MaxChanges = 0
INVARIANT EverySubjectHasItsFile
