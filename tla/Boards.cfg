SPECIFICATION Spec
CONSTANTS
    Users = {1, 2, 3}
    Topics = {t1, t2}
    Scores = {1, 2}
    Cuts = {1, 2}
    Requests = {r1, r2}
    DaysPerWeek = 2
    ProgressDay = 1
    MaxDay = 2
    MaxSubmits = 3
SYMMETRY Symmetry
CHECK_DEADLOCK FALSE
INVARIANTS
    NoSilentDrop
    SummaryIsFinal
PROPERTIES
    ToldTheRank
