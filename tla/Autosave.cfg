SPECIFICATION FairPageSpec
CONSTANTS
    None = None
    Questions = {q1, q2}
    Choices = {A, B}
    Sessions = {s1, s2}
    MaxChoices = 2
    MaxFaults = 1
CHECK_DEADLOCK FALSE
INVARIANTS
    SavedIsSaved
    GradedAsShown
    LostIsLost
PROPERTIES
    SavesSettle
