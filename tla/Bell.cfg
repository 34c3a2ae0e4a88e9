SPECIFICATION FairSpec
CONSTANTS
    Topics = {1, 2}
    MaxReminders = 1
    Pushes = {p1, p2}
    Fetches = {f1, f2}
    MaxChanges = 3
INVARIANTS
    ReminderCap
    NothingMissed
PROPERTIES
    BellStaysRight
    BellSettles
