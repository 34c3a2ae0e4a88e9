SPECIFICATION Spec
CONSTANTS
    Users = {u1}
    Sessions = {s1, s2}
    Requests = {r1}
    Quizzes = {q1, q2}
    Choices = {a, b}
    Schedules <- TwoWindows
    Ttls = {1, 2}
    Ops <- AllOps
    Client = "serial"
    MaxNow = 2
    MaxSubmits = 2
    None = None
SYMMETRY Alike
INVARIANTS
    AtMostOneInProgress
    AckedAnswersKept
    GradedAnswersAreTheAcked
