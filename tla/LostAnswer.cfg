SPECIFICATION Spec
CONSTANTS
    Users = {u1}
    Sessions = {s1, s2}
    Requests = {r1, r2}
    Quizzes = {q1, q2}
    Choices = {a}
    Schedules <- Unbounded
    Ttls = {1}
    Ops <- AutosaveOps
    Client = "perQuiz"
    MaxNow = 1
    MaxSubmits = 2
    None = None
INVARIANTS
    AckedAnswersKept
