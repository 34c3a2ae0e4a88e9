SPECIFICATION FairSpec
CONSTANTS
    Users = {u1}
    Sessions = {s1, s2}
    Requests = {r1, r2}
    Quizzes = {q1}
    Choices = {a}
    Schedules <- Unbounded
    Ttls = {1}
    Ops <- SubmitOps
    Client = "free"
    MaxNow = 3
    MaxSubmits = 2
    None = None
INVARIANTS
    StatusAgreesWithLedger
    ResubmissionNeedsStaleExpiry
PROPERTIES
    FirstSubmissionCounts
    OverdueIsExpired
