SPECIFICATION FairSpec
CONSTANTS
    q1 = q1
    q2 = q2
    Quizzes = {q1, q2}
    Requests = {r1, r2}
    Ops <- AllOps
    Places <- OneHere
    PassNum = 1
    PassDen = 2
    MaxEvents = 4
    None = None
CHECK_DEADLOCK FALSE
INVARIANTS
    TotalsMatchAttempts
    CompletionsStayHealable
PROPERTIES
    CompletionSettles
