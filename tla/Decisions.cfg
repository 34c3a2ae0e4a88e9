SPECIFICATION FairSpec
CONSTANTS
    t1 = t1
    Topics = {t1}
    Handlers = {h1, h2}
    Courses <- Small
    Ops <- AllOps
    Admins = "many"
    MaxChanges = 2
PROPERTIES
    FollowsTheTable
    ApprovalIsEarned
    StandingSettles
    SettledStays
