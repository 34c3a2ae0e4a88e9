SPECIFICATION Spec
CONSTANTS
    q1 = q1
    q2 = q2
    q3 = q3
    t1 = t1
    t2 = t2
    t3 = t3
    c1 = c1
    c2 = c2
    i1 = i1
    i2 = i2
    i3 = i3
    i4 = i4
    b1 = b1
    b2 = b2
    s1 = s1
    s2 = s2
    None = None
    Keep = Keep
    Admins = {a1, a2}
    Quizzes = {q1, q2, q3}
    Topics = {t1, t2, t3}
    Courses = {c1, c2}
    Slugs = {s1, s2}
    Objects = {i1, i2, i3, i4, b1, b2}
    Seeds <- OneCourse
    Batches <- SmallBatches
    QuizPuts <- SmallQuizPuts
    NewTopics <- SmallNewTopics
    TopicPuts <- SmallTopicPuts
    CoursePuts <- SmallCoursePuts
    BriefPuts <- SmallBriefs
    TopicLists <- SmallLists
    MaxChanges = 3
    MaxFailures = 1
SYMMETRY SameAdmins
CHECK_DEADLOCK FALSE
INVARIANTS
    ChecksHold
    CodesFit
    NamedObjectsAreStored
    NothingIsLeftBehind
    ProgressFollowsContent
