SPECIFICATION Spec
CONSTANTS
    t1 = t1
    Topics = {t1}
    Handlers = {h1, h2}
    Courses <- OneTopic
    Ops <- DecisionOps
    Admins = "many"
    MaxChanges = 0
SYMMETRY Alike
PROPERTIES
    ReinstatementIsReasoned
