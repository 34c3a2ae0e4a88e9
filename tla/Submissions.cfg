SPECIFICATION FairSpec
CONSTANTS
    Keys = {k1, k2}
    Handlers = {h1, h2}
    MaxFiles = 2
    Client = "any"
    MaxChanges = 4
INVARIANTS
    OnceNamedFilesAreStored
    FileCountHolds
    NothingIsLeftBehind
PROPERTIES
    ApprovalsStand
    CreditSettles
