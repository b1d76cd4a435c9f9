SPECIFICATION SyncFairSpec
CONSTANTS
    e1 = e1
    e2 = e2
    t1 = t1
    t2 = t2
    p1 = p1
    None = None
    Templates = {t1, t2}
    Editors = {e1, e2}
    PageIndexes = {0}
    Phones = {p1}
    Overlap = FALSE
    Limit = 2
    MaxRequests = 3
INVARIANTS CurrentRevisionIsCurrentContent NoChangeSkipped
PROPERTIES NoSilentOverwrite ImplementsRegister TombstonesArrive
CHECK_DEADLOCK FALSE
