SPECIFICATION Spec
CONSTANTS
    e1 = e1
    e2 = e2
    t1 = t1
    None = None
    Templates = {t1}
    Editors = {e1, e2}
    PageIndexes = {0}
    Overlap = TRUE
    MaxRequests = 3
PROPERTIES NoSilentOverwrite
CHECK_DEADLOCK FALSE
