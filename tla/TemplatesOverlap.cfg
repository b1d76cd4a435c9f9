SPECIFICATION FairSpec
CONSTANTS
    e1 = e1
    e2 = e2
    t1 = t1
    None = None
    Templates = {t1}
    Editors = {e1, e2}
    PageIndexes = {0, 1}
    Overlap = TRUE
    MaxRequests = 3
INVARIANT TypeOK
PROPERTIES TombstoneIsFinal NoOldPageSurvives PagesGoTogether RequestsEnd
CHECK_DEADLOCK FALSE
