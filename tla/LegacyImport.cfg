SPECIFICATION FairSpec
CONSTANTS
    Clients = {c1, c2}
    Legacy <- TwoExams
    MaxPasses = 2
    MaxEdits = 1
    None = None
INVARIANTS ImportTypeOK BoxesInPlace NoMixUp NudgeIsEnough
PROPERTIES WholePasses CreatesGetThrough
CHECK_DEADLOCK FALSE
