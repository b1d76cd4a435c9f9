SPECIFICATION FairSpec
CONSTANTS
    seven = seven
    None = None
    Teachers = {ann, bob}
    Slots = {s1, s2}
    Papers <- ThreePapers
    Empty = empty
    MaxVersion = 2
    MaxLosses = 1
    MaxAttempts = 6
INVARIANTS TypeOK AnswersOfOneUpload OrderlyRetryIsSafe
PROPERTIES OwnerNeverChanges CorrectionTimeKept ImplementsRecord UploadsSettle
CHECK_DEADLOCK FALSE
