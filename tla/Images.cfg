SPECIFICATION FairSpec
CONSTANTS
    None = None
    Digests = {a}
    Widths = {832}
    Clients = {c1, c2, c3}
    MaxFailures = 1
    MaxBackups = 2
INVARIANTS TypeOK RowsHaveBlobs BackupsAreWhole
PROPERTIES UploadsSucceed
CHECK_DEADLOCK FALSE
