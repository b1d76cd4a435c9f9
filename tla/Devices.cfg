SPECIFICATION FairSpec
CONSTANTS
    pat = pat
    maiden = maiden
    married = married
    None = None
    Teachers = {1}
    People = {pat}
    Addresses = {maiden}
    Owner <- OneAddress
    Invites = {i1, i2}
    Tokens = {1, 2}
    Requests = {r1, r2}
    AutoProvision = TRUE
    RedeemAlone = TRUE
INVARIANTS LockedOut InviteIsSingleUse
PROPERTIES RevokedIsFinal AllDevicesRevoked LeaversAreStopped
CHECK_DEADLOCK FALSE
