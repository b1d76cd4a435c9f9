SPECIFICATION Spec
CONSTANTS
    pat = pat
    maiden = maiden
    married = married
    None = None
    Teachers = {1}
    People = {pat}
    Addresses = {maiden}
    Owner <- OneAddress
    Invites = {i1, i2}
    Tokens = {1, 2}
    Requests = {r1, r2}
    AutoProvision = TRUE
    RedeemAlone = FALSE
CHECK_DEADLOCK FALSE
INVARIANT InviteIsSingleUse
