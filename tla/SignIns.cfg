SPECIFICATION Spec
CONSTANTS
    pat = pat
    maiden = maiden
    married = married
    None = None
    Teachers = {1, 2}
    People = {pat}
    Addresses = {maiden, married}
    Owner <- TwoAddresses
    Invites = {}
    Tokens = {1, 2}
    Requests = {r1, r2}
    AutoProvision = TRUE
    RedeemAlone = TRUE
INVARIANTS TypeOK SamePersonSameTeacher
CHECK_DEADLOCK FALSE
