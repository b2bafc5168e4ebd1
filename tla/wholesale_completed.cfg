SPECIFICATION ServerSpec
CONSTANTS
    foreman = foreman
    foreman2 = foreman2
    courier = courier
    courier2 = courier2
    requester = requester
    admin = admin
    c1 = c1
    c2 = c2
    Nobody = Nobody
    Users = {foreman, courier}
    Admins = {}
    Creator = foreman
    Calls = {c1, c2}
    RolesOf <- MCRolesOf
    OrderType = "customer_wholesale"
    DirectSteps = TRUE
    ActDuringCreation = FALSE
    MaxOps = 0
    MaxCrashes = 0
INVARIANT TypeOK
INVARIANT StepsInOrder
PROPERTY StepsAdvance
PROPERTY CallsEnd
CHECK_DEADLOCK FALSE
