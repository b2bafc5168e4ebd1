SPECIFICATION Spec
CONSTANTS
    foreman = foreman
    foreman2 = foreman2
    courier = courier
    courier2 = courier2
    requester = requester
    admin = admin
    c1 = c1
    c2 = c2
    Nobody = Nobody
    Users = {foreman, courier}
    Admins = {}
    Creator = foreman
    Calls = {c1}
    RolesOf <- MCRolesOf
    OrderType = "customer_wholesale"
    DirectSteps = FALSE
    ActDuringCreation = FALSE
    MaxOps = 0
    MaxCrashes = 0
INVARIANT CompletedMeansShipped
CHECK_DEADLOCK FALSE
