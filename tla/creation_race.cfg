SPECIFICATION Spec
CONSTANTS
    foreman = foreman
    foreman2 = foreman2
    courier = courier
    courier2 = courier2
    requester = requester
    admin = admin
    c1 = c1
    c2 = c2
    Nobody = Nobody
    Users = {courier2, courier}
    Admins = {}
    Creator = courier2
    Calls = {c1, c2}
    RolesOf <- MCRolesOf
    OrderType = "agent_retail"
    DirectSteps = TRUE
    ActDuringCreation = TRUE
    MaxOps = 0
    MaxCrashes = 1
INVARIANT OneClaimWinner
PROPERTY ReopenedOnlyByCreation
PROPERTY DeliveryClosesRetail
SYMMETRY MCSymmetry
CHECK_DEADLOCK FALSE
