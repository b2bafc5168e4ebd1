SPECIFICATION FairSpec
CONSTANTS
    foreman = foreman
    foreman2 = foreman2
    courier = courier
    courier2 = courier2
    requester = requester
    admin = admin
    c1 = c1
    c2 = c2
    Nobody = Nobody
    Users = {foreman, courier}
    Admins = {}
    Creator = courier
    Calls = {c1, c2}
    RolesOf <- MCRolesOf
    OrderType = "agent_restock"
    DirectSteps = FALSE
    ActDuringCreation = FALSE
    MaxOps = 0
    MaxCrashes = 0
INVARIANT CompletedMeansShipped
INVARIANT WorkFollowsOrder
PROPERTY OrderShips
CHECK_DEADLOCK FALSE
