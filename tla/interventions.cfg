SPECIFICATION Spec
CONSTANTS
    foreman = foreman
    foreman2 = foreman2
    courier = courier
    courier2 = courier2
    requester = requester
    admin = admin
    c1 = c1
    c2 = c2
    Nobody = Nobody
    Users = {courier, admin}
    Admins = {admin}
    Creator = courier
    Calls = {c1, c2}
    RolesOf <- MCRolesOf
    OrderType = "agent_retail"
    DirectSteps = FALSE
    ActDuringCreation = FALSE
    MaxOps = 2
    MaxCrashes = 0
PROPERTY WorkStaysDone
SYMMETRY MCSymmetry
CHECK_DEADLOCK FALSE
