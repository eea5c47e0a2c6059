\* Requests, overlapping retries, the loop, an exit and a database fault over one key.
SPECIFICATION Spec
CONSTANTS
    k1 = k1
    k2 = k2
    product = product
    Clients = {c1, c2}
    Admins = {a1, a2}
    MaxRetries = 1
    Keys = {k1}
    NoKey = NoKey
    Product <- MCProduct
    Leftovers = 1
    MaxJobs = 3
    MaxAttempts = 2
    CoolDownThreshold = 1
    MaxExits = 1
    MaxFaults = 1
SYMMETRY Symmetric
INVARIANTS
    DedupeUnique
    HeldRowIsOurs
    BudgetRespected
    OrphanNeedsFault
    CoolDownBounds
    JobInv
CHECK_DEADLOCK FALSE
