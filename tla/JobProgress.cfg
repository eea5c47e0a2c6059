\* The contract, and every queued job settles.
SPECIFICATION FairSpec
CONSTANTS
    k1 = k1
    k2 = k2
    product = product
    Clients = {c1, c2}
    Admins = {a1}
    MaxRetries = 2
    Keys = {k1, k2}
    NoKey = NoKey
    Product <- MCProduct
    Leftovers = 0
    MaxJobs = 2
    MaxAttempts = 2
    CoolDownThreshold = 1
    MaxExits = 1
    MaxFaults = 1
PROPERTIES
    ContractSpec
    QueuedJobSettles
CHECK_DEADLOCK FALSE
