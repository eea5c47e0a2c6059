\* Two overlapping retries of one job.
SPECIFICATION Spec
CONSTANTS
    k1 = k1
    k2 = k2
    product = product
    Clients = {c1}
    Admins = {a1, a2}
    MaxRetries = 1
    Keys = {k1}
    NoKey = NoKey
    Product <- MCProduct
    Leftovers = 0
    MaxJobs = 1
    MaxAttempts = 3
    CoolDownThreshold = 3
    MaxExits = 0
    MaxFaults = 0
PROPERTIES
    OnlyFailedRetried
CHECK_DEADLOCK FALSE
