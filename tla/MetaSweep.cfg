\* Requests that disagree about the product overlap with each other and with a sweep.
SPECIFICATION FairSpec
CONSTANTS
    Callers = {r1, r2, sweeper}
    Sweeper = sweeper
    Products = {p1, p2}
    NoProduct = none
    Capacity = 1
    MaxRetries = 1
    MaxRevision = 2
    MaxRequests = 3
INVARIANTS
    MetaInv
PROPERTIES
    RequestsAnswered
CHECK_DEADLOCK FALSE
