\* Two captures and two downloads overlap and wait for each other's rows, with an exit
\* and a fault.
SPECIFICATION FairSpec
CONSTANTS
    Requests = {c1, c2}
    Downloads = {d1, d2}
    IPs = {ip1}
    Pairs = {p1}
    Nobody = Nobody
    MaxTokens = 3
    MaxUses = 2
    MaxExits = 1
    MaxFaults = 1
INVARIANTS
    GrantsBounded
    LinkBacked
    OneLinkPerLead
    LeadInv
PROPERTIES
    RequestsFinish
CHECK_DEADLOCK FALSE
