\* Any two of the five endpoints overlap on a row and its clone.
SPECIFICATION Spec
CONSTANTS
    p1 = p1
    p2 = p2
    r1 = r1
    r2 = r2
    Publications = {p1, p2}
    Requests = {r1, r2}
    Kinds = {"create", "clone", "patch", "publish", "unpublish"}
    Workflows = {"draft", "published"}
    NoReview = NoReview
    Keep = Keep
    NoOne = NoOne
    MaxClock = 4
    MaxFaults = 1
SYMMETRY Symmetric
INVARIANTS
    TypeOK
    PublishGuarded
    SyncKept
    TagKept
    AnnouncedKept
    PublicationInv
CHECK_DEADLOCK FALSE
