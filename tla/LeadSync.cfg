\* Two resyncs over the leads of one visitor: two downloads and an inquiry.
SPECIFICATION FairSyncSpec
CONSTANTS
    Leads = {1, 2, 3}
    Inquiries = {2}
    Email <- MCEmail
    Personal <- MCPersonal
    Resyncs = {r1, r2}
    Limit = 2
    MaxAttempts = 2
INVARIANTS
    SyncInv
PROPERTIES
    ResyncsEnd
CHECK_DEADLOCK FALSE
