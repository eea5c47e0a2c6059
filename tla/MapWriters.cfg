\* Upserts, batches and deletions of two mappings overlap; one call may fail.
SPECIFICATION FairSpec
CONSTANTS
    Keys = {k1, k2}
    Writers = {w1, w2}
    NoKey = NoKey
    MaxCalls = 3
    MaxFaults = 1
INVARIANTS
    VersionNamesRow
    GuardKept
    MappingInv
PROPERTIES
    CallsFinish
CHECK_DEADLOCK FALSE
