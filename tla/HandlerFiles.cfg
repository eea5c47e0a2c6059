\* Uploads, cleanup, the three handlers and exits of the process.
SPECIFICATION FairSpec
CONSTANTS
    Uploads = {1, 2}
    Rank <- MCRank
    Table = table
    NoData = nodata
    Jobs = {1, 2}
    MaxDelete = 1
    MaxList = 2
    MaxExits = 1
    MaxRevision = 2
INVARIANTS
    StoreInv
    UploadsKept
PROPERTIES
    UploadsGo
CHECK_DEADLOCK FALSE
