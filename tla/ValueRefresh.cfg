\* Publishes, comparisons, resolves and saves overlap with a refresh.
SPECIFICATION StaleSpec
CONSTANTS
    Coords = {c1, c2}
    Requests = {r1, r2}
    Publisher = r1
    Comparer = r2
    Blocks = {1, 2}
    Pinned <- MCPinned
    ValueOf <- MCValueOf
    MissingOf <- MCMissingOf
    MaxCalls = 2
    MaxPeriod = 2
    AskedPeriods = {1, 3}
    MaxRevision = 2
    MaxVersion = 2
    MaxReleases = 2
    PrimeWindow = 2
    RefreshWindow = 1
INVARIANTS
    ValueInv
    NoCoordDrift
    SnapshotsGenuine
    ReportTrue
PROPERTIES
    NoGoingBack
CHECK_DEADLOCK FALSE
