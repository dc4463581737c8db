SPECIFICATION ModSpec
CONSTANTS
    A = A
    B = B
    C = C
    NoId = NoId
    Ids <- MCIds
    Count <- MCCount
    Verdicts <- MCVerdicts
    Arrivals <- MCArrivals
    MAX_REPORT_RANGES = 1
INVARIANTS
    AssemblySound
    SlotTruth
    ReportsSkipNothing
PROPERTIES
    StoredChangesWhole
    ProgressKept
