SPECIFICATION SessionSpec
CONSTANTS
    A = A
    B = B
    NoId = NoId
    Ids <- MCIds
    Count <- MCCount
    Inputs <- MCInputs
    WINDOW_CHUNKS = 2
    PACE_CHUNKS = 1
    PROBE_BURST = 2
    NO_PROGRESS_LIMIT = 2
    ROUND_MODULUS = 2
INVARIANTS
    TypeOK
    WindowInv
    SilentBudget
    NoTimerResends
PROPERTIES
    OverIsOver
    StaleReportsIgnored
