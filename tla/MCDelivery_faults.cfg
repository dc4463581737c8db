SPECIFICATION Spec
CONSTANTS
    A = A
    B = B
    NoId = NoId
    Ids <- MCIds
    Count <- MCMidCount
    Verdicts <- MCVerdicts
    MAX_REPORT_RANGES = 1
    WINDOW_CHUNKS = 2
    PACE_CHUNKS = 1
    PROBE_BURST = 1
    NO_PROGRESS_LIMIT = 2
    ROUND_MODULUS = 2
    MaxSends = 2
    MaxAnnounces = 0
    MaxLosses = 1
    MaxLoads = 1
    MaxFaults = 2
    MaxSaves = 1
    MaxRestarts = 0
    Clocks = {"quiet"}
    MaxPings = 1
    MaxAnswers = 1
INVARIANTS
    ReportsMakeSense
PROPERTIES
    MailboxKept
