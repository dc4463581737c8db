SPECIFICATION Spec
CONSTANTS
    A = A
    B = B
    NoId = NoId
    Ids <- MCIds
    Count <- MCLargeCount
    Verdicts <- MCVerdicts
    MAX_REPORT_RANGES = 1
    WINDOW_CHUNKS = 2
    PACE_CHUNKS = 1
    PROBE_BURST = 1
    NO_PROGRESS_LIMIT = 3
    ROUND_MODULUS = 2
    MaxSends = 3
    MaxAnnounces = 0
    MaxLosses = 0
    MaxLoads = 1
    MaxFaults = 1
    MaxSaves = 0
    MaxRestarts = 1
    Clocks = {}
    MaxPings = 1
    MaxAnswers = 1
INVARIANTS
    BufferRoom
    ReportsMakeSense
    FailureNeedsFault
PROPERTIES
    MailboxKept
