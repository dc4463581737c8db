SPECIFICATION Spec
CONSTANTS
    A = A
    B = B
    NoId = NoId
    Ids <- MCIds
    Count <- MCSmallCount
    Verdicts <- MCVerdicts
    MAX_REPORT_RANGES = 1
    WINDOW_CHUNKS = 2
    PACE_CHUNKS = 1
    PROBE_BURST = 1
    NO_PROGRESS_LIMIT = 2
    ROUND_MODULUS = 3
    MaxSends = 1
    MaxAnnounces = 0
    MaxLosses = 0
    MaxLoads = 0
    MaxFaults = 0
    MaxSaves = 0
    MaxRestarts = 0
    Clocks = {}
    MaxPings = 1
    MaxAnswers = 1
INVARIANTS
    RefillMeansDrained
