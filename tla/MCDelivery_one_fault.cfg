SPECIFICATION FairSpec
CONSTANTS
    A = A
    B = B
    NoId = NoId
    Ids <- MCIds
    Count <- MCSmallCount
    Verdicts <- MCVerdicts
    MAX_REPORT_RANGES = 1
    WINDOW_CHUNKS = 2
    PACE_CHUNKS = 1
    PROBE_BURST = 1
    NO_PROGRESS_LIMIT = 4
    ROUND_MODULUS = 3
    MaxSends = 1
    MaxAnnounces = 0
    MaxLosses = 1
    MaxLoads = 1
    MaxFaults = 1
    MaxSaves = 0
    MaxRestarts = 0
    Clocks = {"nudge"}
    MaxPings = 1
    MaxAnswers = 1
PROPERTIES
    EndsRight
