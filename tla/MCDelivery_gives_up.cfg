SPECIFICATION FairSpec
CONSTANTS
    A = A
    B = B
    NoId = NoId
    Ids <- MCIds
    Count <- MCMidCount
    Verdicts <- MCVerdicts
    MAX_REPORT_RANGES = 1
    WINDOW_CHUNKS = 2
    PACE_CHUNKS = 1
    PROBE_BURST = 1
    NO_PROGRESS_LIMIT = 1
    ROUND_MODULUS = 3
    MaxSends = 1
    MaxAnnounces = 1
    MaxLosses = 1
    MaxLoads = 1
    MaxFaults = 1
    MaxSaves = 0
    MaxRestarts = 0
    Clocks = {}
    MaxPings = 1
    MaxAnswers = 1
PROPERTIES
    EventuallySettled
    NewestArrives
