CONSTANTS
    NoSource = NoSource
    Tabs = {A}
    Bundled = {srv}
    Uploads = {up}
    MaxPlans = 5
    MaxEdits = 1
    MaxActions = 2
    MaxRefusals = 0
    MaxReloads = 0
SPECIFICATION Spec
SYMMETRY TabSymmetry
CHECK_DEADLOCK FALSE
INVARIANTS OnlyOthersRemove
