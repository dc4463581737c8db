CONSTANTS
    NoSource = NoSource
    Tabs = {A, B}
    Bundled = {srv}
    Uploads = {up}
    MaxPlans = 5
    MaxEdits = 1
    MaxActions = 2
    MaxRefusals = 1
    MaxReloads = 1
SPECIFICATION Spec
SYMMETRY TabSymmetry
CHECK_DEADLOCK FALSE
INVARIANTS GoneIsGone OwnContent ScreenIsStored ListAgrees
PROPERTIES NoEviction LegacyKept UnreadableKept
