CONSTANTS
    plan_a = plan_a
    plan_b = plan_b
    plan_c = plan_c
    NoId = NoId
    Nothing = Nothing
    Ids <- PlanIds
    TooLarge <- LargePlans
    Refused <- RefusedPlans
    Outbox = 2
    MaxClicks = 2
    MaxEdits = 1
    MaxFaults = 1
    MaxOthers = 1
SPECIFICATION Spec
CHECK_DEADLOCK FALSE
INVARIANTS SocketAgrees GreetedFirst RestoreFillsEmpty NewestIsPlan ShownIsTrue PlanIsLatest
PROPERTIES ReachesBridge
