SPECIFICATION PlannerSpec
CONSTANTS
    Nothing = Nothing
    Gear = Gear
    Plate = Plate
    Slag = Slag
    Ash = Ash
    make_gear = make_gear
    make_plate = make_plate
    stamp = stamp
    cast = cast
    mold = mold
    smelt = smelt
    sinter = sinter
    burn = burn
    Items = {Gear, Plate, Slag, Ash}
    Recipes = {make_gear, make_plate}
    Rates = {1}
    Modes = {"first"}
    Uses <- MCUses
    Makes <- MCMakes
    LoopRounds = 4
    RequestRounds = 6
    GrowthRounds = 3
    Starts <- MCStarts
CHECK_DEADLOCK FALSE
INVARIANTS
    ConnectionsSound
    TreeSound
    UndoRestores
    ResultsCurrent
    NewestRequestWins
    FlowsSound
