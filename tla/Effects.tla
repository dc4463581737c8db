------------------------------- MODULE Effects ------------------------------
(***************************************************************************)
(* What a row makes, takes and needs at a given rate (solver/effects.ts,   *)
(* data/fuel.ts, build.ts, solvedNodeOf): the effects of its modules and   *)
(* beacons, the fuel it burns, its machines and their power.               *)
(*                                                                         *)
(* Effects, probabilities, effectivities, distribution efficiencies,       *)
(* neighbour counts and bonuses are in tenths, so a bonus is in            *)
(* hundredths.  A quotient is a pair, never rounded.  Items are numbered,  *)
(* heat first.  A value that may be missing (a row's own machine, its      *)
(* beacon, its chosen fuel, a machine's fluid) is a set of one or none; an *)
(* unknown or missing list of allowed effects is AllEffects.               *)
(***************************************************************************)
EXTENDS Integers, FiniteSets, FiniteSetsExt, SequencesExt

AllEffects == {"speed", "productivity", "consumption"}
Whole == 100
HeatItem == 0

-----------------------------------------------------------------------------
(* Quotients of integers, reduced; a denominator of zero is an infinite    *)
(* one.                                                                    *)

Divisor[m \in Nat, n \in Nat] == IF n = 0 THEN m ELSE Divisor[n, m % n]
Quotient(n, d) ==
    LET common == Divisor[IF n < 0 THEN -n ELSE n, IF d < 0 THEN -d ELSE d]
        sign == IF d < 0 THEN -1 ELSE 1
    IN  IF common = 0 THEN [n |-> 0, d |-> 0] ELSE [n |-> sign * (n \div common), d |-> sign * (d \div common)]
Finite(q) == q.d # 0
AtMost(p, q) == p.n * q.d <= q.n * p.d
Plus(p, q) == Quotient(p.n * q.d + q.n * p.d, p.d * q.d)
Times(q, k) == Quotient(q.n * k, q.d)
Ceiling(q) == IF Finite(q) THEN -((-q.n) \div q.d) ELSE q.n
TotalOf(amounts, item) ==
    FoldLeft(LAMBDA total, a : IF a.item = item THEN Plus(total, a.amount) ELSE total, Quotient(0, 1), amounts)
ItemsOf(amounts) == {a.item : a \in ToSet(amounts)}

-----------------------------------------------------------------------------
(* The machine and the effects of a row.                                   *)

EffectAllowed(effect, lists) == \A list \in lists : effect \in list

RowMachine(data, row) ==
    LET chosen == IF row.machine # {} THEN row.machine
                  ELSE {data.defaults[c] : c \in {data.recipes[r].category : r \in {row.recipe} \cap DOMAIN data.recipes}
                                                    \cap DOMAIN data.defaults}
    IN  {data.machines[m] : m \in chosen \cap DOMAIN data.machines}
NeighbourHeatBonus(data, row) == MapThenSumSet(LAMBDA m : m.neighbourBonus * row.neighbours, RowMachine(data, row))

(* The lists that bound the effects of the modules in the machine, and of  *)
(* those in the beacon.                                                    *)
MachineAllows(data, row) == {m.allowed : m \in RowMachine(data, row)}
BeaconAllows(data, beacon) == {data.beacons[b].allowed : b \in {beacon.entity} \cap DOMAIN data.beacons}

Takes(data, row, effect) ==
    effect = "productivity" => row.recipe \in DOMAIN data.recipes /\ data.recipes[row.recipe].allowProductivity
ModuleEffect(data, id, effect) == IF id \in DOMAIN data.modules THEN data.modules[id][effect] ELSE 0
ModuleBonus(data, row, effect) ==
    IF ~EffectAllowed(effect, MachineAllows(data, row)) THEN 0
    ELSE MapThenSumSet(LAMBDA n : ModuleEffect(data, row.modules[n].module, effect) * 10 * row.modules[n].count,
                       DOMAIN row.modules)
BeaconBonus(data, row, effect) ==
    MapThenSumSet(LAMBDA b : IF EffectAllowed(effect, BeaconAllows(data, b) \cup MachineAllows(data, row))
                             THEN ModuleEffect(data, b.module, effect) * b.efficiency * b.each * b.count ELSE 0,
                  row.beacon)
Bonus(data, row, effect) ==
    IF Takes(data, row, effect) THEN ModuleBonus(data, row, effect) + BeaconBonus(data, row, effect) ELSE 0

ConsumptionMultiplier(bonus) == IF bonus < -80 THEN 20 ELSE Whole + bonus

-----------------------------------------------------------------------------
(* The fuel of a row.                                                      *)

ByValueThenId(items, i, j) == items[i].value < items[j].value \/ (items[i].value = items[j].value /\ i < j)
FluidCandidates(items) == {i \in DOMAIN items : items[i].type = "fluid" /\ items[i].value > 0}
Candidates(items) ==
    {i \in DOMAIN items : items[i].type = "item" /\ ~items[i].hidden /\ ~items[i].burnt
                          /\ items[i].value > 0 /\ items[i].category # "none"}

(* A filtered source burns its fluid, hidden or not.                       *)
Accepted(items, machine) ==
    CASE machine.energy = "fluid-burner" ->
            IF machine.fluid = {} THEN {i \in FluidCandidates(items) : ~items[i].hidden}
            ELSE FluidCandidates(items) \cap machine.fluid
      [] machine.energy = "burner" -> {i \in Candidates(items) : items[i].category \in machine.fuels}
      [] OTHER -> {}
AcceptedFuels(items, machine) == SetToSortSeq(Accepted(items, machine), LAMBDA i, j : ByValueThenId(items, i, j))
FirstOf(s) == {s[n] : n \in DOMAIN s \cap {1}}
DefaultFuel(items, machine) == FirstOf(AcceptedFuels(items, machine))
ResolveRowFuel(items, machine, chosen) ==
    LET own == chosen \cap Accepted(items, machine) IN IF own # {} THEN own ELSE DefaultFuel(items, machine)
HasFuelData(items, machine) ==
    IF machine.energy = "fluid-burner"
    THEN {i \in FluidCandidates(items) : ~items[i].hidden} # {} \/ Accepted(items, machine) # {}
    ELSE machine.fuels # {}

(* The machine's draw over the fuel's energy; none unless it is positive.  *)
BurntPerRun(data, row, machine, fuel) ==
    Quotient(machine.kw * ConsumptionMultiplier(Bonus(data, row, "consumption")) * data.recipes[row.recipe].time * 10,
             machine.speed * (Whole + Bonus(data, row, "speed")) * data.items[fuel].value * machine.effectivity)
NodeFuel(data, row) ==
    LET burns == {[item |-> i, amount |-> BurntPerRun(data, row, m, i)] :
                    m \in IF row.recipe \in DOMAIN data.recipes THEN RowMachine(data, row) ELSE {},
                    i \in UNION {ResolveRowFuel(data.items, n, row.fuel) : n \in RowMachine(data, row)}}
    IN  {f \in burns : Finite(f.amount) /\ f.amount.n > 0}

NodeEffects(data, row) ==
    [productivity |-> Bonus(data, row, "productivity"), speed |-> Bonus(data, row, "speed"),
     consumption |-> Bonus(data, row, "consumption"), heat |-> NeighbourHeatBonus(data, row), fuel |-> NodeFuel(data, row)]

-----------------------------------------------------------------------------
(* The rates, machines and power of a row.                                 *)

(* Productivity multiplies only what is above the ignored part.            *)
EffectiveProductAmount(product, productivity) ==
    (product.ignored * Whole + (product.amount - product.ignored) * (Whole + productivity)) * product.probability
RowProductAmount(product, productivity, heat) ==
    Quotient(EffectiveProductAmount(product, productivity) * (IF product.item = HeatItem THEN Whole + heat ELSE Whole),
             Whole * Whole * 10)
RowProducts(recipe, effects) ==
    [n \in DOMAIN recipe.products |->
        [item |-> recipe.products[n].item,
         amount |-> RowProductAmount(recipe.products[n], effects.productivity, effects.heat)]]

(* A byproduct consumer locks its fuel only when the user chose it.        *)
RowIngredients(recipe, effects) == recipe.ingredients \o SetToSeq(effects.fuel)
LockedIngredients(recipe, effects, row) == recipe.ingredients \o SetToSeq({f \in effects.fuel : f.item \in row.fuel})

MachineCount(throughput, time, machine, effects) ==
    Quotient(throughput * time * Whole, 60 * machine.speed * (Whole + effects.speed))
PowerKw(count, machine, effects) ==
    Quotient(count.n * (machine.kw * ConsumptionMultiplier(effects.consumption) + machine.drain * Whole), count.d * Whole)

(* No machine counts none; a row that burns fuel draws no power.           *)
SolvedNodeOf(data, row, throughput) ==
    LET recipe == data.recipes[row.recipe]
        effects == NodeEffects(data, row)
        counts == {[of |-> m, exact |-> MachineCount(throughput, recipe.time, m, effects)] : m \in RowMachine(data, row)}
        Rates(amounts) == [i \in ItemsOf(amounts) |-> Times(TotalOf(amounts, i), throughput)]
    IN  [exact |-> {c.exact : c \in counts},
         ceil |-> {Ceiling(c.exact) : c \in counts},
         power |-> IF effects.fuel # {} THEN {} ELSE {PowerKw(c.exact, c.of, effects) : c \in counts},
         ins |-> Rates(RowIngredients(recipe, effects)),
         outs |-> Rates(RowProducts(recipe, effects)),
         fuel |-> {f.item : f \in effects.fuel}]

-----------------------------------------------------------------------------
(* buildClassifiedSystem: the columns of recipes with what each makes and  *)
(* takes, and the kind of each item.                                       *)

Positive(amounts) == SelectSeq(amounts, LAMBDA a : a.amount.n > 0)
Makes(data, effects, r) == Positive(RowProducts(data.recipes[r], effects[r]))
Needs(data, effects, r) == Positive(RowIngredients(data.recipes[r], effects[r]))
Stoichiometry(data, effects, recipes) ==
    [r \in recipes \cap DOMAIN data.recipes |->
        [i \in ItemsOf(Makes(data, effects, r)) \cup ItemsOf(Needs(data, effects, r)) |->
            Plus(TotalOf(Makes(data, effects, r), i), Times(TotalOf(Needs(data, effects, r), i), -1))]]
Classify(data, effects, recipes, goals) ==
    LET known == recipes \cap DOMAIN data.recipes
        produced == UNION {ItemsOf(Makes(data, effects, r)) : r \in known}
        consumed == UNION {ItemsOf(Needs(data, effects, r)) : r \in known}
    IN  [goals |-> goals, raw |-> consumed \ (produced \cup goals), byproducts |-> produced \ (consumed \cup goals),
         intermediates |-> (produced \cap consumed) \ goals]

-----------------------------------------------------------------------------
(* The power recipes of a machine, shown as one choice of fuel             *)
(* (data/powerFuelGroups.ts).                                              *)

PowerMachineId(recipe) == IF recipe.power THEN FirstOf(recipe.madeIn) ELSE {}
OfMachine(recipes, id) == SelectSeq(recipes, LAMBDA r : id \in PowerMachineId(r))
Grouped(recipes, id) == Len(OfMachine(recipes, id)) >= 2
GroupPowerRecipes(recipes) ==
    LET machines == {m \in UNION {PowerMachineId(r) : r \in ToSet(recipes)} : Grouped(recipes, m)}
        Shown(n) == \A m \in PowerMachineId(recipes[n]) \cap machines :
                        recipes[n] = Head(OfMachine(recipes, m))
        Entry(r) == [machine |-> PowerMachineId(r) \cap machines,
                     recipes |-> IF PowerMachineId(r) \cap machines = {} THEN <<r>>
                                 ELSE OfMachine(recipes, CHOOSE m \in PowerMachineId(r) : TRUE)]
    IN  [n \in 1..Cardinality({k \in DOMAIN recipes : Shown(k)}) |->
            Entry(recipes[SetToSortSeq({k \in DOMAIN recipes : Shown(k)}, <)[n]])]
=============================================================================
