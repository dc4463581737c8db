------------------------------ MODULE GameExport ------------------------------
(***************************************************************************)
(* The bundle of game data the planner loads, made from a dump of the game *)
(* (scripts/build-game-data.js with technologies.js, temperatures.js,      *)
(* place-results.js, modset.js): all of it anew, or one part of it patched *)
(* in place.                                                               *)
(*                                                                         *)
(* Prototypes are as in GameDump.  A bundle is a record of items, recipes, *)
(* machines, beacons, the default machine of each category, technologies,  *)
(* the starting recipes and the versions of its mods; entities are         *)
(* numbered in the order of the dump.  Names, icons, groups, modules and   *)
(* the odds of a product are left out.                                     *)
(***************************************************************************)
EXTENDS GameDump

DropKeys(f, ids) == [id \in DOMAIN f \ ids |-> f[id]]
IdsOfKind(recipes, kind) == {id \in DOMAIN recipes : recipes[id].kind = kind}
IdsOfType(machines, types) == {m \in DOMAIN machines : machines[m].type \in types}

-----------------------------------------------------------------------------
(* What a category is made in, and its default machine: the fastest, the   *)
(* first of them in the dump; for what is extracted a visible one.         *)

CategoriesOf(machines) == UNION {machines[m].categories : m \in DOMAIN machines}
MadeIn(machines, category) == {m \in DOMAIN machines : category \in machines[m].categories}
DefaultCandidates(machines, category) ==
    LET visible == {m \in MadeIn(machines, category) : ~machines[m].hidden}
    IN  IF IsExtractionCategory(category) /\ visible # {} THEN visible ELSE MadeIn(machines, category)
ComputeDefaultMachines(machines, categories, order) ==
    [c \in categories |->
        CHOOSE m \in DefaultCandidates(machines, c) : \A k \in DefaultCandidates(machines, c) \ {m} :
            \/ machines[m].speed > machines[k].speed
            \/ machines[m].speed = machines[k].speed /\ order[m] < order[k]]

-----------------------------------------------------------------------------
(* Items and fluids with their fuel, temperatures and what they place.     *)

NoFuel == [kj |-> 0, category |-> {}, burnt |-> {}]
Item(type, hidden, fuel) ==
    fuel @@ [type |-> type, hidden |-> hidden, default |-> {}, max |-> {}, places |-> {}]
FluidTemperatures(proto) ==
    IF proto.default = {} THEN [default |-> {}, max |-> {}]
    ELSE [default |-> proto.default, max |-> {OrElse(proto.max, OrElse(proto.default, 0))}]
ExportItems(d) ==
    LET protos == ItemProtos(d)
    IN  [f \in DOMAIN d.fluids |->
            FluidTemperatures(d.fluids[f]) @@ [NoFuel EXCEPT !.kj = ParseEnergyKj(d.fluids[f].fuel)]
            @@ Item("fluid", d.fluids[f].hidden, NoFuel)]
        @@ [i \in DOMAIN protos |-> Item("item", protos[i].hidden, ItemFuel(protos[i]))]
AttachPlaceResults(items, d, entities) ==
    LET protos == ItemProtos(d)
    IN  [i \in DOMAIN items |->
            IF items[i].type = "fluid" THEN items[i]
            ELSE [items[i] EXCEPT !.places = (IF i \in DOMAIN protos THEN protos[i].places ELSE {}) \cap entities]]

-----------------------------------------------------------------------------
(* Crafting machines and recipes of the dump itself.                       *)

ExportMachines(d) ==
    [m \in DOMAIN d.crafters |->
        LET proto == d.crafters[m]
        IN  [Powered(Machine("crafter", proto.categories, proto.hidden), proto, ParseEnergyKw(proto.energy)) EXCEPT
                !.speed = OrElse(proto.speed, 1), !.slots = OrElse(proto.slots, 0), !.effects = proto.allowed]]
ProductTemperature(proto) == IF proto.type = "fluid" THEN proto.temp ELSE {}
(* An amount drawn from a range counts as its largest.                     *)
ProductAmount(proto) == OrElse(proto.amount, OrElse(proto.max, Quotient(0, 1)))
(* The product declared (none, when "" is), or the only one.               *)
ResolveMainProduct(proto) ==
    IF proto.main # {} THEN proto.main ELSE {proto.outs[n].item : n \in {n \in DOMAIN proto.outs : Len(proto.outs) = 1}}
(* All but the parameters of blueprints.                                   *)
ExportRecipes(d, machines) ==
    [id \in {id \in DOMAIN d.recipes : ~d.recipes[id].parameter} |->
        LET proto == d.recipes[id]
            category == OrElse(proto.category, <<"crafting">>)
        IN  [kind |-> "game", category |-> category, time |-> OrElse(proto.time, 1), ins |-> proto.ins,
             outs |-> [n \in DOMAIN proto.outs |->
                          Out(proto.outs[n].item, ProductAmount(proto.outs[n]), ProductTemperature(proto.outs[n]))],
             madeIn |-> MadeIn(machines, category), productivity |-> proto.productivity, hidden |-> proto.hidden,
             main |-> ResolveMainProduct(proto)]]

-----------------------------------------------------------------------------
(* Technologies that can be researched (none above is disabled) and unlock *)
(* a recipe, with all they require.  Prerequisites make no cycle.          *)

Above(technologies, id) ==
    LET up[n \in 0..Cardinality(DOMAIN technologies)] ==
            IF n = 0 THEN {id} ELSE up[n - 1] \cup UNION {technologies[t].prerequisites : t \in up[n - 1] \cap DOMAIN technologies}
    IN  up[Cardinality(DOMAIN technologies)]
Researchable(technologies) ==
    {id \in DOMAIN technologies : \A t \in Above(technologies, id) \cap DOMAIN technologies : technologies[t].enabled}
ExportTechnologies(d, recipeIds) ==
    LET ids == Researchable(d.technologies)
        Unlocks(id) == d.technologies[id].unlocks \cap recipeIds
        keep == UNION {Above(d.technologies, id) \cap ids : id \in {id \in ids : Unlocks(id) # {}}}
    IN  [id \in keep |-> [prerequisites |-> d.technologies[id].prerequisites \cap ids, unlocks |-> Unlocks(id)]]
StartingRecipes(d, recipeIds) == {id \in recipeIds \cap DOMAIN d.recipes : d.recipes[id].enabled}

-----------------------------------------------------------------------------
(* The whole bundle.                                                       *)

PowerTypes == {"boiler", "generator", "burner-generator", "solar-panel", "reactor"}
PowerItem == Item("fluid", FALSE, NoFuel)
FullExport(d) ==
    LET machines == PowerMachines(d) @@ ExtractionMachines(d) @@ ExportMachines(d)
        recipes == PowerRecipes(d) @@ ExtractionRecipes(d) @@ ExportRecipes(d, machines)
        items == [i \in PowerItems(d) |-> PowerItem] @@ ExportItems(d)
    IN  [items |-> AttachPlaceResults(items, d, DOMAIN machines \cup d.beacons), recipes |-> recipes, machines |-> machines,
         beacons |-> d.beacons, defaults |-> ComputeDefaultMachines(machines, CategoriesOf(machines), d.order),
         technologies |-> ExportTechnologies(d, DOMAIN recipes), starting |-> StartingRecipes(d, DOMAIN recipes), mods |-> d.mods]

-----------------------------------------------------------------------------
(* Patches: one part of a bundle from a dump of the same mods.             *)

IgnoredMods == {"base", "factorio-planner-viewer"}
VersionIn(mods, name) == {mods[m] : m \in {name} \cap DOMAIN mods}
ModSetDiffs(bundleSet, dumpSet) ==
    {m \in (DOMAIN bundleSet \cup DOMAIN dumpSet) \ IgnoredMods : VersionIn(bundleSet, m) # VersionIn(dumpSet, m)}
SameModSet(bundle, d) == ModSetDiffs(bundle.mods, d.mods) = {}
Placed(bundle, d) == [bundle EXCEPT !.items = AttachPlaceResults(@, d, DOMAIN bundle.machines \cup bundle.beacons)]

PatchExtraction(bundle, d) ==
    LET added == ExtractionMachines(d)
        machines == added @@ DropKeys(bundle.machines, IdsOfType(bundle.machines, {"mining-drill", "offshore-pump"}))
        stale == {c \in DOMAIN bundle.defaults : IsExtractionCategory(c)}
    IN  IF ~SameModSet(bundle, d) THEN bundle
        ELSE Placed([bundle EXCEPT
                !.recipes = ExtractionRecipes(d) @@ DropKeys(@, IdsOfKind(@, "extraction")), !.machines = machines,
                !.defaults = ComputeDefaultMachines(added, CategoriesOf(added), d.order) @@ DropKeys(@, stale)], d)

PatchPower(bundle, d) ==
    LET added == PowerMachines(d)
        machines == added @@ DropKeys(bundle.machines, IdsOfType(bundle.machines, PowerTypes))
        stale == {c \in DOMAIN bundle.defaults : IsPowerCategory(c)}
    IN  IF ~SameModSet(bundle, d) THEN bundle
        ELSE Placed([bundle EXCEPT
                !.recipes = PowerRecipes(d) @@ DropKeys(@, IdsOfKind(@, "power")), !.machines = machines,
                !.items = [i \in PowerItems(d) |-> PowerItem] @@ DropKeys(@, {Electricity, Heat}),
                !.defaults = ComputeDefaultMachines(added, CategoriesOf(added), d.order) @@ DropKeys(@, stale)], d)

PatchTechnologies(bundle, d) ==
    IF ~SameModSet(bundle, d) THEN bundle
    ELSE Placed([bundle EXCEPT !.technologies = ExportTechnologies(d, DOMAIN bundle.recipes),
                               !.starting = StartingRecipes(d, DOMAIN bundle.recipes)], d)

(* Fuel: a burner machine keeps being one, a machine that burnt fluid or   *)
(* nothing is what its prototype is.                                       *)
MachineProtos(d) == d.crafters @@ d.drills @@ d.pumps
FuelledItem(item, id, d) ==
    LET protos == ItemProtos(d)
    IN  IF item.type = "fluid" /\ id \in DOMAIN d.fluids THEN [item EXCEPT !.kj = ParseEnergyKj(d.fluids[id].fuel)]
        ELSE IF item.type = "item" /\ id \in DOMAIN protos THEN ItemFuel(protos[id]) @@ item
        ELSE item
FuelledMachine(machine, proto) ==
    LET fuel == BurnerFuel(proto.source)
        fuelled == WithFuel(machine, fuel)
    IN  IF machine.energy \notin {"burner", "fluid-burner", "void"} THEN machine
        ELSE IF fuel.accepts # {} \/ (machine.energy = "burner" /\ fuel.effectivity = {}) THEN fuelled
        ELSE IF fuel.effectivity # {} THEN [fuelled EXCEPT !.energy = "fluid-burner"]
        ELSE IF machine.energy = "fluid-burner" THEN [fuelled EXCEPT !.energy = InferEnergyType(proto.source)]
        ELSE machine
AttachFuel(items, machines, d) ==
    LET protos == MachineProtos(d)
    IN  [items |-> [i \in DOMAIN items |-> FuelledItem(items[i], i, d)],
         machines |-> [m \in DOMAIN machines |-> IF m \in DOMAIN protos THEN FuelledMachine(machines[m], protos[m]) ELSE machines[m]]]
FuelOverlaps(items, machines) ==
    LET fuels(type) == {i \in DOMAIN items : items[i].type = type /\ items[i].kj > 0}
    IN  \E m \in DOMAIN machines :
            \/ \E i \in fuels("item") : items[i].category \cap machines[m].accepts # {}
            \/ machines[m].energy = "fluid-burner" /\ fuels("fluid") # {}
(* A dump without the fuel the bundle's machines burn is a wrong one.      *)
WrongFuelDump(bundle, items, machines, d) ==
    LET burns(energy) == \E m \in DOMAIN bundle.machines : bundle.machines[m].energy = energy
        none(type, known) == ~\E i \in DOMAIN items \cap known : items[i].type = type /\ items[i].kj > 0
    IN  \/ burns("burner") /\ none("item", DOMAIN ItemProtos(d))
        \/ burns("fluid-burner") /\ none("fluid", DOMAIN d.fluids)
        \/ burns("burner") /\ ~FuelOverlaps(items, machines)
PatchFuel(bundle, d) ==
    LET fuelled == AttachFuel(bundle.items, bundle.machines, d)
    IN  IF ~SameModSet(bundle, d) \/ WrongFuelDump(bundle, fuelled.items, fuelled.machines, d) THEN bundle
        ELSE [bundle EXCEPT !.items = fuelled.items, !.machines = fuelled.machines]

(* Temperatures: of the fluids, and of the products of recipes that the    *)
(* dump has with the same products; at most one in a hundred may differ.   *)
AttachFluidTemperatures(items, d) ==
    [i \in DOMAIN items |->
        IF items[i].type # "fluid" \/ i \notin DOMAIN d.fluids THEN items[i] ELSE FluidTemperatures(d.fluids[i]) @@ items[i]]
Matches(d, id, recipe) ==
    /\ id \in DOMAIN d.recipes /\ Len(d.recipes[id].outs) = Len(recipe.outs)
    /\ \A n \in DOMAIN recipe.outs : d.recipes[id].outs[n].item = recipe.outs[n].item
AttachProductTemperatures(recipes, d) ==
    [id \in DOMAIN recipes |->
        IF recipes[id].kind # "game" \/ ~Matches(d, id, recipes[id]) THEN recipes[id]
        ELSE [recipes[id] EXCEPT !.outs = [n \in DOMAIN @ |-> [@[n] EXCEPT !.temp = ProductTemperature(d.recipes[id].outs[n])]]]]
WrongTemperatureDump(bundle, d) ==
    LET fluids == {i \in DOMAIN bundle.items : bundle.items[i].type = "fluid"}
        game == IdsOfKind(bundle.recipes, "game")
    IN  \/ fluids # {} /\ \A f \in fluids \cap DOMAIN d.fluids : d.fluids[f].default = {}
        \/ 100 * Cardinality({id \in game : ~Matches(d, id, bundle.recipes[id])}) > Cardinality(game)
PatchTemperatures(bundle, d) ==
    IF ~SameModSet(bundle, d) \/ WrongTemperatureDump(bundle, d) THEN bundle
    ELSE [bundle EXCEPT !.items = AttachFluidTemperatures(@, d), !.recipes = AttachProductTemperatures(@, d)]
=============================================================================
