------------------------------- MODULE GameDump -------------------------------
(***************************************************************************)
(* The machines and the generated recipes the exporter makes of the        *)
(* prototypes of a dump of the game (scripts/energy.js, fuel.js,           *)
(* extraction.js, power.js): what burns, what is mined or pumped, and what *)
(* makes electricity and heat.                                             *)
(*                                                                         *)
(* A field that may be absent is a set of one or none; effectivities are   *)
(* in tenths, temperatures and heat capacities whole, times in half        *)
(* seconds.  An energy is a number with its unit.  A prototype's names, icons, order and subgroup   *)
(* are left out.  Ids and categories are tuples, so that none is taken for *)
(* another; recipes have a set of ingredients and a sequence of products,  *)
(* amounts of power recipes are per second.                                *)
(***************************************************************************)
EXTENDS Effects, TLC

Least(S) == CHOOSE n \in S : \A m \in S : n <= m
OrElse(S, default) == IF S = {} THEN default ELSE CHOOSE x \in S : TRUE
Second == 2

-----------------------------------------------------------------------------
(* Energies: kJ of joules, kW of watts, either of a number (in thousands); *)
(* a power in joules is one per tick.                                      *)

Joules == "kJ" :> 1 @@ "MJ" :> 1000 @@ "number" :> 1
Watts == "kW" :> 1 @@ "MW" :> 1000 @@ "number" :> 1
ParseEnergyKj(e) == IF e.unit \in DOMAIN Joules THEN e.n * Joules[e.unit] ELSE 0
ParseEnergyKw(e) == IF e.unit \in DOMAIN Watts THEN e.n * Watts[e.unit] ELSE 0
ParsePowerKw(e) == IF e.unit \in {"kJ", "MJ"} THEN 60 * ParseEnergyKj(e) ELSE ParseEnergyKw(e)

BurnsFluid(source) == source.type = "fluid" /\ source.burns
InferEnergyType(source) ==
    IF source.type \in {"electric", "burner", "heat"} THEN source.type
    ELSE IF BurnsFluid(source) THEN "fluid-burner" ELSE "void"

-----------------------------------------------------------------------------
(* Fuel of items, fluids and machines.                                     *)

FuelCategories(source) ==
    IF source.categories # {} THEN source.categories
    ELSE IF source.category # {} THEN source.category ELSE {"chemical"}
ItemFuel(proto) ==
    IF ParseEnergyKj(proto.fuel) = 0 THEN [kj |-> 0, category |-> {}, burnt |-> {}]
    ELSE [kj |-> ParseEnergyKj(proto.fuel), category |-> {OrElse(proto.category, "chemical")}, burnt |-> proto.burnt]
BurnerFuel(source) ==
    LET effectivity == {OrElse({e \in source.effectivity : e > 0}, 10)}
    IN  IF source.type = "burner" THEN [accepts |-> FuelCategories(source), effectivity |-> effectivity, fuelFluid |-> {}]
        ELSE IF BurnsFluid(source) THEN [accepts |-> {}, effectivity |-> effectivity, fuelFluid |-> source.filter]
        ELSE [accepts |-> {}, effectivity |-> {}, fuelFluid |-> {}]
WithFuel(machine, fuel) ==
    [machine EXCEPT !.accepts = fuel.accepts, !.effectivity = fuel.effectivity, !.fuelFluid = fuel.fuelFluid]

(* A machine of the bundle, without fuel, modules or power of its own.     *)
Machine(type, categories, hidden) ==
    [type |-> type, speed |-> 1, kw |-> 0, energy |-> "void", drain |-> 0, slots |-> 0, effects |-> {},
     categories |-> categories, hidden |-> hidden, accepts |-> {}, effectivity |-> {}, fuelFluid |-> {}, neighbourBonus |-> {}]
Powered(machine, proto, kw) ==
    WithFuel([machine EXCEPT !.kw = kw, !.energy = InferEnergyType(proto.source), !.drain = ParseEnergyKw(proto.source.drain)],
             BurnerFuel(proto.source))

-----------------------------------------------------------------------------
(* Extraction: drills mine the resources of their categories, and those    *)
(* that take a fluid only if they have an input for it; pumps pump a fluid.*)

DefaultResourceCategory == "basic-solid"
IsExtractionCategory(c) == c[1] \in {"mining", "mining-with-fluid", "offshore"}
ResourceCategory(r) == OrElse(r.category, DefaultResourceCategory)
MiningCategory(r) == <<IF r.fluid = {} THEN "mining" ELSE "mining-with-fluid", ResourceCategory(r)>>
ExpectedAmount(p) ==
    IF p.amount # {} THEN Quotient(OrElse(p.amount, 0), 1)
    ELSE IF p.min # {} /\ p.max # {} THEN Quotient(OrElse(p.min, 0) + OrElse(p.max, 0), 2)
    ELSE Quotient(OrElse(p.max \cup p.min, 0), 1)
Capable(d, r) ==
    {m \in DOMAIN d.drills : ResourceCategory(r) \in d.drills[m].resources /\ (r.fluid # {} => d.drills[m].fluidInput)}
Mined(d) ==
    {id \in DOMAIN d.resources : LET r == d.resources[id] IN
        r.time > 0 /\ r.products # <<>> /\ (r.fluid # {} => r.fluidAmount > 0) /\ Capable(d, r) # {}}
MiningRecipe(d, r) ==
    [kind |-> "extraction", category |-> MiningCategory(r), time |-> r.time,
     ins |-> {[item |-> f, amount |-> Quotient(r.fluidAmount, 10), low |-> {}] : f \in r.fluid},
     outs |-> [n \in DOMAIN r.products |-> [item |-> r.products[n].item, amount |-> ExpectedAmount(r.products[n]), temp |-> {}]],
     madeIn |-> Capable(d, r), productivity |-> TRUE,
     hidden |-> r.hidden \/ \A m \in Capable(d, r) : d.drills[m].hidden,
     main |-> IF Len(r.products) = 1 THEN {r.products[1].item} ELSE {}]
UsedDrills(d) == UNION {Capable(d, d.resources[id]) : id \in Mined(d)}
ExtractionKw(proto) == IF InferEnergyType(proto.source) = "void" THEN 0 ELSE ParseEnergyKw(proto.energy)
DrillMachine(proto) ==
    LET categories == ({"mining"} \cup IF proto.fluidInput THEN {"mining-with-fluid"} ELSE {}) \X proto.resources
    IN  [Powered(Machine("mining-drill", categories, proto.hidden), proto, ExtractionKw(proto)) EXCEPT
            !.speed = OrElse(proto.speed, 1), !.slots = OrElse(proto.slots, 0), !.effects = OrElse(proto.allowed, AllEffects)]

PumpFluids(d, proto) ==
    (IF proto.filter # {} THEN proto.filter ELSE IF proto.fluid # {} THEN proto.fluid ELSE d.tiles) \cap DOMAIN d.fluids
PumpsOf(d, fluid) == {m \in DOMAIN d.pumps : fluid \in PumpFluids(d, d.pumps[m])}
Pumped(d) == {fluid \in DOMAIN d.fluids : PumpsOf(d, fluid) # {}}
PumpMachine(d, proto) ==
    [Powered(Machine("offshore-pump", {"offshore"} \X PumpFluids(d, proto), proto.hidden), proto, ExtractionKw(proto)) EXCEPT
        !.speed = OrElse(proto.speed, 1)]
PumpRecipe(d, fluid) ==
    [kind |-> "extraction", category |-> <<"offshore", fluid>>, time |-> Second, ins |-> {},
     outs |-> <<[item |-> fluid, amount |-> Quotient(60, 1), temp |-> {}]>>, madeIn |-> PumpsOf(d, fluid),
     productivity |-> FALSE, hidden |-> \A m \in PumpsOf(d, fluid) : d.pumps[m].hidden, main |-> {fluid}]

ExtractionMachines(d) ==
    [m \in {m \in DOMAIN d.pumps : PumpFluids(d, d.pumps[m]) # {}} |-> PumpMachine(d, d.pumps[m])]
    @@ [m \in UsedDrills(d) |-> DrillMachine(d.drills[m])]
ExtractionRecipes(d) ==
    [id \in {"mining"} \X Mined(d) |-> MiningRecipe(d, d.resources[id[2]])]
    @@ [id \in {"offshore"} \X Pumped(d) |-> PumpRecipe(d, id[2])]

-----------------------------------------------------------------------------
(* Power: a recipe for each machine and fuel.                              *)

Electricity == "power:electricity"
Heat == "power:heat"
SolarAverage == 7
DefaultHeatCapacity == 1
RoomTemperature == 15
IsPowerCategory(c) == c[1] = "power"
IsScriptPlacedGenerator(proto) == proto.hidden /\ ~proto.minable

(* Of an id in several tables the last counts.                             *)
ItemProtos(d) == FoldLeft(LAMBDA protos, table : table @@ protos, <<>>, d.itemTables)
FuelItemsOf(d, categories, slots) ==
    LET items == ItemProtos(d)
    IN  {[item |-> i, kj |-> ParseEnergyKj(items[i].fuel), burnt |-> items[i].burnt] :
            i \in {i \in DOMAIN items : /\ ~items[i].hidden /\ items[i].category \cap categories # {}
                                        /\ ParseEnergyKj(items[i].fuel) > 0 /\ (slots > 0 \/ items[i].burnt = {})}}
FluidFuel(d, f) == [item |-> f, kj |-> ParseEnergyKj(d.fluids[f].fuel), burnt |-> {}]
AllFluidFuels(d) == {FluidFuel(d, f) : f \in {f \in DOMAIN d.fluids : ~d.fluids[f].hidden /\ ParseEnergyKj(d.fluids[f].fuel) > 0}}
Burns(source) == source.type = "burner" \/ BurnsFluid(source)
FuelsOf(d, source) ==
    IF source.type = "burner" THEN FuelItemsOf(d, FuelCategories(source), source.burntSlots)
    ELSE IF source.filter = {} THEN AllFluidFuels(d)
    ELSE {f \in AllFluidFuels(d) : f.item \in source.filter}
HeatInput == [item |-> Heat, kj |-> 1000, burnt |-> {}]

HeatCapacity(fluid) == IF ParseEnergyKj(fluid.heat) = 0 THEN DefaultHeatCapacity ELSE ParseEnergyKj(fluid.heat)
In(item, amount, low) == [item |-> item, amount |-> amount, low |-> low]
Out(item, amount, temp) == [item |-> item, amount |-> amount, temp |-> temp]
Burnt(fuel, amount) == SetToSeq({Out(i, amount, {}) : i \in fuel.burnt})
FuelPerSec(kw, fuel, effectivity) == Quotient(10 * kw, fuel.kj * effectivity)

BoilerEntries(d, proto) ==
    LET isHeat == proto.source.type = "heat"
        kw == ParsePowerKw(proto.power)
        known == proto.in \cup proto.out \subseteq DOMAIN d.fluids /\ proto.in # {} /\ proto.out # {} /\ proto.target # {}
        perUnit(in, out, target) == HeatCapacity(d.fluids[out]) * (target - OrElse(d.fluids[in].default, RoomTemperature))
    IN  IF proto.hidden \/ ~(isHeat \/ Burns(proto.source)) \/ ~proto.separate \/ ~known THEN {}
        ELSE UNION {LET amount == FuelPerSec(kw, fuel, IF isHeat THEN 10 ELSE OrElse(proto.source.effectivity, 10))
                        steam == Quotient(kw, perUnit(x[1], x[2], x[3]))
                    IN  IF kw <= 0 \/ perUnit(x[1], x[2], x[3]) <= 0 THEN {}
                        ELSE {[input |-> <<fuel.item>>, main |-> x[2],
                               ins |-> {In(x[1], steam, {}), In(fuel.item, amount, IF isHeat THEN proto.source.least ELSE {})},
                               outs |-> <<Out(x[2], steam, {x[3]})>> \o Burnt(fuel, amount)]} :
                       fuel \in IF isHeat THEN {HeatInput} ELSE FuelsOf(d, proto.source), x \in proto.in \X proto.out \X proto.target}

(* The generator's own filter fluid counts even when hidden.               *)
GeneratorInputs(d, proto) ==
    LET own == {FluidFuel(d, f) : f \in proto.filter \cap DOMAIN d.fluids}
    IN  IF ~proto.burns THEN own ELSE {f \in IF proto.filter # {} THEN own ELSE AllFluidFuels(d) : f.kj > 0}
GeneratorHeat(d, proto) ==
    IF proto.maximum # {} THEN proto.maximum ELSE UNION {d.fluids[f].max : f \in proto.filter \cap DOMAIN d.fluids}
GeneratorEntries(d, proto) ==
    LET effectivity == OrElse(proto.effectivity, 10)
        use == 60 * proto.use
        heats == GeneratorHeat(d, proto)
        perUnit(input) ==
            IF proto.burns THEN input.kj
            ELSE IF heats = {} THEN 0
            ELSE HeatCapacity(d.fluids[input.item]) * (OrElse(heats, 0) - OrElse(d.fluids[input.item].default, RoomTemperature))
        full(input) == Quotient(use * perUnit(input) * effectivity, 10)
        capped(input) == {ParsePowerKw(e) : e \in {e \in proto.cap : ParsePowerKw(e) * full(input).d < full(input).n}}
        used(input) == IF proto.scales /\ capped(input) # {}
                       THEN Quotient(10 * OrElse(capped(input), 0), perUnit(input) * effectivity) ELSE Quotient(use, 1)
        made(input) == IF capped(input) # {} THEN Quotient(OrElse(capped(input), 0), 1) ELSE full(input)
    IN  IF proto.hidden /\ ~IsScriptPlacedGenerator(proto) THEN {}
        ELSE {[input |-> <<input.item>>, main |-> Electricity,
               ins |-> {In(input.item, used(input), IF proto.burns THEN {} ELSE heats)},
               outs |-> <<Out(Electricity, Quotient(made(input).n, made(input).d * 1000), {})>>] :
                 input \in {input \in GeneratorInputs(d, proto) : full(input).n > 0}}

(* What turns kw of fuel into a product: burner generators and reactors.   *)
BurningEntries(fuels, kw, effectivity, product, temp) ==
    IF kw <= 0 THEN {}
    ELSE {[input |-> <<fuel.item>>, main |-> product,
           ins |-> {In(fuel.item, FuelPerSec(kw, fuel, effectivity), {})},
           outs |-> <<Out(product, Quotient(kw, 1000), temp)>> \o Burnt(fuel, FuelPerSec(kw, fuel, effectivity))] : fuel \in fuels}
BurnerGeneratorEntries(d, proto) ==
    IF proto.hidden THEN {}
    ELSE BurningEntries(FuelItemsOf(d, FuelCategories(proto.source), proto.source.burntSlots), ParsePowerKw(proto.power),
                        OrElse(proto.source.effectivity, 10), Electricity, {})
ReactorEntries(d, proto) ==
    IF proto.hidden \/ ~Burns(proto.source) THEN {}
    ELSE BurningEntries(FuelsOf(d, proto.source), ParsePowerKw(proto.power), OrElse(proto.source.effectivity, 10), Heat, proto.maxHeat)
SolarEntries(proto) ==
    IF proto.hidden \/ ParsePowerKw(proto.power) <= 0 THEN {}
    ELSE {[input |-> <<>>, main |-> Electricity, ins |-> {},
           outs |-> <<Out(Electricity, Quotient(ParsePowerKw(proto.power) * SolarAverage, 10000), {})>>]}

EntriesOf(d, m) ==
    LET proto == d.power[m]
    IN  CASE proto.type = "boiler" -> BoilerEntries(d, proto)
          [] proto.type = "generator" -> GeneratorEntries(d, proto)
          [] proto.type = "burner-generator" -> BurnerGeneratorEntries(d, proto)
          [] proto.type = "reactor" -> ReactorEntries(d, proto)
          [] OTHER -> SolarEntries(proto)
PowerMachines(d) ==
    [m \in {m \in DOMAIN d.power : EntriesOf(d, m) # {}} |->
        [Machine(d.power[m].type, {<<"power", m>>}, FALSE) EXCEPT
            !.neighbourBonus = {b \in IF d.power[m].type = "reactor" THEN {OrElse(d.power[m].bonus, 10)} ELSE {} : b > 0}]]
PowerRecipes(d) ==
    LET made == UNION {{[id |-> <<"power", m>> \o e.input, machine |-> m, entry |-> e] : e \in EntriesOf(d, m)} : m \in DOMAIN d.power}
    IN  [id \in {r.id : r \in made} |->
           LET r == CHOOSE r \in made : r.id = id
           IN  [kind |-> "power", category |-> <<"power", r.machine>>, time |-> Second, ins |-> r.entry.ins, outs |-> r.entry.outs,
                madeIn |-> {r.machine}, productivity |-> FALSE, hidden |-> FALSE, main |-> {r.entry.main}]]
(* Electricity whenever there is a power recipe, heat if one has it.       *)
PowerItems(d) ==
    LET recipes == PowerRecipes(d)
        uses(i) == \E id \in DOMAIN recipes : i \in {x.item : x \in recipes[id].ins} \cup ItemsOf(recipes[id].outs)
    IN  {i \in {Electricity, Heat} : DOMAIN recipes # {} /\ (i = Heat => uses(Heat))}
=============================================================================
