------------------------------- MODULE MCData -------------------------------
(* The rows of small plans at work, with every kind of fuel and effect;    *)
(* the memory of the solver; fluids too hot or too cold; and research      *)
(* horizons of small sets of game data.                                    *)
EXTENDS TLC, Integers, FiniteSets, Sequences, SequencesExt
LOCAL E == INSTANCE Effects
LOCAL C == INSTANCE BlockSolve
LOCAL T == INSTANCE Temperatures
LOCAL H == INSTANCE Horizon

-----------------------------------------------------------------------------
(* Two fuels of one value, a dearer one, one hidden, one that leaves       *)
(* something behind, of another category; a fluid that burns and a hidden  *)
(* one; and an ore.                                                        *)

LOCAL Item(type, value, category, hidden, burnt) ==
    [type |-> type, value |-> value, category |-> category, hidden |-> hidden, burnt |-> burnt]
LOCAL Items ==
    <<Item("item", 4, "coal", FALSE, FALSE), Item("item", 2, "coal", FALSE, FALSE), Item("item", 2, "coal", FALSE, FALSE),
      Item("item", 1, "coal", TRUE, FALSE), Item("item", 1, "cell", FALSE, TRUE), Item("fluid", 3, "none", FALSE, FALSE),
      Item("fluid", 1, "none", TRUE, FALSE), Item("item", 0, "none", FALSE, FALSE)>>
LOCAL Ore == 8
LOCAL Machines ==
    [energy : {"burner", "fluid-burner", "electric"}, fluid : {{}, {6}, {7}, {8}}, fuels : {{}, {"coal"}, {"cell"}, {"coal", "cell"}},
     allowed : {E!AllEffects, {"speed"}, {}}, speed : {1, 2}, kw : {3}, drain : {1}, effectivity : {1, 2}, neighbourBonus : {10}]

(* The fuel a machine burns is one it accepts, the chosen one if it is,    *)
(* else none accepted is cheaper; nothing hidden burns unless the machine  *)
(* names it; and there is fuel data wherever something is accepted.        *)
ASSUME FuelIsCheapest ==
    \A m \in Machines : \A chosen \in {{}} \cup {{i} : i \in DOMAIN Items} :
        LET accepted == E!ToSet(E!AcceptedFuels(Items, m))
            burns == E!ResolveRowFuel(Items, m, chosen)
        IN  /\ burns \subseteq accepted
            /\ Cardinality(burns) = IF accepted = {} THEN 0 ELSE 1
            /\ chosen \cap accepted # {} => burns = chosen
            /\ chosen \cap accepted = {} => \A i \in burns : \A j \in accepted : Items[i].value <= Items[j].value
            /\ \A i \in accepted : Items[i].value > 0 /\ (Items[i].hidden => i \in m.fluid)
            /\ accepted # {} => E!HasFuelData(Items, m)

-----------------------------------------------------------------------------
(* One recipe that takes a catalyst, and may take productivity, and one    *)
(* that makes heat, in machines as above.                                  *)

LOCAL Amount(item, n) == [item |-> item, amount |-> E!Quotient(n, 1)]
LOCAL Product(item, n, ignored) == [item |-> item, amount |-> n, ignored |-> ignored, probability |-> 10]
LOCAL Recipe(ins, outs, productive) ==
    [category |-> "craft", allowProductivity |-> productive, time |-> 2, ingredients |-> ins, products |-> outs]
LOCAL Recipes(productive) ==
    "enrich" :> Recipe(<<Amount(1, 2), Amount(Ore, 1)>>, <<Product(1, 5, 2), Product(2, 1, 0)>>, productive)
    @@ "burn" :> Recipe(<<Amount(2, 1)>>, <<Product(E!HeatItem, 4, 0)>>, FALSE)
LOCAL Modules ==
    "fast" :> [speed |-> 5, productivity |-> 0, consumption |-> 7] @@ "rich" :> [speed |-> -2, productivity |-> 1, consumption |-> 4]
    @@ "thrifty" :> [speed |-> 0, productivity |-> 0, consumption |-> -5]
LOCAL Data(machine, beaconAllows, productive) ==
    [recipes |-> Recipes(productive), items |-> Items, machines |-> "m" :> machine, defaults |-> "craft" :> "m",
     modules |-> Modules, beacons |-> "b" :> [allowed |-> beaconAllows]]
LOCAL Datas ==
    {Data(m, b, p) : m \in {n \in Machines : n.fluid = {7} /\ n.fuels = {"coal"} /\ n.speed = 2 /\ n.effectivity = 2},
                     b \in {E!AllEffects, {"speed"}}, p \in BOOLEAN}
LOCAL Slots == {<<>>} \cup {<<[module |-> x, count |-> n]>> : x \in DOMAIN Modules \cup {"gone"}, n \in {2}}
               \cup {<<[module |-> "rich", count |-> 1], [module |-> "thrifty", count |-> 3]>>}
LOCAL Beacon(module) == [entity |-> "b", module |-> module, efficiency |-> 5, each |-> 2, count |-> 1]
LOCAL Rows ==
    [recipe : {"enrich", "burn"}, machine : {{}}, modules : Slots, beacon : {{}} \cup {{Beacon(x)} : x \in {"fast", "rich"}},
     neighbours : {15}, fuel : {{}, {1}}]
    \cup [recipe : {"enrich"}, machine : {{"gone"}}, modules : {<<>>}, beacon : {{}}, neighbours : {0}, fuel : {{}}]
LOCAL RowsOf(r) == {row \in Rows : row.recipe = r}
LOCAL Machine(d) == d.machines["m"]

(* The energy of the fuel a row burns in a minute is what its machines     *)
(* draw, by their number and without their drain; it then draws no power.  *)
ASSUME FuelIsTheDraw ==
    \A d \in Datas : \A row \in RowsOf("enrich") :
        LET node == E!SolvedNodeOf(d, row, 3)
            effects == E!NodeEffects(d, row)
            draw == Machine(d).kw * E!ConsumptionMultiplier(effects.consumption) * 60
        IN  /\ effects.fuel = {} <=> E!RowMachine(d, row) = {} \/ Machine(d).energy = "electric"
            /\ \A f \in effects.fuel : \A count \in node.exact :
                /\ E!Times(f.amount, 3 * Items[f.item].value * Machine(d).effectivity * 10) = E!Times(count, draw)
                /\ node.power = {}

(* The machines are enough, and one fewer is not; none has fewer than a    *)
(* fifth of its draw.                                                      *)
ASSUME MachinesSuffice ==
    \A d \in Datas : \A row \in RowsOf("enrich") :
        LET node == E!SolvedNodeOf(d, row, 3)
            effects == E!NodeEffects(d, row)
            Done(n) == n * Machine(d).speed * (E!Whole + effects.speed) * 60
        IN  /\ \A n \in node.ceil : Done(n) >= 6 * E!Whole /\ Done(n - 1) < 6 * E!Whole
            /\ \A p \in node.power : \A count \in node.exact :
                  E!AtMost(E!Times(count, Machine(d).kw + 5 * Machine(d).drain), E!Times(p, 5))
            /\ row.machine = {"gone"} => node.exact = {} /\ node.fuel = {}

(* What the machine refuses changes nothing; productivity never leaves     *)
(* less, never multiplies the catalyst a recipe gets back, and is nothing  *)
(* to a recipe that does not take it.                                      *)
ASSUME RefusedIsNothing ==
    \A d \in Datas : \A row \in RowsOf("enrich") :
        LET node == E!SolvedNodeOf(d, row, 1)
            plain == E!SolvedNodeOf(d, [row EXCEPT !.modules = <<>>, !.beacon = {}], 1)
            gained == node.outs[1].n * 10 - 50 * node.outs[1].d
        IN  /\ Machine(d).allowed = {} /\ row.machine = {} => node = plain
            /\ E!AtMost(plain.outs[1], node.outs[1])
            /\ gained * node.outs[2].d = 3 * 10 * (node.outs[2].n - node.outs[2].d) * node.outs[1].d
            /\ ~d.recipes["enrich"].allowProductivity => node.outs = plain.outs

(* The rates of a row are what the matrix of the solve says it makes less  *)
(* what it takes, whatever its fuel, and every item has one kind.          *)
ASSUME RatesAreTheMatrix ==
    \A d \in Datas : \A row \in Rows :
        LET node == E!SolvedNodeOf(d, row, 3)
            effects == row.recipe :> E!NodeEffects(d, row)
            column == E!Stoichiometry(d, effects, {row.recipe, "lost"})[row.recipe]
            kinds == E!Classify(d, effects, {row.recipe, "lost"}, {2})
            Of(f, i) == IF i \in DOMAIN f THEN f[i] ELSE E!Quotient(0, 1)
        IN  /\ \A i \in 0..8 : E!Times(Of(column, i), 3) = E!Plus(Of(node.outs, i), E!Times(Of(node.ins, i), -1))
            /\ DOMAIN column \cup {2} = UNION {kinds[k] : k \in DOMAIN kinds}
            /\ \A i \in DOMAIN column : Cardinality({k \in DOMAIN kinds : i \in kinds[k]}) = 1
            /\ \A i \in kinds.raw : column[i].n < 0
            /\ \A i \in kinds.byproducts : column[i].n > 0
            /\ LET recipe == d.recipes[row.recipe]
                   locked == E!LockedIngredients(recipe, effects[row.recipe], row)
               IN  E!ItemsOf(E!RowIngredients(recipe, effects[row.recipe])) \ E!ItemsOf(locked) \subseteq node.fuel \ row.fuel

-----------------------------------------------------------------------------
(* Recipe lists with the power recipes of two machines.                    *)

LOCAL Choice(id, power, machines) == [id |-> id, power |-> power, madeIn |-> machines, ingredients |-> <<id>>]
LOCAL RowChoices == {<<FALSE, <<"boiler">>>>, <<TRUE, <<"boiler", "stove">>>>, <<TRUE, <<"stove">>>>, <<TRUE, <<>>>>}
LOCAL RecipeLists == {[n \in 1..4 |-> Choice(n, kinds[n][1], kinds[n][2])] : kinds \in [1..4 -> RowChoices]}

(* Grouping keeps every recipe once and in order, groups only power        *)
(* recipes of one machine, all of them, and leaves a machine's only recipe *)
(* alone.                                                                  *)
ASSUME ChoicesKeepRecipes ==
    \A recipes \in RecipeLists :
        LET entries == E!GroupPowerRecipes(recipes)
            listed == E!FlattenSeq([n \in DOMAIN entries |-> entries[n].recipes])
        IN  /\ Len(listed) = 4 /\ E!ToSet(listed) = E!ToSet(recipes)
            /\ \A n \in DOMAIN entries :
                  /\ \A k \in 2..Len(entries[n].recipes) : entries[n].recipes[k - 1].id < entries[n].recipes[k].id
                  /\ n > 1 => entries[n - 1].recipes[1].id < entries[n].recipes[1].id
                  /\ entries[n].machine = {} <=> Len(entries[n].recipes) = 1
                  /\ \A r \in E!ToSet(entries[n].recipes) : entries[n].machine # {} => E!PowerMachineId(r) = entries[n].machine
            /\ \A m, n \in DOMAIN entries : m # n => entries[m].machine = {} \/ entries[m].machine # entries[n].machine

-----------------------------------------------------------------------------
(* Solves of two blocks, the first with five plans, of which the last      *)
(* fails; each is solved, or a solve ends with some blocks kept.  recent   *)
(* lists the plans of a block, the last solved first, that nothing made it *)
(* forget.                                                                 *)

LOCAL Plans(b) == IF b = 1 THEN 1..5 ELSE {1}
LOCAL Outcome(plan) == IF plan = 5 THEN {} ELSE {10 * plan}
LOCAL Solves(s) ==
    {[cache |-> C!SolveOnce(s.cache, b, p, Outcome(p)).cache,
      recent |-> [s.recent EXCEPT ![b] = IF p = 5 THEN <<>> ELSE <<p>> \o SelectSeq(@, LAMBDA q : q # p)]] :
        b \in 1..2, p \in 1..5}
LOCAL Ends(s) ==
    {[cache |-> C!Retain(s.cache, B), recent |-> [b \in 1..2 |-> IF b \in B THEN s.recent[b] ELSE <<>>]] : B \in SUBSET (1..2)}
LOCAL CacheReach ==
    LET reach[n \in Nat] ==
            IF n = 0 THEN [all |-> {}, new |-> {[cache |-> C!EmptyCache, recent |-> <<<<>>, <<>>>>]}]
            ELSE LET all == reach[n - 1].all \cup reach[n - 1].new
                 IN  [all |-> all, new |-> UNION {{t \in Solves(s) \cup Ends(s) : Len(t.recent[2]) <= 1} : s \in reach[n - 1].new} \ all]
    IN  reach[6].all

(* A block keeps its last three plans solved and no other, so that the     *)
(* probe, the first and the settled solve of a block in a loop survive;    *)
(* what it finds is what solving would give; and the block that fails      *)
(* keeps nothing.                                                          *)
ASSUME RecentSolvesSurvive ==
    \A s \in CacheReach : \A b \in 1..2 :
        /\ [n \in DOMAIN C!SolvesOf(s.cache, b) |-> C!SolvesOf(s.cache, b)[n].inputs]
              = SubSeq(s.recent[b], 1, IF Len(s.recent[b]) < 3 THEN Len(s.recent[b]) ELSE 3)
        /\ \A p \in Plans(b) : C!SolveOnce(s.cache, b, p, Outcome(p)).solved = Outcome(p)

LOCAL LoopReach ==
    LET Steps(s) ==
            {[cache |-> C!LoopOnce(s.cache, m, i, [failed |-> i = 3, of |-> 10 * i]).cache, used |-> s.used \cup {m}, kept |-> s.kept] :
                m \in {<<1>>, <<1, 2>>}, i \in 1..3}
            \cup {[cache |-> C!Retain(s.cache, B), used |-> {}, kept |-> {m \in s.used : C!ToSet(m) \subseteq B}] :
                    B \in {{1}, {1, 2}}}
        reach[n \in Nat] ==
            IF n = 0 THEN {[cache |-> C!EmptyCache, used |-> {}, kept |-> {}]}
            ELSE reach[n - 1] \cup UNION {Steps(s) : s \in reach[n - 1]}
    IN  reach[4]

(* The cycle of a solve is remembered for the next and forgotten if that   *)
(* did not meet it; a failed one is not remembered.                        *)
ASSUME LoopsLastOneSolve ==
    \A s \in LoopReach : \A m \in {<<1>>, <<1, 2>>} :
        /\ \A i \in 1..3 : C!LoopOnce(s.cache, m, i, [failed |-> i = 3, of |-> 10 * i]).solved = {10 * i}
        /\ m \in DOMAIN s.cache.loops => m \in s.used \cup s.kept
        /\ C!LoopSolvedFor(s.cache, m, 3) = {}
        /\ s.cache.used = s.used

LOCAL CachedPlans ==
    [goals : {<<>>, <<1>>}, nodes : {<<>>, <<1>>}, noImport : {{}, {{}}, {{1}}}, areas : {{}, {<<1>>}},
     sourcing : {<<>>, <<<<1, "a">>>>, <<<<1, "a">>, <<2, "b">>>>, <<<<2, "b">>, <<1, "a">>>>}]

(* The key tells plans apart by all a solve reads and nothing else: the    *)
(* order the sources were set in is nothing.                               *)
ASSUME KeyIsWhatIsRead ==
    \A p, q \in CachedPlans :
        C!PlanKey(p) = C!PlanKey(q)
            <=> /\ p.goals = q.goals /\ p.nodes = q.nodes /\ p.areas = q.areas
                /\ UNION p.noImport = UNION q.noImport /\ C!ToSet(p.sourcing) = C!ToSet(q.sourcing)

-----------------------------------------------------------------------------
(* Steam at 165 and at 500, of a temperature nobody knows, and for an      *)
(* engine that takes it up to 200, a turbine from 400 up, and a cooler     *)
(* that takes it from 400 up and makes it at 100; in three blocks.         *)

LOCAL Steam == [item |-> "steam", low |-> {}, high |-> {}]
LOCAL Makes(t) == [ins |-> <<>>, outs |-> {[item |-> "steam", temp |-> t]}]
LOCAL Hot == [Steam EXCEPT !.low = {400}]
LOCAL Game ==
    [items |-> "steam" :> [temp |-> {}],
     recipes |-> "boil" :> Makes({165}) @@ "heat" :> Makes({500}) @@ "vent" :> Makes({})
        @@ "turbine" :> [ins |-> <<Hot>>, outs |-> {}] @@ "engine" :> [ins |-> <<[Steam EXCEPT !.high = {200}]>>, outs |-> {}]
        @@ "cool" :> [ins |-> <<Hot>>, outs |-> {[item |-> "steam", temp |-> {100}]}]]
LOCAL Row(id, recipe) ==
    [id |-> id, recipe |-> recipe, ins |-> IF recipe \in {"turbine", "engine", "cool"} THEN "steam" :> 1 ELSE <<>>,
     outs |-> IF recipe \in {"turbine", "engine"} THEN <<>> ELSE "steam" :> 1]
LOCAL Block(recipes, short) ==
    [rows |-> [n \in DOMAIN recipes |-> Row(n, recipes[n])], unsatisfied |-> IF short THEN "steam" :> 1 ELSE <<>>]
LOCAL Sources == {Block(r, s) : r \in {<<>>, <<"boil">>, <<"heat">>, <<"vent">>, <<"boil", "heat">>}, s \in BOOLEAN}
LOCAL Takers ==
    {Block(r, s) : r \in {<<"turbine">>, <<"engine">>, <<"turbine", "boil">>, <<"cool">>, <<"cool", "cool">>, <<"engine", "heat", "engine">>, <<"cool", "turbine">>},
                   s \in BOOLEAN}
LOCAL Flow(from, to, rate) == [from |-> from, to |-> to, item |-> "steam", rate |-> rate, status |-> IF rate = 2 THEN "limited" ELSE "ok"]
LOCAL FlowSets == {{Flow(1, 2, x), Flow(2, 3, y), Flow(1, 3, z)} : x \in 0..1, y \in {0, 2}, z \in 0..1}

(* A row is warned about once, and only if whatever makes its fluid,       *)
(* however far the fluid may have come, makes it too hot or too cold.      *)
ASSUME WarnedRowsStarve ==
    \A first \in Sources : \A second \in Sources \cup Takers : \A third \in Takers : \A flows \in FlowSets :
        LET results == <<first, second, third>>
            all == T!TemperatureWarnings(Game, results, flows)
            Fed(a, b) == a = b \/ \E f \in flows : f.from = a /\ f.to = b /\ f.rate > 0
            Reaches(a, b) == \E c \in 1..3 : Fed(a, c) /\ Fed(c, b)
            Fits(ing, t) == (\A l \in ing.low : t >= l) /\ (\A h \in ing.high : t <= h)
            Made(a, n) == Game.recipes[results[a].rows[n].recipe].outs
            Makers(b, n) ==
                UNION {{<<a, m>> : m \in {m \in DOMAIN results[a].rows : <<a, m>> # <<b, n>> /\ Made(a, m) # {}}} :
                          a \in {a \in 1..3 : Reaches(a, b)}}
            Starves(b, n, ing) ==
                /\ Makers(b, n) # {}
                /\ \A maker \in Makers(b, n) : \A p \in Made(maker[1], maker[2]) : p.temp # {} /\ \A t \in p.temp : ~Fits(ing, t)
                /\ \A a \in {a \in 1..3 : Reaches(a, b)} : ~T!Imported(results[a], "steam")
        IN  \A b \in 1..3 :
                /\ \A k \in DOMAIN all[b] :
                      /\ \E n \in DOMAIN results[b].rows : results[b].rows[n].recipe = all[b][k].recipe /\ Starves(b, n, all[b][k].ing)
                      /\ all[b][k].supplied # {}
                      /\ \A j \in 1..(k - 1) : all[b][j].recipe # all[b][k].recipe
                /\ b = 1 \/ flows = {Flow(1, 2, 0), Flow(2, 3, 0), Flow(1, 3, 0)} =>
                      \A n \in DOMAIN results[b].rows : \A ing \in T!ToSet(Game.recipes[results[b].rows[n].recipe].ins) :
                          Starves(b, n, ing) => \E w \in T!ToSet(all[b]) : w.recipe = results[b].rows[n].recipe

-----------------------------------------------------------------------------
(* Research horizons. *)

LOCAL In(i) == [item |-> i, low |-> {}, high |-> {}]
LOCAL HotIn(i, n) == [item |-> i, low |-> {n}, high |-> {}]
LOCAL Out(i) == [item |-> i, temp |-> {}]
LOCAL Known(ins, outs) ==
    [ins |-> ins, outs |-> outs, power |-> FALSE, extraction |-> FALSE, hidden |-> FALSE]
LOCAL Power(ins, outs) == [Known(ins, outs) EXCEPT !.power = TRUE]
LOCAL Plain == [hidden |-> FALSE, temp |-> {}, places |-> "none"]
LOCAL Placing(entity) == [Plain EXCEPT !.places = entity]
LOCAL Maker(categories, speed) == [hidden |-> FALSE, categories |-> categories, speed |-> speed]

(* Steam of two temperatures, an engine that may need the hotter one, a    *)
(* fuel that feeds itself, a machine of each speed, and one kept hidden.   *)
LOCAL PowerRecipes == {"boiler", "exchanger", "engine", "breeder"}
LOCAL GameData(low, order, early, late) ==
    [technologies |-> "a" :> [prerequisites |-> {}, unlocks |-> early]
                      @@ "b" :> [prerequisites |-> {"a", "missing"}, unlocks |-> late]
                      @@ "c" :> [prerequisites |-> {"b"}, unlocks |-> {"fast machine"}]
                      @@ "d" :> [prerequisites |-> {}, unlocks |-> {"module", "unknown"}],
     starting |-> {"slow machine", "breeder fuel"} \ (early \cup late), powerOrder |-> order,
     recipes |-> "pump" :> [Known({}, {Out("water")}) EXCEPT !.extraction = TRUE]
                 @@ "boiler" :> Power({In("water"), In("coal")}, {[item |-> "steam", temp |-> {165}]})
                 @@ "exchanger" :> Power({In("water"), In("cell")}, {[item |-> "steam", temp |-> {500}]})
                 @@ "engine" :> Power({HotIn("steam", low)}, {Out("power")})
                 @@ "breeder" :> Power({In("waste")}, {Out("waste")})
                 @@ "cell" :> Known({In("water")}, {Out("cell")})
                 @@ "slow machine" :> Known({}, {Out("slow item")})
                 @@ "fast machine" :> Known({In("cell")}, {Out("fast item")})
                 @@ "module" :> Known({}, {Out("speed")})
                 @@ "secret" :> [Known({}, {Out("cell"), Out("relic")}) EXCEPT !.hidden = TRUE],
     items |-> [i \in {"water", "coal", "steam", "cell", "waste", "power", "speed"} |-> Plain]
               @@ "slow item" :> Placing("slow") @@ "fast item" :> Placing("fast")
               @@ "relic" :> [Placing("ancient") EXCEPT !.hidden = TRUE],
     machines |-> "slow" :> Maker({"crafting"}, 1) @@ "fast" :> Maker({"crafting", "smelting"}, 3)
                  @@ "ancient" :> Maker({"crafting"}, 5) @@ "hand" :> Maker({"smelting"}, 1),
     beacons |-> "beacon" :> [hidden |-> FALSE], modules |-> "speed" :> 1,
     defaults |-> "crafting" :> "fast" @@ "smelting" :> "fast"]

LOCAL Orders == {<<"boiler", "exchanger", "engine", "breeder">>, <<"breeder", "engine", "exchanger", "boiler">>}
LOCAL AllData ==
    {GameData(low, order, early, late) :
        low \in {100, 400}, order \in Orders, early \in SUBSET {"cell", "slow machine"},
        late \in {{"cell"}, {"engine"}}}
LOCAL Targets == (SUBSET {"a", "b", "c", "d"}) \ {{}}
LOCAL Same == GameData(400, CHOOSE o \in Orders : TRUE, {"cell"}, {})

(* A closed set of recipes has every power recipe it offers all of. *)
LOCAL Closed(g, S) ==
    \A r \in PowerRecipes : H!OffersAll(g, S \cap DOMAIN g.recipes, r) => r \in S
LOCAL Given(g, targets) ==
    g.starting \cup {"pump"} \cup UNION {g.technologies[t].unlocks : t \in H!TechnologyClosure(g, targets)}

(* The recipes under a horizon are the least closed set that has those     *)
(* given, in whatever order the power recipes are tried: a cycle with no   *)
(* way in stays out, and no chain is cut short.                            *)
ASSUME HorizonIsLeast ==
    \A g \in AllData, targets \in Targets :
        LET S == H!AvailableRecipeIds(g, targets)
        IN  /\ Given(g, targets) \subseteq S /\ Closed(g, S)
            /\ \A P \in SUBSET PowerRecipes :
                  Closed(g, Given(g, targets) \cup P) => S \subseteq Given(g, targets) \cup P

(* More research takes nothing away: neither recipes, nor items, machines, *)
(* beacons or modules.                                                     *)
ASSUME HorizonGrows ==
    \A g \in AllData, targets \in Targets, more \in {"a", "b", "c", "d"} :
        LET less == H!ComputeHorizon(g, targets)
            next == H!ComputeHorizon(g, targets \cup {more})
        IN  \A part \in {"recipes", "items", "machines", "beacons", "modules"} : less[part] \subseteq next[part]

(* What the unlock of a recipe says agrees with the horizon: a recipe is   *)
(* inside just when it is there from the start or one of its technologies  *)
(* is researched, and a power recipe outside names what it is waiting for. *)
ASSUME UnlockAgrees ==
    \A g \in AllData, targets \in Targets :
        LET inside == H!AvailableRecipeIds(g, targets)
        IN  \A r \in DOMAIN g.recipes :
                LET unlock == H!RecipeUnlock(g, r, inside)
                IN  /\ r \in inside <=>
                         \/ unlock.kind = "start"
                         \/ /\ unlock.kind = "technologies"
                            /\ unlock.technologies \cap H!TechnologyClosure(g, targets) # {}
                    /\ r \in PowerRecipes \ inside => unlock.kind = "fuel" /\ unlock.items # {}

(* A row with no machine of its own gets one that crafts its category, is  *)
(* not hidden and is inside the horizon, or the row says there is none.    *)
ASSUME DefaultsInside ==
    \A g \in AllData, targets \in Targets,
       overrides \in {<<>>, "crafting" :> "slow", "crafting" :> "ancient", "smelting" :> "hand"} :
        LET h == H!HorizonFor(g, H!NoEntry, targets, overrides).horizon
        IN  \A c \in DOMAIN g.defaults :
                LET row == H!ResolveRowMachine(g, h, c, "none")
                IN  IF row.machine = "none" THEN row.noMachineInHorizon
                    ELSE ~row.beyondHorizon /\ row.machine \in H!AvailableMachinesFor(g, h, c)

(* Every machine that is offered as the default of a category becomes it.  *)
ASSUME ChoicesTakeEffect ==
    \A g \in AllData, targets \in {{"a"}, {"a", "c"}, {"missing"}} :
        LET h == H!ComputeHorizon(g, targets)
        IN  \A c \in H!DefaultMachineCategories(g, h) : \A m \in H!AvailableMachinesFor(g, h, c) :
                H!ResolveRowMachine(g, H!HorizonFor(g, H!NoEntry, targets, c :> m).horizon, c, "none").machine = m

(* The cached horizon is the one that would be computed, whatever was      *)
(* asked for before.                                                       *)
ASSUME CacheIsTrue ==
    LET asks == {{"a"}, {"b", "d"}, {"missing"}} \X {<<>>, "crafting" :> "slow"}
        Ask(entry, ask) == H!HorizonFor(Same, entry, ask[1], ask[2])
    IN  \A first, second, third \in asks :
            Ask(Ask(Ask(H!NoEntry, first), second), third).horizon = Ask(H!NoEntry, third).horizon

(* Aiming at an available technology researches it and nothing else;       *)
(* aiming at a locked one researches others with it.                       *)
ASSUME StatesAreSteps ==
    \A g \in AllData, targets \in Targets, t \in {"a", "b", "c", "d"} :
        LET now == H!TechnologyClosure(g, targets)
            then == H!TechnologyClosure(g, targets \cup {t})
        IN  CASE H!TechState(g, targets, t) = "researched" -> then = now
              [] H!TechState(g, targets, t) = "available" -> then = now \cup {t} /\ t \notin now
              [] H!TechState(g, targets, t) = "locked" -> Cardinality(then \ now) > 1

(* The machines a technology lets one build come within the horizon that   *)
(* has it.                                                                 *)
ASSUME UnlocksArrive ==
    \A g \in AllData, t \in {"a", "b", "c", "d"} :
        H!TechnologyUnlocks(g, t).machines \subseteq
            H!ComputeHorizon(g, {t}).machines \cup H!ComputeHorizon(g, {t}).beacons

(* Trees of technologies: five in a web of prerequisites, named in two     *)
(* orders, and three that may be each other's and one that is gone.        *)
LOCAL Needing(prerequisites) == [prerequisites |-> prerequisites]
LOCAL TechIds == <<"a", "b", "c", "d", "e">>
LOCAL TechLinks == {<<1, 2>>, <<1, 3>>, <<2, 4>>, <<3, 4>>, <<3, 5>>, <<1, 5>>, <<4, 5>>}
LOCAL Webs ==
    {[technologies |-> [t \in H!ToSet(TechIds) |->
                          Needing({TechIds[l[1]] : l \in {l \in links : TechIds[l[2]] = t}})]] : links \in SUBSET TechLinks}
LOCAL Cyclic == {[technologies |-> [t \in {"a", "b", "c"} |-> Needing(p[t])]] : p \in [{"a", "b", "c"} -> SUBSET {"a", "b", "c"} \cup {{"gone", "a"}}]}
LOCAL NamedIn == {TechIds, <<"c", "e", "a", "d", "b">>}
LOCAL NameOf(order) == [t \in H!ToSet(order) |-> CHOOSE k \in DOMAIN order : order[k] = t]
LOCAL TreeDrawn(g, l) ==
    /\ DOMAIN l.nodes = DOMAIN g.technologies
    /\ \A t \in DOMAIN l.nodes :
          LET column == {u \in DOMAIN l.nodes : l.nodes[u].column = l.nodes[t].column}
          IN  /\ {l.nodes[u].row : u \in column} = 0..(Cardinality(column) - 1)
              /\ l.nodes[t].x + H!CardW <= l.width /\ l.nodes[t].y + H!CardH <= l.height
    /\ \A e \in l.edges : e.x1 < e.x2

(* Every technology has a place of its own inside the size of the tree,    *)
(* even one in a cycle, columns have no holes, and a line runs to the      *)
(* right, from each prerequisite unless that is in a cycle or gone.        *)
ASSUME TreesAreReadable ==
    /\ \A g \in Webs, order \in NamedIn :
          LET l == H!LayoutTechTree(g, TechIds, NameOf(order))
          IN  TreeDrawn(g, l) /\ \A t \in DOMAIN g.technologies :
                  {e.from : e \in {e \in l.edges : e.to = t}} = g.technologies[t].prerequisites
    /\ \A g \in Cyclic : TreeDrawn(g, H!LayoutTechTree(g, <<"a", "b", "c">>, NameOf(TechIds)))

(* A technology without prerequisites is in the first column, and any      *)
(* other right after the last of them.                                     *)
ASSUME DepthsAreLeast ==
    \A g \in Webs :
        LET depths == H!TechDepths(g, TechIds)
        IN  \A t \in DOMAIN depths :
                depths[t] = H!Max({0} \cup {depths[p] + 1 : p \in g.technologies[t].prerequisites})

(* A search lists each technology that has the query in its name once,     *)
(* those that start with it first.                                         *)
ASSUME SearchesFind ==
    \A query \in UNION {[1..n -> {"x", "y"}] : n \in 0..2}, a, b, c \in {<<"x">>, <<"x", "y">>, <<"y", "y", "x">>} :
        LET letters == [a |-> a, b |-> b, c |-> c]
            found == H!SearchTechnologies(<<"a", "b", "c">>, NameOf(<<"c", "a", "b">>), letters, query)
            Has(t) == \E k \in DOMAIN letters[t] : H!IsPrefix(query, SubSeq(letters[t], k, Len(letters[t])))
            Starts(t) == H!IsPrefix(query, letters[t])
        IN  /\ H!ToSet(found) = {t \in {"a", "b", "c"} : query # <<>> /\ Has(t)}
            /\ Len(found) = Cardinality(H!ToSet(found))
            /\ \A m, n \in DOMAIN found : Starts(found[n]) /\ m < n => Starts(found[m])

-----------------------------------------------------------------------------
(* The bundles made of dumps of a small game.                              *)
LOCAL G == INSTANCE GameExport

LOCAL Kj(n) == [n |-> n, unit |-> "kJ"]
LOCAL Kw(n) == [n |-> n, unit |-> "kW"]
LOCAL None == [n |-> 0, unit |-> "none"]
LOCAL Source(type) ==
    [type |-> type, burns |-> FALSE, categories |-> {}, category |-> {}, effectivity |-> {}, burntSlots |-> 0,
     filter |-> {}, least |-> {}, drain |-> None]
LOCAL Burner == [Source("burner") EXCEPT !.effectivity = {5}]
LOCAL BurnsOil(filter) == [Source("fluid") EXCEPT !.burns = TRUE, !.filter = filter]

-----------------------------------------------------------------------------
(* Coal burns in any burner, uranium in the reactor, where it leaves waste *)
(* behind, a hidden fuel in none; of steam there is one, of oil one that   *)
(* is hidden.                                                              *)

LOCAL Thing(fuel, category, burnt) ==
    [hidden |-> FALSE, fuel |-> fuel, category |-> category, burnt |-> burnt, places |-> {}]
LOCAL Tables ==
    <<"coal" :> Thing(None, {}, {}) @@ "plate" :> Thing(None, {}, {}),
      "coal" :> Thing(Kj(4), {"chemical"}, {}) @@ "wood" :> Thing([n |-> 2, unit |-> "number"], {"chemical"}, {"ash"})
      @@ "uranium" :> Thing([n |-> 1, unit |-> "MJ"], {"nuclear"}, {"waste"}) @@ "waste" :> Thing(None, {}, {}) @@ "ash" :> Thing(None, {}, {})
      @@ "secret" :> [Thing(Kj(9), {"chemical"}, {}) EXCEPT !.hidden = TRUE]
      @@ "drill" :> [Thing(None, {}, {}) EXCEPT !.places = {"drill"}] @@ "chest" :> [Thing(None, {}, {}) EXCEPT !.places = {"chest"}]
      @@ "engine" :> [Thing(None, {}, {}) EXCEPT !.places = {"engine"}]>>
LOCAL Fluid(fuel, hidden, max) == [hidden |-> hidden, fuel |-> fuel, heat |-> None, default |-> {15}, max |-> max]
LOCAL Fluids ==
    "water" :> Fluid(None, FALSE, {100}) @@ "steam" :> [Fluid(None, FALSE, {500}) EXCEPT !.heat = Kj(2)]
    @@ "oil" :> Fluid(Kj(3), FALSE, {}) @@ "tar" :> [Fluid(Kj(6), TRUE, {}) EXCEPT !.default = {}]

(* A boiler for each source of energy, engines with and without a limit.   *)
LOCAL Boiler(source, target) ==
    [type |-> "boiler", hidden |-> FALSE, source |-> source, separate |-> TRUE, in |-> {"water"}, out |-> {"steam"},
     target |-> {target}, power |-> Kw(600)]
LOCAL Generator(filter, burns, cap) ==
    [type |-> "generator", hidden |-> FALSE, minable |-> FALSE, filter |-> filter, use |-> 1, effectivity |-> {10}, burns |-> burns,
     cap |-> cap, maximum |-> {}, scales |-> TRUE]
LOCAL DumpPower(burner, filter, cap) ==
    "boiler" :> Boiler(burner, 165) @@ "oil boiler" :> Boiler(BurnsOil(filter), 165)
    @@ "exchanger" :> Boiler([Source("heat") EXCEPT !.least = {500}, !.effectivity = {5}], 500) @@ "electric" :> Boiler(Source("electric"), 165)
    @@ "hidden" :> [Boiler(burner, 165) EXCEPT !.hidden = TRUE] @@ "mixing" :> [Boiler(burner, 165) EXCEPT !.separate = FALSE]
    @@ "dry" :> [Boiler(burner, 165) EXCEPT !.in = {}] @@ "cold" :> Boiler(burner, 15)
    @@ "engine" :> [Generator({"steam"}, FALSE, cap) EXCEPT !.maximum = {165}]
    @@ "lukewarm" :> [Generator({"steam"}, FALSE, {}) EXCEPT !.maximum = {15}]
    @@ "turbine" :> [Generator({"steam"}, FALSE, {}) EXCEPT !.effectivity = {}]
    @@ "wasteful" :> [Generator({"steam"}, FALSE, cap) EXCEPT !.scales = FALSE]
    @@ "script" :> [Generator({"tar"}, TRUE, cap) EXCEPT !.hidden = TRUE, !.effectivity = {9}] @@ "burner" :> Generator({}, TRUE, cap)
    @@ "retired" :> [Generator({"steam"}, FALSE, {}) EXCEPT !.hidden = TRUE, !.minable = TRUE] @@ "unfiltered" :> Generator({}, FALSE, {})
    @@ "fuel cell" :> [type |-> "burner-generator", hidden |-> FALSE, power |-> Kj(10), source |-> burner]
    @@ "reactor" :> [type |-> "reactor", hidden |-> FALSE, power |-> Kw(4000), maxHeat |-> {1000}, bonus |-> {},
                     source |-> [Source("burner") EXCEPT !.categories = {"nuclear"}, !.burntSlots = 1]]
    @@ "solar" :> [type |-> "solar-panel", hidden |-> FALSE, power |-> Kw(60)]

-----------------------------------------------------------------------------
(* Two drills, one of which takes fluid, two pumps, and the resources for  *)
(* them and for none; two machines of one speed; three technologies.       *)

LOCAL Entity(source, hidden, speed) ==
    [source |-> source, hidden |-> hidden, speed |-> speed, slots |-> {}, allowed |-> {}, energy |-> Kw(90)]
LOCAL Drill(source, hidden, speed, resources, fluidInput) ==
    Entity(source, hidden, speed) @@ [resources |-> resources, fluidInput |-> fluidInput]
LOCAL Pump(source, hidden, filter, fluid) == Entity(source, hidden, {}) @@ [filter |-> filter, fluid |-> fluid]
LOCAL Crafter(source, speed, categories) ==
    [Entity(source, FALSE, speed) EXCEPT !.allowed = G!AllEffects] @@ [categories |-> categories]
LOCAL Yields(item, amount, min, max) == [item |-> item, amount |-> amount, min |-> min, max |-> max]
LOCAL Resource(category, fluid, amount) ==
    [time |-> 1, products |-> <<Yields("plate", {1}, {}, {})>>, category |-> category, fluid |-> fluid, fluidAmount |-> amount, hidden |-> FALSE]
LOCAL Yielded(item, type, temp) == [item |-> item, amount |-> {G!Quotient(1, 1)}, max |-> {}, type |-> type, temp |-> temp]
LOCAL DumpRecipe(category, outs, enabled) ==
    [category |-> category, time |-> {}, ins |-> {}, outs |-> outs, productivity |-> TRUE, hidden |-> FALSE, main |-> {},
     parameter |-> FALSE, enabled |-> enabled]
LOCAL Tech(prerequisites, unlocks, enabled) == [prerequisites |-> prerequisites, unlocks |-> unlocks, enabled |-> enabled]

LOCAL Dump(burner, filter, cap, hidden, off) ==
    [itemTables |-> Tables, fluids |-> Fluids, power |-> DumpPower(burner, filter, cap), beacons |-> {"beacon"}, tiles |-> {"water", "oil"},
     drills |-> "drill" :> Drill(Source("electric"), hidden, {2}, {"basic-solid", "stone"}, TRUE)
                @@ "small" :> Drill(BurnsOil(filter), FALSE, {1}, {"basic-solid"}, FALSE)
                @@ "idle" :> Drill(burner, FALSE, {9}, {"moon"}, FALSE),
     pumps |-> "pump" :> Pump(Source("void"), hidden, {}, {"water"}) @@ "pump all" :> Pump(BurnsOil(filter), FALSE, {}, {})
               @@ "pump none" :> Pump(burner, FALSE, {"lava"}, {}),
     resources |-> "ore" :> Resource({}, {}, 0) @@ "acid ore" :> Resource({}, {"water"}, 10) @@ "rock" :> Resource({"stone"}, {}, 0)
                   @@ "dry ore" :> Resource({}, {"water"}, 0) @@ "spice" :> Resource({"desert"}, {}, 0)
                   @@ "mix" :> [Resource({}, {}, 0) EXCEPT !.products = <<Yields("plate", {}, {1}, {2}), Yields("ash", {}, {}, {3})>>],
     crafters |-> "furnace" :> Crafter(burner, {2}, {<<"smelting">>}) @@ "kiln" :> Crafter([BurnsOil(filter) EXCEPT !.effectivity = {0}], {2}, {<<"smelting">>})
                  @@ "hand" :> Crafter(Source("electric"), {1}, {<<"smelting">>, <<"crafting">>}),
     recipes |-> <<"plate">> :> DumpRecipe({<<"smelting">>}, <<Yielded("plate", "item", {7})>>, TRUE)
                 @@ <<"parameter">> :> [DumpRecipe({}, <<>>, TRUE) EXCEPT !.parameter = TRUE]
                 @@ <<"steam">> :> DumpRecipe({<<"crafting">>}, <<Yielded("steam", "fluid", {165}), Yielded("ash", "item", {})>>, FALSE)
                 @@ <<"tar">> :> [DumpRecipe({}, <<[Yielded("tar", "fluid", {}) EXCEPT !.amount = {}, !.max = {G!Quotient(3, 1)}]>>, FALSE)
                                     EXCEPT !.main = IF hidden THEN {""} ELSE {}],
     technologies |-> "steam" :> Tech({"basics", "lost"}, {<<"steam">>}, off # "steam") @@ "basics" :> Tech({}, {}, off # "basics")
                      @@ "tar" :> Tech({"steam"}, {<<"tar">>, <<"gone">>}, TRUE) @@ "honour" :> Tech({"tar"}, {}, TRUE),
     order |-> "furnace" :> 2 @@ "kiln" :> (IF off = "steam" THEN 1 ELSE 3) @@ "hand" :> 4 @@ "drill" :> 5 @@ "small" :> 6
               @@ "pump" :> 7 @@ "pump all" :> 8,
     mods |-> "base" :> 1 @@ "space" :> 1]
LOCAL ForDumps(P(_)) ==
    \A burner \in {Burner, [Burner EXCEPT !.category = {"nuclear"}, !.burntSlots = 1]}, filter \in {{}, {"oil"}, {"tar"}},
       cap \in {{}, {Kw(600)}, {Kw(90000)}}, hidden \in BOOLEAN :
        \A off \in {"none", "steam", "basics"} : P(Dump(burner, filter, cap, hidden, off))

-----------------------------------------------------------------------------
(* No power recipe makes energy: what it gives, as heat above room         *)
(* temperature, as fuel or as electricity, is at most what it takes times  *)
(* the effectivity of the machine, and all of it unless the machine has a  *)
(* limit and does not take less for it.                                    *)
LOCAL Value(d, item, temp) ==
    IF item \in {G!Electricity, G!Heat} THEN 1000
    ELSE IF item \in DOMAIN d.fluids
    THEN IF temp # {} THEN G!HeatCapacity(d.fluids[item]) * (G!OrElse(temp, 0) - 15) ELSE G!ParseEnergyKj(d.fluids[item].fuel)
    ELSE G!ParseEnergyKj(G!ItemProtos(d)[item].fuel)
LOCAL Sum(S) == G!FoldSet(LAMBDA x, total : G!Plus(x, total), G!Quotient(0, 1), S)
LOCAL ValueIn(d, r) ==
    Sum({G!Times(x.amount, Value(d, x.item, IF x.item = G!Heat THEN {} ELSE x.low)) : x \in {x \in r.ins : x.item # "water"}})
LOCAL ValueOut(d, r) == G!Times(r.outs[1].amount, Value(d, r.outs[1].item, r.outs[1].temp))
LOCAL EffectivityOf(d, m) ==
    LET proto == d.power[m]
    IN  IF proto.type = "generator" THEN G!OrElse(proto.effectivity, 10)
        ELSE IF proto.type = "solar-panel" \/ proto.source.type = "heat" THEN 10
        ELSE G!OrElse(proto.source.effectivity, 10)
LOCAL Balanced(d, r, m) ==
    LET available == G!Quotient(ValueIn(d, r).n * EffectivityOf(d, m), ValueIn(d, r).d * 10)
    IN  \/ ValueOut(d, r) = available
        \/ d.power[m].type = "generator" /\ ~d.power[m].scales /\ G!AtMost(ValueOut(d, r), available)
LOCAL AllBalanced(d) ==
    \A id \in DOMAIN G!PowerRecipes(d) : d.power[id[2]].type # "solar-panel" => Balanced(d, G!PowerRecipes(d)[id], id[2])
ASSUME EnergyIsKept == ForDumps(AllBalanced)

(* A machine that burns a fuel has a recipe for each fuel the bundle has   *)
(* for its categories, and takes no more than its power and its limit.     *)
LOCAL Allowed(d, items, source) ==
    {i \in DOMAIN items : /\ items[i].kj > 0 /\ ~items[i].hidden
        /\ IF source.type = "burner" THEN items[i].category \cap G!BurnerFuel(source).accepts # {} /\ (source.burntSlots = 0 => items[i].burnt = {})
           ELSE items[i].type = "fluid" /\ (source.filter = {} \/ i \in source.filter)}
LOCAL FuelsBurnt(d, b) ==
    /\ \A m \in DOMAIN d.power :
        d.power[m].type \in {"reactor", "burner-generator"} \/ m \in {"boiler", "oil boiler"} =>
            {id[3] : id \in {id \in DOMAIN b.recipes : id[1] = "power" /\ id[2] = m}} = Allowed(d, b.items, d.power[m].source)
    /\ {id[2] : id \in G!IdsOfKind(b.recipes, "power")} \cap {"electric", "hidden", "mixing", "dry", "cold", "retired", "unfiltered", "lukewarm"} = {}
    /\ {<<"power", "exchanger", G!Heat>>, <<"power", "turbine", "steam">>, <<"power", "solar">>, <<"power", "script", "tar">>}
           \subseteq DOMAIN b.recipes
    /\ \A id \in DOMAIN b.recipes : LET r == b.recipes[id] IN
          /\ \A n \in DOMAIN r.outs : r.outs[n].item \in DOMAIN b.items /\ r.outs[n].amount.n > 0
          /\ \A x \in r.ins : x.item \in DOMAIN b.items /\ x.amount.n > 0
          /\ \A e \in IF r.kind = "power" /\ d.power[id[2]].type = "generator" THEN d.power[id[2]].cap ELSE {} :
                G!AtMost(r.outs[1].amount, G!Quotient(G!ParsePowerKw(e), 1000))
LOCAL AllBurnt(d) == FuelsBurnt(d, G!FullExport(d))
ASSUME FuelsAreBurnt == ForDumps(AllBurnt)

-----------------------------------------------------------------------------
(* Each machine gives the power it is rated for, of a fuel it accepts, and *)
(* a drill what the resource yields on average.                            *)
LOCAL Rated == "boiler" :> 600 @@ "oil boiler" :> 600 @@ "exchanger" :> 600 @@ "fuel cell" :> 600 @@ "reactor" :> 4000 @@ "solar" :> 42
LOCAL InOf(r, item) == CHOOSE x \in r.ins : x.item = item
LOCAL AsRated(d, b, burner) ==
    /\ \A id \in G!IdsOfKind(b.recipes, "power") : id[2] \in DOMAIN Rated => ValueOut(d, b.recipes[id]) = G!Quotient(Rated[id[2]], 1)
    /\ {id[3] : id \in {id \in DOMAIN b.recipes : id[1] = "power" /\ id[2] = "boiler"}} = IF burner.category = {} THEN {"coal"} ELSE {"uranium"}
    /\ InOf(b.recipes[<<"power", "reactor", "uranium">>], "uranium").amount = G!Quotient(4, 1) /\ b.items["coal"].kj = 4
    /\ InOf(b.recipes[<<"power", "engine", "steam">>], "steam").low = {165} /\ InOf(b.recipes[<<"power", "turbine", "steam">>], "steam").low = {500}
    /\ InOf(b.recipes[<<"power", "wasteful", "steam">>], "steam").amount = G!Quotient(60, 1)
    /\ b.machines["furnace"].effectivity = {5} /\ b.machines["kiln"].effectivity = {10} /\ b.machines["reactor"].neighbourBonus = {10}
    /\ b.machines["pump"].kw = 0 /\ b.machines["drill"].kw = 90
    /\ LET mix == b.recipes[<<"mining", "mix">>].outs IN mix[1].amount = G!Quotient(3, 2) /\ mix[2].amount = G!Quotient(3, 1)
    /\ b.items["oil"].max = {15} /\ b.items["steam"].max = {500} /\ b.items["tar"].max = {}
    /\ b.recipes[<<"plate">>].main = {"plate"} /\ b.recipes[<<"steam">>].main = {} /\ b.recipes[<<"tar">>].main \subseteq {"", "tar"}
    /\ <<"parameter">> \notin DOMAIN b.recipes /\ b.recipes[<<"tar">>].outs[1].amount = G!Quotient(3, 1)
    /\ b.recipes[<<"tar">>].category = <<"crafting">> /\ b.recipes[<<"plate">>].time < b.recipes[<<"power", "solar">>].time
    /\ b.recipes[<<"plate">>].outs[1].temp = {} /\ b.recipes[<<"steam">>].outs[1].temp = {165}
LOCAL AllRated(d) == AsRated(d, G!FullExport(d), d.power["boiler"].source)
ASSUME MachinesAsRated == ForDumps(AllRated)

(* A generated recipe is made in the machines of its category, and no such *)
(* machine is without one; each category has a default machine, the        *)
(* fastest, and a visible extraction recipe a visible one.                 *)
LOCAL Homes(d, b) ==
    /\ \A id \in DOMAIN b.recipes : LET r == b.recipes[id] IN
          /\ r.madeIn = G!MadeIn(b.machines, r.category) /\ r.madeIn # {} /\ b.defaults[r.category] \in r.madeIn
          /\ r.kind = "extraction" /\ ~r.hidden => ~b.machines[b.defaults[r.category]].hidden
          /\ \A m \in r.madeIn \ {b.defaults[r.category]} :
                \/ b.machines[m].speed < b.machines[b.defaults[r.category]].speed
                \/ b.machines[m].speed = b.machines[b.defaults[r.category]].speed /\ d.order[b.defaults[r.category]] < d.order[m]
                \/ r.kind = "extraction" /\ b.machines[m].hidden
    /\ \A m \in DOMAIN b.machines \ DOMAIN d.crafters : \E id \in DOMAIN b.recipes : m \in b.recipes[id].madeIn
    /\ \A id \in G!IdsOfKind(b.recipes, "extraction") :
          b.recipes[id].hidden = (b.recipes[id].madeIn \subseteq {m \in DOMAIN b.machines : b.machines[m].hidden})
    /\ "drill" \in b.items["drill"].places /\ b.items["chest"].places = {} /\ b.items["engine"].places = {"engine"}
LOCAL AllHomes(d) == Homes(d, G!FullExport(d))
ASSUME RecipesHaveMachines == ForDumps(AllHomes)

(* Technologies above a kept one are kept and can be researched; a recipe  *)
(* only a disabled one unlocks is out of reach.                            *)
LOCAL Kept(d, b) ==
    /\ \A t \in DOMAIN b.technologies : d.technologies[t].enabled /\ b.technologies[t].prerequisites \subseteq DOMAIN b.technologies
    /\ \A t \in DOMAIN b.technologies : b.technologies[t].unlocks \subseteq DOMAIN b.recipes
    /\ \A t \in DOMAIN b.technologies : d.technologies[t].prerequisites \cap DOMAIN d.technologies = b.technologies[t].prerequisites
    /\ \A t \in DOMAIN b.technologies : \E u \in DOMAIN b.technologies : b.technologies[u].unlocks # {} /\ t \in G!Above(b.technologies, u)
    /\ b.starting \cap UNION {d.technologies[t].unlocks : t \in DOMAIN d.technologies} = {}
    /\ \A id \in DOMAIN d.recipes :
          \/ d.recipes[id].parameter \/ id \in b.starting \/ \E t \in DOMAIN b.technologies : id \in b.technologies[t].unlocks
          \/ \A t \in DOMAIN d.technologies : id \in d.technologies[t].unlocks =>
                \E u \in G!Above(d.technologies, t) \cap DOMAIN d.technologies : ~d.technologies[u].enabled
LOCAL AllKept(d) == Kept(d, G!FullExport(d))
ASSUME TechnologiesKept == ForDumps(AllKept)

-----------------------------------------------------------------------------
(* A bundle an older exporter made of the same dump.                       *)
LOCAL Unfuelled(machine) ==
    [G!WithFuel(machine, G!BurnerFuel(Source("electric"))) EXCEPT
        !.energy = IF @ = "fluid-burner" THEN "void" ELSE @,
        !.kw = IF machine.energy = "fluid-burner" /\ machine.type # "crafter" THEN 0 ELSE @]
LOCAL PowerOff(b) == [b EXCEPT !.machines = [m \in DOMAIN @ |-> IF b.machines[m].type = "crafter" THEN @[m] ELSE [@[m] EXCEPT !.kw = 0]]]
LOCAL Older(b, lacks) ==
    LET extraction == IF "extraction" \in lacks THEN {"mining-drill", "offshore-pump"} ELSE {}
        power == IF "power" \in lacks THEN G!PowerTypes ELSE {}
        gone == G!IdsOfType(b.machines, extraction \cup power)
        left == G!DropKeys(b.machines, gone)
        kinds == lacks \cap {"extraction", "power"}
        items == G!DropKeys(b.items, IF "power" \in lacks THEN {G!Electricity, G!Heat} ELSE {})
        fuelless(i) == IF "fuel" \in lacks THEN G!NoFuel @@ items[i] ELSE items[i]
        cold(i) == IF "temperatures" \in lacks THEN [fuelless(i) EXCEPT !.default = {}, !.max = {}] ELSE fuelless(i)
        outs(r) == [n \in DOMAIN r.outs |-> IF r.kind = "game" /\ "temperatures" \in lacks THEN [r.outs[n] EXCEPT !.temp = {}] ELSE r.outs[n]]
        recipes == G!DropKeys(b.recipes, UNION {G!IdsOfKind(b.recipes, k) : k \in kinds})
    IN  [b EXCEPT !.machines = [m \in DOMAIN left |-> IF "fuel" \in lacks THEN Unfuelled(left[m]) ELSE left[m]],
                  !.recipes = [id \in DOMAIN recipes |-> [recipes[id] EXCEPT !.outs = outs(recipes[id])]],
                  !.items = [i \in DOMAIN items |-> [cold(i) EXCEPT !.places = @ \ gone]],
                  !.defaults = G!DropKeys(@, G!CategoriesOf(b.machines) \ G!CategoriesOf(left)),
                  !.technologies = IF "technologies" \in lacks THEN <<>> ELSE @, !.starting = IF "technologies" \in lacks THEN {} ELSE @]
(* One with an ore, a pump and a reactor that are no longer exported.      *)
LOCAL Stale(b) ==
    LET ore == <<"mining", "gone">>
        power == <<"power", "gone">>
    IN  [b EXCEPT !.recipes = ore :> b.recipes[<<"mining", "ore">>] @@ power :> b.recipes[<<"power", "solar">>] @@ @,
                  !.machines = "old pump" :> b.machines["pump all"] @@ "old panel" :> b.machines["solar"] @@ @,
                  !.defaults = <<"offshore", "gone">> :> "old pump" @@ power :> "old panel" @@ @,
                  !.items = G!Heat :> G!PowerItem @@ [@ EXCEPT !["chest"].places = {"old pump"}]]
LOCAL Parts == {"extraction", "power", "technologies", "fuel", "temperatures"}
LOCAL Patch(b, d, part) ==
    CASE part = "extraction" -> G!PatchExtraction(b, d) [] part = "power" -> G!PatchPower(b, d)
      [] part = "technologies" -> G!PatchTechnologies(b, d) [] part = "fuel" -> G!PatchFuel(b, d)
      [] part = "temperatures" -> G!PatchTemperatures(b, d)
LOCAL Patched(b, d, order) == G!FoldLeft(LAMBDA bundle, part : Patch(bundle, d, part), b, order)
LOCAL DumpOrders == G!SetToAllKPermutations(Parts)

(* Patching a bundle an older exporter made, in whatever order, gives what *)
(* exporting the dump anew gives; patching again changes nothing; a patch  *)
(* adds what its part lacks and leaves the rest (but for the power of what *)
(* was thought to need none); and a dump of other mods patches nothing.    *)
LOCAL Agreeing(d, b) ==
    /\ \A lacks \in {Parts, {"fuel"}, {"power", "technologies"}} : \A order \in {o \in DumpOrders : Len(o) = 5 /\ o[1] \in lacks} :
          Patched(Older(b, lacks), d, order) = b
    /\ \A part \in Parts : Patch(b, d, part) = b
    /\ \A order \in {<<"extraction", "power">>, <<"power", "extraction">>} : Patched(Stale(b), d, order) = b
    /\ \A part \in Parts \ {"fuel"} : Patch(Older(b, {part}), d, part) = b
    /\ \A part \in Parts, mods \in {"base" :> 1 @@ "space" :> 2, "base" :> 1, "space" :> 1 @@ "new" :> 1} :
          Patch(Older(b, Parts), [d EXCEPT !.mods = mods], part) = Older(b, Parts)
    /\ PowerOff(Patch(Older(b, {"fuel"}), d, "fuel")) = PowerOff(b)
LOCAL AgreeingDump(burner, filter, off) ==
    Agreeing(Dump(burner, filter, {}, TRUE, off), G!FullExport(Dump(burner, filter, {}, TRUE, off)))
ASSUME PatchesAgree ==
    \A burner \in {Burner, [Burner EXCEPT !.category = {"nuclear"}, !.burntSlots = 1]}, filter \in {{}, {"oil"}}, off \in {"none", "steam"} :
        AgreeingDump(burner, filter, off)

(* Patched from a dump that changed in the part only, a bundle is what     *)
(* that dump exports, and no machine keeps fuel it does not burn.          *)
LOCAL Changed(d, b) ==
    LET cold == [d EXCEPT !.power = G!DropKeys(@, {"reactor", "exchanger"})]
        flat == [d EXCEPT !.drills = G!DropKeys(@, {"drill"}), !.tiles = {"oil"}]
        wired(m) == [d EXCEPT !.crafters[m].source = Source("electric")]
    IN  /\ G!PatchPower(b, cold) = G!FullExport(cold) /\ G!PatchExtraction(b, flat) = G!FullExport(flat)
        /\ G!PatchFuel(b, wired("kiln")) = G!FullExport(wired("kiln"))
        /\ G!PatchFuel(b, wired("furnace")) =
               [G!FullExport(wired("furnace")) EXCEPT !.machines["furnace"].energy = "burner"]
LOCAL ChangedDump(d) == Changed(d, G!FullExport(d))
ASSUME ChangesArePatched == ForDumps(ChangedDump)

(* A dump without fuel items, fuel fluids or a fuel the burners take, one  *)
(* without temperatures and one with other products patch nothing.         *)
LOCAL PatchRefused(d, b, part) == Patch(b, d, part) = b
LOCAL WrongDumps(d, b) ==
    LET solid == [d EXCEPT !.crafters = G!DropKeys(@, {"kiln"}), !.drills = G!DropKeys(@, {"small"}), !.pumps = G!DropKeys(@, {"pump all"})]
        protos == G!ItemProtos(d)
    IN  /\ PatchRefused([d EXCEPT !.itemTables = <<"coal" :> Thing(None, {}, {})>>], b, "fuel")
        /\ PatchRefused([d EXCEPT !.fluids = [f \in DOMAIN @ |-> [@[f] EXCEPT !.fuel = None]]], b, "fuel")
        /\ PatchRefused([solid EXCEPT !.itemTables = <<[i \in DOMAIN protos |-> [protos[i] EXCEPT !.category = {"other"}]]>>], G!FullExport(solid), "fuel")
        /\ PatchRefused([d EXCEPT !.fluids = [f \in DOMAIN @ |-> [@[f] EXCEPT !.default = {}]]], b, "temperatures")
        /\ \A outs \in {<<Yielded("ash", "item", {})>>, <<Yielded("ash", "item", {}), Yielded("steam", "fluid", {165})>>} :
              PatchRefused([d EXCEPT !.recipes[<<"steam">>].outs = outs], Older(b, {"temperatures"}), "temperatures")
LOCAL WrongForDump(d) == WrongDumps(d, G!FullExport(d))
ASSUME WrongDumpsRefused == ForDumps(WrongForDump)
=============================================================================
