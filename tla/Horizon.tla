------------------------------- MODULE Horizon ------------------------------
(***************************************************************************)
(* What a plan may use under a research horizon (data/horizon.ts,          *)
(* store/horizon.ts, data/defaultMachines.ts, data/temperature.ts): the    *)
(* technologies aimed at bound the recipes, these the items, these the     *)
(* machines, beacons and modules.                                          *)
(*                                                                         *)
(* Game data g is a record of functions from ids to records; an entity is  *)
(* placed by items.  A temperature, and a bound of one, is a set of one    *)
(* number, or none.  The order of recipes is that of powerOrder, that of   *)
(* technologies the order of their ids; a name is its place in the         *)
(* alphabet or, to search it, its letters.                                 *)
(***************************************************************************)
EXTENDS Integers, FiniteSetsExt, SequencesExt, TLC

NoLimit == {"no limit"}     \* null instead of a set of ids
NoValue == "none"           \* no machine, no placed entity

-----------------------------------------------------------------------------
(* Temperatures.                                                           *)

EffectiveTemperature(g, product) ==
    IF product.temp # {} \/ product.item \notin DOMAIN g.items THEN product.temp
    ELSE g.items[product.item].temp
AcceptsTemperature(ing, t) == (\A low \in ing.low : t >= low) /\ (\A high \in ing.high : t <= high)

-----------------------------------------------------------------------------
(* Recipes.                                                                *)

TechnologyClosure(g, targets) ==
    LET known == DOMAIN g.technologies
        closure[n \in Nat] ==
            IF n = 0 THEN targets \cap known
            ELSE closure[n - 1] \cup (UNION {g.technologies[t].prerequisites : t \in closure[n - 1]} \cap known)
    IN  closure[Cardinality(known)]

Visible(g) == {r \in DOMAIN g.recipes : ~g.recipes[r].hidden}
MadeBy(g, R) == {p.item : p \in UNION {g.recipes[r].outs : r \in R}}

(* offeredIngredients: by the recipes inside, an unknown temperature being *)
(* accepted.                                                               *)
Offered(g, inside, ing) ==
    LET made == {p \in UNION {g.recipes[r].outs : r \in inside \cap Visible(g)} : p.item = ing.item}
    IN  \/ ing.item \notin DOMAIN g.items
        \/ ing.item \notin MadeBy(g, Visible(g))
        \/ \E p \in made : \A t \in EffectiveTemperature(g, p) : AcceptsTemperature(ing, t)
OffersAll(g, inside, r) == \A ing \in g.recipes[r].ins : Offered(g, inside, ing)

(* Power recipes come in once all they take is offered: passes over them,  *)
(* from the last, until one adds nothing.                                  *)
Admit(g, inside, r) == IF OffersAll(g, inside \cap DOMAIN g.recipes, r) THEN inside \cup {r} ELSE inside
PowerPass(g, inside) == FoldLeft(LAMBDA S, r : Admit(g, S, r), inside, Reverse(g.powerOrder))
AvailableRecipeIds(g, targets) ==
    LET closure == TechnologyClosure(g, targets)
        passes[n \in Nat] ==
            IF n > 0 THEN PowerPass(g, passes[n - 1])
            ELSE g.starting \cup UNION {g.technologies[t].unlocks : t \in closure}
                 \cup {r \in DOMAIN g.recipes : g.recipes[r].extraction}
    IN  IF closure = {} THEN NoLimit ELSE passes[Len(g.powerOrder)]

WithinHorizon(ids, id) == ids = NoLimit \/ id = NoValue \/ id \in ids

(* recipeUnlock: how a recipe comes in. *)
RecipeUnlock(g, r, inside) ==
    LET power == r \in DOMAIN g.recipes /\ g.recipes[r].power
        free == r \in g.starting \/ (r \in DOMAIN g.recipes /\ (g.recipes[r].extraction \/ power))
        missing == {ing.item : ing \in {ing \in g.recipes[r].ins : ~Offered(g, inside, ing)}}
        technologies == {t \in DOMAIN g.technologies : r \in g.technologies[t].unlocks}
    IN  IF g.technologies = <<>> THEN [kind |-> "unknown"]
        ELSE IF power /\ ~WithinHorizon(inside, r) /\ r \notin g.starting /\ missing # {}
        THEN [kind |-> "fuel", items |-> missing]
        ELSE IF free THEN [kind |-> "start"]
        ELSE IF technologies = {} THEN [kind |-> "none"]
        ELSE [kind |-> "technologies", technologies |-> technologies]

-----------------------------------------------------------------------------
(* Items, and what is built from them.                                     *)

AvailableItemIds(g, recipes) ==
    IF recipes = NoLimit THEN NoLimit
    ELSE {i \in DOMAIN g.items :
             i \in MadeBy(g, Visible(g)) => i \in MadeBy(g, Visible(g) \cap recipes)}

(* placingItemIds: a bundle that places nothing places by name. *)
PlacingItemIds(g, entity) ==
    LET entities == DOMAIN g.machines \cup DOMAIN g.beacons
    IN  IF \E i \in DOMAIN g.items : g.items[i].places # NoValue
        THEN {i \in DOMAIN g.items : g.items[i].places = entity}
        ELSE {entity} \cap DOMAIN g.items \cap entities

ObtainableItemIds(g, items) ==
    {i \in items : i \in DOMAIN g.items /\ g.items[i].hidden => i \in MadeBy(g, Visible(g))}
EntityAvailable(g, entity, items) ==
    LET placers == PlacingItemIds(g, entity)
    IN  placers = {} \/ placers \cap ObtainableItemIds(g, items) # {}
AvailableOf(g, entities, items) ==
    IF items = NoLimit THEN NoLimit ELSE {e \in entities : EntityAvailable(g, e, items)}
AvailableModuleIds(g, items) ==
    IF items = NoLimit THEN NoLimit
    ELSE {m \in DOMAIN g.modules : m \in DOMAIN g.items => m \in ObtainableItemIds(g, items)}

(* technologyUnlocks: the machines and beacons a technology lets one build. *)
TechnologyUnlocks(g, t) ==
    LET recipes == IF t \in DOMAIN g.technologies THEN g.technologies[t].unlocks \cap Visible(g) ELSE {}
        Shown(e) == IF e \in DOMAIN g.machines THEN ~g.machines[e].hidden ELSE ~g.beacons[e].hidden
    IN  [recipes |-> recipes,
         machines |-> {e \in DOMAIN g.machines \cup DOMAIN g.beacons :
                          Shown(e) /\ PlacingItemIds(g, e) \cap MadeBy(g, recipes) # {}}]

-----------------------------------------------------------------------------
(* Default machines.                                                       *)

Crafts(g, m, category) == ~g.machines[m].hidden /\ category \in g.machines[m].categories
HorizonDefaultMachines(g, machines) ==
    LET Choice(c) == {m \in machines : Crafts(g, m, c)}
        Fastest(c) == CHOOSE m \in Choice(c) : \A n \in Choice(c) : g.machines[n].speed <= g.machines[m].speed
        Stays(c) == g.defaults[c] \in machines /\ ~g.machines[g.defaults[c]].hidden
        kept == {c \in DOMAIN g.defaults : Stays(c) \/ Choice(c) # {}}
    IN  IF machines = NoLimit THEN g.defaults
        ELSE [c \in kept |-> IF Stays(c) THEN g.defaults[c] ELSE Fastest(c)]

ApplyDefaultMachineOverrides(g, machines, defaults, overrides) ==
    LET valid == {c \in DOMAIN overrides :
                     /\ overrides[c] \in DOMAIN g.machines /\ Crafts(g, overrides[c], c)
                     /\ WithinHorizon(machines, overrides[c])}
    IN  Restrict(overrides, valid) @@ defaults

ComputeHorizon(g, targets) ==
    LET recipes == AvailableRecipeIds(g, targets)
        items == AvailableItemIds(g, recipes)
        machines == AvailableOf(g, DOMAIN g.machines, items)
    IN  [recipes |-> recipes, items |-> items, machines |-> machines,
         beacons |-> AvailableOf(g, DOMAIN g.beacons, items), modules |-> AvailableModuleIds(g, items),
         defaults |-> HorizonDefaultMachines(g, machines)]

(* resolveRowMachine. *)
ResolveRowMachine(g, h, category, choice) ==
    LET m == IF choice # NoValue THEN choice
             ELSE IF category \in DOMAIN h.defaults THEN h.defaults[category] ELSE NoValue
        known == m \in DOMAIN g.machines
    IN  [machine |-> m,
         beyondHorizon |-> known /\ ~WithinHorizon(h.machines, m),
         noMachineInHorizon |-> /\ choice = NoValue /\ h.machines # NoLimit
                                /\ category \in DOMAIN g.defaults \ DOMAIN h.defaults]

(* availableMachinesFor, and the categories that leave a choice. *)
AvailableMachinesFor(g, h, category) ==
    {m \in DOMAIN g.machines : Crafts(g, m, category) /\ WithinHorizon(h.machines, m)}
DefaultMachineCategories(g, h) ==
    {c \in UNION {g.machines[m].categories : m \in DOMAIN g.machines} :
        Cardinality(AvailableMachinesFor(g, h, c)) >= 2}

(* horizonFor: one entry per game data.  Only the overrides' share is      *)
(* worked out again when the targets are the same.                         *)
NoEntry == [targets |-> NoLimit]
HorizonFor(g, entry, targets, overrides) ==
    LET same == entry.targets = targets
        base == IF same THEN entry.base ELSE ComputeHorizon(g, targets)
        defaults == ApplyDefaultMachineOverrides(g, base.machines, base.defaults, overrides)
        fresh == [targets |-> targets, overrides |-> overrides, base |-> base,
                  horizon |-> [base EXCEPT !.defaults = defaults]]
    IN  IF same /\ entry.overrides = overrides THEN entry ELSE fresh

-----------------------------------------------------------------------------
(* The technology tree (data/techTree.ts).                                 *)

TechState(g, targets, t) ==
    LET closure == TechnologyClosure(g, targets)
    IN  IF t \in closure THEN "researched"
        ELSE IF g.technologies[t].prerequisites \cap DOMAIN g.technologies \subseteq closure
        THEN "available" ELSE "locked"

(* A list in the order of Before, ties as they were: Array.sort. *)
Sorted(list, Before(_, _)) ==
    LET at == SortSeq([k \in DOMAIN list |-> k],
                      LAMBDA m, n : Before(list[m], list[n]) \/ (~Before(list[n], list[m]) /\ m < n))
    IN  [k \in DOMAIN list |-> list[at[k]]]

(* By the mean row of the neighbours, or the row it has: a barycenter      *)
(* pass.  `row` gives a row to every neighbour and to all of the column.   *)
ByMeanRow(column, neighbours, row) ==
    LET Near(id) == IF neighbours[id] = {} THEN {id} ELSE neighbours[id]
        Sum(id) == MapThenSumSet(LAMBDA n : row[n], Near(id))
    IN  Sorted(column, LAMBDA a, b : Sum(a) * Cardinality(Near(b)) < Sum(b) * Cardinality(Near(a)))
RowsOf(column) == [id \in ToSet(column) |-> (CHOOSE k \in DOMAIN column : column[k] = id) - 1]
RowOfAll(columns) == FoldSet(LAMBDA c, row : RowsOf(columns[c]) @@ row, <<>>, DOMAIN columns)

(* techDepths: the longest chain of prerequisites.  One that is being      *)
(* visited closes a cycle, and is passed over.                             *)
Known(g, ids, t) == SelectSeq(ids, LAMBDA p : p \in g.technologies[t].prerequisites)
RECURSIVE WithDepth(_, _, _, _, _)
WithDepth(g, ids, depths, visiting, t) ==
    LET Deepen(walk, p) ==
            IF p \in visiting \cup {t} THEN walk
            ELSE LET then == WithDepth(g, ids, walk.depths, visiting \cup {t}, p)
                 IN  [depths |-> then, depth |-> Max({walk.depth, then[p] + 1})]
        done == FoldLeft(Deepen, [depths |-> depths, depth |-> 0], Known(g, ids, t))
    IN  IF t \in DOMAIN depths THEN depths ELSE done.depths @@ (t :> done.depth)
TechDepths(g, ids) == FoldLeft(LAMBDA depths, t : WithDepth(g, ids, depths, {}, t), <<>>, ids)

CardW == 184
CardH == 76
CardColGap == 64
CardRowGap == 16

(* layoutTechTree: columns by depth, each by name at first, then four      *)
(* times by the rows of the prerequisites and back by those of dependents. *)
Sweep(columns, c, neighbours) ==
    [columns EXCEPT ![c] = ByMeanRow(@, neighbours, RowOfAll(columns))]
TechColumns(g, ids, name) ==
    LET depths == TechDepths(g, ids)
        last == Max(Range(depths))
        prereqs == [t \in ToSet(ids) |-> {p \in ToSet(Known(g, ids, t)) : depths[p] < depths[t]}]
        dependents == [p \in ToSet(ids) |-> {t \in ToSet(ids) : p \in prereqs[t]}]
        named == [c \in 0..last |-> Sorted(SelectSeq(ids, LAMBDA t : depths[t] = c), LAMBDA a, b : name[a] < name[b])]
        Right(columns) == FoldLeft(LAMBDA cs, c : Sweep(cs, c, prereqs), columns, [k \in 1..last |-> k])
        Left(columns) == FoldLeft(LAMBDA cs, c : Sweep(cs, c, dependents), columns, [k \in 1..last |-> last - k])
    IN  FoldLeft(LAMBDA columns, n : Left(Right(columns)), named, <<1, 2, 3, 4>>)
LayoutTechTree(g, ids, name) ==
    LET depths == TechDepths(g, ids)
        columns == TechColumns(g, ids, name)
        last == Max(Range(depths))
        Row(t) == RowsOf(columns[depths[t]])[t]
        Node(t) == [column |-> depths[t], row |-> Row(t), x |-> depths[t] * (CardW + CardColGap), y |-> Row(t) * (CardH + CardRowGap)]
        Edge(p, t) == [from |-> p, to |-> t, x1 |-> Node(p).x + CardW, y1 |-> Node(p).y + CardH \div 2,
                       x2 |-> Node(t).x, y2 |-> Node(t).y + CardH \div 2]
    IN  IF ids = <<>> THEN [nodes |-> <<>>, edges |-> {}, width |-> 0, height |-> 0]
        ELSE [nodes |-> [t \in ToSet(ids) |-> Node(t)],
              edges |-> {Edge(e[1], e[2]) : e \in {e \in ToSet(ids) \X ToSet(ids) :
                           e[1] \in g.technologies[e[2]].prerequisites /\ depths[e[1]] < depths[e[2]]}},
              width |-> (last + 1) * (CardW + CardColGap) - CardColGap,
              height |-> Max({Len(columns[c]) : c \in 0..last}) * (CardH + CardRowGap) - CardRowGap]

(* searchTechnologies: the names that start with the query, then those     *)
(* that have it inside.                                                    *)
SearchTechnologies(ids, name, letters, query) ==
    LET Starts(t) == IsPrefix(query, letters[t])
        Holds(t) == \E k \in 2..Len(letters[t]) : IsPrefix(query, SubSeq(letters[t], k, Len(letters[t])))
        Of(Hit(_)) == Sorted(SelectSeq(ids, Hit), LAMBDA a, b : name[a] < name[b])
    IN  IF query = <<>> THEN <<>> ELSE Of(Starts) \o Of(LAMBDA t : Holds(t) /\ ~Starts(t))
=============================================================================
