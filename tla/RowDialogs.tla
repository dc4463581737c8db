------------------------------ MODULE RowDialogs ------------------------------
(***************************************************************************)
(* The dialogs of a row (factory/EditMachineModal.tsx, BeaconModal.tsx,    *)
(* BeaconPopover.tsx, NeighbourSection.tsx): what they offer, what a click *)
(* makes of the row, and the effects they show; and the pickers of recipes *)
(* and of products (ItemPicker.tsx).                                       *)
(*                                                                         *)
(* Rows, machines and amounts are as in Effects.  A module also has the    *)
(* effects it carries and its limitation lists, a machine and a beacon the *)
(* number of its slots, a beacon its distribution efficiency.  h has the   *)
(* modules and beacons within the research horizon, whether it is bounded, *)
(* and whether no machine is in it.  Names are left out but for their      *)
(* order.                                                                  *)
(***************************************************************************)
EXTENDS Effects, TLC

Visible(entities) == {e \in DOMAIN entities : ~entities[e].hidden}
Total(data, modules, effect) ==
    MapThenSumSet(LAMBDA n : ModuleEffect(data, modules[n].module, effect) * modules[n].count, DOMAIN modules)
AllowProductivity(data, row) == row.recipe \in DOMAIN data.recipes /\ data.recipes[row.recipe].allowProductivity
NameFirst(ids, order) == {i \in ids : \A j \in ids : order[i] <= order[j]}

-----------------------------------------------------------------------------
(* Which modules go where (moduleRules.ts).                                *)

AllowedInMachine(module, machine) == module.carries \subseteq machine.allowed
(* A value of zero counts as none, in a beacon.                            *)
AllowedInBeacon(module, beacon) == \A e \in module.carries : module[e] # 0 => e \in beacon.allowed
AllowedForRecipe(module, recipe) ==
    (module.limitation # {} => recipe \in module.limitation) /\ recipe \notin module.blacklist
AllowedByProductivity(module, allow) == allow \/ module.productivity <= 0
AllowedForBeaconRow(module, beacons, recipe, allow) ==
    /\ \A b \in beacons : AllowedInBeacon(module, b)
    /\ AllowedForRecipe(module, recipe) /\ AllowedByProductivity(module, allow)

-----------------------------------------------------------------------------
(* The machine dialog.                                                     *)

MachineSlots(data, row) == MapThenSumSet(LAMBDA m : m.slots, RowMachine(data, row))
UsedSlots(row) == MapThenSumSet(LAMBDA n : row.modules[n].count, DOMAIN row.modules)
Remaining(data, row) == MachineSlots(data, row) - UsedSlots(row)
AllowedModules(data, h, row) ==
    {m \in h.modules : \E machine \in RowMachine(data, row) :
        /\ AllowedInMachine(data.modules[m], machine) /\ AllowedForRecipe(data.modules[m], row.recipe)
        /\ AllowedByProductivity(data.modules[m], AllowProductivity(data, row))}
AddableModules(data, h, row) == AllowedModules(data, h, row) \ {m.module : m \in ToSet(row.modules)}

(* The last of a module goes away; a full machine takes no more.           *)
AdjustCount(data, row, module, delta) ==
    LET current == MapThenSumSet(LAMBDA m : IF m.module = module THEN m.count ELSE 0, ToSet(row.modules))
    IN  IF current + delta <= 0
        THEN [row EXCEPT !.modules = SelectSeq(@, LAMBDA m : m.module # module)]
        ELSE IF delta > 0 /\ Remaining(data, row) < 1 THEN row
        ELSE [row EXCEPT !.modules =
                 [n \in DOMAIN @ |-> IF @[n].module = module THEN [@[n] EXCEPT !.count = current + delta] ELSE @[n]]]
AddModule(data, row, module) ==
    IF Remaining(data, row) < 1 THEN row ELSE [row EXCEPT !.modules = Append(@, [module |-> module, count |-> 1])]
SelectMachine(row, choice) == [row EXCEPT !.machine = choice]
MakeDefault(data, row, category, machine) ==
    [data |-> [data EXCEPT !.defaults = (category :> machine) @@ @], row |-> [row EXCEPT !.machine = {}]]

-----------------------------------------------------------------------------
(* The beacon dialog, and the button that puts the first beacon.           *)

EntityOf(data, beacon) == {data.beacons[b] : b \in {beacon.entity} \cap DOMAIN data.beacons}
BeaconModules(data, h, row, beacons) ==
    {m \in h.modules : AllowedForBeaconRow(data.modules[m], beacons, row.recipe, AllowProductivity(data, row))}
AvailableBeacons(data, h) == Visible(data.beacons) \cap h.beacons
SelectBeacon(data, beacon, id) ==
    IF id \notin DOMAIN data.beacons THEN beacon
    ELSE [beacon EXCEPT !.entity = id, !.each = data.beacons[id].slots, !.efficiency = data.beacons[id].efficiency]
SelectModule(beacon, module) == [beacon EXCEPT !.module = module]
SetBeaconCount(beacon, n) == IF n >= 0 THEN [beacon EXCEPT !.count = n] ELSE beacon

AddBeaconDisabled(data, h) ==
    \/ h.noMachine
    \/ Visible(data.beacons) # {} /\ AvailableBeacons(data, h) = {}
    \/ h.bounded /\ h.modules = {}
NewBeacon(data, beacons, module) ==
    IF beacons = {} THEN [entity |-> "none", module |-> module, count |-> 4, each |-> 2, efficiency |-> 5]
    ELSE LET id == CHOOSE b \in beacons : TRUE
         IN  [entity |-> id, module |-> module, count |-> 4, each |-> data.beacons[id].slots, efficiency |-> data.beacons[id].efficiency]
EnableBeacon(data, h, row) ==
    LET first == NameFirst(AvailableBeacons(data, h), data.order)
        modules == NameFirst(BeaconModules(data, h, row, {data.beacons[b] : b \in first}), data.order)
    IN  [row EXCEPT !.beacon = {NewBeacon(data, first, m) : m \in modules}]

-----------------------------------------------------------------------------
(* The effects both show: of the modules, and what of them the row gets.   *)

Constrained(total, effect, lists, allow) ==
    IF EffectAllowed(effect, lists) /\ (effect = "productivity" => allow) THEN total ELSE 0
ShownModuleEffect(data, row, effect) ==
    Constrained(10 * Total(data, row.modules, effect), effect, MachineAllows(data, row), AllowProductivity(data, row))
(* The beacon's slots and efficiency are those of its entity, if known.    *)
BeaconTotal(data, beacon, effect) ==
    LET slots == IF EntityOf(data, beacon) = {} THEN beacon.each ELSE MapThenSumSet(LAMBDA b : b.slots, EntityOf(data, beacon))
        efficiency == IF EntityOf(data, beacon) = {} THEN beacon.efficiency
                      ELSE MapThenSumSet(LAMBDA b : b.efficiency, EntityOf(data, beacon))
    IN  ModuleEffect(data, beacon.module, effect) * efficiency * slots * beacon.count
ShownBeaconEffect(data, row, beacon, effect) ==
    Constrained(BeaconTotal(data, beacon, effect), effect, BeaconAllows(data, beacon) \cup MachineAllows(data, row),
                AllowProductivity(data, row))

-----------------------------------------------------------------------------
(* The neighbours of a reactor: a rectangle drawn, or an average typed.    *)
(* While it is typed, own is its number, a set of one, or none if the text *)
(* is no number from 0 to 4.  A count that is not stored is 0.             *)

MaxSide == 30
MaxNeighbours == 4
RectangleAverage(cols, rows) == Quotient(2 * (cols * (rows - 1) + rows * (cols - 1)), cols * rows)
ClampSide(n) == IF n < 1 THEN 1 ELSE IF n > MaxSide THEN MaxSide ELSE n
ParseOwn(number) == {q \in number : q.n >= 0 /\ q.n <= MaxNeighbours * q.d}

(* Smallest, then most square. *)
RectanglesOf(count) ==
    UNION {{<<c, r>> : r \in {r \in c..MaxSide : 2 * (c * (r - 1) + r * (c - 1)) * count.d = count.n * c * r}} :
              c \in 1..MaxSide}
Better(p, q) == p[1] * p[2] < q[1] * q[2] \/ (p[1] * p[2] = q[1] * q[2] /\ p[2] - p[1] < q[2] - q[1])
BestOf(rectangles) == {p \in rectangles : \A q \in rectangles \ {p} : Better(p, q)}
FindRectangle(count) == BestOf(RectanglesOf(count))
LayoutOf(rectangle, count) ==
    IF rectangle = {} THEN [cols |-> 1, rows |-> 1, typed |-> TRUE, own |-> {count}]
    ELSE LET p == CHOOSE p \in rectangle : TRUE IN [cols |-> p[1], rows |-> p[2], typed |-> FALSE, own |-> {}]
DeriveLayout(count) == LayoutOf(FindRectangle(count), count)

Drawn(s) == RectangleAverage(s.cols, s.rows)
Shown(s) == IF s.typed THEN s.own ELSE {Drawn(s)}
ShownAverage(s, stored) == IF Shown(s) = {} THEN stored ELSE CHOOSE q \in Shown(s) : TRUE

ApplyDrawing(s, cols, rows) == [s EXCEPT !.cols = ClampSide(cols), !.rows = ClampSide(rows), !.typed = FALSE]
TypeOwn(s, number) == [s EXCEPT !.typed = TRUE, !.own = ParseOwn(number)]
(* What is drawn or typed is stored, unless it is no number. *)
Stores(s, stored) == ShownAverage(s, stored)
BlurOwn(s, stored) ==
    IF ~s.typed \/ s.own # {} THEN s
    ELSE IF stored = Drawn(s) THEN [s EXCEPT !.typed = FALSE] ELSE [s EXCEPT !.own = {stored}]
(* The count changed under it: derived anew, unless it is shown already.   *)
Refreshed(s, stored) == IF Shown(s) = {stored} THEN s ELSE DeriveLayout(stored)

-----------------------------------------------------------------------------
(* The recipe picker.  data has the group of a subgroup, and the places of *)
(* groups, of buckets and of the entries of a bucket; an entry is a record *)
(* with an id, and a query the set of the ids it finds.  `ids` is what the *)
(* research horizon has, if there is one: hidden recipes are exempt.       *)

Bucket(entry) == IF entry.subgroup # "" THEN entry.subgroup ELSE entry.category
GroupOf(data, entry) == IF entry.subgroup \in DOMAIN data.group THEN {data.group[entry.subgroup]} ELSE {}
VisibleGroups(data, entries) == UNION {GroupOf(data, r) : r \in entries} \cap DOMAIN data.groupOrder
SelectedGroup(data, s, entries) ==
    LET visible == VisibleGroups(data, entries)
    IN  IF s.pinned \cap visible # {} THEN s.pinned
        ELSE {v \in visible : \A w \in visible : data.groupOrder[v] <= data.groupOrder[w]}
Tabbed(data, s, entries) ==
    LET selected == SelectedGroup(data, s, entries)
        Before(q, r) ==
            \/ data.bucketOrder[Bucket(q)] < data.bucketOrder[Bucket(r)]
            \/ Bucket(q) = Bucket(r) /\ q.order < r.order
    IN  SetToSortSeq({r \in entries : selected = {} \/ GroupOf(data, r) = selected}, Before)

Matching(data, s) ==
    {r \in data.recipes : /\ s.hidden \/ ~r.hidden
                          /\ \A i \in s.makes : i \in r.outs
                          /\ \A i \in s.consumes : i \in r.ins
                          /\ r.id \in s.query}
FilteredRecipes(data, ids, s) ==
    {r \in Matching(data, s) : r.hidden \/ s.beyond \/ \A inside \in ids : r.id \in inside}
OutsideHorizonCount(data, ids, s) == Cardinality(Matching(data, s)) - Cardinality(FilteredRecipes(data, ids, s))

(* Power recipes of one machine are one entry, which opens to its fuels.   *)
Entries(data, ids, s) == GroupPowerRecipes(Tabbed(data, s, FilteredRecipes(data, ids, s)))
OpenGroup(data, ids, s) == {e \in ToSet(Entries(data, ids, s)) : e.machine # {} /\ e.machine = s.open}
Slots(data, ids, s) ==
    IF OpenGroup(data, ids, s) = {} THEN Entries(data, ids, s)
    ELSE LET fuels == (CHOOSE e \in OpenGroup(data, ids, s) : TRUE).recipes
         IN  [n \in DOMAIN fuels |-> [machine |-> {}, recipes |-> <<fuels[n]>>]]
Disabled(entry, present) == \A r \in ToSet(entry.recipes) : r.id \in present

(* What is drawn drops the choice of a machine that is no group any more.  *)
Redrawn(data, ids, s) ==
    IF s.open # {} /\ OpenGroup(data, ids, s) = {} THEN [s EXCEPT !.open = {}, !.hovered = {}] ELSE s

ToggleHidden(s) == [s EXCEPT !.hidden = ~@]
ToggleBeyond(s) == [s EXCEPT !.beyond = ~@]
Search(s, query) == [s EXCEPT !.query = query]
PinGroup(s, group) == [s EXCEPT !.pinned = {group}, !.hovered = {}, !.open = {}]
OpenMachine(s, machine) == [s EXCEPT !.hovered = {}, !.open = {machine}]
CloseFuelView(s) == [s EXCEPT !.hovered = {}, !.open = {}]
Hover(s, id) == [s EXCEPT !.hovered = {id}]

(* The product picker: what its tab lists, and the rate a pick or Submit   *)
(* gives.  The amount is per minute, or in MW; none is a product without   *)
(* extra output; 0 stands for no number, and gives nothing.                *)
FilteredItems(data, ids, s) ==
    {i \in data.items : ~i.hidden /\ i.id \in s.query /\ \A inside \in ids : i.id \in inside}
ItemSlots(data, ids, s) == Tabbed(data, s, FilteredItems(data, ids, s))
ParseAmount(text) == IF text = {} THEN {{}} ELSE {{n} : n \in {n \in text : n > 0}}
ToRate(data, id, amount) == {IF id \in data.energy THEN 60 * n ELSE n : n \in amount}
PickItem(data, s, id) ==
    [s EXCEPT !.selected = {id}, !.chosen = {[item |-> id, rate |-> ToRate(data, id, a)] : a \in ParseAmount(s.amount)}]
SubmitItem(data, s) ==
    [s EXCEPT !.chosen = {[item |-> id, rate |-> ToRate(data, id, a)] : id \in s.selected, a \in ParseAmount(s.amount)}]
=============================================================================
