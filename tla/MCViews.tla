------------------------------ MODULE MCViews ------------------------------
(* What the planner shows of a solved block and sends of it to the game,   *)
(* on small blocks.                                                        *)
EXTENDS TLC, Integers, FiniteSets, Sequences

CONSTANT Nothing    \* a target, extra or sourcing that is not set

LOCAL R == INSTANCE RecipeAreas
LOCAL M == INSTANCE Matrix
LOCAL S == INSTANCE Summary
LOCAL P == INSTANCE Snapshot

-----------------------------------------------------------------------------
(* Four plans, 1 the root holding 2 and 3, and 4 in 2 or 3.  Plan p has    *)
(* row 10p of a recipe, and the handles of those it shows.                 *)

LOCAL Recipe(id, recipe) == [id |-> id, recipe |-> recipe]
LOCAL Handle(id, plan) == [id |-> id, plan |-> plan]
LOCAL RowsOf(p, recipes, shown) ==
    <<Recipe(10 * p, recipes[p])>> \o [n \in DOMAIN shown[p] |-> Handle(10 * p + n, shown[p][n])]
        \o IF p = 1 THEN <<Recipe(19, "gear")>> ELSE <<>>
LOCAL TreeOf(home, areas, recipes, shown) ==
    [p \in 1..4 |-> [name |-> "plan", area |-> p \in areas, rows |-> RowsOf(p, recipes, shown),
                      subs |-> IF p = 1 THEN <<2, 3>> ELSE IF p = home THEN <<4>> ELSE <<>>]]
LOCAL Trees ==
    {TreeOf(home, areas, recipes, <<root, two, three, <<>>>>) :
        home \in {2, 3}, areas \in {{}, {3}, {2, 4}, {2, 3, 4}},
        recipes \in {<<"gear", "gear", "gear", "gear">>, <<"iron", "gear", "gear", "iron">>},
        root \in {<<2>>, <<3, 2>>}, two \in {<<>>, <<4>>}, three \in {<<2>>, <<4>>}}
LOCAL RowIds == {10, 19, 20, 30, 40}
LOCAL Results == {[id \in RowIds |-> [ceil |-> id \div 10, exact |-> 1, power |-> 1, ins |-> "ore" :> id % 20, outs |-> "gear" :> 1 @@ "ash" :> 1]],
                  [id \in {20, 40} |-> [ceil |-> id \div 10, exact |-> 1, power |-> 1, ins |-> "ore" :> 1, outs |-> "gear" :> 1]]}

(* The by-recipe view lists the rows that opening handles can show, each   *)
(* once and under its own recipe, and the areas' rows in table order.      *)
ASSUME GroupsListShownRows ==
    \A t \in Trees :
        LET groups == R!RecipeGroups(t, 1)
            listed == R!FlattenSeq([k \in DOMAIN groups |-> groups[k].rows])
        IN  /\ {r.id : r \in R!ToSet(listed)} = {id \in RowIds : R!AncestorHandles(t, 1, id) # R!NotShown}
            /\ Len(listed) = Cardinality(R!ToSet(listed))
            /\ \A k \in DOMAIN groups :
                  /\ groups[k].rows # <<>>
                  /\ R!ToSet(groups[k].rows) \subseteq R!ToSet(R!RowsByRecipe(t, 1, groups[k].recipe))
                  /\ R!InTableOrder(t, 1, groups[k].rows) = groups[k].rows

(* The handles named for a row lead from the root to the plan that holds   *)
(* it: each is in the plan the one before it opens.                        *)
LOCAL Opens(t, path) ==
    LET open[n \in 0..Len(path)] ==
            IF n = 0 THEN 1
            ELSE (CHOOSE r \in R!ToSet(t[open[n - 1]].rows) : r.id = path[n]).plan
    IN  open[Len(path)]
ASSUME PathsLeadToRows ==
    \A t \in Trees, id \in RowIds :
        LET path == R!AncestorHandles(t, 1, id)
        IN  path # R!NotShown => id \in R!RowIds(t, Opens(t, path))

(* A row is offered for another area only where its product is used and    *)
(* the recipe is not built: doing so never gives an area a second row.     *)
ASSUME AlsoInIsNew ==
    \A t \in Trees :
        LET Offers(areas, refs) ==
                \A solved \in Results, id \in RowIds :
                    \A a \in R!ToSet(R!BuildAlsoIn(areas, refs, id, "ore", solved)) :
                        /\ R!IsArea(t, 1, a)
                        /\ R!RefOf(refs, id).recipe \notin R!AreaRecipes(t, 1, a)
                        /\ \E r \in R!ToSet(refs) : r.area = a /\ r.id \in DOMAIN solved
        IN  Offers(R!BlockAreas(t, 1), R!TreeRows(t, 1))

(* Every row counts once in the buildings of its recipe, in the split of   *)
(* the area it is in, and with all rows of the block in the recipes' sums. *)
ASSUME SummariesAddUp ==
    \A t \in Trees :
        LET InSplit(s) == R!SumSeq(s.split, LAMBDA part : part.buildings)
            AddUp(solved, gear, iron) ==
                /\ InSplit(gear) = gear.buildings /\ InSplit(iron) = iron.buildings
                /\ gear.exact + iron.exact = Cardinality(DOMAIN solved)
                /\ gear.rowCount + iron.rowCount = 5
            Summary(refs, solved) == R!MultiAreaSummary(refs, 3, solved)
            Each(gear, iron) ==
                /\ \A solved \in Results : AddUp(solved, Summary(gear, solved), Summary(iron, solved))
                /\ \A k \in DOMAIN gear : gear[k].area = 3 => Summary(gear, <<>>).split[1].area = 3
        IN  Each(R!RowsByRecipe(t, 1, "gear"), R!RowsByRecipe(t, 1, "iron"))

(* An area is offered for a copy when the copy may go there, and only the  *)
(* reasons of the solver refuse one.                                       *)
ASSUME CopiesGoWhereTheyMay ==
    \A t \in Trees, q \in 2..4 :
        LET options == R!DuplicateTo(t, 1, q)
        IN  R!HasAreas(t, 1) =>
            /\ {options[k].area : k \in DOMAIN options} = {a \in 1..4 : R!IsArea(t, 1, a)}
            /\ \A k \in DOMAIN options :
                  options[k].reason = "recipes" =>
                      R!Joining(t, q) \cap R!AreaRecipes(t, 1, options[k].area) # {} /\ ~t[q].area

(* The columns of the matrix part the block: every row is in one of them,  *)
(* and every area but the root is nested in one other.                     *)
ASSUME ColumnsPartTheBlock ==
    \A t \in Trees :
        LET areas == R!ToSet(R!BlockAreas(t, 1))
        IN  /\ R!SumOver(areas, LAMBDA a : R!AreaContents(t, a).rowCount) = Cardinality(RowIds)
            /\ \A a \in areas \ {1} :
                  Cardinality({b \in areas : a \in R!ToSet(R!AreaContents(t, b).nestedAreas)}) = 1
            /\ \A a \in areas : R!AreaContents(t, a).recipes = R!AreaRecipes(t, 1, a)

(* What a recipe's line shows of its rows is what the rows make and use,   *)
(* an output being a product if any of them is built for it.               *)
ASSUME GroupRatesAddUp ==
    \A t \in Trees, solved \in Results, main \in {"gear", "ash"} :
        LET refs == R!RowsByRecipe(t, 1, "gear")
            rates == R!RecipeGroupRates(refs, [id \in RowIds |-> IF id = 30 THEN main ELSE "gear"], solved)
        IN  /\ DOMAIN rates.products \cap DOMAIN rates.byproducts = {}
            /\ R!Amount(rates.products, "gear") = rates.power
            /\ R!Amount(rates.products, "ash") > 0 => 30 \in {r.id : r \in R!ToSet(refs)}

-----------------------------------------------------------------------------
(* The matrix of a block: what three areas send and receive of two items,  *)
(* with the routes the solver gives for it, rows of an area preferring     *)
(* what others make on purpose.                                            *)

LOCAL Sent(net) == [i \in {i \in DOMAIN net : net[i] > 0} |-> net[i]]
LOCAL Taken(net) == [i \in {i \in DOMAIN net : net[i] < 0} |-> -net[i]]
LOCAL AreaPlaces(Is(_)) == M!SetToSortSeq({a \in 1..3 : Is(a)}, <)
LOCAL RoutesOf(net, i, picky) ==
    LET from == AreaPlaces(LAMBDA a : net[a][i] > 0)
        to == AreaPlaces(LAMBDA a : net[a][i] < 0)
    IN  M!ItemRoutes([n \in DOMAIN from |-> [area |-> from[n], rate |-> net[from[n]][i], other |-> 1]],
                     [n \in DOMAIN to |-> [area |-> to[n], rate |-> -net[to[n]][i],
                                           restricted |-> to[n] \in picky, dedicatedIn |-> 1]])
LOCAL ResultOf(net, picky) ==
    [areas |-> [a \in 1..3 |-> [area |-> a, sends |-> Sent(net[a]), receives |-> Taken(net[a])]],
     routes |-> [i \in {"gear", "iron"} |-> RoutesOf(net, i, picky)]]
LOCAL Names == [gear |-> 1, iron |-> 2]
LOCAL Matrices ==
    {M!BlockMatrix(ResultOf([a \in 1..3 |-> [gear |-> gear[a], iron |-> iron[a]]], picky), Names, Names) :
        gear \in [1..3 -> {-12, -1, 0, 2}], iron \in {<<3, -1, 0>>, <<0, 0, 0>>, <<-2, 1, 1>>}, picky \in {{}, {1, 3}}}

(* Every row balances, at most one of its ends is outside, and what an     *)
(* area is shown to trade with each party adds up to its cell.             *)
ASSUME CellsAreTrades ==
    \A m \in Matrices : \A n \in DOMAIN m.rows :
        LET r == m.rows[n]
            Sum(f) == M!SumOver(DOMAIN f, LAMBDA a : f[a])
            From(a) == M!SumOver(M!Parties(r, a), LAMBDA b : M!Given(r, a, b) - M!Given(r, b, a))
        IN  /\ Sum(r.cells) + r.fromOutside = r.toOutside
            /\ r.fromOutside = 0 \/ r.toOutside = 0
            /\ \A a \in DOMAIN r.cells : From(a) = r.cells[a] /\ Sum(M!Counterpart(r, a)) \in {r.cells[a], -r.cells[a]}
            /\ \A a, b \in DOMAIN r.cells : M!Amount(M!Counterpart(r, a), b) = M!Amount(M!Counterpart(r, b), a)

(* Over all rows, what an area in focus trades is its net; the parties are *)
(* each listed once, the outside last; and what another area gives to the  *)
(* focus and gets from it is what the focus gets from it and gives to it.  *)
ASSUME TradesAgree ==
    \A m \in Matrices, f \in 1..3 :
        LET trades == M!Trades(m, f)
            parties == {trades[n].party : n \in DOMAIN trades}
            With(b) == CHOOSE e \in M!ToSet(trades) : e.party = b
        IN  /\ M!SumSeq(trades, LAMBDA e : e.outRate - e.inRate) = M!NetTotal(m.rows, f)
            /\ Len(trades) = Cardinality(parties)
            /\ \A n \in 1..(Len(trades) - 1) : trades[n].party # M!Outside
            /\ M!ToSet(M!TradingAreas(m, f)) = parties \ {M!Outside}
            /\ \A b \in parties \ {M!Outside} :
                  M!PairTotal(m.rows, b, f) = [out |-> With(b).inRate, in |-> With(b).outRate]

(* Columns in flow order are the same columns; without a cycle of flows    *)
(* every flow goes to the right.                                           *)
LOCAL Pairs == {k \in (1..4) \X (1..4) : k[1] < k[2]}
LOCAL Weights ==
    {[k \in (1..4) \X (1..4) |->
        IF k \in Pairs THEN M!AboveZero(net[k]) ELSE IF <<k[2], k[1]>> \in Pairs THEN M!AboveZero(-net[k[2], k[1]]) ELSE 0] :
            net \in [Pairs -> {-1, 0, 2}]}
LOCAL OrderIn(order, a) == CHOOSE n \in DOMAIN order : order[n] = a
LOCAL GoesRight(order, w) == \A a, b \in 1..4 : w[a, b] > 0 => OrderIn(order, a) < OrderIn(order, b)
LOCAL Orders == {s \in [1..4 -> 1..4] : \A a, b \in 1..4 : s[a] = s[b] => a = b}
LOCAL Ordered(order, w) ==
    /\ Len(order) = 4 /\ M!ToSet(order) = 1..4
    /\ (\E s \in Orders : GoesRight(s, w)) => GoesRight(order, w)
ASSUME FlowsGoRight ==
    /\ \A w \in Weights : Ordered(M!FlowOrder(<<3, 1, 4, 2>>, w), w)
    /\ \A m \in Matrices :
          LET order == M!FlowOrder(m.areas, M!FlowWeights(m))
              Takes(a) == \E n \in DOMAIN m.rows, b \in 1..3 : M!Given(m.rows[n], b, a) > 0
          IN  M!ToSet(order) = 1..3 /\ (Takes(order[1]) => \A a \in 1..3 : Takes(a))

(* A search shows the rows it names, or else those of the columns it names *)
(* and shows nothing only when it names neither.                           *)
ASSUME SearchShowsHits ==
    \A m \in Matrices, scope \in BOOLEAN, rowHits \in SUBSET {"gear", "iron"}, columnHits \in {{}, {2}, {1, 4}} :
        LET found == M!MatchQuery(m.rows, 1..3, scope, rowHits, columnHits)
            hit == columnHits \cap 1..3
            all == M!ToSet(m.rows)
            named == {r \in all : r.item \in rowHits}
        IN  /\ found = M!NoMatch <=> ~scope /\ hit = {} /\ named = {}
            /\ ~scope /\ named # {} => M!ToSet(found.rows) = named
            /\ ~scope /\ named = {} => M!ToSet(found.rows) = {r \in all : hit \cap DOMAIN [a \in {a \in DOMAIN r.cells : r.cells[a] # 0} |-> 0] # {}}

(* Grouping loses no row and shows none twice.  The tail only hides rows   *)
(* that are smaller than those shown, never the first of a group, and      *)
(* never a single row that is not small.                                   *)
LOCAL Totals == {<<12, 0, 11, 3>>, <<0, 0, 1>>, <<20, 19, 18, 17, 16, 15, 14, 13>>, <<30, 20, 20, 20, 20, 20, 20, 12, 9>>,
                 <<30, 29, 28, 27, 26, 25, 24, 5>>, <<>>, <<10>>}
LOCAL Data(groups) == [machines |-> {2}, subgroup |-> [n \in 3..8 |-> IF n \in groups THEN "plate" ELSE "old"],
                       group |-> "plate" :> "metal" @@ "old" :> "gone", groups |-> {"metal"}]
LOCAL ListOf(totals, groups) ==
    [n \in DOMAIN totals |-> [item |-> n, name |-> 20 - n, total |-> totals[n], group |-> M!ItemGroupOf(Data(groups), n)]]
ASSUME GroupsKeepRows ==
    \A totals \in Totals, groups \in {{}, {3, 5}, 1..9}, mode \in {"category", "rate", "name"}, collapse \in BOOLEAN :
        LET list == ListOf(totals, groups)
            parts == M!GroupRows(list, mode, "metal" :> 1, collapse)
            all == M!FlattenSeq([n \in DOMAIN parts |-> parts[n].rows])
        IN  /\ Len(all) = Len(list) /\ M!ToSet(all) = M!ToSet(list)
            /\ \A n \in DOMAIN parts :
                  /\ parts[n].head \o parts[n].tail = parts[n].rows
                  /\ parts[n].rows # <<>> => parts[n].head # <<>>
                  /\ ~collapse => parts[n].tail = <<>>
                  /\ \A h \in M!ToSet(parts[n].head), r \in M!ToSet(parts[n].tail) : r.total <= h.total
                  /\ Len(parts[n].tail) = 1 => parts[n].tail[1].total < M!TailRate

-----------------------------------------------------------------------------
(* The matrix of all blocks.                                               *)

LOCAL PlanBlocks ==
    {{[id |-> 1, solved |-> TRUE, net |-> "gear" :> gear @@ "iron" :> -2,
       cells |-> "gear" :> (7 :> 3 @@ 8 :> gear - 3) @@ "iron" :> (7 :> -1 @@ 8 :> -1), areas |-> <<7, 8>>],
      [id |-> 2, solved |-> TRUE, net |-> "gear" :> -1 @@ "iron" :> iron, cells |-> <<>>, areas |-> <<>>],
      [id |-> 3, solved |-> TRUE, net |-> "gear" :> 1, cells |-> <<>>, areas |-> <<>>],
      [id |-> 4, solved |-> FALSE, net |-> <<>>, cells |-> <<>>, areas |-> <<>>]} : gear \in {-2, 1, 3}, iron \in 0..3}
LOCAL PlanFlows ==
    SUBSET {[from |-> 1, to |-> 2, item |-> "gear", rate |-> 1, status |-> "ok"],
            [from |-> 2, to |-> 1, item |-> "iron", rate |-> 2, status |-> "limited"],
            [from |-> 2, to |-> 1, item |-> "iron", rate |-> 0, status |-> "unused"],
            [from |-> 9, to |-> 4, item |-> "gear", rate |-> 1, status |-> "missing-source"]}

(* What is delivered, not taken and not supplied does not depend on which  *)
(* columns are shown; a row shows the columns of its flows, and the areas  *)
(* named for a block move the item its way.                                *)
ASSUME FilterKeepsNumbers ==
    \A blocks \in PlanBlocks, flows \in PlanFlows :
        LET every == M!PlanMatrix(blocks, flows, FALSE)
            crossing == M!PlanMatrix(blocks, flows, TRUE)
            Numbers(r) == <<r.delivered, r.notTaken, r.notSupplied, r.total>>
        IN  /\ \A r \in every.rows, q \in crossing.rows : r.item = q.item => Numbers(r) = Numbers(q)
            /\ \A q \in crossing.rows :
                  /\ q.delivered > 0
                  /\ \A f \in q.flows : {f.from, f.to} \subseteq crossing.blocks
                  /\ DOMAIN q.net \subseteq crossing.blocks
            /\ \A r \in every.rows, b \in {b \in blocks : b.id \in every.blocks} :
                  LET areas == M!PrimaryAreas(r, b)
                  IN  \A n \in DOMAIN areas : r.areaCells[b.id][areas[n]] * r.net[b.id] > 0

-----------------------------------------------------------------------------
(* The summary of block 1: item 1 may be a product, item 2 an ingredient,  *)
(* item 3 a byproduct.  No block gives away more than it has.              *)

LOCAL Flow(id, from, to, item, rate) ==
    [id |-> id, from |-> from, to |-> to, item |-> item, rate |-> rate, available |-> rate, capped |-> FALSE,
     status |-> "ok", kind |-> "take", requested |-> 0, loop |-> FALSE]
LOCAL Request(id, to, rate, requested) ==
    [Flow(id, 1, to, 1, rate) EXCEPT !.kind = "request", !.requested = requested,
                                     !.status = IF rate < requested THEN "limited" ELSE "ok"]
LOCAL Out ==
    {<<>>, <<Request(1, 2, 4, 4)>>, <<Request(1, 2, 4, 9)>>, <<Request(1, 2, 0, 2)>>, <<Request(1, 2, 6, 2), Flow(2, 1, 3, 1, 1)>>,
     <<Request(1, 2, 3, 3), Request(2, 3, 2, 7)>>, <<Flow(2, 1, 3, 1, 5)>>}
LOCAL OutOf(item) == {<<>>, <<Flow(3, 1, 2, item, 2)>>, <<Flow(3, 1, 2, item, 2), Flow(4, 1, 3, item, 3)>>}
LOCAL Product(id, extra) == [id |-> id, item |-> 1, extra |-> extra]
LOCAL Given(flows, i) == S!Sum(S!SelectSeq(flows, LAMBDA f : f.item = i), LAMBDA f : f.rate)
LOCAL BlockOf(products, gear, ash) ==
    [id |-> 1, products |-> products, net |-> gear @@ ash, connections |-> <<>>, unsatisfied |-> <<>>, locks |-> <<>>]
LOCAL Summaries ==
    {s \in {[b |-> BlockOf(products, gear, ash), flows |-> out \o more, unit |-> unit] :
                products \in {<<>>, <<Product(1, 5)>>, <<Product(1, -1)>>, <<Product(1, 2), Product(2, 3)>>, <<Product(1, -1), Product(2, -1)>>},
                gear \in {<<>>} \cup {1 :> n : n \in {0, 3, 5, 7, 12}}, ash \in {<<>>} \cup {3 :> n : n \in {2, 5, 6}},
                out \in Out, more \in OutOf(3), unit \in {"s", "m"}} :
        \A i \in {1, 3} : Given(s.flows, i) <= S!NetOf(s.b, i)}
LOCAL Products(s) == S!ProductSlots(s.b, s.flows, TRUE, s.unit)
LOCAL PartOf(slot, kind) == S!Total(S!SelectSeq(slot.segments, LAMBDA e : e.kind = kind))

(* The bar of a product is filled by who takes it, what is left and what   *)
(* is missing, up to a gap too small to show; what is missing is shared    *)
(* between the extra and the requests, neither more than was asked.        *)
ASSUME BarsAreFilled ==
    \A s \in Summaries : \A n \in DOMAIN s.b.products :
        LET slot == Products(s)[n]
            gap == slot.scale - S!Total(slot.segments)
        IN  /\ gap >= 0 /\ (gap > 0 => ~S!Visible(gap, s.unit))
            /\ slot.tick => slot.required <= slot.scale
            /\ slot.short =>
                  LET from == slot.shortFrom[1]
                      requested == slot.required - S!AboveZero(slot.extra)
                  IN  /\ from.extra + from.requests = PartOf(slot, "short")
                      /\ from.extra \in 0..S!AboveZero(slot.extra) /\ from.requests \in 0..requested
            /\ slot.empty <=> slot.scale = 0 /\ slot.segments = <<>>

(* What other blocks take is in one pane, and so is what is left: over     *)
(* products and byproducts an item's exports and rest are its net.         *)
ASSUME PanesShareTheNet ==
    \A s \in Summaries :
        LET products == Products(s)
            byproducts == S!ByproductSlots(s.b, s.flows)
            Slots(i) == S!SelectSeq(products \o byproducts, LAMBDA slot : slot.item = i)
            Stays(slot) == PartOf(slot, "kept") + PartOf(slot, "left")
        IN  \A i \in {1, 3} : \A n \in DOMAIN Slots(i) :
                /\ PartOf(Slots(i)[n], "export") = Given(s.flows, i)
                /\ PartOf(Slots(i)[n], "export") + Stays(Slots(i)[n]) = S!AboveZero(S!NetOf(s.b, i))
                /\ n > 1 => n <= Len(S!SelectSeq(s.b.products, LAMBDA p : p.item = i))

(* A request counts for one product, the first of its item; every taker is *)
(* on the bar, and only one that got less than it asked is blamed.         *)
ASSUME RequestsCountOnce ==
    \A s \in Summaries :
        LET slots == Products(s)
            asked == S!Sum(S!RequestsOf(s.b, s.flows, 1), LAMBDA f : f.requested)
            extras == S!Sum(s.b.products, LAMBDA p : S!AboveZero(p.extra))
        IN  /\ slots # <<>> => S!Sum(slots, LAMBDA slot : slot.required) = asked + extras
            /\ \A n \in DOMAIN slots : slots[n].short =>
                  \A to \in S!ToSet(slots[n].shortFrom[1].blocks) :
                      \E f \in S!ToSet(s.flows) : f.to = to /\ f.rate < f.requested

(* The colour key never claims more of a part than there is, and says what *)
(* was asked only when less came, or left only when it is all the extra.   *)
ASSUME KeyClaimsNoMore ==
    \A s \in Summaries : \A n \in DOMAIN s.b.products :
        LET slot == Products(s)[n]
        IN  \A k \in DOMAIN slot.segments :
                LET entry == S!KeyEntry(slot, slot.segments[k])
                IN  entry.amount <= slot.segments[k].amount /\ (entry.of # -1 => entry.amount <= entry.of)

LOCAL In(status, rate) == [Flow(5, 2, 1, 2, rate) EXCEPT !.status = status, !.capped = rate = 2]
LOCAL Connection(id, from, item) == [id |-> id, from |-> from, item |-> item, maxRate |-> 2]
LOCAL Inputs ==
    {[b |-> [BlockOf(<<>>, <<>>, <<>>) EXCEPT !.connections = connections, !.locks = locks,
                !.unsatisfied = [n \in DOMAIN short |-> [item |-> short[n], rate |-> 2 * n - 2]]],
      flows |-> flows] :
        connections \in {<<>>, <<Connection(5, 2, 2)>>, <<Connection(5, 2, 2), Connection(6, 9, 1), Connection(7, 2, 3)>>},
        locks \in {<<>>, <<2>>, <<3, 2>>}, short \in {<<>>, <<1, 2>>, <<2, 3>>, <<3, 2, 1>>},
        flows \in {<<>>, <<In("ok", 2)>>, <<In("ok", 0)>>, <<In("limited", 2), Flow(7, 2, 1, 3, 1)>>, <<In("unused", 0), Flow(7, 2, 1, 3, 1)>>, <<In("self", 0)>>}}
LOCAL Ingredients(s) == S!IngredientSlots(s.b, s.flows, {1, 2})

(* Every item that is connected, imported or locked has one slot; its rate *)
(* is what its connections bring and what is imported, and a connection    *)
(* that brings nothing is marked, unless nothing is known of it yet.       *)
ASSUME EveryIngredientOnce ==
    \A s \in Inputs :
        LET slots == Ingredients(s)
            Brings(i) == S!Sum(S!SelectSeq(s.flows, LAMBDA f : /\ f.item = i /\ f.status \in {"ok", "limited"}
                                                                 /\ \E c \in S!ToSet(s.b.connections) : c.id = f.id),
                               LAMBDA f : f.rate)
            items == {c.item : c \in S!ToSet(s.b.connections)} \cup S!ToSet(s.b.locks)
                        \cup {u.item : u \in {u \in S!ToSet(s.b.unsatisfied) : u.rate > 0}}
        IN  /\ {slots[n].item : n \in DOMAIN slots} = items /\ Len(slots) = Cardinality(items)
            /\ \A n \in DOMAIN slots : slots[n].rate = Brings(slots[n].item) + S!ImportOf(s.b.unsatisfied, slots[n].item)
            /\ \A c \in S!ToSet(s.b.connections) : (c.from = 9 \/ \E f \in S!ToSet(s.flows) : f.id = c.id /\ f.status = "unused") =>
                  \E n \in DOMAIN slots : slots[n].item = c.item /\ S!SlotHasKey(slots[n], <<"from", c.from>>)

(* The overview of a pane adds up to its slots: each key has one row, each *)
(* slot counts once in it, and blocks come before what stays or is short.  *)
LOCAL AddsUp(slots, rows) ==
    /\ S!Sum(rows, LAMBDA r : r.total) = S!Sum(slots, LAMBDA slot : S!Total(slot.segments))
    /\ \A n, k \in DOMAIN rows : n < k => rows[n].key # rows[k].key /\ S!KeyRank(rows[n].key) <= S!KeyRank(rows[k].key)
    /\ \A n \in DOMAIN rows :
          /\ rows[n].count \in 1..Len(slots)
          /\ rows[n].total > 0 => rows[n].kind \notin {"unused", "self", "missing-source", "locked"}
          /\ rows[n].limited => rows[n].kind = "source"
ASSUME OverviewAddsUp ==
    /\ \A s \in Inputs : AddsUp(Ingredients(s), S!OverviewRows(Ingredients(s)))
    /\ \A s \in Summaries : s.unit = "m" /\ Len(s.b.products) = 2 => AddsUp(Products(s), S!OverviewRows(Products(s)))

-----------------------------------------------------------------------------
(* Four plans, 1 the root holding 2 and 3, and 4 in 2 or 3; each may have  *)
(* a row before and after its handles, which may be missing, twice, or of  *)
(* a plan that is elsewhere.                                               *)

LOCAL SentRow(id, recipe, kind) ==
    [id |-> id, recipe |-> recipe, kind |-> kind, machine |-> IF id \in {10, 20} THEN "slow" ELSE "none",
     modules |-> <<[module |-> "", count |-> 1], [module |-> "fast", count |-> 2]>>,
     beacon |-> {[entity |-> "b", module |-> "fast", count |-> id % 2, each |-> 1]}]
LOCAL SentHandle(id, plan) == [id |-> id, plan |-> plan]
LOCAL SentRows(p, full, shown) ==
    (IF p \in full THEN <<SentRow(10 * p, "gear", "game")>> ELSE <<>>)
        \o [n \in DOMAIN shown[p] |-> SentHandle(10 * p + n, shown[p][n])]
        \o IF p \in {1, 2} \cap full THEN <<SentRow(10 * p + 9, IF p = 1 THEN "mine" ELSE "lost", IF p = 1 THEN "mining" ELSE "game")>> ELSE <<>>
LOCAL SentTreeOf(home, full, shown) ==
    [p \in 1..4 |-> [name |-> "plan", area |-> p = 3, rows |-> SentRows(p, full, shown),
                      subs |-> IF p = 1 THEN <<2, 3>> ELSE IF p = home THEN <<4>> ELSE <<>>]]
LOCAL SentTrees ==
    {SentTreeOf(home, full, <<root, two, three, <<>>>>) :
        home \in {2, 3}, full \in SUBSET (1..4), root \in {<<>>, <<2>>, <<3, 2>>, <<2, 3, 2>>},
        two \in {<<>>, <<4>>, <<4, 4>>}, three \in {<<>>, <<2>>, <<4>>}}

(* Every row goes out once, in the group of its plan; a plan with rows at  *)
(* any depth is one group, after its parent; between two rows of a group   *)
(* are only rows of it and of groups in it; and the rows that opening      *)
(* handles can show come in the order of the table.                        *)
ASSUME GroupsNest ==
    \A t \in SentTrees :
        LET v == P!Visited(t, 1)
            PlanOf(g) == IF g = 0 THEN 1 ELSE v.groups[g].plan
            RecipesIn(p) == {t[p].rows[n].id : n \in {n \in DOMAIN t[p].rows : ~P!IsHandle(t[p].rows[n])}}
            shown == R!ShownRows(t, 1)
            Shown(id) == \E n \in DOMAIN shown : shown[n].id = id
            sent == [n \in DOMAIN v.rows |-> v.rows[n].row.id]
        IN  /\ P!ToSet(sent) = UNION {RecipesIn(p) : p \in 1..4} /\ P!IsInjective(sent)
            /\ \A n \in DOMAIN v.rows : v.rows[n].row.id \in RecipesIn(PlanOf(v.rows[n].group))
            /\ {v.groups[k].plan : k \in DOMAIN v.groups} = {p \in 2..4 : \E q \in P!Branch(t, p) : RecipesIn(q) # {}}
            /\ P!IsInjective([k \in DOMAIN v.groups |-> v.groups[k].plan])
            /\ \A k \in DOMAIN v.groups :
                  v.groups[k].parent < k /\ v.groups[k].plan \in P!ToSet(t[PlanOf(v.groups[k].parent)].subs)
            /\ \A k, n \in DOMAIN v.rows : v.rows[k].group = v.rows[n].group =>
                  \A m \in k..n : PlanOf(v.rows[m].group) \in P!Branch(t, PlanOf(v.rows[k].group))
            /\ P!SelectSeq(sent, Shown) = R!Distinct([n \in DOMAIN shown |-> shown[n].id])

-----------------------------------------------------------------------------
(* Gears are made slowly, or fast once the machine for it is researched;   *)
(* ore is mined; one recipe is lost.  The block is solved or fails.        *)

LOCAL Made(item) == [item |-> item, temp |-> {}]
LOCAL GameRecipe(item, category, main) ==
    [hidden |-> FALSE, power |-> FALSE, extraction |-> category = "mining", ins |-> {}, outs |-> {Made(item)},
     category |-> category, main |-> main, products |-> <<item>>]
LOCAL GameItem(type, places) == [type |-> type, temp |-> {}, hidden |-> FALSE, places |-> places]
LOCAL GameMachine(category, speed) == [hidden |-> FALSE, categories |-> {category}, speed |-> speed]
LOCAL Game(main) ==
    [items |-> "fast" :> GameItem("item", "fast") @@ "slow" :> GameItem("item", "slow") @@ "gear" :> GameItem("item", "none")
               @@ "brine" :> GameItem("fluid", "none") @@ "electricity" :> GameItem("fluid", "none"),
     recipes |-> "gear" :> GameRecipe("gear", "craft", {}) @@ "mine" :> GameRecipe("brine", "mining", main)
                 @@ "assemble" :> GameRecipe("fast", "craft", {}),
     machines |-> "fast" :> GameMachine("craft", 2) @@ "slow" :> GameMachine("craft", 1) @@ "drill" :> GameMachine("mining", 1),
     beacons |-> <<>>, modules |-> <<>>, defaults |-> "craft" :> "fast" @@ "mining" :> "drill",
     starting |-> {"gear"}, powerOrder |-> <<>>,
     technologies |-> "early" :> [prerequisites |-> {}, unlocks |-> {}] @@ "late" :> [prerequisites |-> {"early"}, unlocks |-> {"assemble"}]]
LOCAL Tree == SentTreeOf(2, {1, 2, 4}, <<<<3, 2>>, <<4>>, <<>>, <<>>>>)
LOCAL Solved(id) ==
    [exact |-> {IF id = 10 THEN -6 ELSE id}, ceil |-> {id - 15}, throughput |-> IF id = 20 THEN {} ELSE {-5},
     ins |-> "electricity" :> {70} @@ "brine" :> {4} @@ "ore" :> {25}, outs |-> "gear" :> {-20} @@ "brine" :> {36}]
LOCAL SentFlow(id, item, requested, kind) == [id |-> id, from |-> 1, item |-> item, requested |-> requested, kind |-> kind]
LOCAL State(horizon, overrides) ==
    [horizon |-> horizon, overrides |-> overrides,
     blocks |-> <<[tree |-> Tree, root |-> 1,
                   products |-> <<[item |-> "gear", extra |-> 20], [item |-> "brine", extra |-> -100], [item |-> "gear", extra |-> 40]>>]>>]
LOCAL Flows == {SentFlow(1, "gear", 100, "request"), SentFlow(2, "gear", 100, "request"), SentFlow(3, "gear", 50, "take"), SentFlow(4, "ore", 10, "request")}
LOCAL Solve(fails) ==
    IF fails THEN [results |-> 1 :> [rows |-> <<>>, unsatisfied |-> <<>>], errors |-> 1 :> "infeasible", flows |-> Flows]
    ELSE [results |-> 1 :> [rows |-> [id \in {10, 20, 40} |-> Solved(id)], unsatisfied |-> <<[item |-> "ore", rate |-> {15}]>>],
          errors |-> <<>>, flows |-> Flows]
LOCAL Snapshots ==
    {[block |-> P!ProjectSnapshot(Game(main), State(horizon, overrides), Solve(fails))[1],
      horizon |-> horizon, overrides |-> overrides, fails |-> fails] :
        main \in {{}, {"brine"}, {"electricity"}}, horizon \in {{}, {"early"}, {"late"}},
        overrides \in {<<>>, "craft" :> "slow", "craft" :> "drill"}, fails \in BOOLEAN}
LOCAL Total(s, item) ==
    P!FoldSeq(LAMBDA p, total : IF p.of.id = item THEN p.rate + total ELSE total, 0, s)

(* The products of an item add up to what the user and the other blocks    *)
(* ask for, a request counting once; a row shows the machine the solve     *)
(* used and no recipe the game lacks; no number sent is negative, and none *)
(* is of energy; and a failed solve costs the rows only their values.      *)
ASSUME SnapshotsAreTrue ==
    \A s \in Snapshots :
        LET block == s.block
            rows == P!ToSet(block.rows)
            rates == UNION {r.solved.inputs \cup r.solved.outputs : r \in rows}
            Slow == s.overrides = "craft" :> "slow" \/ s.horizon = {"early"}
        IN  /\ Total(block.products, "gear") = 26 /\ Total(block.products, "brine") = 0
            /\ \A r \in rows :
                  /\ r.named.recipe \subseteq {"gear", "lost"}
                  /\ r.named.kind = "mining" => r.named.recipe = {} /\ r.named.product # {}
                  /\ r.machine = CASE r.id \in {10, 20} -> "slow" [] r.id = 19 -> "drill" [] r.id = 29 -> "none"
                                   [] OTHER -> IF Slow THEN "slow" ELSE "fast"
                  /\ r.solved.throughput \cup r.solved.ceil \cup r.solved.machines \subseteq Nat
                  /\ s.fails => r.solved = P!Unsolved
                  /\ \A b \in r.beacon : b.count > 0
                  /\ \A n \in DOMAIN r.modules : r.modules[n].module # ""
            /\ \A x \in rates : x.rate > 0 /\ x.of.type # "virtual"
            /\ s.fails <=> block.error # {}
            /\ block.rows # <<>> /\ \A r \in rows : ~s.fails /\ r.id \in {10, 20, 40} => r.solved.inputs # {}

-----------------------------------------------------------------------------
(* What the connection menus of small plans say, against what the solver   *)
(* then does; and the dialogs of a row, by clicks.                         *)

LOCAL Uses == [make |-> {"plate"}, cast |-> {"slag"}, smelt |-> {}, plate |-> {"slag"}]
LOCAL Makes == [make |-> {"gear", "slag"}, cast |-> {"gear"}, smelt |-> {"plate", "slag"}, plate |-> {"plate"}]
LOCAL Items == {"gear", "plate", "slag"}
LOCAL D == INSTANCE RowDialogs
LOCAL Rules == INSTANCE ConnectionRules WITH LoopRounds <- 6, RequestRounds <- 6, GrowthRounds <- 3

-----------------------------------------------------------------------------
(* Three blocks of one or two rows, with products or none, and up to two   *)
(* connections.                                                            *)

LOCAL ProductOf(id, i, e) == [id |-> id, item |-> i, extra |-> e]
LOCAL Blk(id, recipes, products, conns) ==
    [id |-> id, label |-> 0, root |-> 1, products |-> products, conns |-> conns,
     plans |-> 1 :> [name |-> "plan", area |-> FALSE, subs |-> <<>>,
                     rows |-> [n \in DOMAIN recipes |-> [id |-> n, recipe |-> recipes[n]]]],
     noImport |-> {}, sourcing |-> [i \in Items |-> Nothing]]
LOCAL Small == {<<<<"smelt">>, <<ProductOf(1, "plate", 1)>>>>, <<<<"plate">>, <<ProductOf(1, "plate", Nothing)>>>>, <<<<"make">>, <<ProductOf(1, "gear", 2)>>>>}
LOCAL Users == {<<<<"make">>, <<ProductOf(1, "gear", 2)>>>>, <<<<"cast">>, <<ProductOf(1, "gear", 1)>>>>}
LOCAL Kinds ==
    {<<<<"make">>, <<ProductOf(1, "gear", 2)>>>>, <<<<"cast">>, <<ProductOf(1, "gear", 1)>>>>, <<<<"smelt">>, <<ProductOf(1, "plate", 1)>>>>,
     <<<<"smelt">>, <<ProductOf(1, "plate", 3), ProductOf(2, "slag", Nothing)>>>>, <<<<"plate">>, <<ProductOf(1, "plate", Nothing)>>>>,
     <<<<"smelt">>, <<ProductOf(1, "plate", 1), ProductOf(2, "plate", Nothing)>>>>, <<<<"cast">>, <<ProductOf(1, "gear", 1), ProductOf(2, "slag", Nothing)>>>>,
     <<<<"make", "cast">>, <<ProductOf(1, "gear", 2)>>>>, <<<<"make">>, <<ProductOf(1, "gear", 2), ProductOf(2, "slag", 1)>>>>}
LOCAL Chained == {<<<<"make">>, <<ProductOf(1, "gear", 2)>>>>, <<<<"smelt">>, <<ProductOf(1, "plate", 3), ProductOf(2, "slag", Nothing)>>>>}
LOCAL Conn(id, i, from) == [id |-> id, item |-> i, from |-> from, max |-> Nothing]
LOCAL WithConn(blocks, b, c) ==
    [n \in DOMAIN blocks |-> IF blocks[n].id = b THEN [blocks[n] EXCEPT !.conns = @ \cup {c}] ELSE blocks[n]]
LOCAL Bare ==
    {<<Blk(1, k[1], k[2], {}), Blk(2, l[1], l[2], {}), Blk(3, m[1], m[2], {})>> :
        k \in Kinds, l \in Small, m \in Users}
LOCAL May(blocks, b, i, from) == Rules!CanConnect({1, 2, 3}, Rules!Find(blocks, b), i, from)
LOCAL Connected(plans, id) ==
    UNION {{WithConn(blocks, x[1], Conn(id, x[2], x[3])) :
              x \in {x \in (1..3) \X {"plate", "slag"} \X (1..3) : May(blocks, x[1], x[2], x[3])}} : blocks \in plans}
LOCAL Linked == Connected(Bare, 4)
LOCAL Twice == Connected(Connected({<<Blk(1, k[1], k[2], {}), Blk(2, <<"smelt">>, <<ProductOf(1, "plate", 1)>>, {}),
                                      Blk(3, <<"make">>, <<ProductOf(1, "gear", 2)>>, {})>> : k \in Chained}, 4), 5)
LOCAL Gains(blocks, b, i) ==
    [n \in DOMAIN blocks |-> IF blocks[n].id = b THEN [blocks[n] EXCEPT !.products = Append(@, ProductOf(8, i, Nothing))] ELSE blocks[n]]
LOCAL Plans == Linked \cup Twice \cup {Gains(blocks, b, "plate") : blocks \in Twice, b \in {1, 2}}
LOCAL After(blocks, b, i, from) == Rules!SolveAll(WithConn(blocks, b, Conn(9, i, from)), {})
LOCAL RateOf(solved, id) == (CHOOSE f \in solved.flows : f.id = id).rate

(* A supplier in the menu gives what the menu says, if that is missing;    *)
(* it gives more where it spares a request.  The menu tells which          *)
(* suppliers depend on the block they would supply.                        *)
LOCAL Supplies(blocks, a, b) == \E c \in Rules!Find(blocks, b).conns : c.from = a
LOCAL DependsOn(blocks, a, b) ==
    Supplies(blocks, b, a) \/ \E c \in 1..3 : Supplies(blocks, b, c) /\ Supplies(blocks, c, a)
LOCAL Kept(blocks, solved, b, i) ==
    /\ \A t \in Rules!TakeCandidates(blocks, b, i, solved) : t.closesLoop = DependsOn(blocks, t.block, b)
    /\ \A q \in Rules!RequestCandidates(blocks, b, i) : q.closesLoop = DependsOn(blocks, q.block, b)
    /\ \A t \in {t \in Rules!TakeCandidates(blocks, b, i, solved) : ~t.closesLoop} :
          LET kept == Rules!Lesser(t.offered, Rules!UnsatisfiedRate(blocks, solved, b, i))
              rate == RateOf(After(blocks, b, i, t.block), 9)
          IN  \/ rate = kept
              \/ /\ rate > kept
                 /\ \E f \in solved.flows : f.to = b /\ f.item = i /\ f.requested # Nothing
LOCAL AllKept(blocks, solved) == \A b \in 1..3, i \in {"plate", "slag"} : Kept(blocks, solved, b, i)
ASSUME OffersAreKept == \A blocks \in Plans : AllKept(blocks, Rules!SolveAll(blocks, {}))

(* A request the menu calls blocked is ignored by the solver; any other is *)
(* taken up even when it closes a cycle of requests, if its rounds settle, *)
(* and then served in full, if the block and whatever was asked before it  *)
(* have a recipe for the item.                                             *)
LOCAL Able(blocks, b, i, from) ==
    \A a \in {from} \cup {c.from : c \in {c \in Rules!Find(blocks, b).conns : c.item = i}} : Rules!BlockMakesItem(Rules!Find(blocks, a), i)
LOCAL Served(solved, able, missing) ==
    \A f \in {f \in solved.flows : f.id = 9} :
        solved.requestLoops = {} => f.requested # Nothing /\ (able /\ solved.loops = {} => f.rate >= missing)
LOCAL Unheard(solved) == \E f \in solved.flows : f.id = 9 /\ f.requested = Nothing
LOCAL Requested(blocks, solved, b, i) ==
    \A q \in Rules!RequestCandidates(blocks, b, i) :
        IF q.blocked THEN Unheard(After(blocks, b, i, q.block))
        ELSE Served(After(blocks, b, i, q.block), Able(blocks, b, i, q.block),
                    Rules!UnsatisfiedRate(blocks, solved, b, i))
LOCAL AllRequested(blocks, solved) == \A b \in 1..3, i \in {"plate", "slag"} : Requested(blocks, solved, b, i)
ASSUME RequestsAreTakenUp == \A blocks \in Plans : AllRequested(blocks, Rules!SolveAll(blocks, {}))

(* The menu of two blocks offers what the menu of an item would.           *)
LOCAL Agree(blocks, solved, source, b) ==
    LET takes(i) == {t \in Rules!TakeCandidates(blocks, b, i, solved) : t.block = source}
        requests(i) == {q \in Rules!RequestCandidates(blocks, b, i) : q.block = source}
    IN  (\A i \in Items : takes(i) = {} \/ requests(i) = {}) /\ Rules!ConnectableItems(blocks, source, b, solved) =
            UNION {{[item |-> i, offered |-> Rules!OfferedRate(solved, source, i), needed |-> Rules!UnsatisfiedRate(blocks, solved, b, i),
                     request |-> requests(i) # {}, blocked |-> \E q \in requests(i) : q.blocked] :
                       x \in IF Rules!UnsatisfiedRate(blocks, solved, b, i) > 0 THEN takes(i) \cup requests(i) ELSE {}} : i \in Items}
LOCAL AllAgree(blocks, solved) == \A source, b \in 1..3 : Agree(blocks, solved, source, b)
ASSUME MenusAgree == \A blocks \in Plans : AllAgree(blocks, Rules!SolveAll(blocks, {}))

(* A product gained or lost changes the meaning of exactly the connections *)
(* the question to the user lists.                                         *)
LOCAL Loses(blocks, b, i) ==
    [n \in DOMAIN blocks |->
       IF blocks[n].id # b THEN blocks[n]
       ELSE LET last == CHOOSE p \in DOMAIN blocks[n].products :
                          blocks[n].products[p].item = i /\ \A q \in DOMAIN blocks[n].products : blocks[n].products[q].item = i => q <= p
            IN  [blocks[n] EXCEPT !.products = Rules!RemoveAt(@, last)]]
LOCAL Asking(solved) == {f.id : f \in {f \in solved.flows : f.requested # Nothing}}
LOCAL Listed(effects) == {e.conn : e \in {e \in effects : ~e.blocked}}
LOCAL TurnsInto(blocks, before, after, b, i, change) ==
    before.requestLoops \cup after.requestLoops = {} =>
        Listed(Rules!ProductChangeEffects(blocks, b, i, change, before)) =
            IF change = "add" THEN Asking(after) \ Asking(before) ELSE Asking(before) \ Asking(after)
LOCAL AllTold(blocks, solved) ==
    \A b \in 1..3, i \in {"plate", "slag"} :
        /\ TurnsInto(blocks, solved, Rules!SolveAll(Gains(blocks, b, i), {}), b, i, "add")
        /\ Rules!HasProduct(Rules!Find(blocks, b), i) =>
               TurnsInto(blocks, solved, Rules!SolveAll(Loses(blocks, b, i), {}), b, i, "remove")
ASSUME ChangesAreTold == \A blocks \in Plans : AllTold(blocks, Rules!SolveAll(blocks, {}))

-----------------------------------------------------------------------------
(* The graph of the blocks: three blocks with up to four connections from  *)
(* one to another, in loops or not, and five in a web with and without     *)
(* connections back.                                                       *)
LOCAL GraphOf(counts) ==
    [b \in DOMAIN counts |->
       Blk(b, <<"make">>, <<>>, {Conn(100 * b + 10 * x[1] + x[2], "plate", x[1]) :
                                   x \in {x \in (DOMAIN counts) \X (1..4) : x[2] <= counts[b][x[1]]}})]
LOCAL Web == {<<1, 3>>, <<2, 3>>, <<1, 4>>, <<2, 4>>, <<3, 5>>, <<1, 5>>}
LOCAL Graphs ==
    {GraphOf(counts) : counts \in [1..3 -> {<<0, 0, 0>>, <<0, 0, 1>>, <<0, 1, 0>>, <<4, 0, 1>>, <<1, 4, 0>>}]}
    \cup {GraphOf([b \in 1..5 |-> [a \in 1..5 |-> IF <<a, b>> \in links THEN 2 ELSE IF <<a, b>> \in back THEN 1 ELSE 0]]) :
             links \in SUBSET Web, back \in {{}, {<<5, 1>>, <<4, 2>>, <<3, 1>>}}}
LOCAL Box(left, top, right, bottom) == [left |-> left, top |-> top, right |-> right, bottom |-> bottom]
LOCAL NodeBox(n) == Box(n.x, n.y, n.x + Rules!NodeW, n.y + Rules!NodeH)
LOCAL ChipBox(e, left, right) == Box(left, e.labelY - Rules!StackHeight(e) \div 2, right, e.labelY + Rules!StackHeight(e) \div 2)
LOCAL EdgeBox(e) == IF e.back THEN ChipBox(e, e.left, e.right) ELSE ChipBox(e, e.labelX - 60, e.labelX + 60)
LOCAL Apart(p, q) == p.right <= q.left \/ q.right <= p.left \/ p.bottom <= q.top \/ q.bottom <= p.top
LOCAL Readable(l) ==
    LET Nodes == {<<"node", id, NodeBox(l.nodes[id])>> : id \in DOMAIN l.nodes}
        Edges == {<<"edge", <<e.from, e.to>>, EdgeBox(e)>> : e \in l.edges}
    IN  /\ \A x, y \in Nodes \cup Edges : x # y => Apart(x[3], y[3])
        /\ \A x \in Nodes \cup Edges : x[3].top >= 0 /\ x[3].bottom <= l.height
        /\ \A x \in Nodes : x[3].left >= 0 /\ x[3].right <= l.width
        /\ \A e \in l.edges : IF e.back THEN e.x2 < e.x1 ELSE e.x1 < e.x2

LOCAL Complete(blocks, edges) ==
    /\ \A n \in DOMAIN blocks : \A c \in blocks[n].conns :
          Cardinality({e \in edges : c.id \in e.conns}) = IF c.from = n THEN 0 ELSE 1
    /\ \A e \in edges : e.loop = Rules!Closes(blocks, e.from, e.to) /\ (e.back => e.loop)

(* No node, label or lane of the graph covers another, all are inside the  *)
(* size it gives, and just the back connections run right to left.  Every  *)
(* connection between two blocks is in one edge, which is one of a loop    *)
(* just when its consumer supplies its source.                             *)
LOCAL GraphShows(blocks, l) == Readable(l) /\ Complete(blocks, l.edges)
ASSUME GraphIsReadable == \A blocks \in Graphs : GraphShows(blocks, Rules!LayoutBlockGraph(blocks))

-----------------------------------------------------------------------------
(* Forbidding the imports of an item for which the menu disables it would  *)
(* change nothing of what the block runs and imports.                      *)
LOCAL B == INSTANCE BlockSolve
LOCAL AsSolved(b, locks, sourcing) ==
    [rows |-> [n \in DOMAIN b.plans[1].rows |->
                 LET r == b.plans[1].rows[n].recipe
                     main == CHOOSE i \in Makes[r] : i # "slag"
                 IN  [recipe |-> r, area |-> 1, ins |-> [i \in Uses[r] |-> 1], outs |-> [i \in Makes[r] |-> 1],
                      pin |-> -1, locked |-> Uses[r], consumer |-> FALSE, discard |-> {}, main |-> main, made |-> main]],
     goals |-> "gear" :> 2, locks |-> locks, sourcing |-> [i \in Items |-> sourcing], offers |-> "slag" :> 1]
LOCAL Outcomes(block) ==
    {<<s[2], [i \in Items |-> B!Unsatisfied(block, s[1], s[2], i)]>> : s \in B!Solutions(block, 3)}
LOCAL Rowed == {Blk(1, recipes, <<>>, {}) : recipes \in {<<"make">>, <<"make", "cast">>, <<"make", "plate">>, <<"cast", "smelt">>}}
ASSUME UselessLocksRefused ==
    \A b \in Rowed, i \in Items, mode \in {"default", "connections-first", "byproducts-first"} :
        Rules!ForbidImportsDisabled(b, i) => Outcomes(AsSolved(b, {i}, mode)) = Outcomes(AsSolved(b, {}, mode))

-----------------------------------------------------------------------------
(* Two machines of two slots and one, one of which takes all effects; a    *)
(* beacon that takes speed only, one hidden, and one that takes all; and   *)
(* modules for all, for other recipes, and with a gain or loss of output.  *)

LOCAL Machine(slots, allowed) == [slots |-> slots, allowed |-> allowed, neighbourBonus |-> 0]
LOCAL BeaconOf(slots, efficiency, allowed, hidden) ==
    [slots |-> slots, efficiency |-> efficiency, allowed |-> allowed, hidden |-> hidden]
LOCAL Module(carries, speed, productivity, limitation, blacklist) ==
    [carries |-> carries, speed |-> speed, productivity |-> productivity, consumption |-> 3,
     limitation |-> limitation, blacklist |-> blacklist]
LOCAL DialogData(productive, first, small) ==
    [recipes |-> "gear" :> [category |-> "craft", allowProductivity |-> productive],
     machines |-> "big" :> Machine(2, D!AllEffects) @@ "small" :> Machine(1, small),
     defaults |-> "craft" :> "big",
     beacons |-> "b" :> BeaconOf(2, 5, D!AllEffects, FALSE) @@ "hidden" :> BeaconOf(1, 9, D!AllEffects, TRUE)
                 @@ "weak" :> BeaconOf(1, 2, {"speed", "consumption"}, FALSE),
     modules |-> "fast" :> Module({"speed", "consumption"}, 5, 0, {}, {}) @@ "rich" :> Module(D!AllEffects, -2, 1, {"gear"}, {})
                 @@ "poor" :> Module({"productivity", "consumption"}, 0, -1, {}, {}) @@ "zero" :> Module(D!AllEffects, 4, 0, {}, {})
                 @@ "other" :> Module({"consumption"}, 0, 0, {"plate"}, {}) @@ "barred" :> Module({"consumption"}, 0, 0, {}, {"gear"}),
     order |-> "b" :> 1 @@ "weak" :> IF first = "weak" THEN 0 ELSE 2] 
LOCAL Order == "fast" :> 2 @@ "rich" :> 1 @@ "poor" :> 3 @@ "zero" :> 4 @@ "other" :> 0 @@ "barred" :> 0
LOCAL Datas ==
    {[d EXCEPT !.order = @ @@ Order] :
        d \in {DialogData(p, f, s) : p \in BOOLEAN, f \in {"weak", "b"}, s \in {{"speed", "consumption"}, {"consumption"}}}}
LOCAL Horizons(d) ==
    [modules : {DOMAIN d.modules, {"fast"}, {}}, beacons : {DOMAIN d.beacons, {"weak"}, {"hidden"}, {}}, bounded : {TRUE}, noMachine : BOOLEAN]
LOCAL Empty == [recipe |-> "gear", machine |-> {}, modules |-> <<>>, beacon |-> {}]

(* What can be clicked in the machine dialog, then the beacon dialog.      *)
LOCAL MachineClicks(d, h, row) ==
    {D!SelectMachine(row, m) : m \in {{}, {"big"}, {"small"}}}
    \cup {D!AdjustCount(d, row, row.modules[n].module, delta) : n \in DOMAIN row.modules, delta \in {-1, 1}}
    \cup {D!AddModule(d, row, m) : m \in IF D!Remaining(d, row) > 0 THEN D!AddableModules(d, h, row) ELSE {}}
LOCAL BeaconClicks(d, h, row) ==
    (IF row.beacon = {} /\ ~D!AddBeaconDisabled(d, h) THEN {D!EnableBeacon(d, h, row)} ELSE {})
    \cup UNION {{[row EXCEPT !.beacon = {c}] :
                   c \in {D!SelectBeacon(d, b, id) : id \in D!AvailableBeacons(d, h)} \cup {D!SetBeaconCount(b, n) : n \in {-1, 0, 3}}
                         \cup {D!SelectModule(b, m) : m \in D!BeaconModules(d, h, row, D!EntityOf(d, b))}} : b \in row.beacon}
LOCAL AfterMachine(d, h) ==
    LET reach[n \in Nat] ==
            IF n = 0 THEN {Empty} ELSE reach[n - 1] \cup UNION {MachineClicks(d, h, row) : row \in reach[n - 1]}
    IN  reach[4]
LOCAL AfterBeacon(d, h, rows) ==
    LET reach[n \in Nat] ==
            IF n = 0 THEN rows ELSE reach[n - 1] \cup UNION {BeaconClicks(d, h, row) : row \in reach[n - 1]}
    IN  reach[3]

(* Clicks never put more modules into a machine than it has slots for; a   *)
(* smaller machine keeps what it has too much of, but takes no more.       *)
LOCAL Clicked(d, h, row, next) ==
    /\ D!UsedSlots(next) > D!UsedSlots(row) => D!Remaining(d, next) >= 0
    /\ \A m, n \in DOMAIN next.modules : next.modules[m].count > 0 /\ (m # n => next.modules[m].module # next.modules[n].module)
ASSUME SlotsHold ==
    \A d \in Datas : \A h \in {h \in Horizons(d) : h.noMachine /\ h.beacons = {}} :
        \A row \in AfterMachine(d, h) : \A next \in MachineClicks(d, h, row) : Clicked(d, h, row, next)

(* The effects the dialogs show are those the solve counts, for any row    *)
(* the dialogs can make of an empty one.                                   *)
LOCAL ShownAll(d, row, effect) ==
    D!ShownModuleEffect(d, row, effect) + D!MapThenSumSet(LAMBDA b : D!ShownBeaconEffect(d, row, b, effect), row.beacon)
LOCAL SomeRows == {[Empty EXCEPT !.machine = m, !.modules = s] : m \in {{}, {"small"}, {"gone"}},
                     s \in {<<>>, <<[module |-> "rich", count |-> 1], [module |-> "fast", count |-> 2]>>}}
ASSUME ShownIsSolved ==
    \A d \in Datas : \A h \in Horizons(d) : \A row \in AfterBeacon(d, h, SomeRows) :
        \A effect \in D!AllEffects : ShownAll(d, row, effect) = D!Bonus(d, row, effect)

(* A module put in a machine counts in full, but for a loss of output the  *)
(* recipe does not take; one put in a beacon counts as far as the machine  *)
(* lets it, and whatever is put is within the horizon and for the recipe.  *)
ASSUME OffersCount ==
    \A d \in Datas : \A h \in Horizons(d) :
        /\ \A row \in [recipe : {"gear"}, machine : {{}, {"small"}}, modules : {<<>>}, beacon : {{}}] :
              \A m \in D!AddableModules(d, h, row) : \A effect \in D!AllEffects :
                  \/ D!Bonus(d, D!AddModule(d, row, m), effect) = 10 * d.modules[m][effect] \/ effect \notin d.modules[m].carries
                  \/ effect = "productivity" /\ ~D!AllowProductivity(d, row) /\ d.modules[m].productivity < 0
        /\ \A row \in AfterBeacon(d, h, {Empty}) : \A b \in row.beacon :
              /\ b.count >= 0 /\ b.module \in h.modules /\ b.entity \in h.beacons \ {"hidden"} /\ b.module \notin {"other", "barred"}
              /\ b.entity = "weak" /\ b.module = "rich" => \E c \in D!Visible(d.beacons) \cap h.beacons : c = "b"

-----------------------------------------------------------------------------
(* The pickers: two fuels of a boiler in two subgroups of one group, one   *)
(* of them hidden or not, a fuel of another boiler, a recipe of another    *)
(* group and one of none.                                                  *)
LOCAL Pick(id, subgroup, order, hidden, machine) ==
    [id |-> id, subgroup |-> subgroup, category |-> "craft", order |-> order, hidden |-> hidden,
     power |-> machine # <<>>, madeIn |-> machine, ins |-> {"water"}, outs |-> {IF machine = <<>> THEN "gear" ELSE "steam"}]
LOCAL PickerData(groups, hidden) ==
    [recipes |-> {Pick("coal", "heat", 2, FALSE, <<"boiler">>), Pick("wood", "power", 1, hidden, <<"boiler">>),
                  Pick("sun", "power", 2, FALSE, <<"panel">>), Pick("gear", "parts", 1, FALSE, <<>>), Pick("bolt", "", 1, FALSE, <<>>)},
     items |-> {Pick("gear", "parts", 1, FALSE, <<>>), Pick("steam", "power", 1, FALSE, <<>>), Pick("relic", "parts", 2, TRUE, <<>>)},
     group |-> groups, groupOrder |-> [logistics |-> 1, energy |-> 2], energy |-> {"steam"},
     bucketOrder |-> [heat |-> 3, power |-> 1, parts |-> 2, craft |-> 4]]
LOCAL PickerDatas ==
    {PickerData(groups, hidden) : hidden \in BOOLEAN,
        groups \in {<<>>, [parts |-> "logistics", heat |-> "energy", power |-> "energy"], [heat |-> "energy", power |-> "logistics"]}}
LOCAL Fresh == [query |-> {"coal", "wood", "sun", "gear", "bolt"}, hidden |-> FALSE, beyond |-> FALSE, makes |-> {}, consumes |-> {},
                pinned |-> {}, open |-> {}, hovered |-> {}]
LOCAL Limits == {{}, {{"wood", "gear", "sun", "bolt"}}}
LOCAL PickerClicks(d, ids, s) ==
    {D!Redrawn(d, ids, t) : t \in
        {D!ToggleHidden(s), D!ToggleBeyond(s), D!CloseFuelView(s), D!Hover(s, "coal")}
        \cup {D!Search(s, query) : query \in {Fresh.query, {"coal", "gear"}, {"bolt"}}}
        \cup {D!PinGroup(s, v) : v \in D!VisibleGroups(d, D!FilteredRecipes(d, ids, s))}
        \cup {D!OpenMachine(s, CHOOSE m \in e.machine : TRUE) : e \in {e \in D!ToSet(D!Slots(d, ids, s)) : e.machine # {}}}}
LOCAL PickerReach(d, ids) ==
    LET Step(seen) == seen \cup UNION {PickerClicks(d, ids, s) : s \in seen}
        reach[n \in Nat] == IF n = 0 THEN {Fresh, [Fresh EXCEPT !.makes = {"steam"}]} ELSE Step(reach[n - 1])
    IN  reach[4]

(* One slot has the recipe, alone or among the fuels it opens to.          *)
LOCAL Holding(d, ids, s, r) == {n \in DOMAIN D!Slots(d, ids, s) : r \in D!ToSet(D!Slots(d, ids, s)[n].recipes)}
LOCAL Pickable(d, ids, s, r) ==
    LET slot == D!Slots(d, ids, s)[CHOOSE n \in Holding(d, ids, s, r) : TRUE]
        opened == D!Redrawn(d, ids, D!OpenMachine(s, CHOOSE m \in slot.machine : TRUE))
    IN  /\ Cardinality(Holding(d, ids, s, r)) = 1
        /\ ~D!Disabled(slot, {q.id : q \in d.recipes} \ {r.id})
        /\ slot.machine # {} =>
              /\ Len(D!Slots(d, ids, opened)) >= 2
              /\ \E n \in DOMAIN D!Slots(d, ids, opened) : D!Slots(d, ids, opened)[n] = [machine |-> {}, recipes |-> <<r>>]
LOCAL InItsTab(d, ids, s, r) ==
    IF D!GroupOf(d, r) = {} THEN s ELSE D!PinGroup(s, CHOOSE v \in D!GroupOf(d, r) : TRUE)

(* Whatever was clicked or typed before, every recipe that matches can be  *)
(* picked: in its tab, if it has a group or there are none, and one of a   *)
(* machine with more fuels after opening that.  The list is empty only     *)
(* when nothing matches, and fuels are shown only while there are some.    *)
ASSUME EveryMatchIsPickable ==
    \A d \in PickerDatas, ids \in Limits : \A s \in PickerReach(d, ids) :
        LET listed == D!FilteredRecipes(d, ids, s)
        IN  /\ \A r \in listed :
                  D!GroupOf(d, r) # {} \/ D!VisibleGroups(d, listed) = {} =>
                      Pickable(d, ids, D!CloseFuelView(InItsTab(d, ids, s, r)), r)
            /\ D!Slots(d, ids, s) = <<>> <=> listed = {}
            /\ s.open # {} => D!OpenGroup(d, ids, s) # {}
            /\ listed = {} /\ D!OutsideHorizonCount(d, ids, s) = 0 => D!Matching(d, s) = {}

(* A product that is picked, at once or after the amount was mended, is    *)
(* the one clicked, of a rate above nothing or of none.                    *)
ASSUME PicksAreRates ==
    \A d \in PickerDatas, ids \in {{}, {{"gear"}}}, before, after \in {{}, {0}, {3}, {-1}} :
        LET s == [pinned |-> {}, query |-> {"gear", "steam", "relic"}, amount |-> before, selected |-> {}, chosen |-> {}]
        IN  \A i \in D!ToSet(D!ItemSlots(d, ids, s)) :
                LET picked == D!PickItem(d, s, i.id)
                    mended == D!SubmitItem(d, [picked EXCEPT !.amount = after])
                    Right(chosen, text) ==
                        IF text \in {{0}, {-1}} THEN chosen = {}
                        ELSE chosen = {[item |-> i.id, rate |-> IF i.id = "steam" THEN {60 * n : n \in text} ELSE text]}
                IN  ~i.hidden /\ Right(picked.chosen, before) /\ (picked.chosen = {} => Right(mended.chosen, after))

-----------------------------------------------------------------------------
(* The neighbours of a reactor.                                            *)

LOCAL Counts == {D!RectangleAverage(c, r) : c \in 1..3, r \in 1..3} \cup {D!Quotient(1, 3), D!Quotient(4, 1)}
LOCAL Start(q) == [layout |-> D!DeriveLayout(q), stored |-> q, blurred |-> TRUE]
LOCAL Saved(s, layout) == [layout |-> layout, stored |-> D!Stores(layout, s.stored), blurred |-> FALSE]
LOCAL NeighbourSteps(s) ==
    {Saved(s, D!ApplyDrawing(s.layout, s.layout.cols + d[1], s.layout.rows + d[2])) : d \in {<<0, 1>>, <<0, -1>>, <<1, 0>>, <<-1, 0>>}}
    \cup {Saved(s, D!TypeOwn(s.layout, text)) : text \in {{}, {D!Quotient(5, 1)}, {D!Quotient(1, 3)}, {D!RectangleAverage(2, 2)}}}
    \cup {[s EXCEPT !.layout = D!BlurOwn(s.layout, s.stored), !.blurred = TRUE]}
    \cup {[s EXCEPT !.layout = D!Refreshed(s.layout, q), !.stored = q] : q \in {q \in {D!Quotient(0, 1), D!Quotient(1, 3)} : q # s.stored}}
LOCAL NeighbourReach ==
    LET reach[n \in Nat] ==
            IF n = 0 THEN {Start(q) : q \in Counts} ELSE reach[n - 1] \cup UNION {NeighbourSteps(s) : s \in reach[n - 1]}
    IN  reach[4]

(* The average shown is the one stored and one a reactor can have, what-   *)
(* ever is drawn, typed or undone meanwhile; once the field is left the    *)
(* drawing or the text says it, and a drawing just made is what is stored. *)
ASSUME ShownIsStored ==
    \A s \in NeighbourReach :
        /\ D!ShownAverage(s.layout, s.stored) = s.stored
        /\ s.stored.n >= 0 /\ s.stored.n <= D!MaxNeighbours * s.stored.d
        /\ s.blurred => D!Shown(s.layout) = {s.stored}
        /\ \A c, r \in {-1, 0, 1, 2, 31} :
              LET drawn == D!ApplyDrawing(s.layout, c, r)
              IN  /\ {drawn.cols, drawn.rows} \subseteq 1..D!MaxSide
                  /\ D!Stores(drawn, s.stored) = D!RectangleAverage(drawn.cols, drawn.rows)

(* The drawing found for the average of a rectangle is one of the same     *)
(* average, and none of that average is smaller.                           *)
ASSUME DrawingsAverage ==
    \A c \in 1..6, r \in 1..12 :
        LET best == D!FindRectangle(D!RectangleAverage(c, r))
        IN  /\ Cardinality(best) = 1
            /\ \A p \in best : D!RectangleAverage(p[1], p[2]) = D!RectangleAverage(c, r) /\ p[1] * p[2] <= c * r
=============================================================================
