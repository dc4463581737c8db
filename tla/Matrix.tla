------------------------------- MODULE Matrix --------------------------------
(***************************************************************************)
(* The area matrix of a block (components/factory/areaMatrix.ts) and the   *)
(* matrix of all blocks (planAreaMatrix.ts): items as rows, areas or       *)
(* blocks as columns.                                                      *)
(*                                                                         *)
(* result.areas are the areas in table order, each [area, sends, receives] *)
(* with the rates of items; result.routes gives an item the flow from one  *)
(* area, or Outside, to another.  Rates are tenths of an item per minute;  *)
(* names gives the place of an item's name in the alphabet.                *)
(***************************************************************************)
EXTENDS RecipeAreas

-----------------------------------------------------------------------------
(* blockMatrix.  A cell is what the area sends less what it receives.      *)

Columns(result) == [k \in DOMAIN result.areas |-> result.areas[k].area]
Cell(area, i) == Amount(area.sends, i) - Amount(area.receives, i)
Cells(result, i) ==
    LET touching == {n \in DOMAIN result.areas :
                        i \in DOMAIN result.areas[n].sends \cup DOMAIN result.areas[n].receives}
    IN  [a \in {result.areas[n].area : n \in touching} |->
            Cell(result.areas[CHOOSE n \in touching : result.areas[n].area = a], i)]
MatrixRow(result, names, groups, i) ==
    LET cells == Cells(result, i)
        pos == SumOver(DOMAIN cells, LAMBDA a : AboveZero(cells[a]))
        neg == SumOver(DOMAIN cells, LAMBDA a : AboveZero(-cells[a]))
    IN  [item |-> i, name |-> names[i], group |-> groups[i], cells |-> cells,
         fromOutside |-> AboveZero(neg - pos), toOutside |-> AboveZero(pos - neg),
         total |-> pos + AboveZero(neg - pos),
         pairs |-> IF i \in DOMAIN result.routes THEN result.routes[i] ELSE <<>>]

ByTotalThenName(r, q) == r.total > q.total \/ (r.total = q.total /\ r.name < q.name)
ByName(r, q) == r.name < q.name
BlockMatrix(result, names, groups) ==
    LET items == UNION {DOMAIN result.areas[n].sends \cup DOMAIN result.areas[n].receives : n \in DOMAIN result.areas}
    IN  [areas |-> Columns(result),
         rows |-> SetToSortSeq({MatrixRow(result, names, groups, i) : i \in items}, ByTotalThenName)]

-----------------------------------------------------------------------------
(* flowOrder: greedily, the first area that nothing is left to flow into;  *)
(* in a cycle, the one that gives most more than it gets.                  *)

FlowOrder(areas, w) ==
    LET In(rest, a) == SumOver(ToSet(rest) \ {a}, LAMBDA b : w[b, a])
        Out(rest, a) == SumOver(ToSet(rest) \ {a}, LAMBDA b : w[a, b])
        Free(rest) == SelectInSeq(rest, LAMBDA a : In(rest, a) = 0)
        Best(rest) == CHOOSE n \in DOMAIN rest : \A k \in DOMAIN rest :
                        LET gain == Out(rest, rest[n]) - In(rest, rest[n])
                            other == Out(rest, rest[k]) - In(rest, rest[k])
                        IN  gain > other \/ (gain = other /\ n <= k)
        step(q, ignored) ==
            LET n == IF Free(q.rest) # 0 THEN Free(q.rest) ELSE Best(q.rest)
            IN  [order |-> Append(q.order, q.rest[n]), rest |-> RemoveAt(q.rest, n)]
    IN  FoldLeft(step, [order |-> <<>>, rest |-> areas], areas).order
FlowWeights(m) ==
    [k \in ToSet(m.areas) \X ToSet(m.areas) |-> SumSeq(m.rows, LAMBDA r : Amount(r.pairs, k))]

-----------------------------------------------------------------------------
(* groupRows: rows by category, each group with a head and a tail.         *)

TailRate == 10
GroupHead == 7
OtherGroup == "other-items"
MachinesGroup == "machines"

(* itemGroupOf: the group of the item's subgroup, as far as they are known. *)
ItemGroupOf(data, i) ==
    IF i \in data.machines THEN MachinesGroup
    ELSE IF /\ i \in DOMAIN data.subgroup /\ data.subgroup[i] \in DOMAIN data.group
            /\ data.group[data.subgroup[i]] \in data.groups
         THEN data.group[data.subgroup[i]]
    ELSE OtherGroup

SplitTail(list, collapse) ==
    LET small == SelectInSeq(list, LAMBDA r : r.total < TailRate)
        k == Max({1, Least(GroupHead, IF small = 0 THEN Len(list) ELSE small - 1)})
        all == ~collapse \/ Len(list) <= k \/ (Len(list) - k = 1 /\ list[k + 1].total >= TailRate)
        cut == IF all THEN Len(list) ELSE k
    IN  [rows |-> list, head |-> SubSeq(list, 1, cut), tail |-> SubSeq(list, cut + 1, Len(list))]

(* order: the places of the item groups; Other and the machines come last. *)
GroupRank(order, g) ==
    IF g = OtherGroup THEN Cardinality(DOMAIN order) + 1
    ELSE IF g = MachinesGroup THEN Cardinality(DOMAIN order) + 2
    ELSE order[g]
GroupRows(rows, mode, order, collapse) ==
    CASE mode = "rate" -> <<SplitTail(SortSeq(rows, ByTotalThenName), collapse)>>
      [] mode = "name" -> <<SplitTail(SortSeq(rows, ByName), FALSE)>>
      [] mode = "category" ->
            LET ids == SetToSortSeq({r.group : r \in ToSet(rows)},
                                    LAMBDA g, h : GroupRank(order, g) < GroupRank(order, h))
            IN  [n \in DOMAIN ids |->
                    SplitTail(SortSeq(SelectSeq(rows, LAMBDA r : r.group = ids[n]), ByTotalThenName), collapse)]

-----------------------------------------------------------------------------
(* focusArea: what one area trades, with whom.                             *)

FocusRows(m, a) == SelectSeq(m.rows, LAMBDA r : Amount(r.cells, a) # 0)
Parties(r, a) == {k[2] : k \in {k \in DOMAIN r.pairs : k[1] = a}}
                 \cup {k[1] : k \in {k \in DOMAIN r.pairs : k[2] = a /\ k[1] # a}}
Given(r, a, b) == Amount(r.pairs, <<a, b>>)
Counterpart(r, a) == [b \in Parties(r, a) |-> Given(r, a, b) + Given(r, b, a)]
Trades(m, a) ==
    LET rows == FocusRows(m, a)
        With(b) == {n \in DOMAIN rows : b \in Parties(rows[n], a)}
        trades == {[party |-> b, items |-> Cardinality(With(b)),
                    inRate |-> SumOver(With(b), LAMBDA n : Given(rows[n], b, a)),
                    outRate |-> SumOver(With(b), LAMBDA n : Given(rows[n], a, b))] :
                        b \in UNION {Parties(rows[n], a) : n \in DOMAIN rows}}
        Volume(e) == e.inRate + e.outRate
        Place(e) == SelectInSeq(m.areas, LAMBDA b : b = e.party)
        Before(e, g) == /\ e.party # Outside
                        /\ \/ g.party = Outside
                           \/ Volume(e) > Volume(g)
                           \/ Volume(e) = Volume(g) /\ Place(e) < Place(g)
    IN  SetToSortSeq(trades, Before)
TradingAreas(m, a) == SelectSeq(m.areas, LAMBDA b : b # a /\ \E e \in ToSet(Trades(m, a)) : e.party = b)

(* groupTotal: the net of an area over rows, or, with area f in focus,     *)
(* what it gives to f and gets from it.                                    *)
NetTotal(list, a) == SumSeq(list, LAMBDA r : Amount(r.cells, a))
PairTotal(list, a, f) ==
    LET Of(r) == IF Amount(r.cells, f) # 0 THEN Amount(Counterpart(r, f), a) ELSE 0
    IN  [out |-> SumSeq(SelectSeq(list, LAMBDA r : Amount(r.cells, a) > 0), Of),
         in |-> SumSeq(SelectSeq(list, LAMBDA r : Amount(r.cells, a) <= 0), Of)]

(* matchQuery.  hits are the rows and columns the text occurs in; scope    *)
(* says that it is empty or occurs in the name of what is shown.           *)
NoMatch == [rows |-> <<>>, columns |-> {}]
MatchQuery(rows, columns, scope, rowHits, columnHits) ==
    LET named == SelectSeq(rows, LAMBDA r : r.item \in rowHits)
        hit == columnHits \cap columns
        touching == SelectSeq(rows, LAMBDA r : \E a \in hit : Amount(r.cells, a) # 0)
    IN  IF scope THEN [rows |-> rows, columns |-> columns]
        ELSE IF named = <<>> /\ hit = {} THEN NoMatch
        ELSE [rows |-> IF named # <<>> THEN named ELSE touching,
              columns |-> IF hit # {} THEN hit ELSE columns]

-----------------------------------------------------------------------------
(* planMatrix.  A block is [id, net, cells, areas]: its net by item (empty *)
(* without a solve) and its area cells by item; a flow [from, to, item,    *)
(* rate, status].                                                          *)

IsActive(f) == f.rate > 0 /\ f.status \notin {"missing-source", "self"}
PlanMatrixRow(blocks, shown, flows, i) ==
    LET carried == {f \in flows : IsActive(f) /\ f.item = i}
        delivered == SumOver(carried, LAMBDA f : f.rate)
        pos == SumOver(blocks, LAMBDA b : AboveZero(Amount(b.net, i)))
        neg == SumOver(blocks, LAMBDA b : AboveZero(-Amount(b.net, i)))
    IN  [item |-> i, delivered |-> delivered, flows |-> carried, total |-> Max({pos, neg}),
         notTaken |-> AboveZero(pos - delivered), notSupplied |-> AboveZero(neg - delivered),
         net |-> [b \in {b.id : b \in {b \in shown : Amount(b.net, i) # 0}} |->
                    Amount((CHOOSE c \in shown : c.id = b).net, i)],
         areaCells |-> [b \in {b.id : b \in {b \in shown : i \in DOMAIN b.cells}} |->
                    (CHOOSE c \in shown : c.id = b).cells[i]]]
PlanMatrix(blocks, flows, crossingOnly) ==
    LET active == {f \in flows : IsActive(f)}
        ends == {f.from : f \in active} \cup {f.to : f \in active}
        shown == IF crossingOnly THEN {b \in blocks : b.id \in ends} ELSE {b \in blocks : b.solved}
        items == IF crossingOnly THEN {f.item : f \in active}
                 ELSE UNION {{i \in DOMAIN b.net : b.net[i] # 0} \cup DOMAIN b.cells : b \in shown}
    IN  [blocks |-> {b.id : b \in shown},
         rows |-> {PlanMatrixRow({b \in blocks : b.solved}, shown, flows, i) : i \in items}]

(* The areas that move the item the way their block's net goes. *)
PrimaryAreas(row, b) ==
    LET net == Amount(row.net, b.id)
        cells == IF b.id \in DOMAIN row.areaCells THEN row.areaCells[b.id] ELSE <<>>
        same == {a \in ToSet(b.areas) : (net > 0 /\ Amount(cells, a) > 0) \/ (net < 0 /\ Amount(cells, a) < 0)}
        Size(a) == IF cells[a] < 0 THEN -cells[a] ELSE cells[a]
        Place(a) == SelectInSeq(b.areas, LAMBDA c : c = a)
    IN  SetToSortSeq(same, LAMBDA a, c : Size(a) > Size(c) \/ (Size(a) = Size(c) /\ Place(a) < Place(c)))
=============================================================================
