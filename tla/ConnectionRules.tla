--------------------------- MODULE ConnectionRules ---------------------------
(***************************************************************************)
(* What the menus of a plan say a connection would do (store/connections.ts, *)
(* factory/itemSourcing.ts): who can supply an item and how much, which    *)
(* requests the solver would ignore, and which connections change meaning  *)
(* when a block gains or loses a product; and where the graph of the       *)
(* blocks draws the connections (utils/blockGraphLayout.ts).               *)
(*                                                                         *)
(* `solved` is what SolveAll last gave.  A list in plan order is its set:  *)
(* the order is the blocks'.                                               *)
(***************************************************************************)
EXTENDS Solver

LOCAL Tree == INSTANCE Horizon     \* the technology tree, laid out in the same way

FlowsFrom(solved, source, i) == {f \in solved.flows : f.from = source /\ f.item = i}
FlowOf(solved, c) == {f \in solved.flows : f.id = c.id}

(* offeredRate: what is left after the deliveries to other consumers. *)
OfferedRate(solved, source, i) ==
    Positive(solved.net[source][i] - Total(FlowsFrom(solved, source, i), LAMBDA f : f.rate))

(* result.unsatisfied, from the balance of the solved block. *)
UnsatisfiedRate(blocks, solved, target, i) ==
    LET got == {f \in solved.flows : f.to = target /\ f.item = i}
        asked == [j \in Items |-> Total({f \in FlowsFrom(solved, target, j) : f.requested # Nothing}, LAMBDA f : f.requested)]
    IN  Positive(Goals(Find(blocks, target), asked)[i] - solved.net[target][i] - Total(got, LAMBDA f : f.rate))

-----------------------------------------------------------------------------
(* The menus.                                                              *)

Closes(blocks, from, to) == ClosesLoop(Edges(PlanIds(blocks), SupplyEdges(blocks)), from, to)
Connectable(blocks, target, i) ==
    {from \in IdSet(blocks) : CanConnect(IdSet(blocks), Find(blocks, target), i, from)}

TakeCandidates(blocks, target, i, solved) ==
    {[block |-> from, offered |-> OfferedRate(solved, from, i), closesLoop |-> Closes(blocks, from, target)] :
        from \in {from \in Connectable(blocks, target, i) :
                     ~HasProduct(Find(blocks, from), i) /\ OfferedRate(solved, from, i) > 0}}

(* requestBlocker, source-receives: the one reason there is. *)
RequestBlocked(blocks, i, from) ==
    LET source == Find(blocks, from) IN HasProduct(source, i) /\ ReceivesItem(blocks, source, i)

RequestCandidates(blocks, target, i) ==
    {[block |-> from, closesLoop |-> Closes(blocks, from, target), blocked |-> RequestBlocked(blocks, i, from)] :
        from \in {from \in Connectable(blocks, target, i) : HasProduct(Find(blocks, from), i)}}

(* The items a connection from source could bring to target. *)
ConnectableItems(blocks, source, target, solved) ==
    {[item |-> i, offered |-> OfferedRate(solved, source, i), needed |-> UnsatisfiedRate(blocks, solved, target, i),
      request |-> HasProduct(Find(blocks, source), i), blocked |-> RequestBlocked(blocks, i, source)] :
        i \in {i \in Items : /\ UnsatisfiedRate(blocks, solved, target, i) > 0
                             /\ source \in Connectable(blocks, target, i)
                             /\ \/ HasProduct(Find(blocks, source), i)
                                \/ OfferedRate(solved, source, i) > 0}}

-----------------------------------------------------------------------------
(* A block gains or loses a product: the connections of other blocks that  *)
(* turn from takes into requests, or back.                                 *)

Changes(block, i, change) ==
    LET having == {n \in DOMAIN block.products : block.products[n].item = i}
    IN  IF change = "add" THEN having = {} ELSE Cardinality(having) = 1
(* requestIgnored: a request to a source that receives the item has a flow *)
(* with nothing requested.                                                 *)
Ignored(solved, c) == \E f \in FlowOf(solved, c) : f.requested = Nothing
Affected(blocks, id, i, change, solved) ==
    {bc \in UNION {{<<b.id, c>> : c \in b.conns} : b \in {b \in ToSet(blocks) : b.id # id}} :
        /\ bc[2].from = id /\ bc[2].item = i
        /\ ~\E d \in Find(blocks, bc[1]).conns : d.from = id /\ d.item = i /\ d.id < bc[2].id
        /\ change = "remove" => ~Ignored(solved, bc[2])}
ProductChangeEffects(blocks, id, i, change, solved) ==
    IF ~Changes(Find(blocks, id), i, change) THEN {}
    ELSE {[conn |-> bc[2].id, consumer |-> bc[1], rate |-> {f.rate : f \in FlowOf(solved, bc[2])},
           blocked |-> change = "add" /\ ReceivesItem(blocks, Find(blocks, id), i)] :
             bc \in Affected(blocks, id, i, change, solved)}

-----------------------------------------------------------------------------
(* How a block sources an item.                                            *)

BlockMakesItem(b, i) == \E r \in Rows(b) : i \in Makes[r]

(* forbidImportsTitle: a lock on an item no row makes changes nothing, so  *)
(* it is not offered; a lock that is there can be lifted.                  *)
ForbidImportsDisabled(b, i) == i \notin b.noImport /\ ~BlockMakesItem(b, i)

-----------------------------------------------------------------------------
(* The graph of the blocks: a column for each length of a chain of         *)
(* sources, one edge for all connections of a source and its consumer.     *)
(* A back connection of a loop is no link of a chain, and runs in a lane   *)
(* under what it spans.  A label's place is rounded down.                  *)

NodeW == 200
NodeH == 64
ColGap == 160
RowGap == 40
LabelChipH == 28
LabelGap == 4
MaxEdgeChips == 3
BackCurve == 32
BackLaneGap == 12
ColStep == NodeW + ColGap

Pairs(blocks, components) ==
    LET Inner == UNION {components[k].inner : k \in DOMAIN components}
        Back == UNION {components[k].back : k \in DOMAIN components}
        First(b, c) == \A d \in Live(blocks, b) : d.from = c.from => c.id <= d.id
        PairOf(b, from) ==
            LET ids == {c.id : c \in {c \in Live(blocks, b) : c.from = from}}
            IN  [from |-> from, to |-> b.id, conns |-> ids, loop |-> ids \cap Inner # {}, back |-> ids \cap Back # {}]
        PairsOf(b) ==
            LET firsts == InOrder({c \in Live(blocks, b) : First(b, c)})
            IN  [k \in DOMAIN firsts |-> PairOf(b, firsts[k].from)]
    IN  FlattenSeq([n \in DOMAIN blocks |-> PairsOf(blocks[n])])

(* The columns, along the order of solving; the rows of each, in plan      *)
(* order and then by the mean row of their sources.                        *)
GraphColumns(order, incoming) ==
    LET Step(column, id) == [column EXCEPT ![id] = Max({0} \cup {column[from] + 1 : from \in incoming[id]})]
    IN  FoldLeft(Step, [id \in ToSet(order) |-> 0], order)
GraphRows(ids, column, incoming) ==
    LET Here(c) == SelectSeq(ids, LAMBDA id : column[id] = c)
        Place(row, c) == Tree!RowsOf(Tree!ByMeanRow(Here(c), incoming, Tree!RowsOf(Here(c)) @@ row)) @@ row
    IN  FoldLeft(Place, <<>>, [k \in 1..(Max(Range(column)) + 1) |-> k - 1])
NodesAt(column, row) ==
    [id \in DOMAIN column |-> [column |-> column[id], row |-> row[id],
                               x |-> column[id] * ColStep, y |-> row[id] * (NodeH + RowGap)]]

StackHeight(e) == LabelChipH * IF e.collapsed THEN 1 ELSE Cardinality(e.conns)
EdgeOf(nodes, p) ==
    [collapsed |-> Cardinality(p.conns) > MaxEdgeChips,
     x1 |-> nodes[p.from].x + NodeW, y1 |-> nodes[p.from].y + NodeH \div 2,
     x2 |-> nodes[p.to].x, y2 |-> nodes[p.to].y + NodeH \div 2] @@ p

(* The labels of the edges that enter a column, in the gutter before it,   *)
(* pushed apart from the top.                                              *)
WithLabel(e) ==
    LET x == e.x2 - ColGap \div 2
    IN  [labelX |-> x, labelY |-> e.y1 + ((e.y2 - e.y1) * (x - e.x1)) \div (e.x2 - e.x1)] @@ e
PushedApart(labels) ==
    LET Least(e, f) == e.labelY + (StackHeight(e) + StackHeight(f)) \div 2 + LabelGap
        Push(list, f) == Append(list, IF list = <<>> THEN f ELSE [f EXCEPT !.labelY = Max({@, Least(Last(list), f)})])
    IN  FoldLeft(Push, <<>>, Tree!Sorted(labels, LAMBDA e, f : e.labelY < f.labelY))
ForwardEdges(edges) ==
    LET labels == [k \in DOMAIN edges |-> WithLabel(edges[k])]
    IN  UNION {ToSet(PushedApart(SelectSeq(labels, LAMBDA e : e.x2 = x))) : x \in {e.x2 : e \in ToSet(edges)}}

(* The lanes, each under the nodes and labels it spans and the lanes       *)
(* before it.                                                              *)
LaneOf(nodes, forward, lanes, e) ==
    LET columns == {nodes[e.from].column, nodes[e.to].column}
        left == Min(columns) * ColStep - ColGap
        right == Max(columns) * ColStep + NodeW
        bottoms == {0} \cup {n.y + NodeH : n \in {n \in Range(nodes) : n.column \in Min(columns)..Max(columns)}}
                   \cup {f.labelY + StackHeight(f) \div 2 : f \in {f \in forward : f.labelX \in left..right}}
                   \cup {l.bottom : l \in {l \in lanes : l.left <= right /\ l.right >= left}}
        top == Max(bottoms) + BackLaneGap
    IN  [left |-> left, right |-> right, bottom |-> top + StackHeight(e),
         labelX |-> (e.x1 + e.x2) \div 2, labelY |-> top + StackHeight(e) \div 2] @@ e
BackEdges(nodes, forward, edges) ==
    FoldLeft(LAMBDA lanes, e : lanes \cup {LaneOf(nodes, forward, lanes, e)}, {}, edges)

(* Everything is moved down by what a label reaches above the first row.   *)
MovedDown(nodes, edges, shift) ==
    [nodes |-> [id \in DOMAIN nodes |-> [nodes[id] EXCEPT !.y = @ + shift]],
     edges |-> {[e EXCEPT !.y1 = @ + shift, !.y2 = @ + shift, !.labelY = @ + shift] : e \in edges}]
Sized(nodes, forward, back) ==
    LET shift == -Min({0} \cup {e.labelY - StackHeight(e) \div 2 : e \in forward})
        bottom == Max({0} \cup {e.labelY + StackHeight(e) \div 2 : e \in forward \cup back}) + shift
        rows == Max({n.row : n \in Range(nodes)}) + 1
    IN  [width |-> (Max({n.column : n \in Range(nodes)}) + 1) * ColStep - ColGap + IF back = {} THEN 0 ELSE BackCurve,
         height |-> Max({rows * (NodeH + RowGap) - RowGap + shift, bottom})]
        @@ MovedDown(nodes, forward \cup back, shift)

Drawn(nodes, pairs) ==
    LET EdgesThat(Is(_)) ==
            LET kept == SelectSeq(pairs, Is) IN [k \in DOMAIN kept |-> EdgeOf(nodes, kept[k])]
        WithForward(forward) ==
            Sized(nodes, forward, BackEdges(nodes, forward, EdgesThat(LAMBDA p : p.back)))
    IN  WithForward(ForwardEdges(EdgesThat(LAMBDA p : ~p.back)))
LayoutOf(blocks, components) ==
    LET pairs == Pairs(blocks, components)
        incoming == [id \in IdSet(blocks) |-> {p.from : p \in {p \in ToSet(pairs) : p.to = id /\ ~p.back}}]
        column == GraphColumns(FlattenSeq([k \in DOMAIN components |-> components[k].ids]), incoming)
    IN  Drawn(NodesAt(column, GraphRows(PlanIds(blocks), column, incoming)), pairs)
LayoutBlockGraph(blocks) ==
    IF blocks = <<>> THEN [nodes |-> <<>>, edges |-> {}, width |-> 0, height |-> 0]
    ELSE LayoutOf(blocks, OrderBlocks(PlanIds(blocks), SupplyEdges(blocks)))
=============================================================================
