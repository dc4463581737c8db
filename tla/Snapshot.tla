------------------------------ MODULE Snapshot ------------------------------
(***************************************************************************)
(* The snapshot of a plan for the game (snapshot/project.ts): its blocks   *)
(* with their products, their rows in table order, each in the group of    *)
(* its sub-plan, and their imports.                                        *)
(*                                                                         *)
(* t is a block's tree of sub-plans.  A rate is in ten-thousandths, a set  *)
(* of one or of none (not a finite number); the rates sent are in          *)
(* thousandths.  A missing value is an empty set.  A row's kind is that of *)
(* its recipe's id, "game" or one the exporter invented.  Groups are       *)
(* numbered from 1, the rows of the root being in 0.                       *)
(***************************************************************************)
EXTENDS SubPlans, Integers, SequencesExt
LOCAL H == INSTANCE Horizon

EnergyItems == {"electricity", "heat"}
Unset == ""

Round3(rate) == {n \in {(r + 5) \div 10 : r \in rate} : n >= 0}
Rate3(rate) == IF Round3(rate) = {} THEN 0 ELSE CHOOSE n \in Round3(rate) : TRUE

ItemRef(g, id) ==
    [id |-> id, type |-> IF id \in EnergyItems THEN "virtual" ELSE IF id \in DOMAIN g.items THEN g.items[id].type ELSE "item"]
WithRate(g, id, rate) == [of |-> ItemRef(g, id), rate |-> Rate3(rate)]

-----------------------------------------------------------------------------
(* A row: what the plan says of it, and its solved values if they are of   *)
(* use.                                                                    *)

ItemRates(g, rates) ==
    UNION {{[of |-> ItemRef(g, i), rate |-> n] : n \in Round3(rates[i]) \ {0}} : i \in DOMAIN rates \ EnergyItems}
SolvedValues(g, s) ==
    [machines |-> Round3(s.exact), ceil |-> {n \in s.ceil : n >= 0}, throughput |-> Round3(s.throughput),
     inputs |-> ItemRates(g, s.ins), outputs |-> ItemRates(g, s.outs)]
Unsolved == [machines |-> {}, ceil |-> {}, throughput |-> {}, inputs |-> {}, outputs |-> {}]
Modules(row) == SelectSeq(row.modules, LAMBDA m : m.module # Unset)
Beacon(row) == {b \in row.beacon : b.entity # Unset /\ b.module # Unset /\ b.count > 0}

(* The machine the solve used.                                             *)
MachineOf(g, h, row) ==
    IF row.recipe \in DOMAIN g.recipes
    THEN H!ResolveRowMachine(g, h, g.recipes[row.recipe].category, row.machine).machine ELSE row.machine
(* An invented recipe is known by its kind and its product.                *)
Named(g, row) ==
    IF row.kind = "game" THEN [kind |-> "game", recipe |-> {row.recipe}, product |-> {}]
    ELSE [kind |-> row.kind, recipe |-> {},
          product |-> {ItemRef(g, IF r.main = {} THEN Head(r.products) ELSE CHOOSE i \in r.main : TRUE) :
                          r \in {r \in {g.recipes[n] : n \in {row.recipe} \cap DOMAIN g.recipes} : r.main # {} \/ r.products # <<>>}}]
SnapshotRow(g, h, solved, row, group) ==
    [id |-> row.id, named |-> Named(g, row), machine |-> MachineOf(g, h, row), group |-> group,
     solved |-> IF row.id \in DOMAIN solved THEN SolvedValues(g, solved[row.id]) ELSE Unsolved,
     modules |-> Modules(row), beacon |-> Beacon(row)]

-----------------------------------------------------------------------------
(* The rows and groups of a block: a sub-plan's rows are where its handle  *)
(* is, those without one come last, and each plan is visited once.         *)

HasRows(t, p) == \E q \in Branch(t, p) : \E n \in DOMAIN t[q].rows : ~IsHandle(t[q].rows[n])

RECURSIVE Visit(_, _, _, _)
Visit(t, p, group, out) ==
    LET entries == t[p].rows \o [n \in DOMAIN t[p].subs |-> [id |-> t[p].subs[n], plan |-> t[p].subs[n]]]
        Enter(o, q) ==
            IF q \in o.visited \/ ~HasRows(t, q) THEN o
            ELSE Visit(t, q, Len(o.groups) + 1,
                       [o EXCEPT !.groups = Append(@, [plan |-> q, parent |-> group, area |-> t[q].area])])
        Take(o, entry) ==
            IF ~IsHandle(entry) THEN [o EXCEPT !.rows = Append(@, [row |-> entry, group |-> group])]
            ELSE IF entry.plan \in ToSet(t[p].subs) THEN Enter(o, entry.plan) ELSE o
    IN  IF p \in out.visited THEN out
        ELSE FoldLeft(Take, [out EXCEPT !.visited = @ \cup {p}], entries)
Visited(t, root) == Visit(t, root, 0, [rows |-> <<>>, groups |-> <<>>, visited |-> {}])

-----------------------------------------------------------------------------
(* A block: what other blocks request goes to the first product of the     *)
(* item, and a failed solve leaves its rows without values.                *)

RequestedOf(flows, block, item) ==
    FoldSet(LAMBDA f, total : total + f.requested, 0,
            {f \in flows : f.from = block /\ f.item = item /\ f.kind = "request"})
IsFirst(products, n) == \A m \in 1..(n - 1) : products[m].item # products[n].item
ProductRates(g, flows, block, products) ==
    [n \in DOMAIN products |->
        WithRate(g, products[n].item,
                 {products[n].extra + (IF IsFirst(products, n) THEN RequestedOf(flows, block, products[n].item) ELSE 0)})]

ProjectBlock(g, h, solve, id, block) ==
    LET result == IF id \in DOMAIN solve.results THEN solve.results[id] ELSE [rows |-> <<>>, unsatisfied |-> <<>>]
        v == Visited(block.tree, block.root)
    IN  [products |-> ProductRates(g, solve.flows, id, block.products),
         groups |-> v.groups,
         rows |-> [n \in DOMAIN v.rows |-> SnapshotRow(g, h, result.rows, v.rows[n].row, v.rows[n].group)],
         imports |-> [n \in DOMAIN result.unsatisfied |-> WithRate(g, result.unsatisfied[n].item, result.unsatisfied[n].rate)],
         error |-> {solve.errors[b] : b \in {id} \cap DOMAIN solve.errors}]
ProjectSnapshot(g, state, solve) ==
    LET all == H!ComputeHorizon(g, state.horizon)
        h == [all EXCEPT !.defaults = H!ApplyDefaultMachineOverrides(g, all.machines, all.defaults, state.overrides)]
    IN  [n \in DOMAIN state.blocks |-> ProjectBlock(g, h, solve, n, state.blocks[n])]
=============================================================================
