------------------------------ MODULE PlanFile ------------------------------
(***************************************************************************)
(* Reading a saved or exported plan (AppStateSchema in data/schema.ts,     *)
(* subPlanTree.ts, blockColors.ts, checkPlanImport in persistence.ts):     *)
(* what older versions wrote is brought to the shape the editor keeps.     *)
(*                                                                         *)
(* A raw block is a record of id, conns, root, plans (the tree of          *)
(* SubPlans) and legacy, which gives every plan the goals and locks of     *)
(* older versions.  It may also have color, products, goals, locks,        *)
(* sourcing and firsts, the items that used connections first.  Rates are  *)
(* numbers; no extra is 0, and a connection is [item, from, pull].  What   *)
(* is no plan at all is left out, and so are two plans of one id.          *)
(***************************************************************************)
EXTENDS SubPlans, Integers

Has(b, field) == field \in DOMAIN b
HasSome(b, field) == Has(b, field) /\ b[field] # <<>>
Modes == {"byproducts-first", "connections-first"}

(* The plans as stored: a plan, then its sub-plans. *)
StoredOrder(t, root) ==
    LET from[n \in Nat, p \in DOMAIN t] ==
            <<p>> \o IF n = 0 THEN <<>>
                     ELSE FlattenSeq([k \in DOMAIN t[p].subs |-> from[n - 1, t[p].subs[k]]])
    IN  from[Cardinality(DOMAIN t), root]

-----------------------------------------------------------------------------
(* Blocks of older versions (migrateBlock).                                *)

(* Goals of sub-plans, of one item added up, where the first of them was. *)
Hoist(goals) ==
    LET Add(products, g) ==
            LET same == {n \in DOMAIN products : products[n].item = g.item}
            IN  IF g.rate <= 0 THEN products
                ELSE IF same = {} THEN Append(products, [item |-> g.item, extra |-> g.rate])
                ELSE [products EXCEPT ![Min(same)].extra = @ + g.rate]
    IN  FoldLeft(Add, <<>>, goals)

LegacyGoalToProduct(g) == [item |-> g.item, extra |-> g.rate]
MigrateProducts(b) ==
    LET order == StoredOrder(b.plans, b.root)
    IN  IF HasSome(b, "products") THEN b.products
        ELSE IF HasSome(b, "goals") THEN [n \in DOMAIN b.goals |-> LegacyGoalToProduct(b.goals[n])]
        ELSE Hoist(FlattenSeq([n \in DOMAIN order |-> b.legacy[order[n]].goals]))
MigrateLocks(b) ==
    IF Has(b, "locks") /\ b.locks # {} THEN b.locks ELSE UNION {b.legacy[p].locks : p \in DOMAIN b.plans}

(* migrateItemSourcing: a mode of a later version is own recipes first. *)
MigrateItemSourcing(b) ==
    IF Has(b, "sourcing")
    THEN Restrict(b.sourcing, {i \in DOMAIN b.sourcing : b.sourcing[i] \in Modes})
    ELSE [i \in IF Has(b, "firsts") THEN b.firsts ELSE {} |-> "connections-first"]

NoLegacy == [goals |-> <<>>, locks |-> {}]
MigrateBlock(b) ==
    [id |-> b.id, color |-> b.color, products |-> MigrateProducts(b), locks |-> MigrateLocks(b),
     sourcing |-> MigrateItemSourcing(b), conns |-> b.conns, root |-> b.root,
     plans |-> b.plans, legacy |-> [p \in DOMAIN b.plans |-> NoLegacy]]

-----------------------------------------------------------------------------
(* Legacy pulls: the source of a pull gets the product it was pulled for.  *)

BlockIds(blocks) == {blocks[n].id : n \in DOMAIN blocks}
BlockIndex(blocks, id) == CHOOSE n \in DOMAIN blocks : blocks[n].id = id
MakesProduct(b, i) == \E n \in DOMAIN b.products : b.products[n].item = i
ReceivesFromOthers(blocks, b, i) ==
    \E n \in DOMAIN b.conns : b.conns[n].item = i /\ b.conns[n].from \in BlockIds(blocks) \ {b.id}

(* The pulls of block b that count: the first of their kind, by others, *)
(* of what their source does not receive itself.                        *)
IsPull(blocks, b, n) ==
    LET c == b.conns[n]
    IN  /\ c.pull /\ c.from # b.id /\ c.from \in BlockIds(blocks)
        /\ \A m \in 1..(n - 1) : b.conns[m].from # c.from \/ b.conns[m].item # c.item
        /\ ~ReceivesFromOthers(blocks, blocks[BlockIndex(blocks, c.from)], c.item)
Pulls(blocks, b) ==
    LET at == SetToSortSeq({n \in DOMAIN b.conns : IsPull(blocks, b, n)}, <)
    IN  [k \in DOMAIN at |-> b.conns[at[k]]]

MigratePull(blocks, c) ==
    LET s == BlockIndex(blocks, c.from)
    IN  IF MakesProduct(blocks[s], c.item) THEN blocks
        ELSE [blocks EXCEPT ![s].products = Append(@, [item |-> c.item, extra |-> 0])]
MigrateLegacyPulls(raw) ==
    LET blocks == [n \in DOMAIN raw |-> MigrateBlock(raw[n])]
    IN  FoldLeft(MigratePull, blocks, FlattenSeq([n \in DOMAIN blocks |-> Pulls(blocks, blocks[n])]))

-----------------------------------------------------------------------------
(* Colours, of a palette in order.                                         *)

(* pickBlockColor: one of the least used is drawn. *)
PickBlockColor(palette, used, exclude) ==
    LET Count(c) == Cardinality({n \in DOMAIN used : used[n] = c})
        open == ToSet(palette) \ exclude
    IN  {c \in open : \A d \in open : Count(c) <= Count(d)}

Colors(blocks) == {b.color : b \in {b \in ToSet(blocks) : Has(b, "color")}}
AssignMissingBlockColors(palette, blocks) ==
    LET Free(bs) == {n \in DOMAIN palette : palette[n] \notin Colors(bs)}
        Next(bs, n) == IF Free(bs) # {} THEN palette[Min(Free(bs))]
                       ELSE palette[1 + ((n - 1) % Len(palette))]
        Assign(bs, n) == IF Has(bs[n], "color") THEN bs
                         ELSE [bs EXCEPT ![n] = ("color" :> Next(bs, n)) @@ @]
    IN  FoldLeft(Assign, blocks, [n \in DOMAIN blocks |-> n])

-----------------------------------------------------------------------------
(* reparentSubPlans: a sub-plan is stored in the plan of its first handle. *)

HandlesIn(t, p) == LET hs == SelectSeq(t[p].rows, IsHandle) IN [n \in DOMAIN hs |-> hs[n].plan]
FirstHolder(t, root, q) == SelectSeq(StoredOrder(t, root), LAMBDA p : q \in ToSet(HandlesIn(t, p)))

HomeOf(t, root, q) ==
    LET holders == FirstHolder(t, root, q)
    IN  IF holders = <<>> \/ Head(holders) = q THEN Parent(t, q) ELSE Head(holders)

(* The tree with every sub-plan in its home: those that stay keep their    *)
(* order, the others follow in the order of their handles.                 *)
Rehomed(t, home) ==
    LET Stay(p) == SelectSeq(t[p].subs, LAMBDA q : home[q] = p)
        Adopted(p) == SelectSeq(HandlesIn(t, p), LAMBDA q : /\ q \in DOMAIN home \ ToSet(Stay(p))
                                                            /\ home[q] = p)
        Once(s) == LET at == SetToSortSeq({n \in DOMAIN s : \A m \in 1..(n - 1) : s[m] # s[n]}, <)
                   IN  [k \in DOMAIN at |-> s[at[k]]]
    IN  [p \in DOMAIN t |-> [t[p] EXCEPT !.subs = Stay(p) \o Once(Adopted(p))]]

(* What a cycle of moves cuts off goes back to where it was stored. *)
ReparentSubPlans(t, root) ==
    LET stored == [q \in DOMAIN t \ {root} |-> Parent(t, q)]
        try[n \in Nat, home \in [DOMAIN stored -> DOMAIN t]] ==
            LET built == Rehomed(t, home)
                placed == Branch(built, root)
            IN  IF n = 0 \/ placed = DOMAIN t THEN built
                ELSE try[n - 1, [q \in DOMAIN home |-> IF q \in placed THEN home[q] ELSE stored[q]]]
    IN  try[Cardinality(DOMAIN t), [q \in DOMAIN stored |-> HomeOf(t, root, q)]]

-----------------------------------------------------------------------------
(* Reading and importing a file of [blocks, active] and maybe a stamp.     *)

ReadBlocks(palette, raw) ==
    LET blocks == MigrateLegacyPulls(AssignMissingBlockColors(palette, raw))
        Read(b) == [b EXCEPT !.plans = ReparentSubPlans(@, b.root),
                             !.conns = [n \in DOMAIN @ |-> [@[n] EXCEPT !.pull = FALSE]]]
    IN  [n \in DOMAIN blocks |-> Read(MigrateBlock(blocks[n]))]

FindUnknownPlanIds(blocks, recipes, items) ==
    UNION {(RecipesIn(b.plans, DOMAIN b.plans) \ recipes) \cup ({p.item : p \in ToSet(b.products)} \ items)
           : b \in ToSet(blocks)}

FindDuplicateId(blocks) ==
    LET Rows(b) == FlattenSeq([n \in DOMAIN StoredOrder(b.plans, b.root) |->
                                  b.plans[StoredOrder(b.plans, b.root)[n]].rows])
        Twice(s) == Cardinality({s[n].id : n \in DOMAIN s}) # Len(s)
    IN  Twice(blocks) \/ \E b \in ToSet(blocks) : Twice(Rows(b))

CheckPlanImport(palette, file, recipes, items, source) ==
    LET blocks == ReadBlocks(palette, file.blocks)
    IN  IF blocks = <<>> \/ FindDuplicateId(blocks) THEN [type |-> "error"]
        ELSE [type |-> "ok", blocks |-> blocks,
              active |-> IF file.active \in BlockIds(blocks) THEN file.active ELSE blocks[1].id,
              unknown |-> FindUnknownPlanIds(blocks, recipes, items),
              mismatch |-> Has(file, "stamp") /\ file.stamp # source]
=============================================================================
