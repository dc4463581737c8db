------------------------------ MODULE Summary -------------------------------
(***************************************************************************)
(* The summary of the block shown (FactorySummary.tsx): a slot for each    *)
(* product, byproduct and ingredient, its rate split into segments by who  *)
(* takes it, what stays and what is missing (components/factory/           *)
(* summarySegments.ts, summaryRows.ts).                                    *)
(*                                                                         *)
(* Rates are tenths of an item per minute, above the solver's tolerances.  *)
(* A flow is [id, from, to, item, rate, available, capped, status, kind,   *)
(* requested, loop]; a block [id, products, connections, locks, net,       *)
(* unsatisfied], net being <<>> for an item the rows neither make nor use. *)
(***************************************************************************)
EXTENDS Integers, SequencesExt

AboveZero(n) == IF n > 0 THEN n ELSE 0
Sum(s, Of(_)) == FoldLeft(LAMBDA total, x : total + Of(x), 0, s)
Optional(given, x) == IF given THEN <<x>> ELSE <<>>
Unset == -1
Total(segments) == Sum(segments, LAMBDA s : s.amount)

-----------------------------------------------------------------------------
(* Segments.  A key tells the trace which belong together: the block at    *)
(* the other end, or what the part is.                                     *)

Part(kind, amount) == [key |-> <<kind, 0>>, kind |-> kind, amount |-> amount, limited |-> FALSE, loop |-> FALSE, asked |-> Unset]
Overlay(key, kind) == [key |-> key, kind |-> kind]
ExportSegments(exports) ==
    [n \in DOMAIN exports |->
        [Part("export", exports[n].rate) EXCEPT
            !.key = <<"to", exports[n].to>>, !.loop = exports[n].loop,
            !.asked = IF exports[n].kind = "request" THEN exports[n].requested ELSE Unset]]

(* A gap counts when it survives rounding to two decimals of the unit.     *)
Visible(gap, unit) == gap >= IF unit = "s" THEN 3 ELSE 1
IsShortfall(target, actual, unit) == actual < target /\ Visible(target - actual, unit)
DiffersFromTarget(target, actual, unit) == IsShortfall(target, actual, unit) \/ IsShortfall(actual, target, unit)

-----------------------------------------------------------------------------
(* productSlot.  What the block falls short of is taken from the extra     *)
(* first, then from the requests.                                          *)

ShortFrom(missing, extra, requests) ==
    LET part == Min({extra, missing})
        blamed == SelectSeq(requests, LAMBDA f : f.status = "limited" /\ f.rate < f.requested)
    IN  [extra |-> part, requests |-> missing - part,
         blocks |-> IF missing > part THEN [n \in DOMAIN blamed |-> blamed[n].to] ELSE <<>>]
ProductSlot(product, solved, actual, exports, requests, unit) ==
    LET extra == AboveZero(product.extra)
        required == extra + Sum(requests, LAMBDA f : f.requested)
        asked == required > 0
        empty == ~asked /\ exports = <<>> /\ (solved => actual <= 0)
        kept == AboveZero(actual - Total(ExportSegments(exports)))
        short == asked /\ IsShortfall(required, actual, unit)
        segments == ExportSegments(exports) \o Optional(kept > 0, Part("kept", kept))
                        \o Optional(short, Part("short", required - actual))
        slot == [id |-> product.id, item |-> product.item, empty |-> empty, required |-> required,
                 extra |-> product.extra, rate |-> 0, scale |-> 0, segments |-> <<>>, overlays |-> <<>>,
                 short |-> FALSE, tick |-> FALSE, shortFrom |-> <<>>]
    IN  IF empty THEN slot
        ELSE IF ~solved THEN [slot EXCEPT !.rate = required, !.scale = required]
        ELSE [slot EXCEPT !.segments = segments, !.scale = Max({required, Total(segments)}),
                          !.rate = IF asked THEN actual ELSE AboveZero(actual), !.short = short,
                          !.tick = asked /\ DiffersFromTarget(required, actual, unit),   \* at required / scale
                          !.shortFrom = Optional(short, ShortFrom(required - actual, extra, requests))]

-----------------------------------------------------------------------------
(* Byproducts: what is left after the exports, then what is only exported. *)

ByproductSlot(i, left, exports) ==
    LET segments == ExportSegments(exports) \o Optional(left > 0, Part("left", left))
    IN  [id |-> i, item |-> i, rate |-> AboveZero(left), scale |-> Total(segments),
         segments |-> segments, overlays |-> <<>>]
ByproductRows(left, exported) ==
    LET over == SetToSortSeq({i \in DOMAIN left : left[i] > 0}, <)
    IN  over \o SelectSeq(exported, LAMBDA i : ~Contains(over, i))

-----------------------------------------------------------------------------
(* Ingredients: connected items first, then imported, then locked ones.    *)

Distinct(s) == FoldLeft(LAMBDA r, x : IF Contains(r, x) THEN r ELSE Append(r, x), <<>>, s)
IngredientRows(connections, unsatisfied, locks) ==
    LET imported == SelectSeq(unsatisfied, LAMBDA u : u.rate > 0)
    IN  Distinct([n \in DOMAIN connections |-> connections[n].item]
                    \o [n \in DOMAIN imported |-> imported[n].item] \o locks)
ImportOf(unsatisfied, i) ==
    LET of == SelectSeq(unsatisfied, LAMBDA u : u.item = i /\ u.rate > 0)
    IN  IF of = <<>> THEN 0 ELSE Last(of).rate

(* A connection shows its flow, or why it brings nothing.  Before the      *)
(* first solve it shows nothing.  NoStatus: no flow of an existing source. *)
NoStatus == "no status"
FlowsOf(c, flows) == SelectSeq(flows, LAMBDA f : f.id = c.id)
StatusOf(c, flows, blockIds) ==
    IF FlowsOf(c, flows) # <<>> THEN Last(FlowsOf(c, flows)).status
    ELSE IF c.from \in blockIds THEN NoStatus ELSE "missing-source"
CappingLimit(limited, capped, maxRate) == IF limited /\ capped THEN maxRate ELSE Unset
SourceSegment(c, f) ==
    [key |-> <<"from", c.from>>, kind |-> "source", amount |-> f.rate, limited |-> f.status = "limited",
     loop |-> f.loop, connection |-> c.id, available |-> f.available, requested |-> f.kind = "request",
     cap |-> CappingLimit(f.status = "limited", f.capped, c.maxRate)]
IngredientSlot(i, connections, import, locked, flows, blockIds) ==
    LET mine == SelectSeq(connections, LAMBDA c : c.item = i)
        Carries(c) == /\ StatusOf(c, flows, blockIds) \in {"ok", "limited"}
                      /\ Last(FlowsOf(c, flows)).rate > 0
        carrying == SelectSeq(mine, Carries)
        marked == SelectSeq(mine, LAMBDA c : StatusOf(c, flows, blockIds) \in {"unused", "self", "missing-source"})
        segments == [n \in DOMAIN carrying |-> SourceSegment(carrying[n], Last(FlowsOf(carrying[n], flows)))]
                        \o Optional(import > 0, Part("import", import))
    IN  [id |-> i, item |-> i, rate |-> Total(segments), scale |-> Total(segments), segments |-> segments,
         overlays |-> [n \in DOMAIN marked |-> Overlay(<<"from", marked[n].from>>, StatusOf(marked[n], flows, blockIds))]
                        \o Optional(locked, Overlay(<<"locked", 0>>, "locked")),
         status |-> IF \E s \in ToSet(segments) : s.limited THEN "limited" ELSE IF locked THEN "locked" ELSE "none",
         dimmed |-> locked \/ Total(segments) = 0]

-----------------------------------------------------------------------------
(* FactorySummary: the three panes of block b.                             *)

NetOf(b, i) == IF i \in DOMAIN b.net THEN b.net[i] ELSE 0
OutputFlows(b, flows) == SelectSeq(flows, LAMBDA f : f.from = b.id /\ f.rate > 0)
ExportsOf(b, flows, i) == SelectSeq(OutputFlows(b, flows), LAMBDA f : f.item = i)
RequestsOf(b, flows, i) == SelectSeq(flows, LAMBDA f : f.from = b.id /\ f.kind = "request" /\ f.item = i)
ProductItems(b) == {p.item : p \in ToSet(b.products)}

(* The solver adds what is requested to the first product of the item. *)
ProductSlots(b, flows, solved, unit) ==
    [n \in DOMAIN b.products |->
        LET p == b.products[n]
            first == \A k \in 1..(n - 1) : b.products[k].item # p.item
        IN  ProductSlot(p, solved, NetOf(b, p.item), ExportsOf(b, flows, p.item),
                        IF first THEN RequestsOf(b, flows, p.item) ELSE <<>>, unit)]
ByproductSlots(b, flows) ==
    LET out == OutputFlows(b, flows)
        left == [i \in DOMAIN b.net \ ProductItems(b) |->
                    b.net[i] - Sum(ExportsOf(b, flows, i), LAMBDA f : f.rate)]
        exported == SelectSeq(Distinct([n \in DOMAIN out |-> out[n].item]), LAMBDA i : i \notin ProductItems(b))
        rows == ByproductRows(left, exported)
    IN  [n \in DOMAIN rows |->
            ByproductSlot(rows[n], IF rows[n] \in DOMAIN left THEN left[rows[n]] ELSE 0, ExportsOf(b, flows, rows[n]))]
IngredientSlots(b, flows, blockIds) ==
    LET rows == IngredientRows(b.connections, b.unsatisfied, b.locks)
        mine == SelectSeq(flows, LAMBDA f : f.to = b.id)
    IN  [n \in DOMAIN rows |->
            IngredientSlot(rows[n], b.connections, ImportOf(b.unsatisfied, rows[n]),
                           Contains(b.locks, rows[n]), mine, blockIds)]

-----------------------------------------------------------------------------
(* overviewRows: a row per key across the slots of a pane, blocks first.   *)
(* A key that is on a segment anywhere has the kind of the first segment.  *)

SlotHasKey(slot, key) == \E e \in ToSet(slot.segments) \cup ToSet(slot.overlays) : e.key = key
KeyRank(key) == IF key[1] \in {"kept", "left"} THEN 1 ELSE IF key[1] \in {"short", "import"} THEN 2
                ELSE IF key[1] = "locked" THEN 3 ELSE 0
OverviewRow(slots, key) ==
    LET segments == SelectSeq(FlattenSeq([n \in DOMAIN slots |-> slots[n].segments]), LAMBDA s : s.key = key)
        overlays == SelectSeq(FlattenSeq([n \in DOMAIN slots |-> slots[n].overlays]), LAMBDA o : o.key = key)
    IN  [key |-> key, kind |-> Head(segments \o overlays).kind, total |-> Total(segments),
         count |-> Len(SelectSeq(slots, LAMBDA s : SlotHasKey(s, key))),
         limited |-> \E s \in ToSet(segments) : s.limited, loop |-> \E s \in ToSet(segments) : s.loop]
OverviewRows(slots) ==
    LET marks == FlattenSeq([n \in DOMAIN slots |->
                    [k \in DOMAIN slots[n].segments |-> slots[n].segments[k].key]
                        \o [k \in DOMAIN slots[n].overlays |-> slots[n].overlays[k].key]])
        keys == Distinct(marks)
        ranked == FlattenSeq([k \in 1..4 |-> SelectSeq(keys, LAMBDA key : KeyRank(key) = k - 1)])
    IN  [n \in DOMAIN ranked |-> OverviewRow(slots, ranked[n])]

-----------------------------------------------------------------------------
(* keyEntryText: what the colour key says of a segment of a product slot,  *)
(* as [says, amount, of].                                                  *)

KeyEntry(slot, e) ==
    LET plain == [says |-> "plain", amount |-> e.amount, of |-> Unset]
    IN  CASE e.kind = "export" /\ e.asked # Unset ->
                IF e.amount >= e.asked THEN [plain EXCEPT !.says = "requests", !.amount = e.asked]
                ELSE [plain EXCEPT !.says = "requests", !.of = e.asked]
          [] e.kind = "kept" /\ slot.extra # Unset /\ e.amount <= slot.extra ->
                [plain EXCEPT !.says = "extra", !.of = slot.extra]
          [] e.kind = "short" ->
                LET from == slot.shortFrom[1]
                IN  [plain EXCEPT !.says = IF from.extra > 0 /\ from.blocks # <<>> THEN "extra and requests"
                                           ELSE IF from.extra > 0 THEN "extra"
                                           ELSE IF from.blocks # <<>> THEN "requests" ELSE "plain"]
          [] OTHER -> plain
=============================================================================
