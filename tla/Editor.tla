------------------------------- MODULE Editor -------------------------------
(***************************************************************************)
(* The block store (blockStore.ts): the blocks of the plan, the one being  *)
(* edited, and for each block the stack of commands undo takes back and    *)
(* the stack redo makes again.                                             *)
(*                                                                         *)
(* Every command is made for one block and its entry goes to the history   *)
(* of that block, but undo and redo read the history of the active block   *)
(* only.  Adding, removing, copying and moving blocks is not undoable, so  *)
(* a command may find another plan around its block than it left.          *)
(***************************************************************************)
EXTENDS Commands

CONSTANTS
    Recipes, Rates, Modes,          \* what an edit can name, with Items
    Starts                          \* loaded plans: [blocks, active, next, menu]

IdsOf(bs) == {bs[n].id : n \in DOMAIN bs}

(* Every connection reads from another block that exists, and no two of a  *)
(* block read the same item from the same source.                          *)
Linked(bs) ==
    \A n \in DOMAIN bs : \A c \in bs[n].conns :
      /\ c.from \in IdsOf(bs) \ {bs[n].id}
      /\ \A d \in bs[n].conns : d.item = c.item /\ d.from = c.from => d = c

(* A plan is loaded as the editor saved it, with ids drawn before.         *)
ASSUME StartsAssumption ==
    \A s \in Starts :
      /\ s.next \in Nat /\ IdsOf(s.blocks) \subseteq 0..(s.next - 1)
      /\ s.blocks \in Seq(ToSet(s.blocks)) /\ s.active \in IdsOf(s.blocks)
      /\ \A n \in DOMAIN s.blocks : {"id", "conns"} \subseteq DOMAIN s.blocks[n]
      /\ Linked(s.blocks)

VARIABLES
    blocks,         \* sequence of the blocks of the plan
    active,         \* id of the active block
    history,        \* block id -> [undo, redo], for blocks that have one
    horizon,        \* research horizon and default machines, as a version
    next,           \* next id to draw
    menu,           \* bounds: the groups of edits a behaviour uses, and the most edits
    edits,          \* edits so far
    lost            \* ids of connections dropped with their source, or by an
                    \* undo that was refused (a ghost: read by UndoRestores)

vars == <<blocks, active, history, horizon, next, menu, edits, lost>>

BlockIds == IdsOf(blocks)
BlockOf(id) == blocks[CHOOSE n \in DOMAIN blocks : blocks[n].id = id]
Active == BlockOf(active)
WithBlock(b) == [n \in DOMAIN blocks |-> IF blocks[n].id = b.id THEN b ELSE blocks[n]]

NoHistory == [undo |-> <<>>, redo |-> <<>>]
HistoryOf(id) == IF id \in DOMAIN history THEN history[id] ELSE NoHistory
(* A behaviour that takes nothing back keeps no history. *)
WithHistory(id, h) == IF "undo" \in menu.groups THEN (id :> h) @@ history ELSE history

(* makeEmptyBlock and its root plan: two ids. *)
EmptyBlock(id, products) ==
    [id |-> id, label |-> 0, root |-> id + 1, plans |-> (id + 1) :> SubPlan(0, <<>>),
     products |-> products, noImport |-> {}, sourcing |-> [i \in Items |-> Nothing],
     conns |-> {}]

Init ==
    \E s \in Starts :
      /\ blocks = s.blocks /\ active = s.active /\ next = s.next /\ menu = s.menu
      /\ history = <<>> /\ horizon = 0 /\ edits = 0 /\ lost = {}

-----------------------------------------------------------------------------
(* Making a command.                                                       *)

(* A group of edits this behaviour may still use. *)
MayUse(group) == group \in menu.groups /\ edits < menu.most /\ edits' = edits + 1
Draws(n) == next' = next + n

(* The block before the edit is a ghost, and whether a redo made it again. *)
Entry(c, b, redone) == [cmd |-> AfterApply(c, b), before |-> b, redone |-> redone]

(* applyCommand: the entry goes to the block's own history, and what could *)
(* be redone is forgotten.                                                 *)
ApplyCommand(c, id) ==
    LET b == BlockOf(id)
        h == HistoryOf(id)
    IN  /\ blocks' = WithBlock(Applied(c, b))
        /\ history' = WithHistory(id, [undo |-> Append(h.undo, Entry(c, b, FALSE)), redo |-> <<>>])

Edits(c, id) ==
    /\ ApplyCommand(c, id)
    /\ UNCHANGED <<active, horizon, menu, lost>>

-----------------------------------------------------------------------------
(* Products and the settings of items: commands of the active block.       *)

AddProduct == \E i \in Items, e \in Rates \cup {Nothing} :
    Edits([do |-> "addProduct", product |-> [id |-> next, item |-> i, extra |-> e]], active)
    /\ Draws(1)

RemoveProduct == \E n \in DOMAIN Active.products :
    Edits([do |-> "removeProduct", index |-> n, product |-> Active.products[n]], active)
    /\ UNCHANGED next

UpdateProductExtra == \E n \in DOMAIN Active.products, e \in Rates \cup {Nothing} :
    /\ Active.products[n].extra # e
    /\ Edits([do |-> "extra", id |-> Active.products[n].id, new |-> e,
                          old |-> Active.products[n].extra], active)
    /\ UNCHANGED next

ToggleNoImportItem == \E i \in Items :
    Edits([do |-> "noImport", item |-> i], active) /\ UNCHANGED next

SetItemSourcing == \E i \in Items, m \in Modes \cup {Nothing} :
    /\ Active.sourcing[i] # m
    /\ Edits([do |-> "sourcing", item |-> i, new |-> m, old |-> Active.sourcing[i]], active)
    /\ UNCHANGED next

-----------------------------------------------------------------------------
(* Connections: commands of the consumer, which need not be active.        *)

AddInputConnection == \E to \in BlockIds, from \in BlockIds, i \in Items :
    /\ CanConnect(BlockIds, BlockOf(to), i, from)
    /\ Edits([do |-> "connect", conn |-> Connection(next, i, from, Nothing)], to)
    /\ Draws(1)

RemoveInputConnection == \E to \in BlockIds : \E c \in BlockOf(to).conns :
    Edits([do |-> "disconnect", conn |-> c], to) /\ UNCHANGED next

SetConnectionMaxRate == \E to \in BlockIds, max \in Rates \cup {Nothing} : \E c \in BlockOf(to).conns :
    /\ c.max # max
    /\ Edits([do |-> "limit", id |-> c.id, new |-> max, old |-> c.max], to)
    /\ UNCHANGED next

(* The new block makes the item, becomes active, and is there to stay; the *)
(* request is a command of the consumer.                                   *)
AddBlockForItem == \E to \in BlockIds, i \in Items :
    LET new == EmptyBlock(next, <<[id |-> next + 2, item |-> i, extra |-> Nothing]>>)
        b == BlockOf(to)
        c == [do |-> "connect", conn |-> Connection(next + 3, i, new.id, Nothing)]
        h == HistoryOf(to)
    IN  /\ CanConnect(BlockIds \cup {new.id}, b, i, new.id)
        /\ blocks' = Append(WithBlock(Applied(c, b)), new)
        /\ history' = WithHistory(to, [undo |-> Append(h.undo, Entry(c, b, FALSE)), redo |-> <<>>])
        /\ active' = new.id
        /\ Draws(4)
        /\ UNCHANGED <<horizon, menu, lost>>

-----------------------------------------------------------------------------
(* Blocks: nothing here can be undone.                                     *)

AddBlock ==
    /\ blocks' = Append(blocks, EmptyBlock(next, <<>>))
    /\ active' = next
    /\ Draws(2)
    /\ UNCHANGED <<history, horizon, menu, lost>>

(* The connections that read from the block go with it, and its history. *)
RemoveBlock == \E k \in DOMAIN blocks :
    LET id == blocks[k].id
        left == RemoveAt(blocks, k)
        gone == {c \in UNION {b.conns : b \in ToSet(left)} : c.from = id}
    IN  /\ Len(blocks) > 1
        /\ blocks' = [n \in DOMAIN left |-> [left[n] EXCEPT !.conns = @ \ gone]]
        /\ history' = Restrict(history, DOMAIN history \ {id})
        /\ active' = IF active = id THEN left[1].id ELSE active
        /\ lost' = lost \cup {c.id : c \in gone}
        /\ UNCHANGED <<horizon, next, menu>>

(* cloneBlock: every id in the copy is new, its sources stay the same. *)
CloneBlock(b, n) ==
    [b EXCEPT !.id = @ + n, !.root = @ + n, !.plans = Shifted(@, n),
              !.products = [k \in DOMAIN @ |-> [@[k] EXCEPT !.id = @ + n]],
              !.conns = {Connection(c.id + n, c.item, c.from, c.max) : c \in @}]

DuplicateBlock == \E n \in DOMAIN blocks :
    /\ blocks' = InsertAt(blocks, n + 1, CloneBlock(blocks[n], next))
    /\ active' = blocks[n].id + next
    /\ Draws(next)
    /\ UNCHANGED <<history, horizon, menu, lost>>

MoveBlock == \E from \in DOMAIN blocks, to \in 1..Len(blocks) :
    /\ from # to
    /\ blocks' = InsertAt(RemoveAt(blocks, from), to, blocks[from])
    /\ UNCHANGED <<active, history, horizon, next, menu, lost>>

(* renameBlock and setBlockColor. *)
RelabelBlock == \E id \in BlockIds, l \in {0, 1} :
    /\ BlockOf(id).label # l
    /\ blocks' = WithBlock([BlockOf(id) EXCEPT !.label = l])
    /\ UNCHANGED <<active, history, horizon, next, menu, lost>>

SetActiveBlock == \E id \in BlockIds :
    /\ id # active
    /\ active' = id
    /\ UNCHANGED <<blocks, history, horizon, next, menu, edits, lost>>

(* setHorizonTechnologyIds, setDefaultMachine and resetDefaultMachines. *)
SetHorizon ==
    /\ horizon' = horizon + 1
    /\ UNCHANGED <<blocks, active, history, next, menu, lost>>

(* clonePlan: a copy of a whole plan shares no id with it, and its         *)
(* connections read from the copies.                                       *)
ClonePlan(bs, n) ==
    [k \in DOMAIN bs |->
        [CloneBlock(bs[k], n) EXCEPT !.conns =
            {[c EXCEPT !.from = IF @ \in IdsOf(bs) THEN @ + n ELSE @] : c \in @}]]

(* duplicatePlan: the copy is what is edited from now on. *)
DuplicatePlan ==
    /\ blocks' = ClonePlan(blocks, next)
    /\ active' = active + next
    /\ Draws(next)
    /\ history' = <<>>
    /\ UNCHANGED <<horizon, menu, lost>>

(* Another plan is loaded: no command of the old one survives. *)
SetAppState == \E s \in Starts :
    /\ s.menu = menu
    /\ blocks' = s.blocks /\ active' = s.active
    /\ next' = IF s.next > next THEN s.next ELSE next
    /\ history' = <<>>
    /\ UNCHANGED <<horizon, menu, lost>>

-----------------------------------------------------------------------------
(* Sub-plans of the active block.                                          *)

t == Active.plans
SubPlanIds == DOMAIN t \ {Active.root}

AddSubPlan == \E p \in DOMAIN t :
    /\ Edits([do |-> "addPlan", parent |-> p, at |-> Nothing, handle |-> Handle(next + 1, next),
                       snap |-> next :> SubPlan(1, <<>>)], active)
    /\ Draws(2)

RemoveSubPlan == \E p \in SubPlanIds :
    /\ Edits([do |-> "removePlan", plan |-> p, parent |-> Parent(t, p), snap |-> Nothing,
                       subIndex |-> Nothing, handle |-> Nothing, handleIndex |-> Nothing], active)
    /\ UNCHANGED next

(* After the source's handle when the area holds it, else at the end. *)
DuplicateSubPlanTo == \E p \in SubPlanIds, a \in DOMAIN t :
    LET Is(r) == IsHandleOf(r, p)
        held == \E r \in ToSet(t[a].rows) : Is(r)
        at == (IF held THEN Position(t[a].rows, Is) ELSE Len(t[a].rows)) + 1
        copy == Shifted(Copy(t, p), next)
    IN  /\ CanCopy(t, Active.root, p, a)
        /\ Edits([do |-> "addPlan", parent |-> a, at |-> at,
                           handle |-> Handle(2 * next, p + next),
                           snap |-> [copy EXCEPT ![p + next].name = 1]], active)
        /\ Draws(next + 1)

SetSubPlanArea == \E p \in SubPlanIds :
    /\ Edits([do |-> "area", plan |-> p, old |-> t[p].area, new |-> ~t[p].area], active)
    /\ UNCHANGED next

RenameSubPlan == \E p \in SubPlanIds, n \in {0, 1} :
    /\ t[p].name # n
    /\ Edits([do |-> "name", plan |-> p, old |-> t[p].name, new |-> n], active)
    /\ UNCHANGED next

WrapNodeInSubPlan == \E p \in DOMAIN t : \E r \in ToSet(t[p].rows) :
    /\ ~IsHandle(r)
    /\ Edits([do |-> "wrap", plan |-> p, id |-> r.id, handle |-> Handle(next + 1, next),
                       snap |-> next :> SubPlan(1, <<r>>)], active)
    /\ Draws(2)

-----------------------------------------------------------------------------
(* Rows of the active block.                                               *)

RecipeRows == {r \in AllRows(t) : ~IsHandle(r)}

AddNode == \E p \in DOMAIN t, r \in Recipes :
    Edits([do |-> "addRow", plan |-> p, row |-> Row(next, r)], active) /\ Draws(1)

(* The row again in another area that does not build its recipe. *)
BuildRowAlsoIn == \E r \in RecipeRows, a \in DOMAIN t :
    /\ IsArea(t, Active.root, a)
    /\ r.recipe \notin AreaRecipes(t, Active.root, a)
    /\ Edits([do |-> "addRow", plan |-> a, row |-> [r EXCEPT !.id = next]], active)
    /\ Draws(1)

(* The callers remove a handle with removeSubPlan, a recipe row here. *)
RemoveNode == \E r \in RecipeRows :
    Edits([do |-> "removeRow", plan |-> Holder(t, r.id), row |-> r], active) /\ UNCHANGED next

MoveNodeUp == \E r \in AllRows(t) :
    Edits([do |-> "up", plan |-> Holder(t, r.id), id |-> r.id], active) /\ UNCHANGED next
MoveNodeDown == \E r \in AllRows(t) :
    Edits([do |-> "down", plan |-> Holder(t, r.id), id |-> r.id], active) /\ UNCHANGED next

(* Drag and drop: not into the handle's own branch, not onto itself.  The  *)
(* plan of a handle is stored where its handle goes.                       *)
MoveNode == \E r \in AllRows(t), to \in DOMAIN t : \E i \in 1..(Len(t[to].rows) + 1) :
    LET from == Holder(t, r.id)
        at == RowIndex(t, from, r.id)
        norm == IF from = to /\ at < i THEN i - 1 ELSE i
        takes == IsHandle(r) /\ from # to /\ r.plan \in DOMAIN t /\ Parents(t, r.plan) \notin {{}, {to}}
        stored == IF takes THEN Parent(t, r.plan) ELSE Nothing
    IN  /\ IsHandle(r) => ~IsSubPlanDescendant(t, r.plan, to)
        /\ ~(from = to /\ at = norm)
        /\ Edits([do |-> "move", row |-> r, from |-> from, fromIndex |-> at, to |-> to, toIndex |-> norm,
                          moved |-> IF takes THEN r.plan ELSE Nothing, stored |-> stored,
                          storedIndex |-> IF takes THEN Position(t[stored].subs, LAMBDA q : q = r.plan)
                                          ELSE Nothing,
                          snap |-> IF takes THEN Copy(t, r.plan) ELSE Nothing], active)
        /\ UNCHANGED next

(* The setters of a row: those of the machine, modules, beacon, pin and    *)
(* policies write the value as it comes, those of fuel and neighbours make *)
(* no command when it is the same.                                         *)
WritesMachine(r, m) ==
    Edits([do |-> "machine", plan |-> Holder(t, r.id), id |-> r.id, old |-> r.machine, new |-> m], active)
UpdateNodeMachine == \E r \in RecipeRows, m \in {0, 1} : WritesMachine(r, m) /\ UNCHANGED next
UpdateNodeFuel == \E r \in RecipeRows, f \in {0, 1} :
    /\ r.fuel # f
    /\ Edits([do |-> "fuel", plan |-> Holder(t, r.id), id |-> r.id,
                          old |-> r.fuel, new |-> f], active)
    /\ UNCHANGED next

(* Another recipe in the row: it starts unconfigured. *)
UpdateNodeRecipe == \E r \in RecipeRows, n \in Recipes :
    /\ Edits([do |-> "recipe", plan |-> Holder(t, r.id), old |-> r, new |-> n], active)
    /\ UNCHANGED next

ApplyRowSettingsToRecipe == \E r \in RecipeRows :
    LET others == {o \in RecipeRows : o.id # r.id /\ o.recipe = r.recipe /\ ~SameSettings(o, r)}
    IN  /\ others # {}
        /\ Edits([do |-> "settings", new |-> PickSettings(r),
                              old |-> [id \in {o.id : o \in others} |-> PickSettings(RowOf(t, id))]], active)
        /\ UNCHANGED next

-----------------------------------------------------------------------------
(* Undo and redo, of the active block.  A command whose guard says no is   *)
(* dropped, and the other stack is kept.                                   *)

Undo ==
    LET h == HistoryOf(active)
        e == Last(h.undo)
        c == e.cmd
    IN  /\ h.undo # <<>>
        /\ IF CanUndo(c, BlockIds, Active)
           THEN /\ blocks' = WithBlock(Undone(c, Active))
                /\ history' = WithHistory(active,
                     [undo |-> Front(h.undo), redo |-> Append(h.redo, [e EXCEPT !.cmd = AfterUndo(c, Active)])])
                /\ UNCHANGED lost
           ELSE /\ history' = WithHistory(active, [h EXCEPT !.undo = Front(@)])
                /\ lost' = IF c.do = "disconnect" THEN lost \cup {c.conn.id} ELSE lost
                /\ UNCHANGED blocks
        /\ UNCHANGED <<active, horizon, next, menu, edits>>

Redo ==
    LET h == HistoryOf(active)
        c == Last(h.redo).cmd
    IN  /\ h.redo # <<>>
        /\ IF CanApply(c, BlockIds, Active)
           THEN /\ blocks' = WithBlock(Applied(c, Active))
                /\ history' = WithHistory(active,
                     [undo |-> Append(h.undo, Entry(c, Active, TRUE)), redo |-> Front(h.redo)])
           ELSE /\ history' = WithHistory(active, [h EXCEPT !.redo = Front(@)])
                /\ UNCHANGED blocks
        /\ UNCHANGED <<active, horizon, next, menu, edits, lost>>

-----------------------------------------------------------------------------
EditProducts == AddProduct \/ RemoveProduct \/ UpdateProductExtra
EditItems == ToggleNoImportItem \/ SetItemSourcing
EditConnections == AddInputConnection \/ RemoveInputConnection \/ SetConnectionMaxRate
EditBlocks == AddBlockForItem \/ AddBlock \/ RemoveBlock \/ DuplicateBlock \/ MoveBlock \/ RelabelBlock
EditPlan == SetHorizon \/ SetAppState \/ DuplicatePlan
EditSubPlans ==
    \/ AddSubPlan \/ RemoveSubPlan \/ DuplicateSubPlanTo \/ SetSubPlanArea \/ RenameSubPlan
    \/ WrapNodeInSubPlan
EditRows == AddNode \/ BuildRowAlsoIn \/ RemoveNode \/ MoveNodeUp \/ MoveNodeDown \/ MoveNode
EditSettings == UpdateNodeMachine \/ UpdateNodeFuel \/ UpdateNodeRecipe \/ ApplyRowSettingsToRecipe

Next ==
    \/ MayUse("products") /\ EditProducts
    \/ MayUse("items") /\ EditItems
    \/ MayUse("connections") /\ EditConnections
    \/ MayUse("blocks") /\ EditBlocks
    \/ MayUse("plan") /\ EditPlan
    \/ MayUse("sub-plans") /\ EditSubPlans
    \/ MayUse("rows") /\ EditRows
    \/ MayUse("settings") /\ EditSettings
    \/ SetActiveBlock \/ Undo \/ Redo

Spec == Init /\ [][Next]_vars

-----------------------------------------------------------------------------
(* Properties.                                                             *)

(* However edits, undo and redo on different blocks interleave, every      *)
(* connection reads from another block that exists, and no two of a block  *)
(* read the same item from the same source.                                *)
ConnectionsSound == Linked(blocks)

(* The table and the solver see the same tree: every sub-plan has one      *)
(* handle, in the plan that stores it, and no row or plan is there twice.  *)
ExactlyOne(s, Is(_)) == \E i \in DOMAIN s : Is(s[i]) /\ \A j \in DOMAIN s \ {i} : ~Is(s[j])
HandlesMatch(b) ==
    LET u == b.plans
        Shown(p, q) == \E r \in ToSet(u[p].rows) : IsHandleOf(r, q)
    IN  /\ DOMAIN u = Branch(u, b.root) /\ Parents(u, b.root) = {}
        /\ \A q \in DOMAIN u \ {b.root} : \E p \in DOMAIN u :
             /\ Parents(u, q) = {p} /\ ExactlyOne(u[p].subs, LAMBDA x : x = q)
             /\ {o \in DOMAIN u : Shown(o, q)} = {p} /\ ExactlyOne(u[p].rows, LAMBDA r : IsHandleOf(r, q))
        /\ \A r \in AllRows(u) : IsHandle(r) => r.plan \in DOMAIN u \ {b.root}
RowsOnce(b) ==
    \A p, q \in DOMAIN b.plans : \A i \in DOMAIN b.plans[p].rows, j \in DOMAIN b.plans[q].rows :
      b.plans[p].rows[i].id = b.plans[q].rows[j].id => p = q /\ i = j
TreeSound == \A n \in DOMAIN blocks : HandlesMatch(blocks[n]) /\ RowsOnce(blocks[n])

(* Undo brings back the block the command was made for.  What may differ:  *)
(* connections lost with a source that was deleted, and the order of rows  *)
(* once a removed row was put back at the end or a row at the edge was     *)
(* moved.  The undo of the latest edit is exact but for those two, unless  *)
(* it was made again by a redo, whose captured positions may be stale.     *)
Unordered(u) == [p \in DOMAIN u |-> [u[p] EXCEPT !.rows = ToSet(@), !.subs = ToSet(@)]]
KeepsOrder(c, b) ==
    CASE c.do = "removeRow" -> FALSE
      [] c.do = "up" -> RowIndex(b.plans, c.plan, c.id) > 1
      [] c.do = "down" -> RowIndex(b.plans, c.plan, c.id) < Len(b.plans[c.plan].rows)
      [] OTHER -> TRUE
Restores(u, b) ==
    /\ u.products = b.products /\ u.noImport = b.noImport /\ u.sourcing = b.sourcing
    /\ u.conns \subseteq b.conns /\ {c.id : c \in b.conns \ u.conns} \subseteq lost
    /\ Unordered(u.plans) = Unordered(b.plans)
UndoRestores ==
    \A n \in DOMAIN blocks :
      LET b == blocks[n]
          h == HistoryOf(b.id)
          e == Last(h.undo)
      IN  h.undo # <<>> =>
            \/ e.cmd.do = "disconnect" /\ ~CanUndo(e.cmd, BlockIds, b)
            \/ /\ CanUndo(e.cmd, BlockIds, b)
               /\ Restores(Undone(e.cmd, b), e.before)
               /\ ~e.redone /\ h.redo = <<>> /\ KeepsOrder(e.cmd, e.before) => Undone(e.cmd, b).plans = e.before.plans
=============================================================================
