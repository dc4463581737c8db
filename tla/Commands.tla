------------------------------ MODULE Commands ------------------------------
(***************************************************************************)
(* The undoable edits of a block (blockStore.ts): what each command does,  *)
(* what its undo does, and the guards with which undo and redo drop it.    *)
(*                                                                         *)
(* A command is a closure in the code and a record here: the variables it  *)
(* captured when it was made are its fields.  Three kinds of command write *)
(* a captured variable when they run (the snapshot of a branch), which     *)
(* AfterApply and AfterUndo say.                                           *)
(*                                                                         *)
(* The order of a block's connections is left out (a set), that of its     *)
(* products is not: the first product of an item gets what is requested.   *)
(***************************************************************************)
EXTENDS SubPlans

CONSTANTS
    Nothing,                \* an absent value: no extra output, no limit, no plan
    Items

-----------------------------------------------------------------------------
(* Rules about connections (connections.ts, blockGraph.ts).                *)

HasProduct(b, i) == \E n \in DOMAIN b.products : b.products[n].item = i

(* A slip: the source is not looked up. *)
CanConnectAnywhere(ids, b, i, from) ==
    from # b.id /\ ~HasProduct(b, i) /\ ~\E c \in b.conns : c.item = i /\ c.from = from

CanConnect(ids, b, i, from) ==
    /\ from \in ids
    /\ from # b.id
    /\ ~HasProduct(b, i)
    /\ ~\E c \in b.conns : c.item = i /\ c.from = from

-----------------------------------------------------------------------------
(* Apply.                                                                  *)

WithSourcing(b, i, mode) == [b EXCEPT !.sourcing[i] = mode]
Toggled(S, i) == IF i \in S THEN S \ {i} ELSE S \cup {i}
Connection(id, i, from, max) == [id |-> id, item |-> i, from |-> from, max |-> max]
WithMaxRate(b, id, max) ==
    [b EXCEPT !.conns = {IF c.id = id THEN Connection(id, c.item, c.from, max) ELSE c : c \in b.conns}]
WithExtra(b, id, extra) ==
    [b EXCEPT !.products =
        [n \in DOMAIN @ |-> IF @[n].id = id THEN [@[n] EXCEPT !.extra = extra] ELSE @[n]]]
WithoutProduct(b, id) == [b EXCEPT !.products = SelectSeq(@, LAMBDA p : p.id # id)]
WithoutConn(b, id) == [b EXCEPT !.conns = {c \in @ : c.id # id}]

(* moveNode: the row goes to `to`, and the plan of a handle with it. *)
Moved(c, t, root) ==
    LET out == DropRow(t, c.from, c.row.id)
        cut == IF c.moved = Nothing THEN out
               ELSE Kept(Unlink(out, c.stored, c.moved), root)
        put == PutRow(cut, c.to, c.toIndex, c.row)
        now == IF c.moved \in DOMAIN t THEN Copy(t, c.moved) ELSE c.snap
    IN  IF c.moved = Nothing \/ c.to \notin DOMAIN cut THEN put
        ELSE Graft(put, c.to, Len(put[c.to].subs) + 1, c.moved, now)
MovedBack(c, t, root) ==
    LET out == DropRow(t, c.to, c.row.id)
        cut == IF c.moved = Nothing THEN out ELSE Kept(Unlink(out, c.to, c.moved), root)
        put == PutRow(cut, c.from, c.fromIndex, c.row)
        now == IF c.moved \in DOMAIN t THEN Copy(t, c.moved) ELSE c.snap
    IN  IF c.moved = Nothing THEN put
        ELSE Graft(put, c.stored, c.storedIndex, c.moved, now)

(* The settings rows of a recipe may share, machine and fuel together (the *)
(* beacon is another such setting).                                        *)
PickSettings(r) == [machine |-> r.machine, fuel |-> r.fuel]
SameSettings(a, b) == PickSettings(a) = PickSettings(b)
WithSettings(r, settings) == [r EXCEPT !.machine = settings.machine, !.fuel = settings.fuel]

(* mapGameRecipeNodes over the rows a settings command captured. *)
SetSettings(t, captured) ==
    LET Set(r) == IF r.id \in DOMAIN captured THEN WithSettings(r, captured[r.id]) ELSE r
    IN  [p \in DOMAIN t |-> [t[p] EXCEPT !.rows = [i \in DOMAIN @ |-> Set(@[i])]]]

(* nodeCommand: the row of that id in the captured plan. *)
SetRow(t, p, id, Fn(_)) ==
    Update(t, p, LAMBDA q :
        [q EXCEPT !.rows = [i \in DOMAIN @ |-> IF @[i].id = id THEN Fn(@[i]) ELSE @[i]]])

PlansAfterApply(c, t, root) ==
    CASE c.do = "addPlan" ->
           IF c.parent \notin DOMAIN t THEN t
           ELSE LET at == IF c.at = Nothing THEN Len(t[c.parent].rows) + 1 ELSE c.at
                    put == PutRow(t, c.parent, at, c.handle)
                IN  Graft(put, c.parent, Len(t[c.parent].subs) + 1, c.handle.plan, c.snap)
      [] c.do = "removePlan" -> Prune(t, root, c.plan)
      [] c.do = "area" -> Update(t, c.plan, LAMBDA p : [p EXCEPT !.area = c.new])
      [] c.do = "name" -> Update(t, c.plan, LAMBDA p : [p EXCEPT !.name = c.new])
      [] c.do = "addRow" -> AddRow(t, c.plan, c.row)
      [] c.do = "removeRow" -> DropRow(t, c.plan, c.row.id)
      [] c.do = "up" -> Raise(t, c.plan, c.id)
      [] c.do = "down" -> Lower(t, c.plan, c.id)
      [] c.do = "move" -> Moved(c, t, root)
      [] c.do = "machine" -> SetRow(t, c.plan, c.id, LAMBDA r : [r EXCEPT !.machine = c.new])
      [] c.do = "fuel" -> SetRow(t, c.plan, c.id, LAMBDA r : [r EXCEPT !.fuel = c.new])
      [] c.do = "recipe" -> SetRow(t, c.plan, c.old.id, LAMBDA r : Row(r.id, c.new))
      [] c.do = "settings" -> SetSettings(t, [id \in DOMAIN c.old |-> c.new])
      [] c.do = "wrap" ->
           IF c.plan \notin DOMAIN t THEN t
           ELSE LET put == ReplaceRow(t, c.plan, c.id, c.handle)
                IN  Graft(put, c.plan, Len(put[c.plan].subs) + 1, c.handle.plan, c.snap)

PlansAfterUndo(c, t, root) ==
    CASE c.do = "addPlan" -> Prune(t, root, c.handle.plan)
      [] c.do = "removePlan" ->
           IF c.parent \notin DOMAIN t THEN t
           ELSE LET put == IF c.handle = Nothing THEN t
                           ELSE PutRow(t, c.parent, c.handleIndex, c.handle)
                IN  Graft(put, c.parent, c.subIndex, c.plan, c.snap)
      [] c.do = "area" -> Update(t, c.plan, LAMBDA p : [p EXCEPT !.area = c.old])
      [] c.do = "name" -> Update(t, c.plan, LAMBDA p : [p EXCEPT !.name = c.old])
      [] c.do = "addRow" -> DropRow(t, c.plan, c.row.id)
      [] c.do = "removeRow" -> AddRow(t, c.plan, c.row)
      [] c.do = "up" -> Lower(t, c.plan, c.id)
      [] c.do = "down" -> Raise(t, c.plan, c.id)
      [] c.do = "move" -> MovedBack(c, t, root)
      [] c.do = "machine" -> SetRow(t, c.plan, c.id, LAMBDA r : [r EXCEPT !.machine = c.old])
      [] c.do = "fuel" -> SetRow(t, c.plan, c.id, LAMBDA r : [r EXCEPT !.fuel = c.old])
      [] c.do = "recipe" -> SetRow(t, c.plan, c.old.id, LAMBDA r : c.old)
      [] c.do = "settings" -> SetSettings(t, c.old)
      [] c.do = "wrap" ->
           LET s == IF c.handle.plan \in DOMAIN t THEN t[c.handle.plan] ELSE c.snap[c.handle.plan]
           IN  Kept(Unlink(ReplaceRow(t, c.plan, c.handle.id, s.rows[1]), c.plan, c.handle.plan), root)

Applied(c, b) ==
    CASE c.do = "addProduct" -> [b EXCEPT !.products = Append(@, c.product)]
      [] c.do = "removeProduct" -> WithoutProduct(b, c.product.id)
      [] c.do = "extra" -> WithExtra(b, c.id, c.new)
      [] c.do = "noImport" -> [b EXCEPT !.noImport = Toggled(@, c.item)]
      [] c.do = "sourcing" -> WithSourcing(b, c.item, c.new)
      [] c.do = "connect" -> [b EXCEPT !.conns = @ \cup {c.conn}]
      [] c.do = "disconnect" -> WithoutConn(b, c.conn.id)
      [] c.do = "limit" -> WithMaxRate(b, c.id, c.new)
      [] OTHER -> [b EXCEPT !.plans = PlansAfterApply(c, b.plans, b.root)]

Undone(c, b) ==
    CASE c.do = "addProduct" -> WithoutProduct(b, c.product.id)
      [] c.do = "removeProduct" -> [b EXCEPT !.products = Splice(@, c.index, c.product)]
      [] c.do = "extra" -> WithExtra(b, c.id, c.old)
      [] c.do = "noImport" -> [b EXCEPT !.noImport = Toggled(@, c.item)]
      [] c.do = "sourcing" -> WithSourcing(b, c.item, c.old)
      [] c.do = "connect" -> WithoutConn(b, c.conn.id)
      [] c.do = "disconnect" -> [b EXCEPT !.conns = @ \cup {c.conn}]
      [] c.do = "limit" -> WithMaxRate(b, c.id, c.old)
      [] OTHER -> [b EXCEPT !.plans = PlansAfterUndo(c, b.plans, b.root)]

-----------------------------------------------------------------------------
(* The guards, and the snapshots a command keeps of the branch it handles. *)

CanApply(c, ids, b) ==
    CASE c.do = "connect" -> CanConnect(ids, b, c.conn.item, c.conn.from)
      [] c.do = "addPlan" -> c.parent \in DOMAIN b.plans /\ c.handle.plan \notin DOMAIN b.plans
      [] c.do \in {"area", "name"} -> c.plan \in DOMAIN b.plans
      [] c.do = "wrap" -> /\ c.plan \in DOMAIN b.plans
                          /\ c.id \in RowIds(b.plans, c.plan)
                          /\ c.handle.plan \notin DOMAIN b.plans
      [] OTHER -> TRUE

CanUndo(c, ids, b) ==
    CASE c.do = "disconnect" -> CanConnect(ids, b, c.conn.item, c.conn.from)
      [] c.do = "addPlan" -> c.handle.plan \in DOMAIN b.plans
      [] c.do = "removePlan" -> /\ c.snap # Nothing
                                /\ c.parent \in DOMAIN b.plans
                                /\ c.plan \notin DOMAIN b.plans
      [] c.do \in {"area", "name"} -> c.plan \in DOMAIN b.plans
      [] c.do = "wrap" -> /\ c.plan \in DOMAIN b.plans
                          /\ c.handle.id \in RowIds(b.plans, c.plan)
                          /\ c.handle.plan \in ToSet(b.plans[c.plan].subs)
                          /\ Len(b.plans[c.handle.plan].rows) = 1
                          /\ b.plans[c.handle.plan].rows[1].id = c.id
                          /\ b.plans[c.handle.plan].subs = <<>>
      [] OTHER -> TRUE

(* removeSubPlan reads the branch, its place and its handle at each apply. *)
AfterApply(c, b) ==
    IF c.do # "removePlan" \/ c.parent \notin DOMAIN b.plans THEN c
    ELSE LET t == b.plans
             p == t[c.parent]
             Is(r) == IsHandleOf(r, c.plan)
             at == Position(p.rows, Is)
         IN  IF c.plan \notin ToSet(p.subs) THEN c
             ELSE [c EXCEPT !.snap = Copy(t, c.plan),
                            !.subIndex = Position(p.subs, LAMBDA q : q = c.plan),
                            !.handle = IF \E r \in ToSet(p.rows) : Is(r) THEN p.rows[at] ELSE Nothing,
                            !.handleIndex = IF \E r \in ToSet(p.rows) : Is(r) THEN at ELSE Nothing]

(* A new branch is read again at each undo, for the redo. *)
AfterUndo(c, b) ==
    IF c.do \in {"addPlan", "wrap"} /\ c.handle.plan \in DOMAIN b.plans
    THEN [c EXCEPT !.snap = Copy(b.plans, c.handle.plan)]
    ELSE c
=============================================================================
