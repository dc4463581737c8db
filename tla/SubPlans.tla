------------------------------ MODULE SubPlans ------------------------------
(***************************************************************************)
(* The rows of a block: a tree of sub-plans, each with its rows in order   *)
(* and the sub-plans stored in it.  A row is a recipe, or the handle that  *)
(* shows a sub-plan in the table of the plan that holds it.                *)
(*                                                                         *)
(* The code nests the sub-plans.  Here the tree is flat: a function from   *)
(* the ids of the plans reachable from the root to their contents, so that *)
(* looking a plan up by id is membership and cutting a branch is Kept.     *)
(* Timestamps (touchSubPlan) are left out.                                 *)
(***************************************************************************)
EXTENDS Naturals, SequencesExt

Row(id, recipe) == [id |-> id, recipe |-> recipe, machine |-> 0, fuel |-> 0]
Handle(id, plan) == [id |-> id, plan |-> plan]
IsHandle(row) == "plan" \in DOMAIN row
IsHandleOf(row, p) == IsHandle(row) /\ row.plan = p

SubPlan(name, rows) == [name |-> name, area |-> FALSE, rows |-> rows, subs |-> <<>>]

-----------------------------------------------------------------------------
(* Where things are.                                                       *)

Children(t, P) == UNION {ToSet(t[p].subs) : p \in P \cap DOMAIN t}

(* findSubPlan(ancestor, _): the ids of the branch of p. *)
Branch(t, p) ==
    LET down[n \in Nat] == IF n = 0 THEN {p} ELSE down[n - 1] \cup Children(t, down[n - 1])
    IN  down[Cardinality(DOMAIN t)] \cap DOMAIN t

IsSubPlanDescendant(t, ancestor, p) == ancestor \in DOMAIN t /\ p \in Branch(t, ancestor)

Copy(t, p) == Restrict(t, Branch(t, p))
Kept(t, root) == Copy(t, root)

RowIds(t, p) == {r.id : r \in ToSet(t[p].rows)}
Holders(t, id) == {p \in DOMAIN t : id \in RowIds(t, p)}
Holder(t, id) == CHOOSE p \in Holders(t, id) : TRUE
Parents(t, q) == {p \in DOMAIN t : q \in ToSet(t[p].subs)}
Parent(t, q) == CHOOSE p \in Parents(t, q) : TRUE

Position(rows, Is(_)) == CHOOSE i \in DOMAIN rows : Is(rows[i])
RowIndex(t, p, id) == Position(t[p].rows, LAMBDA r : r.id = id)
RowOf(t, id) == LET p == Holder(t, id) IN t[p].rows[RowIndex(t, p, id)]
AllRows(t) == UNION {ToSet(t[p].rows) : p \in DOMAIN t}

-----------------------------------------------------------------------------
(* Changing the tree.                                                      *)

(* updateSubPlanInTree: nothing when the plan is not there. *)
Update(t, p, Fn(_)) == IF p \in DOMAIN t THEN [t EXCEPT ![p] = Fn(@)] ELSE t

(* splice(i - 1, 0, x): past the end it appends. *)
Splice(s, i, x) == IF i > Len(s) THEN Append(s, x) ELSE InsertAt(s, i, x)

(* A slip: a row that comes back comes back last. *)
PutRowLast(t, p, i, row) == Update(t, p, LAMBDA q : [q EXCEPT !.rows = Append(@, row)])

PutRow(t, p, i, row) == Update(t, p, LAMBDA q : [q EXCEPT !.rows = Splice(@, i, row)])
AddRow(t, p, row) == Update(t, p, LAMBDA q : [q EXCEPT !.rows = Append(@, row)])
DropRow(t, p, id) ==
    Update(t, p, LAMBDA q : [q EXCEPT !.rows = SelectSeq(@, LAMBDA r : r.id # id)])
ReplaceRow(t, p, id, row) ==
    Update(t, p, LAMBDA q :
        [q EXCEPT !.rows = [i \in DOMAIN @ |-> IF @[i].id = id THEN row ELSE @[i]]])

(* A branch stored as sub-plan i of p. *)
Graft(t, p, i, q, branch) ==
    IF p \in DOMAIN t
    THEN [t EXCEPT ![p].subs = Splice(@, i, q)] @@ branch
    ELSE t
Unlink(t, p, q) == Update(t, p, LAMBDA s : [s EXCEPT !.subs = SelectSeq(@, LAMBDA x : x # q)])

(* A slip: the handles of the sub-plan stay in the table. *)
PruneKeepingHandles(t, root, q) ==
    Kept([p \in DOMAIN t |-> [t[p] EXCEPT !.subs = SelectSeq(@, LAMBDA x : x # q)]], root)

(* removeSubPlanFromTree and removeSubPlanNodeReferences: the branch of q  *)
(* goes, and every handle of q.                                            *)
Prune(t, root, q) ==
    LET cut == [p \in DOMAIN t |->
                  [t[p] EXCEPT !.subs = SelectSeq(@, LAMBDA x : x # q),
                               !.rows = SelectSeq(@, LAMBDA r : ~IsHandleOf(r, q))]]
    IN  Kept(cut, root)

(* Swap row id with the one above it; nothing at the top. *)
Raise(t, p, id) ==
    IF p \notin DOMAIN t \/ id \notin RowIds(t, p) THEN t
    ELSE LET i == RowIndex(t, p, id)
         IN  IF i = 1 THEN t
             ELSE [t EXCEPT ![p].rows = [@ EXCEPT ![i - 1] = t[p].rows[i], ![i] = t[p].rows[i - 1]]]
Lower(t, p, id) ==
    IF p \notin DOMAIN t \/ id \notin RowIds(t, p) THEN t
    ELSE LET i == RowIndex(t, p, id)
         IN  IF i = Len(t[p].rows) THEN t
             ELSE [t EXCEPT ![p].rows = [@ EXCEPT ![i] = t[p].rows[i + 1], ![i + 1] = t[p].rows[i]]]

(* cloneSubPlanTree: a copy in which every id is moved up by n, past all   *)
(* the ids drawn so far.  A handle of a plan outside the branch keeps it.  *)
ShiftRow(row, ids, n) ==
    IF IsHandle(row)
    THEN [id |-> row.id + n, plan |-> IF row.plan \in ids THEN row.plan + n ELSE row.plan]
    ELSE [row EXCEPT !.id = @ + n]
Shifted(t, n) ==
    [p \in {q + n : q \in DOMAIN t} |->
        LET q == t[p - n]
        IN  [q EXCEPT !.rows = [i \in DOMAIN @ |-> ShiftRow(@[i], DOMAIN t, n)],
                      !.subs = [i \in DOMAIN @ |-> @[i] + n]]]

-----------------------------------------------------------------------------
(* Areas: the rows of a plan are solved with its nearest enclosing area.   *)

(* subPlanAreaIds. *)
AreaOf(t, root, p) ==
    LET up[n \in Nat, q \in DOMAIN t] ==
            IF n = 0 \/ q = root \/ t[q].area THEN q ELSE up[n - 1, Parent(t, q)]
    IN  up[Cardinality(DOMAIN t), p]
IsArea(t, root, p) == p \in DOMAIN t /\ AreaOf(t, root, p) = p

RecipesIn(t, P) == {r.recipe : r \in {r \in UNION {ToSet(t[p].rows) : p \in P} : ~IsHandle(r)}}

(* areaRecipeIds. *)
AreaRecipes(t, root, p) ==
    IF p \notin DOMAIN t THEN {}
    ELSE RecipesIn(t, {q \in DOMAIN t : AreaOf(t, root, q) = AreaOf(t, root, p)})

(* subPlanCopyBlocker: may a copy of q go into area a? *)
Joining(t, q) == RecipesIn(t, {p \in Branch(t, q) : AreaOf(Copy(t, q), q, p) = q})
CanCopy(t, root, q, a) ==
    /\ q # root /\ q \in DOMAIN t /\ IsArea(t, root, a)
    /\ a \notin Branch(t, q)
    /\ t[q].area \/ Joining(t, q) \cap AreaRecipes(t, root, a) = {}
=============================================================================
