---------------------------- MODULE RecipeAreas -----------------------------
(***************************************************************************)
(* Which rows build which recipe in which area: what the table's area      *)
(* actions, its by-recipe view and the columns of the area matrix read     *)
(* (components/factory/recipeAreas.ts, areaMatrix.ts).                     *)
(*                                                                         *)
(* t is a block's tree of sub-plans; a ref is a recipe row with its area   *)
(* and the plan that holds it.  solved gives the rows the solver has a     *)
(* result for their [ceil, exact, ins, outs, power], in whole numbers.     *)
(***************************************************************************)
EXTENDS Areas

Distinct(s) == FoldLeft(LAMBDA r, x : IF Contains(r, x) THEN r ELSE Append(r, x), <<>>, s)

Ref(t, root, p, row) == [id |-> row.id, recipe |-> row.recipe, plan |-> p, area |-> AreaOf(t, root, p)]

(* Tree order: a plan's own rows, then its sub-plans'. *)
TreePlans(t, root) ==
    LET from[n \in Nat, p \in DOMAIN t] ==
            IF n = 0 THEN <<>>
            ELSE <<p>> \o FlattenSeq([k \in DOMAIN t[p].subs |-> from[n - 1, t[p].subs[k]]])
    IN  from[Cardinality(DOMAIN t), root]
TreeRows(t, root) ==
    FlattenSeq([k \in DOMAIN TreePlans(t, root) |->
        LET p == TreePlans(t, root)[k]
            rows == SelectSeq(t[p].rows, LAMBDA r : ~IsHandle(r))
        IN  [n \in DOMAIN rows |-> Ref(t, root, p, rows[n])]])

(* The order of the table: a sub-plan stands where its handle is. *)
ShownRows(t, root) ==
    LET from[n \in Nat, p \in DOMAIN t] ==
            IF n = 0 THEN <<>>
            ELSE FlattenSeq([k \in DOMAIN t[p].rows |->
                    LET row == t[p].rows[k]
                    IN  IF ~IsHandle(row) THEN <<Ref(t, root, p, row)>>
                        ELSE IF row.plan \in ToSet(t[p].subs) THEN from[n - 1, row.plan]
                        ELSE <<>>])
    IN  from[Cardinality(DOMAIN t), root]

(* Stable-sorted by the rank of their areas. *)
InTableOrder(t, root, refs) ==
    FlattenSeq([k \in DOMAIN BlockAreas(t, root) |->
        SelectSeq(refs, LAMBDA r : r.area = BlockAreas(t, root)[k])])

HasAreas(t, root) == Len(BlockAreas(t, root)) > 1
RowsOfRecipe(refs, recipe) == SelectSeq(refs, LAMBDA r : r.recipe = recipe)
RowsByRecipe(t, root, recipe) == InTableOrder(t, root, RowsOfRecipe(TreeRows(t, root), recipe))
AreasOfRows(refs) == Distinct([n \in DOMAIN refs |-> refs[n].area])

-----------------------------------------------------------------------------
(* The by-recipe view, and the buildings a recipe takes.                   *)

RecipeGroups(t, root) ==
    LET refs == ShownRows(t, root)
        recipes == Distinct([n \in DOMAIN refs |-> refs[n].recipe])
    IN  [n \in DOMAIN recipes |->
            [recipe |-> recipes[n], rows |-> InTableOrder(t, root, RowsOfRecipe(refs, recipes[n]))]]

SolvedOf(solved, ref, field) == IF ref.id \in DOMAIN solved THEN solved[ref.id][field] ELSE 0
MultiAreaSummary(refs, here, solved) ==
    LET areas == AreasOfRows(refs)
        ordered == SelectSeq(areas, LAMBDA a : a = here) \o SelectSeq(areas, LAMBDA a : a # here)
        Total(S, field) == SumOver(S, LAMBDA n : SolvedOf(solved, refs[n], field))
    IN  [areaCount |-> Len(areas), rowCount |-> Len(refs),
         split |-> [k \in DOMAIN ordered |->
                        [area |-> ordered[k],
                         buildings |-> Total({n \in DOMAIN refs : refs[n].area = ordered[k]}, "ceil")]],
         buildings |-> Total(DOMAIN refs, "ceil"), exact |-> Total(DOMAIN refs, "exact")]

(* made: what each row is built for. *)
RecipeGroupRates(refs, made, solved) ==
    LET known == {n \in DOMAIN refs : refs[n].id \in DOMAIN solved}
        primary == {made[refs[n].id] : n \in DOMAIN refs}
        Rates(field) ==
            [i \in UNION {DOMAIN solved[refs[n].id][field] : n \in known} |->
                SumOver(known, LAMBDA n : Amount(solved[refs[n].id][field], i))]
    IN  [products |-> Restrict(Rates("outs"), DOMAIN Rates("outs") \cap primary),
         byproducts |-> Restrict(Rates("outs"), DOMAIN Rates("outs") \ primary),
         inputs |-> Rates("ins"), power |-> SumOver(known, LAMBDA n : solved[refs[n].id].power)]

-----------------------------------------------------------------------------
(* The area actions of a row.                                              *)

RefOf(refs, id) == CHOOSE r \in ToSet(refs) : r.id = id

(* The areas that use item i and have no row of the recipe of row id. *)
UsedIn(refs, a, i, solved) ==
    SumOver({r \in ToSet(refs) : r.area = a /\ r.id \in DOMAIN solved}, LAMBDA r : Amount(solved[r.id].ins, i))
BuildAlsoIn(areas, refs, id, i, solved) ==
    LET row == RefOf(refs, id)
        built == ToSet(AreasOfRows(RowsOfRecipe(refs, row.recipe)))
    IN  IF Len(areas) = 1 THEN <<>>
        ELSE SelectSeq(areas, LAMBDA a : a \notin built /\ UsedIn(refs, a, i, solved) > 0)

(* The areas a copy of sub-plan q may be sent to, and why not. *)
DuplicateTo(t, root, q) ==
    LET why(a) == IF CanCopy(t, root, q, a) THEN "none"
                  ELSE IF a \in Branch(t, q) THEN "inside" ELSE "recipes"
        areas == BlockAreas(t, root)
    IN  IF ~HasAreas(t, root) \/ q \notin DOMAIN t \/ q = root THEN <<>>
        ELSE [k \in DOMAIN areas |-> [area |-> areas[k], reason |-> why(areas[k])]]

(* The handles to open, outermost first, to see row id.  No row has id 0. *)
NotShown == <<0>>
AncestorHandles(t, root, id) ==
    LET to[n \in Nat, p \in DOMAIN t] ==
            IF n = 0 THEN NotShown
            ELSE IF id \in RowIds(t, p) THEN <<>>
            ELSE LET doors == SelectSeq(t[p].rows, LAMBDA r :
                            /\ IsHandle(r) /\ r.plan \in ToSet(t[p].subs)
                            /\ to[n - 1, r.plan] # NotShown)
                 IN  IF doors = <<>> THEN NotShown
                     ELSE <<Head(doors).id>> \o to[n - 1, Head(doors).plan]
    IN  to[Cardinality(DOMAIN t), root]

GoToRow(t, root, id) ==
    LET row == RefOf(TreeRows(t, root), id)
    IN  SelectSeq(RowsByRecipe(t, root, row.recipe),
                  LAMBDA r : r.area # row.area /\ AncestorHandles(t, root, r.id) # NotShown)

-----------------------------------------------------------------------------
(* A column of the matrix: the handle of its area, and what the area       *)
(* holds, without what is in the areas nested in it.                       *)

SubPlanHandle(t, root, q) ==
    LET handles == FlattenSeq([k \in DOMAIN TreePlans(t, root) |->
                        SelectSeq(t[TreePlans(t, root)[k]].rows, LAMBDA r : IsHandleOf(r, q))])
    IN  IF handles = <<>> THEN NotShown ELSE <<Head(handles).id>>

ChildrenIn(t, p) ==
    LET handles == SelectSeq(t[p].rows, LAMBDA r : IsHandle(r) /\ r.plan \in ToSet(t[p].subs))
        first == [n \in DOMAIN handles |-> handles[n].plan]
    IN  first \o SelectSeq(t[p].subs, LAMBDA c : ~Contains(first, c))
AreaContents(t, a) ==
    LET below[n \in Nat, p \in DOMAIN t] ==
            IF n = 0 THEN <<>>
            ELSE FlattenSeq([k \in DOMAIN ChildrenIn(t, p) |->
                    LET c == ChildrenIn(t, p)[k]
                    IN  <<c>> \o IF t[c].area THEN <<>> ELSE below[n - 1, c]])
        met == below[Cardinality(DOMAIN t), a]
        plans == <<a>> \o SelectSeq(met, LAMBDA c : ~t[c].area)
        rows == FlattenSeq([k \in DOMAIN plans |-> SelectSeq(t[plans[k]].rows, LAMBDA r : ~IsHandle(r))])
    IN  [rowCount |-> Len(rows), recipes |-> {r.recipe : r \in ToSet(rows)},
         subFactories |-> Tail(plans), nestedAreas |-> SelectSeq(met, LAMBDA c : t[c].area)]
=============================================================================
