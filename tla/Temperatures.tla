---------------------------- MODULE Temperatures ----------------------------
(***************************************************************************)
(* The warnings about fluids that reach a row too hot or too cold          *)
(* (solver/temperature.ts), from the solved blocks and the flows between   *)
(* them.                                                                   *)
(*                                                                         *)
(* results[b] is [rows, unsatisfied]: the rows with their rates, and the   *)
(* items still imported.  A temperature, and a bound, is a set of one      *)
(* number or none, and a rate is zero or more: the tolerance is left out.  *)
(***************************************************************************)
EXTENDS Integers, SequencesExt
LOCAL H == INSTANCE Horizon

HasTemperatureBound(ing) == ing.low # {} \/ ing.high # {}
HasTemperatureData(g) == \E r \in DOMAIN g.recipes : \E ing \in ToSet(g.recipes[r].ins) : HasTemperatureBound(ing)

Rate(rates, item) == IF item \in DOMAIN rates THEN rates[item] ELSE 0
RecipesOf(g, row) == {g.recipes[r] : r \in {row.recipe} \cap DOMAIN g.recipes}
Imported(result, item) == Rate(result.unsatisfied, item) > 0

(* suppliedBy: the temperatures at which the rows but the skipped make it, *)
(* each a set.                                                             *)
SuppliedBy(g, result, item, skip) ==
    UNION {UNION {{H!EffectiveTemperature(g, p) : p \in {q \in r.outs : q.item = item}} : r \in RecipesOf(g, row)} :
              row \in {m \in ToSet(result.rows) : m.id \notin skip /\ Rate(m.outs, item) > 0}}

(* A source that makes none of the fluid, or also receives it, may pass on *)
(* any.                                                                    *)
PassesOn(results, flows, block, item) ==
    \/ Imported(results[block], item)
    \/ \E f \in flows : f.to = block /\ f.item = item /\ f.rate > 0
SuppliedOver(g, results, flows, f) ==
    LET supplied == IF f.from \in DOMAIN results THEN SuppliedBy(g, results[f.from], f.item, {}) ELSE {}
    IN  IF supplied = {} \/ PassesOn(results, flows, f.from, f.item) THEN {{}} ELSE supplied
Supply(g, results, flows, block, item, skip) ==
    SuppliedBy(g, results[block], item, skip)
        \cup UNION {SuppliedOver(g, results, flows, f) :
                f \in {f \in flows : f.to = block /\ f.item = item /\ f.rate > 0 /\ f.status \in {"ok", "limited"}}}

(* Every temperature is known, there is one, and none is accepted.         *)
Mismatched(supply, ing) == supply # {} /\ {} \notin supply /\ \A t \in UNION supply : ~H!AcceptsTemperature(ing, t)

Checked(g, result) ==
    FlattenSeq([n \in DOMAIN result.rows |->
        FlattenSeq(SetToSeq({LET Bounded(ing) == /\ Rate(result.rows[n].ins, ing.item) > 0 /\ HasTemperatureBound(ing)
                                                 /\ ~Imported(result, ing.item)
                                 taken == SelectSeq(r.ins, Bounded)
                             IN  [k \in DOMAIN taken |-> [row |-> result.rows[n], ing |-> taken[k]]] :
                                r \in RecipesOf(g, result.rows[n])}))])

(* One warning for each recipe, fluid and bounds, at the first row that    *)
(* has them.                                                               *)
SameBounds(ing, other) == ing.item = other.item /\ ing.low = other.low /\ ing.high = other.high
Warn(g, results, flows, block, warnings, c) ==
    LET supply == Supply(g, results, flows, block, c.ing.item, {c.row.id})
        warned == \E w \in ToSet(warnings) : w.recipe = c.row.recipe /\ SameBounds(w.ing, c.ing)
    IN  IF warned \/ ~Mismatched(supply, c.ing) THEN warnings
        ELSE Append(warnings, [recipe |-> c.row.recipe, ing |-> c.ing, supplied |-> UNION supply])
TemperatureWarnings(g, results, flows) ==
    [b \in DOMAIN results |->
        FoldLeft(LAMBDA warnings, c : Warn(g, results, flows, b, warnings, c), <<>>, Checked(g, results[b]))]
=============================================================================
