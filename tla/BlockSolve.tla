----------------------------- MODULE BlockSolve -----------------------------
(***************************************************************************)
(* The solve of one block (solveBlock in solver/index.ts, with build.ts,   *)
(* solve.ts and blockResult.ts), here with every kind of setting a row or  *)
(* an item can have.                                                       *)
(*                                                                         *)
(* The linear program is stated, not solved: LP is the set of its best     *)
(* points, found by trying every point.  Rates are whole numbers of runs   *)
(* up to Runs, so the noise thresholds are zero.  A program with no        *)
(* solution gives no point: the library's leftovers are left out.          *)
(*                                                                         *)
(* A row is [recipe, area, ins, outs, pin, locked, consumer, discard, main, *)
(* made]: the area it is solved in, what one run uses and makes with the   *)
(* row's effects and its fuel, the rate it is pinned at, the ingredients   *)
(* it locks if it is a byproduct consumer, the outputs it discards, the    *)
(* main product if one is named, and the product it is taken to make.      *)
(***************************************************************************)
EXTENDS Integers, FiniteSets, SequencesExt, TLC

Unpinned == -1
NoMain == "no main product"
Least(m, n) == IF m < n THEN m ELSE n
AboveZero(n) == IF n > 0 THEN n ELSE 0
SumOver(S, Of(_)) == FoldSet(LAMBDA x, total : Of(x) + total, 0, S)
Amount(f, i) == IF i \in DOMAIN f THEN f[i] ELSE 0
Over(f) == {i \in DOMAIN f : f[i] > 0}

-----------------------------------------------------------------------------
(* The system of a set of columns C, one per recipe.                       *)

(* representatives: the first row of each recipe is solved for all.        *)
(* With areas, the first of each area.                                     *)
Representatives(rows) ==
    LET SameColumn(m, n) == rows[m].recipe = rows[n].recipe /\ rows[m].area = rows[n].area
    IN  {rows[n] : n \in {n \in DOMAIN rows : \A m \in 1..(n - 1) : ~SameColumn(m, n)}}

Produced(C) == UNION {Over(c.outs) : c \in C}
Consumed(C) == UNION {Over(c.ins) : c \in C}
Intermediates(C, goals) == (Produced(C) \cap Consumed(C)) \ DOMAIN goals
Raw(C, goals) == (Consumed(C) \ Produced(C)) \ DOMAIN goals

(* S, with the discarded outputs taken out. *)
Coefficient(c, i) ==
    LET net == Amount(c.outs, i) - Amount(c.ins, i)
    IN  IF i \in c.discard THEN Least(net, 0) ELSE net
NoRecipe(C, goals) == {i \in DOMAIN goals : \A c \in C : Amount(c.outs, i) <= Amount(c.ins, i)}

Net(x, C, i) == SumOver(C, LAMBDA c : Coefficient(c, i) * x[c])
Made(x, C, i) == SumOver({c \in C : Coefficient(c, i) > 0}, LAMBDA c : Coefficient(c, i) * x[c])
Used(x, C, i) == -SumOver({c \in C : Coefficient(c, i) < 0}, LAMBDA c : Coefficient(c, i) * x[c])

-----------------------------------------------------------------------------
(* The linear program.  p is [C, goals, locks, caps, first, cheap]: the    *)
(* items that may not be imported, the supply of each item on offer, the   *)
(* items whose supply comes before own rows, the items cheap to import.    *)

Supply(p, x, i) ==
    IF i \notin p.first THEN Amount(p.caps, i)
    ELSE Least(p.caps[i], Used(x, {c \in p.C : ~c.consumer}, i))
Slack(p, x, i) == AboveZero(-Net(x, p.C, i) - Supply(p, x, i))

Feasible(p, x) ==
    /\ \A c \in p.C : c.pin # Unpinned => x[c] = c.pin
    /\ \A i \in DOMAIN p.goals \cap (Produced(p.C) \cup Consumed(p.C)) : Net(x, p.C, i) >= p.goals[i]
    /\ \A i \in Intermediates(p.C, p.goals) \cap p.locks : Slack(p, x, i) = 0

(* BIG_M for an import, BYPRODUCTS_FIRST_SLACK_COST for a cheap one, 1 for *)
(* a run and BC_BONUS for one of a byproduct consumer, scaled to integers  *)
(* that keep their order at these sizes.                                   *)
ImportCost == 10000000
CheapCost == 1
RunCost == 100000
ConsumerCost == -1000
Cost(p, x) ==
    SumOver(Intermediates(p.C, p.goals),
            LAMBDA i : (IF i \in p.cheap THEN CheapCost ELSE ImportCost) * Slack(p, x, i))
    + SumOver(p.C, LAMBDA c : (IF c.consumer THEN ConsumerCost ELSE RunCost) * x[c])

LP(p, Runs) ==
    LET points == {x \in [p.C -> 0..Runs] : Feasible(p, x)}
        best == Min({Cost(p, x) : x \in points})
    IN  IF points = {} THEN {} ELSE {x \in points : Cost(p, x) = best}

-----------------------------------------------------------------------------
(* The passes.  b is [rows, goals, locks, sourcing, offers].               *)

NoImportItems(b, C) == b.locks \cup UNION {c.locked : c \in {c \in C : c.consumer}}
Sourced(b, mode) == {i \in DOMAIN b.sourcing : b.sourcing[i] = mode}

Pass1(b) ==
    LET C == Representatives(b.rows)
        locks == NoImportItems(b, C)
        first == Sourced(b, "connections-first") \cap Over(b.offers) \cap Intermediates(C, b.goals)
    IN  [C |-> C, goals |-> b.goals, locks |-> locks \ Over(b.offers), first |-> first,
         caps |-> Restrict(b.offers, first), cheap |-> Sourced(b, "byproducts-first") \ locks]

(* pass2Plan: supply covers what is short, and a lock that the supply      *)
(* cannot hold is let go.                                                  *)
Short(b, p, x) == {i \in Over(b.offers) \cap Intermediates(p.C, p.goals) : Slack(p, x, i) > 0}
Pass2(b, p, x) ==
    LET short == Short(b, p, x)
        filled == short \ p.first
        open == (short \cap p.first) \cup {i \in filled : b.offers[i] < Slack(p, x, i)}
    IN  [p EXCEPT !.locks = NoImportItems(b, p.C) \ open,
                  !.caps = @ @@ [i \in filled |-> Least(b.offers[i], Slack(p, x, i))]]
RunsPass2(b, p, x) == Short(b, p, x) \ p.first # {}

(* The programs solved last, with their best points. *)
Solutions(b, Runs) ==
    LET p == Pass1(b)
    IN  UNION {IF RunsPass2(b, p, x) THEN {<<Pass2(b, p, x), y>> : y \in LP(Pass2(b, p, x), Runs)}
               ELSE {<<p, x>>} : x \in LP(p, Runs)}

-----------------------------------------------------------------------------
(* What the block reports (blockDiagnostics): what it takes of the offers, *)
(* what it must import, and what it has too much of.                       *)

Received(b, p, x, i) ==
    IF i \in Raw(p.C, p.goals) THEN Least(Used(x, p.C, i), Amount(b.offers, i))
    ELSE IF i \in Intermediates(p.C, p.goals)
    THEN Least(Supply(p, x, i), AboveZero(-Net(x, p.C, i)))
    ELSE 0
NodesNet(x, C, i) == SumOver(C, LAMBDA c : (Amount(c.outs, i) - Amount(c.ins, i)) * x[c])
Unsatisfied(b, p, x, i) ==
    IF i \in DOMAIN p.goals THEN AboveZero(p.goals[i] - NodesNet(x, p.C, i))
    ELSE IF i \in Raw(p.C, p.goals) THEN Used(x, p.C, i) - Received(b, p, x, i)
    ELSE IF i \in Intermediates(p.C, p.goals) THEN Slack(p, x, i)
    ELSE 0
Overconstrained(p, x) == {i \in Intermediates(p.C, p.goals) : Net(x, p.C, i) > 0}

(* coproductDrivenWarning: a row is driven by a co-product when at least   *)
(* half of it runs only for items that nothing is left over of, none of    *)
(* them the product it is built for.                                       *)
Excess(p, x, i) == AboveZero(Net(x, p.C, i) - Amount(p.goals, i))
Binding(b, p, x, c) ==
    {i \in DOMAIN c.outs : /\ Coefficient(c, i) > 0 /\ Excess(p, x, i) = 0
                           /\ i \in Intermediates(p.C, p.goals) \ NoImportItems(b, p.C)
                           /\ Slack(p, x, i) = 0}
CoproductDriven(b, p, x) ==
    {c \in p.C :
        LET outs == {i \in DOMAIN c.outs : /\ Coefficient(c, i) > 0
                                           /\ i \in Intermediates(p.C, p.goals) \cup DOMAIN p.goals}
            left == {i \in outs : Excess(p, x, i) > 0}
        IN  /\ x[c] > 0 /\ c.pin = Unpinned /\ ~c.consumer
            /\ left # {} /\ outs \cap DOMAIN p.goals \subseteq left
            /\ Binding(b, p, x, c) # {}
            /\ c.main # NoMain /\ c.main \notin Binding(b, p, x, c)
            /\ \A i \in left : 2 * Excess(p, x, i) >= Made(x, p.C, i)}

-----------------------------------------------------------------------------
(* The solver's memory between solves (solver/solveCache.ts and its uses in *)
(* solver/index.ts): the last few solves of each block, and the outcome of  *)
(* each cycle of requests.                                                  *)
(*                                                                         *)
(* A cache is [entries, loops, used]: per block the solves kept, the one   *)
(* used last first; per list of members the outcome of their cycle; and    *)
(* the lists read or written since the last retain.  What a lookup finds   *)
(* is a set of one, or none.  exactKey, which writes a value so that no    *)
(* two values read the same, is the value itself; caps are in the order    *)
(* they were set.                                                          *)

SlotsPerBlock == 3
EmptyCache == [entries |-> <<>>, loops |-> <<>>, used |-> {}]

-----------------------------------------------------------------------------
(* The inputs of a solve.                                                  *)

SourcingKey(sourcing) == SetToSortSeq(ToSet(sourcing), LAMBDA p, q : p[1] < q[1])
PlanKey(plan) ==
    <<plan.goals, plan.nodes, UNION plan.noImport, SourcingKey(plan.sourcing)>> \o SetToSeq(plan.areas)
Inputs(data, plan, caps) == [data |-> data, key |-> PlanKey(plan), caps |-> caps]

-----------------------------------------------------------------------------
(* The solves of blocks.                                                   *)

SolvesOf(cache, block) == IF block \in DOMAIN cache.entries THEN cache.entries[block] ELSE <<>>
Found(cache, block, inputs) == {n \in DOMAIN SolvesOf(cache, block) : SolvesOf(cache, block)[n].inputs = inputs}
SolvedFor(cache, block, inputs) == {SolvesOf(cache, block)[n].solved : n \in Found(cache, block, inputs)}
WithEntries(cache, block, list) == [cache EXCEPT !.entries = (block :> list) @@ @]
Drop(f, keys) == [k \in DOMAIN f \ keys |-> f[k]]

(* get: a hit moves to the front.                                          *)
Touched(cache, block, inputs) ==
    IF Found(cache, block, inputs) = {} THEN cache
    ELSE LET n == CHOOSE k \in Found(cache, block, inputs) : TRUE
         IN  WithEntries(cache, block, <<SolvesOf(cache, block)[n]>> \o RemoveAt(SolvesOf(cache, block), n))
SetSolved(cache, block, inputs, solved) ==
    LET entry == [inputs |-> inputs, solved |-> solved]
        list == SolvesOf(cache, block)
    IN  IF Found(cache, block, inputs) # {}
        THEN WithEntries(cache, block, [n \in DOMAIN list |-> IF n \in Found(cache, block, inputs) THEN entry ELSE list[n]])
        ELSE WithEntries(cache, block,
                         SubSeq(<<entry>> \o list, 1, IF Len(list) < SlotsPerBlock THEN Len(list) + 1 ELSE SlotsPerBlock))
DeleteSolves(cache, block) == [cache EXCEPT !.entries = Drop(@, {block})]

(* The solve of a block (solveStep, probeBlock): outcome is what the       *)
(* solver would give, none if it throws.                                   *)
SolveOnce(cache, block, inputs, outcome) ==
    IF SolvedFor(cache, block, inputs) # {}
    THEN [cache |-> Touched(cache, block, inputs), solved |-> SolvedFor(cache, block, inputs)]
    ELSE [cache |-> IF outcome = {} THEN DeleteSolves(cache, block)
                    ELSE SetSolved(cache, block, inputs, CHOOSE o \in outcome : TRUE),
          solved |-> outcome]

-----------------------------------------------------------------------------
(* The cycles of requests.                                                 *)

LoopUsed(cache, members) == [cache EXCEPT !.used = @ \cup {members}]
LoopSolvedFor(cache, members, inputs) ==
    IF members \in DOMAIN cache.loops /\ cache.loops[members].inputs = inputs THEN {cache.loops[members].solved} ELSE {}
SetLoop(cache, members, inputs, solved) ==
    [LoopUsed(cache, members) EXCEPT !.loops = (members :> [inputs |-> inputs, solved |-> solved]) @@ @]
LoopOnce(cache, members, inputs, outcome) ==
    IF LoopSolvedFor(cache, members, inputs) # {}
    THEN [cache |-> LoopUsed(cache, members), solved |-> LoopSolvedFor(cache, members, inputs)]
    ELSE [cache |-> IF outcome.failed THEN LoopUsed(cache, members) ELSE SetLoop(cache, members, inputs, outcome.of),
          solved |-> {outcome.of}]

(* At the end of a solve of these blocks.                                  *)
Retain(cache, blocks) ==
    [entries |-> Drop(cache.entries, DOMAIN cache.entries \ blocks),
     loops |-> Drop(cache.loops, {m \in DOMAIN cache.loops : m \notin cache.used \/ ~(ToSet(m) \subseteq blocks)}),
     used |-> {}]
=============================================================================
