------------------------------- MODULE Areas --------------------------------
(***************************************************************************)
(* A block whose sub-plans are areas (solver/areas.ts, areaRoutes.ts):     *)
(* each area's rows serve it first, what it lacks comes from the others,   *)
(* and the flows between areas are reported as routes.                     *)
(*                                                                         *)
(* A column is a row, with the number of its area in table order, the root *)
(* being 1.  As in BlockSolve the program is its best points, here with    *)
(* the flows of every item that two areas touch.                           *)
(***************************************************************************)
EXTENDS BlockSolve, SubPlans

-----------------------------------------------------------------------------
(* The areas in table order: a sub-plan stands where its handle is, those  *)
(* without one come last.                                                  *)

TableChildren(t, p) ==
    LET handles == SelectSeq(t[p].rows, LAMBDA r : IsHandle(r) /\ r.plan \in ToSet(t[p].subs))
        all == [n \in DOMAIN handles |-> handles[n].plan] \o t[p].subs
        kept == SetToSortSeq({n \in DOMAIN all : \A m \in 1..(n - 1) : all[m] # all[n]}, <)
    IN  [n \in DOMAIN kept |-> all[kept[n]]]
TableOrder(t, root) ==
    LET below[n \in Nat, p \in DOMAIN t] ==
            IF n = 0 THEN <<>>
            ELSE FlattenSeq([k \in DOMAIN TableChildren(t, p) |->
                    <<TableChildren(t, p)[k]>> \o below[n - 1, TableChildren(t, p)[k]]])
    IN  below[Cardinality(DOMAIN t), root]
BlockAreas(t, root) == <<root>> \o SelectSeq(TableOrder(t, root), LAMBDA p : t[p].area)

-----------------------------------------------------------------------------
(* The flows of item i between areas, at the rates x of program p.         *)

AreasOf(C) == {c.area : c \in C}
Touching(p, i) == {c.area : c \in {c \in p.C : Coefficient(c, i) # 0}}
Shared(p) == {i \in Intermediates(p.C, p.goals) \cup DOMAIN p.goals : Cardinality(Touching(p, i)) > 1}
Within(C, a) == {c \in C : c.area = a}

(* dedicatedProduct: what the row is built for, if it still makes it. *)
IsDedicated(c, i) == c.made = i /\ Coefficient(c, i) > 0
OwnRow(C, a, i) == \E c \in Within(C, a) : IsDedicated(c, i)
DedicatedMade(p, x, a, i) == Made(x, {c \in Within(p.C, a) : IsDedicated(c, i)}, i)
OtherMade(p, x, a, i) == Made(x, {c \in Within(p.C, a) : ~IsDedicated(c, i)}, i)

(* din, oin, dout, oout: through the pool of dedicated output and the pool *)
(* of other output, which imports and supply fill too.  An area balances.  *)
AreaFlow(p, x, a, i) ==
    {f \in [dout : 0..DedicatedMade(p, x, a, i), oout : 0..OtherMade(p, x, a, i), din : 0..Used(x, p.C, i)] :
        f.dout + f.oout - Net(x, Within(p.C, a), i) - f.din >= 0}
Oin(p, x, a, i, f) == f.dout + f.oout - Net(x, Within(p.C, a), i) - f.din
Flows(p, x, i) ==
    LET A == Touching(p, i)
        outside == IF i \in DOMAIN p.goals THEN 0 ELSE Slack(p, x, i) + Supply(p, x, i)
        each == [a \in A |-> AreaFlow(p, x, a, i)]
    IN  {f \in [A -> UNION Range(each)] :
            /\ \A a \in A : f[a] \in each[a]
            /\ SumOver(A, LAMBDA a : f[a].din) <= SumOver(A, LAMBDA a : f[a].dout)
            /\ SumOver(A, LAMBDA a : Oin(p, x, a, i, f[a]))
                   <= SumOver(A, LAMBDA a : f[a].oout) + outside}

(* What areas with a row of their own take of other areas' dedicated rows, *)
(* and the cost of shipping, the less the higher the sender in the table.  *)
DedicatedIn(p, f, i) == SumOver({a \in DOMAIN f : OwnRow(p.C, a, i)}, LAMBDA a : f[a].din)
Shipping(f) == SumOver(DOMAIN f, LAMBDA a : (9 + a) * (f[a].dout + f[a].oout))   \* SHIP_COST, RANK_STEP

(* A point of the program: the rates x and the flows f of every shared item. *)
FlowsAt(p, x) ==
    LET flows == [i \in Shared(p) |-> Flows(p, x, i)]
    IN  {f \in [Shared(p) -> UNION Range(flows)] : \A i \in Shared(p) : f[i] \in flows[i]}
AreaPoints(p, Runs) ==
    UNION {{[x |-> x, f |-> f] : f \in FlowsAt(p, x)} : x \in {x \in [p.C -> 0..Runs] : Feasible(p, x)}}
Imports(p, x) == SumOver(Intermediates(p.C, p.goals), LAMBDA i : Slack(p, x, i))
Local(p, q) == SumOver(Shared(p), LAMBDA i : DedicatedIn(p, q.f[i], i))
Shipped(p, q) == SumOver(Shared(p), LAMBDA i : Shipping(q.f[i]))

(* solveAreaLP: stage 1 finds the least imports, and then the least        *)
(* dedicated imports; stage 2 keeps to the latter and looks for the least  *)
(* cost, shipping deciding ties.                                           *)
BestOf(S, Value(_)) == LET least == Min({Value(q) : q \in S}) IN {q \in S : Value(q) = least}
AreaLP(p, Runs) ==
    LET all == AreaPoints(p, Runs)
        stage1 == BestOf(BestOf(all, LAMBDA q : Imports(p, q.x)), LAMBDA q : Local(p, q))
        kept == {q \in all : \E s \in stage1 : Local(p, q) <= Local(p, s)}
    IN  IF all = {} THEN {} ELSE BestOf(BestOf(kept, LAMBDA q : Cost(p, q.x)), LAMBDA q : Shipped(p, q))

(* solveAreaBlock: the passes of solveBlock over the areas. *)
AreaSolutions(b, Runs) ==
    LET p == Pass1(b)
    IN  UNION {IF RunsPass2(b, p, q.x) THEN {<<Pass2(b, p, q.x), r>> : r \in AreaLP(Pass2(b, p, q.x), Runs)}
               ELSE {<<p, q>>} : q \in AreaLP(p, Runs)}

-----------------------------------------------------------------------------
(* itemRoutes: who gets what from whom.  A sender is [area, rate, other],  *)
(* of which other is not dedicated; a receiver [area, rate, restricted,    *)
(* dedicatedIn].  Area 0 is outside the block.                             *)

Outside == 0
SumSeq(s, Of(_)) == SumOver(DOMAIN s, LAMBDA n : Of(s[n]))

(* take: up to need for area "to", from the given parts of each source in  *)
(* order.                                                                  *)
Take(st, need, to, parts) ==
    LET From(s, n, part) ==
            LET src == s.sources[n]
                got == IF src.area = to THEN 0 ELSE Least(s.need, src[part])
            IN  IF got = 0 THEN s
                ELSE [sources |-> [s.sources EXCEPT ![n][part] = @ - got], need |-> s.need - got,
                      legs |-> (<<src.area, to>> :> got + Amount(s.legs, <<src.area, to>>)) @@ s.legs]
        Source(s, n) == FoldLeft(LAMBDA r, part : From(r, n, part), s, parts)
    IN  FoldLeft(Source, [st EXCEPT !.need = need], [n \in DOMAIN st.sources |-> n])

ItemRoutes(senders, receivers) ==
    LET pos == SumSeq(senders, LAMBDA s : s.rate)
        neg == SumSeq(receivers, LAMBDA r : r.rate)
        oth == [n \in DOMAIN senders |-> Least(senders[n].rate, AboveZero(senders[n].other))]
        areas == [n \in DOMAIN senders |->
                    [area |-> senders[n].area, ded |-> senders[n].rate - oth[n], oth |-> oth[n]]]
        outside == IF neg > pos THEN <<[area |-> Outside, ded |-> 0, oth |-> neg - pos]>> ELSE <<>>
        restricted == SelectSeq(receivers, LAMBDA r : r.restricted)
        rest == SelectSeq(receivers, LAMBDA r : ~r.restricted)
        Want(r) == Least(AboveZero(r.dedicatedIn), r.rate)
        \* each step is a pair of the state and what the restricted still need
        Dedicated(q, r) ==
            LET st == Take(q[1], Want(r), r.area, <<"ded">>)
            IN  <<st, (r.area :> r.rate - Want(r) + st.need) @@ q[2]>>
        From(part, q, r) == LET st == Take(q[1], q[2][r.area], r.area, part)
                            IN  <<st, [q[2] EXCEPT ![r.area] = st.need]>>
        start == <<[sources |-> areas \o outside, need |-> 0, legs |-> <<>>], <<>>>>
        own == FoldLeft(Dedicated, start, restricted)
        other == FoldLeft(LAMBDA q, r : From(<<"oth">>, q, r), own, restricted)
        open == FoldLeft(LAMBDA st, r : Take(st, r.rate, r.area, <<"ded", "oth">>), other[1], rest)
        out == Take(open, AboveZero(pos - neg), Outside, <<"ded", "oth">>)
    IN  FoldLeft(LAMBDA q, r : From(<<"ded", "oth">>, q, r), <<out, other[2]>>, restricted)[1].legs

(* areaFlows: the senders and receivers of item i, and the routes. *)
AreaNet(p, x, a, i) == Net(x, Within(p.C, a), i)
ItemSenders(p, x, i) ==
    LET from == SetToSortSeq({a \in AreasOf(p.C) : AreaNet(p, x, a, i) > 0}, <)
    IN  [n \in DOMAIN from |-> [area |-> from[n], rate |-> AreaNet(p, x, from[n], i),
                                other |-> OtherMade(p, x, from[n], i)]]
ItemReceivers(p, x, f, i) ==
    LET to == SetToSortSeq({a \in AreasOf(p.C) : AreaNet(p, x, a, i) < 0}, <)
    IN  [n \in DOMAIN to |-> [area |-> to[n], rate |-> -AreaNet(p, x, to[n], i),
                              restricted |-> OwnRow(p.C, to[n], i),
                              dedicatedIn |-> IF to[n] \in DOMAIN f /\ OwnRow(p.C, to[n], i)
                                              THEN f[to[n]].din ELSE 0]]
=============================================================================
