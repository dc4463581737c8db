------------------------------ MODULE MCPlanner ------------------------------
EXTENDS Planner, Solver

CONSTANTS Gear, Plate, Slag, Ash,
          make_gear, make_plate, stamp, cast, mold, smelt, sinter, burn

Blk(id, products, conns, root, plans) ==
    [id |-> id, label |-> 0, root |-> root, plans |-> plans, products |-> products,
     noImport |-> {}, sourcing |-> [i \in Items |-> Nothing], conns |-> conns]
P(id, i, e) == [id |-> id, item |-> i, extra |-> e]

MCUses == make_gear :> {Plate} @@ make_plate :> {Slag}
          @@ stamp :> {Plate} @@ cast :> {Slag} @@ mold :> {Ash}
          @@ smelt :> {} @@ sinter :> {} @@ burn :> {}
MCMakes == make_gear :> {Gear, Slag} @@ make_plate :> {Plate}
           @@ stamp :> {Gear} @@ cast :> {Gear} @@ mold :> {Gear}
           @@ smelt :> {Plate, Slag} @@ sinter :> {Slag, Ash} @@ burn :> {Ash, Plate}

(* A block with an area in a sub-plan. *)
Nested ==
    LET area == [SubPlan(0, <<Row(5, make_plate), Handle(6, 7)>>) EXCEPT !.area = TRUE, !.subs = <<7>>]
        root == [SubPlan(0, <<Row(3, make_gear), Handle(4, 8), Row(10, make_plate)>>) EXCEPT !.subs = <<8>>]
        inner == SubPlan(0, <<Row(9, make_gear)>>)
    IN  [blocks |-> <<Blk(1, <<>>, {}, 2, 2 :> root @@ 8 :> area @@ 7 :> inner)>>,
         active |-> 1, next |-> 11, menu |-> [groups |-> {"sub-plans", "rows", "settings", "undo"}, most |-> 2]]

(* A block that takes from another. *)
One(id, r) == id :> SubPlan(0, <<Row(id + 1, r)>>)
Chain ==
    [blocks |-> <<Blk(1, <<P(4, Gear, 1)>>, {Connection(5, Plate, 11, Nothing)}, 2, One(2, make_gear)),
                  Blk(11, <<P(14, Plate, Nothing)>>, {}, 12, One(12, make_plate))>>,
     active |-> 1, next |-> 20, menu |-> [groups |-> {"products", "items", "connections", "blocks", "undo"}, most |-> 2]]

(* A row, and a sub-plan with no row yet. *)
Small ==
    LET root == [SubPlan(0, <<Row(3, make_gear), Handle(4, 5)>>) EXCEPT !.subs = <<5>>]
    IN  [blocks |-> <<Blk(1, <<>>, {}, 2, 2 :> root @@ 5 :> SubPlan(0, <<>>))>>,
         active |-> 1, next |-> 6, menu |-> [groups |-> {"sub-plans", "rows", "undo"}, most |-> 3]]

(* Plates from slag, gears and slag from plates, in two blocks: connected  *)
(* they are a loop of supply, and a cycle of requests.  A third block has  *)
(* slag left over.                                                         *)
Supply ==
    [blocks |-> <<Blk(1, <<P(4, Plate, Nothing)>>, {}, 2, One(2, make_plate)),
                  Blk(11, <<P(14, Gear, 1), P(16, Slag, Nothing)>>, {Connection(15, Plate, 1, Nothing)}, 12, One(12, make_gear)),
                  Blk(21, <<P(24, Gear, 1)>>, {Connection(25, Plate, 1, Nothing)}, 22, One(22, make_gear))>>,
     active |-> 1, next |-> 30, menu |-> [groups |-> {"connections", "solver"}, most |-> 2]]

(* Three blocks in a ring, each using the leftovers of the one before it   *)
(* first: what one gets, the next one lacks, so the rounds never settle.   *)
First(b, i) == [b EXCEPT !.sourcing[i] = "first"]
Two(id, r, q) == id :> SubPlan(0, <<Row(id + 1, r), Row(id + 2, q)>>)
Ring ==
    [blocks |-> <<First(Blk(1, <<P(5, Gear, 2)>>, {Connection(6, Plate, 21, Nothing)}, 2, Two(2, stamp, smelt)), Plate),
                  First(Blk(11, <<P(15, Gear, 2)>>, {Connection(16, Slag, 1, Nothing)}, 12, Two(12, cast, sinter)), Slag),
                  First(Blk(21, <<P(25, Gear, 2)>>, {}, 22, Two(22, mold, burn)), Ash)>>,
     active |-> 1, next |-> 30, menu |-> [groups |-> {"connections", "solver"}, most |-> 1]]

(* Every edit of blocks and products with the data loaded, and reloaded. *)
Wire == [Chain EXCEPT !.menu = [groups |-> {"blocks", "plan", "data", "solver", "undo"},
                                most |-> 2]]
(* Game data asked for again and again. *)
Fetch == [Small EXCEPT !.menu = [groups |-> {"data", "solver"}, most |-> 4]]
MCStarts == {Nested, Chain, Small, Supply, Ring, Wire, Fetch}

(* What the solver shows of the connections is sound, for any plan the      *)
(* editor can reach and any block of it that fails.                         *)
FlowsSound == ~stale => WellSolved(blocks, errors, SolveAll(blocks, errors))

-----------------------------------------------------------------------------
LOCAL B == INSTANCE BlockSolve
LOCAL A == INSTANCE Areas

-----------------------------------------------------------------------------
(* One block: an oil refinery of rows that make several things.            *)

LOCAL Runs == 4
LOCAL SolverRow(recipe, ins, outs, main) ==
    [recipe |-> recipe, area |-> 1, ins |-> ins, outs |-> outs, pin |-> -1, locked |-> DOMAIN ins,
     consumer |-> FALSE, discard |-> {}, main |-> main, made |-> main]

LOCAL Refine == SolverRow("refine", "crude" :> 1, "gas" :> 1 @@ "heavy" :> 2, "gas")
LOCAL Crack == SolverRow("crack", "heavy" :> 1, "gas" :> 1, "gas")
LOCAL Mold == SolverRow("mold", "gas" :> 1, "plastic" :> 1, "plastic")
LOCAL Mix == SolverRow("mix", "gas" :> 1 @@ "heavy" :> 1, "plastic" :> 1 @@ "ash" :> 1, "plastic")

LOCAL Mix2 == SolverRow("mix", "gas" :> 1 @@ "heavy" :> 2, "plastic" :> 1, "plastic")
LOCAL Refine3 == SolverRow("refine", "crude" :> 1, "gas" :> 1 @@ "heavy" :> 3, "heavy")
LOCAL RefineAll == SolverRow("refine", "crude" :> 1, "gas" :> 1 @@ "heavy" :> 2 @@ "plastic" :> 1, "heavy")

LOCAL Cases ==
    {<<2, <<Mold, Refine, k>>>> : k \in {Crack, [Crack EXCEPT !.consumer = TRUE], [Crack EXCEPT !.pin = 1]}}
    \cup {<<2, <<Mold, [Refine EXCEPT !.discard = {"heavy"}], Crack>>>>, <<3, <<Mix, Refine>>>>,
          <<2, <<Mix, Refine, Mold>>>>, <<2, <<Mix, [Refine EXCEPT !.main = "heavy"]>>>>}
    \cup {<<4, <<Mold, [Refine EXCEPT !.pin = 1], k>>>> : k \in {Crack, [Crack EXCEPT !.consumer = TRUE]}}
    \cup {<<4, <<Mold, [Refine EXCEPT !.pin = 1]>>>>, <<2, <<Mix2, Refine3>>>>, <<2, <<Mold, RefineAll, [Crack EXCEPT !.pin = 0]>>>>}
LOCAL Block(case, locks, gas, heavy, offers) ==
    [rows |-> case[2], goals |-> "plastic" :> case[1], locks |-> locks,
     sourcing |-> "gas" :> gas @@ "heavy" :> heavy, offers |-> offers]
LOCAL Blocks ==
    {Block(case, locks, gas, heavy, offers) :
        case \in Cases, locks \in {{}, {"gas"}, {"gas", "heavy"}},
        gas \in {"default", "connections-first", "byproducts-first"}, heavy \in {"default", "connections-first"},
        offers \in {<<>>, "gas" :> 1, "gas" :> 2 @@ "heavy" :> 1 @@ "crude" :> 1}}
LOCAL BlockItems == {"crude", "gas", "heavy", "plastic", "ash"}
LOCAL BlocksSolved == UNION {{<<b, s[1], s[2]>> : s \in B!Solutions(b, Runs)} : b \in Blocks}

(* The books of a block balance: what it makes, receives and imports is    *)
(* what it uses, makes for its goals and has left over, item by item, and  *)
(* it never receives more than is on offer.                                *)
ASSUME BooksBalance ==
    \A s \in BlocksSolved, i \in BlockItems :
        LET b == s[1]
            p == s[2]
            got == B!Received(b, p, s[3], i)
            short == B!Unsatisfied(b, p, s[3], i)
        IN  /\ got <= B!Amount(b.offers, i)
            /\ i \notin UNION {c.discard : c \in p.C} =>
                  B!NodesNet(s[3], p.C, i) + got + short = B!Amount(b.goals, i) + B!Excess(p, s[3], i)

(* A locked item is imported only when an offer of it could not cover what *)
(* was missing: a lock gives way to a connection, never to nothing, unless *)
(* the connection is used first and only byproduct consumers want more.    *)
ASSUME LocksHold ==
    \A s \in BlocksSolved :
        \A i \in (s[1].locks \cap B!Intermediates(s[2].C, s[1].goals)) \ s[2].first :
            B!Unsatisfied(s[1], s[2], s[3], i) > 0 => B!Received(s[1], s[2], s[3], i) = B!Amount(s[1].offers, i)
                                                   /\ B!Amount(s[1].offers, i) > 0

(* The second pass has a solution whenever the first has one. *)
ASSUME Pass2Feasible ==
    \A b \in Blocks : \A x \in B!LP(B!Pass1(b), Runs) :
        B!RunsPass2(b, B!Pass1(b), x) => B!LP(B!Pass2(b, B!Pass1(b), x), Runs) # {}

(* Supply does not replace what the block makes itself, unless it is to be *)
(* used first or a lock had made the block import other items for it: with *)
(* an offer no row makes less of an item than it could without.            *)
ASSUME OwnRowsFirst ==
    \A b \in {b \in Blocks : /\ "connections-first" \notin B!Range(b.sourcing)
                              /\ b.locks = {} /\ b.offers # <<>>} :
        LET alone == B!Solutions([b EXCEPT !.offers = <<>>], Runs)
        IN  \A s \in B!Solutions(b, Runs), i \in {"gas", "heavy"} :
                B!Received(b, s[1], s[2], i) > 0 =>
                    \E other \in alone : B!Made(s[2], s[1].C, i) >= B!Made(other[2], other[1].C, i)

(* What a connection that is used first brings goes to the rows that need  *)
(* it, not to those that only get rid of a byproduct.                      *)
ASSUME ConsumersGetNone ==
    \A s \in BlocksSolved : \A i \in s[2].first :
        B!Received(s[1], s[2], s[3], i) <= B!Used(s[3], {c \in s[2].C : ~c.consumer}, i)

(* A row reported as driven by a co-product runs at least twice as much as *)
(* the items it has too much of are needed: at half its rate these, and    *)
(* what it makes for the goals, would still be enough.                     *)
ASSUME DrivenCanHalve ==
    \A s \in BlocksSolved : \A c \in B!CoproductDriven(s[1], s[2], s[3]) :
        \A i \in DOMAIN c.outs :
            (B!Excess(s[2], s[3], i) > 0 \/ i \in DOMAIN s[1].goals) =>
                2 * B!Net(s[3], s[2].C, i) - B!Coefficient(c, i) * s[3][c] >= 2 * B!Amount(s[1].goals, i)

-----------------------------------------------------------------------------
(* Areas.                                                                  *)

LOCAL Within(c, area) == [c EXCEPT !.area = area]
LOCAL SmeltRow == SolverRow("smelt", "ore" :> 1, "iron" :> 1, "iron")
LOCAL CastRow == SolverRow("cast", "ore" :> 1, "iron" :> 2, "iron")
LOCAL GearRow == SolverRow("gear", "iron" :> 1, "gear" :> 1, "gear")
LOCAL ScrapRow == SolverRow("scrap", "junk" :> 1, "gear" :> 1 @@ "iron" :> 1, "gear")
LOCAL AreaBlocks ==
    [rows : {<<Within(SmeltRow, 1), Within(GearRow, 1), Within(SmeltRow, 2), Within(GearRow, 2)>>,
             <<Within(SmeltRow, 1), Within(GearRow, 2)>>, <<Within(GearRow, 1), Within(GearRow, 2), Within(SmeltRow, 3)>>,
             <<Within(CastRow, 1), Within(SmeltRow, 2), Within(GearRow, 2)>>,
             <<Within(SmeltRow, 1), [Within(SmeltRow, 2) EXCEPT !.pin = 1], Within(GearRow, 2)>>,
             <<Within(ScrapRow, 1), Within(SmeltRow, 2), Within(GearRow, 2)>>},
     goals : {"gear" :> 2}, locks : {{}}, sourcing : {<<>>}, offers : {<<>>, "iron" :> 1}]
LOCAL AreaSolved == UNION {{<<b, s[1], s[2]>> : s \in A!AreaSolutions(b, 2)} : b \in AreaBlocks}
LOCAL RoutesOf(s, i) ==
    A!ItemRoutes(A!ItemSenders(s[2], s[3].x, i),
                 A!ItemReceivers(s[2], s[3].x, IF i \in DOMAIN s[3].f THEN s[3].f[i] ELSE <<>>, i))
LOCAL Legs(legs, From(_)) == A!SumOver({k \in DOMAIN legs : From(k)}, LAMBDA k : legs[k])

(* Areas only say who gets what: a block with areas imports no more than   *)
(* one without, and an area that can make an item takes none that another  *)
(* area makes on purpose, as long as no rate of its own is pinned.         *)
ASSUME AreasCostNothing ==
    \A s \in AreaSolved :
        /\ \A x \in A!LP(s[2], 2) : A!Imports(s[2], s[3].x) = A!Imports(s[2], x)
        /\ (\A c \in s[2].C : c.pin = -1) => A!Local(s[2], s[3]) = 0

(* The routes of a solved block carry what each area lacks and has over. *)
ASSUME RoutesBalance ==
    \A s \in AreaSolved, i \in {"ore", "junk", "iron", "gear"}, a \in 1..3 :
        Legs(RoutesOf(s, i), LAMBDA k : k[2] = a) - Legs(RoutesOf(s, i), LAMBDA k : k[1] = a)
            = -A!AreaNet(s[2], s[3].x, a, i)

(* And so for any senders and receivers: each sends and receives exactly   *)
(* its rate, nobody sends to itself, and only the outside fills the gap.   *)
LOCAL Sender(area) == [area : {area}, rate : 1..3, other : 0..3]
LOCAL Receiver(area) == [area : {area}, rate : 1..3, restricted : BOOLEAN, dedicatedIn : 0..2]
ASSUME RoutesComplete ==
    \A senders \in {<<>>} \cup {<<s>> : s \in Sender(1)} \cup {<<s, [s EXCEPT !.area = 3, !.rate = 2]>> : s \in Sender(1)},
       receivers \in {<<>>} \cup {<<r>> : r \in Receiver(2)} \cup {<<r, [q EXCEPT !.area = 4]>> : r \in Receiver(2), q \in Receiver(2)} :
        LET legs == A!ItemRoutes(senders, receivers)
        IN  /\ \A n \in DOMAIN senders : Legs(legs, LAMBDA k : k[1] = senders[n].area) = senders[n].rate
            /\ \A n \in DOMAIN receivers : Legs(legs, LAMBDA k : k[2] = receivers[n].area) = receivers[n].rate
            /\ ~\E k \in DOMAIN legs : k[1] = k[2]
            /\ ~((\E k \in DOMAIN legs : k[1] = 0) /\ (\E k \in DOMAIN legs : k[2] = 0))

(* The areas in table order are the areas the rows of the plans belong to. *)
LOCAL AreaTrees ==
    {[p \in 1..4 |-> [name |-> "plan", area |-> p \in areas, rows |-> [n \in DOMAIN shown[p] |-> [id |-> n, plan |-> shown[p][n]]],
                       subs |-> CASE p = 1 -> <<2, 3>> [] p = 2 -> <<4>> [] OTHER -> <<>>]] :
        areas \in SUBSET (2..4), shown \in [1..4 -> {<<>>, <<3>>, <<3, 2>>, <<4>>}]}
ASSUME TableHasAllAreas ==
    \A tree \in AreaTrees :
        LET order == A!BlockAreas(tree, 1)
        IN  /\ A!ToSet(order) = {A!AreaOf(tree, 1, p) : p \in 1..4}
            /\ Len(order) = Cardinality(A!ToSet(order)) /\ order[1] = 1
=============================================================================
