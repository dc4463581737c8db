------------------------------- MODULE Solver -------------------------------
(***************************************************************************)
(* Solving the whole plan (solver/index.ts): what every block makes, what  *)
(* it asks of its sources, and what flows over each connection.            *)
(*                                                                         *)
(* The linear program of one block is abstracted to rows that use and make *)
(* one of each item per run, at the least rates that meet the goals, in    *)
(* whole numbers; the noise thresholds are left out with the noise.  Pins, *)
(* import locks, byproduct policies and areas are not in it.  What is done *)
(* with the solved blocks is all here: requests and their cycles, loops of *)
(* supply, shares, credits, limits, and what is left for later consumers.  *)
(* The cache is left out: a hit gives back what the same inputs gave.      *)
(***************************************************************************)
EXTENDS Commands, FiniteSetsExt

CONSTANTS
    Uses, Makes,            \* recipe -> items one run of it uses and makes
    LoopRounds,             \* LOOP_ROUND_LIMIT
    RequestRounds,          \* REQUEST_ROUND_LIMIT
    GrowthRounds            \* REQUEST_GROWTH_ROUNDS

Lesser(m, n) == IF m < n THEN m ELSE n
Positive(n) == IF n > 0 THEN n ELSE 0
Limit(c, n) == IF c.max = Nothing THEN n ELSE Lesser(n, c.max)
None == [i \in Items |-> 0]
Zeros(ids) == [b \in ids |-> None]
Total(S, Amount(_)) == FoldSet(LAMBDA x, sum : Amount(x) + sum, 0, S)

-----------------------------------------------------------------------------
(* The order blocks are solved in (blockGraph.ts).                         *)
(*                                                                         *)
(* An edge is a record [id, from, to]: `to` depends on `from`.  The solver *)
(* orders the blocks twice: sources before consumers to hand out supply,   *)
(* and the other way round to add up requests.  An edge of a block to      *)
(* itself or from a block that is not there is no edge (Edges).            *)

(* consumersOf: what the edges leave out is dropped here. *)
Edges(ids, E) == {e \in E : e.from \in ToSet(ids) /\ e.from # e.to}

Consumers(E, from) == {e.to : e \in {e \in E : e.from = from}}
Sources(E, to) == {e.from : e \in {e \in E : e.to = to}}

(* reaches: from start along the edges, in no steps or more. *)
ReachedFrom(E, start) ==
    LET Spread(S) == S \cup UNION {Consumers(E, x) : x \in S}
        spread[n \in Nat] == IF n = 0 THEN {start} ELSE Spread(spread[n - 1])
    IN  spread[Cardinality(E)]
Reaches(E, start, target) == target \in ReachedFrom(E, start)

ClosesLoop(E, from, to) == from # to /\ Reaches(E, to, from)

(* The first of a sequence of ids that is in S. *)
FirstIn(ids, S) == ids[CHOOSE i \in DOMAIN ids : ids[i] \in S /\ \A j \in 1..(i - 1) : ids[j] \notin S]

-----------------------------------------------------------------------------
(* loopComponent: the members of a loop, entry first, in the reverse       *)
(* postorder of a depth-first walk that takes later blocks first.          *)

RECURSIVE Visit(_, _, _, _)
Visit(ids, E, b, walk) ==
    LET next == Reverse(SelectSeq(ids, LAMBDA x : x \in Consumers(E, b)))
        Step(w, x) == IF x \in w.seen THEN w ELSE Visit(ids, E, x, [w EXCEPT !.seen = @ \cup {x}])
        done == FoldLeft(Step, walk, next)
    IN  [done EXCEPT !.post = Append(@, b)]

LoopEntry(members, E) ==
    LET fed == {b \in ToSet(members) : Sources(E, b) \ ToSet(members) # {}}
    IN  IF fed = {} THEN members[1] ELSE FirstIn(members, fed)
WalkFrom(ids, E, entry) == Reverse(Visit(ids, E, entry, [seen |-> {entry}, post |-> <<>>]).post)
Loop(ordered, inside) ==
    LET At(b) == CHOOSE i \in DOMAIN ordered : ordered[i] = b
    IN  [ids |-> ordered, inner |-> {e.id : e \in inside},
         back |-> {e.id : e \in {e \in inside : At(e.from) > At(e.to)}}]
LoopComponent(members, E) ==
    LET inside == {e \in E : e.from \in ToSet(members) /\ e.to \in ToSet(members)}
    IN  Loop(WalkFrom(members, inside, LoopEntry(members, E)), inside)

(* orderBlocks: components, each after the ones it depends on, the one     *)
(* with the earliest block first among those that are free.                *)
Mates(down, b) == {x \in down[b] : b \in down[x]}
ComponentOf(ids, E, b, mates) ==
    IF mates = {b} THEN [ids |-> <<b>>, inner |-> {}, back |-> {}]
    ELSE LoopComponent(SelectSeq(ids, LAMBDA x : x \in mates), E)
Components(ids, E, down) ==
    LET Free(done) ==
            {b \in ToSet(ids) \ done :
                UNION {Sources(E, x) : x \in Mates(down, b)} \ Mates(down, b) \subseteq done}
        walk[done \in SUBSET ToSet(ids)] ==
            IF done = ToSet(ids) THEN <<>>
            ELSE LET b == FirstIn(ids, Free(done))
                 IN  <<ComponentOf(ids, E, b, Mates(down, b))>> \o walk[done \cup Mates(down, b)]
    IN  walk[{}]
OrderedBy(ids, E) == Components(ids, E, [b \in ToSet(ids) |-> ReachedFrom(E, b)])
OrderBlocks(ids, all) == OrderedBy(ids, Edges(ids, all))
IsLoop(component) == Len(component.ids) > 1

-----------------------------------------------------------------------------
(* One block.                                                              *)

(* productGoals: the first product of an item gets what is requested.      *)
(* solveBlock keys the goals by item, so the last product's rate counts.   *)
Goals(b, asked) ==
    [i \in Items |->
        LET Of(n) == b.products[n].item = i
            Extra(n) == IF b.products[n].extra = Nothing THEN 0 ELSE b.products[n].extra
            first == {n \in DOMAIN b.products : Of(n)}
            Rate(n) == Extra(n) + IF n = Min(first) THEN asked[i] ELSE 0
            kept == {n \in first : Rate(n) > 0}
        IN  IF kept = {} THEN 0 ELSE Rate(Max(kept))]

Rows(b) == RecipesIn(b.plans, DOMAIN b.plans)       \* flattenBlock, without the repeats

Makers(R, i) == {r \in R : i \in Makes[r]}
UsedAt(R, x, i) == Total({r \in R : i \in Uses[r]}, LAMBDA r : x[r])
MadeAt(R, x, i) == Total(Makers(R, i), LAMBDA r : x[r])

(* The rates are reached from nothing, once around per row.  A             *)
(* connections-first item uses supply before rows are run for it.          *)
RunRates(R, goals, first, supply) ==
    LET Needs(used, i) == goals[i] + used - IF i \in first /\ goals[i] = 0 THEN Lesser(used, supply[i]) ELSE 0
        Runs(x) == [r \in R |-> Max({0} \cup {Needs(UsedAt(R, x, i), i) : i \in Makes[r]})]
        rate[n \in Nat] == IF n = 0 THEN [r \in R |-> 0] ELSE Runs(rate[n - 1])
    IN  rate[Cardinality(R) + 1]

(* solveBlock, of the rows R: net output per item, what it takes of the    *)
(* supply and what it must import.  Supply is used when no row makes the   *)
(* item, or not enough of it.                                              *)
Taken(R, goals, supply, used, net) ==
    [i \in Items |-> IF goals[i] > 0 THEN 0
                     ELSE IF Makers(R, i) = {} THEN Lesser(used[i], supply[i])
                     ELSE Lesser(Positive(-net[i]), supply[i])]
Reported(goals, net, taken) ==
    [net |-> net, taken |-> taken, import |-> [i \in Items |-> Positive(goals[i] - net[i] - taken[i])]]
Balanced(R, goals, supply, used, net) == Reported(goals, net, Taken(R, goals, supply, used, net))
AtRates(R, goals, supply, x) ==
    LET used == [i \in Items |-> UsedAt(R, x, i)]
    IN  Balanced(R, goals, supply, used, [i \in Items |-> MadeAt(R, x, i) - used[i]])
SolveRows(R, goals, first, supply) == AtRates(R, goals, supply, RunRates(R, goals, first, supply))

NoResult == [net |-> None, taken |-> None, import |-> None]
SolveBlock(b, goals, supply) ==
    LET first == {i \in Items : b.sourcing[i] = "first"}
    IN  IF goals = None \/ Rows(b) = {} THEN NoResult ELSE SolveRows(Rows(b), goals, first, supply)

-----------------------------------------------------------------------------
(* Connections, in the order they were made.                               *)

PlanIds(blocks) == [n \in DOMAIN blocks |-> blocks[n].id]
IdSet(blocks) == ToSet(PlanIds(blocks))
Find(blocks, id) == blocks[CHOOSE n \in DOMAIN blocks : blocks[n].id = id]

InOrder(S) == SetToSortSeq(S, LAMBDA c, d : c.id < d.id)
Live(blocks, b) == {c \in b.conns : c.from \in IdSet(blocks) \ {b.id}}
Repeats(blocks, b, c) ==
    \E d \in Live(blocks, b) : d.from = c.from /\ d.item = c.item /\ d.id < c.id

(* receivesItem: a request to it would cancel its own supply. *)
ReceivesItem(blocks, b, i) == \E c \in Live(blocks, b) : c.item = i

IsRequest(blocks, c) == HasProduct(Find(blocks, c.from), c.item)
Applicable(blocks, b) ==
    {c \in Live(blocks, b) : /\ IsRequest(blocks, c) /\ ~Repeats(blocks, b, c)
                             /\ ~ReceivesItem(blocks, Find(blocks, c.from), c.item)}
(* The takes that can cover part of what the block also requests. *)
Takes(blocks, b) ==
    {c \in Live(blocks, b) : /\ ~Repeats(blocks, b, c) /\ c \notin Applicable(blocks, b)
                             /\ \E r \in Applicable(blocks, b) : r.item = c.item}

(* A slip: first come, first served. *)
ConnectionOfferGreedy(left, pending, share) == left

(* connectionOffer: its own share first, then what nobody is waiting for. *)
ConnectionOffer(left, pending, share) ==
    Max({0, Lesser(share, left), left - (pending - share)})

-----------------------------------------------------------------------------
(* Requests, before any supply is handed out (computeRequests).            *)

(* probeBlock: what it would import with no limit to the supply. *)
Unlimited == 1000000
Probe(blocks, b, asked, failing) ==
    LET supply == [i \in Items |-> IF ReceivesItem(blocks, b, i) THEN Unlimited ELSE 0]
    IN  IF b.id \in failing THEN NoResult ELSE SolveBlock(b, Goals(b, asked), supply)

(* applyTakeCredits: takes cover what their sources are known to leave. *)
TakeCredits(takes, needed, estimates) ==
    LET Cover(s, c) ==
            LET n == Lesser(Limit(c, s.left[c.from][c.item]), s.needed[c.item])
            IN  IF n <= 0 THEN s
                ELSE [left |-> [s.left EXCEPT ![c.from][c.item] = @ - n],
                      needed |-> [s.needed EXCEPT ![c.item] = @ - n],
                      credits |-> (c.id :> n) @@ s.credits]
    IN  FoldLeft(Cover, [left |-> estimates, needed |-> needed, credits |-> <<>>], InOrder(takes))

(* shareOut: what is needed, over the requests in order. *)
ShareOut(requests, needed) ==
    LET Give(s, c) ==
            LET n == Limit(c, s.needed[c.item])
            IN  [needed |-> [s.needed EXCEPT ![c.item] = @ - n], shares |-> (c.id :> n) @@ s.shares]
    IN  FoldLeft(Give, [needed |-> needed, shares |-> <<>>], InOrder(requests)).shares

AddShares(asked, shares, requests) ==
    FoldSet(LAMBDA c, a : [a EXCEPT ![c.from][c.item] = @ + shares[c.id]], asked, requests)

(* Consumers before their sources, and the sources of takes before the     *)
(* consumers of those, unless that closes a loop.                          *)
DemandEdges(blocks) ==
    LET asks == {[id |-> c.id, from |-> b.id, to |-> c.from] :
                    <<b, c>> \in {bc \in ToSet(blocks) \X UNION {b.conns : b \in ToSet(blocks)} :
                                     bc[2] \in Applicable(blocks, bc[1])}}
        TakeEdge(E, e) == IF Reaches(E, e.to, e.from) THEN E ELSE E \cup {e}
        TakesOf(b) == LET s == InOrder(Takes(blocks, b))
                      IN  [n \in DOMAIN s |-> [id |-> s[n].id, from |-> s[n].from, to |-> b.id]]
    IN  FoldLeft(TakeEdge, asks, FlattenSeq([n \in DOMAIN blocks |-> TakesOf(blocks[n])]))

(* estimateTakeSource: what it leaves of the amounts asked of it. *)
Leftover(made, asked) == [i \in Items |-> Positive(made.net[i] - asked[i])]
Estimated(blocks, d, ids, failing) ==
    LET Of(b) == Leftover(Probe(blocks, Find(blocks, b), d.asked[b], failing), d.asked[b])
    IN  [d EXCEPT !.estimates = [b \in ids |-> Of(b)] @@ @]

(* A block outside any cycle of requests. *)
Asked(d, requests, taken, shares) ==
    [d EXCEPT !.asked = AddShares(@, shares, requests), !.estimates = taken.left,
              !.shares = shares @@ @, !.credits = taken.credits @@ @]
AskedFor(d, requests, taken) == Asked(d, requests, taken, ShareOut(requests, taken.needed))
DemandOfBlock(blocks, d, b, failing) ==
    IF Applicable(blocks, b) = {} THEN d
    ELSE AskedFor(d, Applicable(blocks, b),
                  TakeCredits(Takes(blocks, b), Probe(blocks, b, d.asked[b.id], failing).taken, d.estimates))

(* One round of a cycle: the members in order, the requests that close it  *)
(* reading `input`, or taking no share at all.                             *)
Closing(blocks, loop, b) == {c \in Applicable(blocks, b) : c.id \in loop.back}
RoundOf(r, loop, requests, taken, shares) ==
    LET forward == {c \in requests : c.from \in ToSet(loop.ids) /\ c.id \notin loop.back}
    IN  [left |-> taken.left, credits |-> taken.credits @@ r.credits,
         shares |-> shares @@ r.shares, asked |-> AddShares(r.asked, shares, forward)]
RoundFor(r, loop, requests, taken) == RoundOf(r, loop, requests, taken, ShareOut(requests, taken.needed))
DemandRound(blocks, d, loop, input, skipBack, failing) ==
    LET closing == UNION {Closing(blocks, loop, Find(blocks, id)) : id \in ToSet(loop.ids)}
        AskedOf(r, id) == AddShares(r.asked, input, {c \in closing : c.from = id})[id]
        Requests(b) == Applicable(blocks, b) \ IF skipBack THEN Closing(blocks, loop, b) ELSE {}
        Member(r, b) ==
            RoundFor(r, loop, Requests(b),
                     TakeCredits(Takes(blocks, b), Probe(blocks, b, AskedOf(r, b.id), failing).taken, r.left))
    IN  FoldLeft(LAMBDA r, id : Member(r, Find(blocks, id)),
                 [left |-> d.estimates, credits |-> <<>>, shares |-> <<>>, asked |-> d.asked], loop.ids)

(* The rounds of a cycle: until the closing requests ask what they were    *)
(* given, the limit is met, or they grow for too long.  After two rounds   *)
(* of a settling cycle the next input is extrapolated, rounded down.       *)
Gap(m, n) == IF m > n THEN m - n ELSE n - m
Change(out, input) == Max({0} \cup {Gap(out[id], input[id]) : id \in DOMAIN out})
Compares(at) == at.plain /\ at.change > 0
Speeds(at, change) == Compares(at) /\ change < at.change /\ at.speeds
Growing(at, change) ==
    IF ~Compares(at) THEN at.growing ELSE IF change >= at.change THEN at.growing + 1 ELSE 0

(* The closing requests with a limit keep to it. *)
Ahead(at, out, change, requests) ==
    LET MaxOf(id) == CHOOSE c \in requests : c.id = id
        Next(id) == out[id] + IF Speeds(at, change)
                              THEN ((out[id] - at.input[id]) * change) \div (at.change - change) ELSE 0
    IN  [id \in DOMAIN out |-> Limit(MaxOf(id), Positive(Next(id)))]
NextRound(at, out, change, requests) ==
    [at EXCEPT !.round = @ + 1, !.input = Ahead(at, out, change, requests),
               !.out = IF Speeds(at, change) THEN out ELSE Nothing, !.plain = ~Speeds(at, change),
               !.change = change, !.growing = Growing(at, change)]
(* A round that failed after an extrapolation goes on from the round before. *)
PlainRound(at) ==
    [at EXCEPT !.round = @ + 1, !.input = at.out, !.out = Nothing, !.plain = TRUE, !.change = 0,
               !.speeds = FALSE]

LoopRequests(blocks, loop) == UNION {Applicable(blocks, Find(blocks, b)) : b \in ToSet(loop.ids)}
RECURSIVE DemandRounds(_, _, _, _, _)
DemandRounds(blocks, d, loop, at, failing) ==
    LET Settled(last, out, change) ==
            IF at.out # Nothing /\ ToSet(loop.ids) \cap failing # {}
            THEN IF at.round >= RequestRounds THEN [last |-> last, settled |-> FALSE]
                 ELSE DemandRounds(blocks, d, loop, PlainRound(at), failing)
            ELSE IF out = at.input \/ at.round >= RequestRounds \/ Growing(at, change) >= GrowthRounds
            THEN [last |-> last, settled |-> out = at.input]
            ELSE DemandRounds(blocks, d, loop,
                              NextRound(at, out, change, LoopRequests(blocks, loop)), failing)
        Compared(last, out) == Settled(last, out, Change(out, at.input))
        Closed(last) == Compared(last, [id \in loop.back |-> last.shares[id]])
    IN  Closed(DemandRound(blocks, d, loop, at.input, FALSE, failing))

(* A cycle that does not settle is round 1 without what closes it. *)
Nil(loop) == [id \in loop.back |-> 0]
KeptRequests(blocks, loop, settled) ==
    {c \in LoopRequests(blocks, loop) : settled \/ c.id \notin loop.back}
KeptRound(d, loop, settled, kept, requests) ==
    [d EXCEPT !.asked = AddShares(@, kept.shares, requests),
              !.shares = Restrict(kept.shares, {c.id : c \in requests}) @@ @,
              !.credits = kept.credits @@ @, !.estimates = kept.left,
              !.unsettled = IF settled THEN @ ELSE @ \cup {ToSet(loop.ids)}]
DemandOfLoop(blocks, d, loop, failing) ==
    LET KeepRound(rounds) ==
            KeptRound(d, loop, rounds.settled,
                      IF rounds.settled THEN rounds.last
                      ELSE DemandRound(blocks, d, loop, Nil(loop), TRUE, failing),
                      KeptRequests(blocks, loop, rounds.settled))
    IN  KeepRound(DemandRounds(blocks, d, loop,
                  [round |-> 1, input |-> Nil(loop), out |-> Nothing, plain |-> FALSE, change |-> 0,
                   growing |-> 0, speeds |-> TRUE], failing))

(* computeRequests: what is asked of each block, the share of each request *)
(* that counts, the credit of takes, and the cycles that did not settle.   *)
NoDemand(ids) ==
    [asked |-> Zeros(ids), estimates |-> Zeros(ids), shares |-> <<>>, credits |-> <<>>, unsettled |-> {}]
TakeSources(blocks, edges) ==
    LET takes == {c.id : c \in UNION {Takes(blocks, b) : b \in ToSet(blocks)}}
    IN  {e.from : e \in {e \in edges : e.id \in takes}}
DemandOver(blocks, failing, edges) ==
    LET Component(d, loop) ==
            Estimated(blocks,
                IF IsLoop(loop) THEN DemandOfLoop(blocks, d, loop, failing)
                ELSE DemandOfBlock(blocks, d, Find(blocks, loop.ids[1]), failing),
                ToSet(loop.ids) \cap TakeSources(blocks, edges), failing)
    IN  FoldLeft(Component, NoDemand(IdSet(blocks)), OrderBlocks(PlanIds(blocks), edges))
Demand(blocks, failing) == DemandOver(blocks, failing, DemandEdges(blocks))

-----------------------------------------------------------------------------
(* Supply (solveAll).                                                      *)

ShareOf(d, c) == IF c.id \in DOMAIN d.shares THEN d.shares[c.id]
                 ELSE IF c.id \in DOMAIN d.credits THEN d.credits[c.id] ELSE 0

(* Every offer of a source is read before any of it is drawn. *)
Offer(c, share, remaining, pending) ==
    Limit(c, ConnectionOffer(remaining[c.from][c.item], pending[c.from][c.item], share))
SharesOf(blocks, d, b) == [c \in Live(blocks, b) |-> IF Repeats(blocks, b, c) THEN 0 ELSE ShareOf(d, c)]
OffersTo(blocks, b, shares, remaining, pending) ==
    [c \in Live(blocks, b) |-> IF Repeats(blocks, b, c) THEN 0 ELSE Offer(c, shares[c], remaining, pending)]

(* What was taken, over the connections in order: the shares are delivered *)
(* first, then the rest of the offers.                                     *)
Deliver(taken, shares, offers) ==
    LET Give(s, c, most) ==
            LET n == Lesser(s.left[c.item], most)
            IN  [left |-> [s.left EXCEPT ![c.item] = @ - n], rate |-> [s.rate EXCEPT ![c] = @ + n]]
        Shared(s, c) == Give(s, c, Lesser(shares[c], offers[c]))
        Rest(s, c) == Give(s, c, offers[c] - s.rate[c])
        none == [left |-> taken, rate |-> [c \in DOMAIN offers |-> 0]]
        conns == InOrder(DOMAIN offers)
    IN  FoldLeft(Rest, FoldLeft(Shared, none, conns), conns).rate

(* solveStep: one block against what its sources have left.  `pending` is  *)
(* what unserved shares still hold.                                        *)
Stepped(b, d, shares, solved, rates, remaining, pending) ==
    LET Draw(c, r) == [r EXCEPT ![c.from][c.item] = @ - rates[c]]
        Serve(c, p) == [p EXCEPT ![c.from][c.item] = Positive(@ - shares[c])]
    IN  [net |-> solved.net,
         offers |-> [i \in Items |-> Positive(solved.net[i])],
         flows |-> {[id |-> c.id, from |-> c.from, to |-> b.id, item |-> c.item, rate |-> rates[c],
                     requested |-> IF c.id \in DOMAIN d.shares THEN d.shares[c.id] ELSE Nothing] :
                       c \in DOMAIN rates},
         remaining |-> FoldSet(Draw, remaining, DOMAIN rates),
         pending |-> FoldSet(Serve, pending, DOMAIN rates)]
StepOf(b, d, failing, shares, offers, remaining, pending) ==
    LET supply == [i \in Items |-> Total({c \in DOMAIN offers : c.item = i}, LAMBDA c : offers[c])]
        With(solved) ==
            Stepped(b, d, shares, solved, Deliver(solved.taken, shares, offers), remaining, pending)
    IN  With(IF b.id \in failing THEN NoResult ELSE SolveBlock(b, Goals(b, d.asked[b.id]), supply))
StepWith(blocks, d, b, shares, remaining, pending, failing) ==
    StepOf(b, d, failing, shares, OffersTo(blocks, b, shares, remaining, pending), remaining, pending)
SolveStep(blocks, d, b, remaining, pending, failing) ==
    StepWith(blocks, d, b, SharesOf(blocks, d, b), remaining, pending, failing)

(* A round of a loop: the members in order, against what the others have   *)
(* left and the members' offers of the round before.                       *)
MemberOf(r, id, step, prev) ==
    LET drawn == [i \in Items |-> prev[id][i] - r.remaining[id][i]]
    IN  [remaining |-> [step.remaining EXCEPT
                          ![id] = [i \in Items |-> Positive(step.offers[i] - drawn[i])]],
         pending |-> step.pending,
         offers |-> (id :> step.offers) @@ r.offers,
         net |-> (id :> step.net) @@ r.net,
         flows |-> step.flows \cup r.flows]
SupplyRound(blocks, d, members, s, prev, failing) ==
    LET Member(r, id) ==
            MemberOf(r, id, SolveStep(blocks, d, Find(blocks, id), r.remaining, r.pending, failing), prev)
    IN  FoldLeft(Member, [remaining |-> prev @@ s.remaining, pending |-> s.pending, offers |-> <<>>,
                          net |-> <<>>, flows |-> {}], members)

(* Until the offers carried backwards stop changing (backOffersSettled).   *)
BackSettled(blocks, loop, prev, offers) ==
    LET back == {c \in UNION {Find(blocks, id).conns : id \in ToSet(loop.ids)} : c.id \in loop.back}
    IN  \A c \in back : prev[c.from][c.item] = offers[c.from][c.item]
RECURSIVE SupplyRounds(_, _, _, _, _, _, _)
SupplyRounds(blocks, d, loop, s, prev, round, failing) ==
    LET After(r, settled) ==
            IF settled \/ round >= LoopRounds THEN [result |-> r, settled |-> settled]
            ELSE SupplyRounds(blocks, d, loop, s, r.offers, round + 1, failing)
        Ended(r) == After(r, BackSettled(blocks, loop, prev, r.offers))
    IN  Ended(SupplyRound(blocks, d, loop.ids, s, prev, failing))

SupplyEdges(blocks) ==
    UNION {{[id |-> c.id, from |-> c.from, to |-> b.id] : c \in Live(blocks, b)} : b \in ToSet(blocks)}

(* solveAll: the net output of each block, the flow of each connection,    *)
(* and the loops of supply and cycles of requests that did not settle.     *)
Reserved(blocks, d) ==
    LET all == UNION {{<<b, c>> : c \in b.conns} : b \in ToSet(blocks)}
    IN  FoldSet(LAMBDA bc, p : [p EXCEPT ![bc[2].from][bc[2].item] = @ + ShareOf(d, bc[2])],
                Zeros(IdSet(blocks)), {bc \in all : bc[2] \in Live(blocks, bc[1])})
Merge(s, loop, r, settled) ==
    [remaining |-> r.remaining, pending |-> r.pending, net |-> r.net @@ s.net,
     flows |-> r.flows \cup s.flows,
     loops |-> IF settled THEN s.loops ELSE s.loops \cup {ToSet(loop.ids)}]
Solved(blocks, d, failing) ==
    LET Component(s, loop) ==
            LET Merged(round) == Merge(s, loop, round.result, round.settled)
            IN  Merged(SupplyRounds(blocks, d, loop, s, Zeros(ToSet(loop.ids)), 1, failing))
        start == [remaining |-> Zeros(IdSet(blocks)), pending |-> Reserved(blocks, d), net |-> <<>>,
                  flows |-> {}, loops |-> {}]
        Shown(s) == [net |-> s.net, flows |-> s.flows, loops |-> s.loops, requestLoops |-> d.unsettled]
    IN  Shown(FoldLeft(Component, start, OrderBlocks(PlanIds(blocks), SupplyEdges(blocks))))
SolveAll(blocks, failing) == Solved(blocks, Demand(blocks, failing), failing)

-----------------------------------------------------------------------------
(* What a solved plan owes its connections.  Outside a loop that did not   *)
(* settle, no source gives more of an item than it makes; and what a       *)
(* request asked for is delivered, whoever else draws on the source,       *)
(* unless one of the two blocks failed, a loop did not settle, or the      *)
(* source has no row for the item or two products of it.                   *)
GivenBy(s, id, i) == Total({f \in s.flows : f.from = id /\ f.item = i}, LAMBDA f : f.rate)
NoOverdraw(blocks, s) ==
    \A id \in IdSet(blocks), i \in Items :
      GivenBy(s, id, i) > 0 => GivenBy(s, id, i) <= s.net[id][i] \/ \E loop \in s.loops : id \in loop
CanMake(b, i) == /\ Cardinality({n \in DOMAIN b.products : b.products[n].item = i}) = 1
                 /\ \E r \in Rows(b) : i \in Makes[r]
RequestsServed(blocks, failing, s) ==
    s.loops = {} =>
      \A f \in s.flows :
        f.requested # Nothing /\ {f.from, f.to} \cap failing = {} /\ CanMake(Find(blocks, f.from), f.item) =>
          f.rate = f.requested
WellSolved(blocks, failing, s) == NoOverdraw(blocks, s) /\ RequestsServed(blocks, failing, s)
=============================================================================
