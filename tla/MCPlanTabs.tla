----------------------------- MODULE MCPlanTabs -----------------------------
(* Small instances of PlanTabs: one data set served with the planner and   *)
(* one upload, the tabs being interchangeable.  And the reading of small   *)
(* plan files of old and new versions, and mended ones.                    *)
EXTENDS PlanTabs, SequencesExt
LOCAL P == INSTANCE PlanFile

TabSymmetry == Permutations(Tabs)

-----------------------------------------------------------------------------
(* Trees of four plans, stored in any way, with the handle of each, if it  *)
(* has one, in any plan, and maybe a second handle of plan 2 in plan 4.    *)

LOCAL Subs == 2..4
LOCAL Tree(parent, shown, twice) ==
    LET In(p) == SetToSeq({q \in Subs : shown[q] = p}) \o IF twice /\ p = 4 THEN <<2>> ELSE <<>>
        Plan(p) == [P!SubPlan("plan", [n \in DOMAIN In(p) |-> P!Handle(10 * p + n, In(p)[n])])
                       EXCEPT !.subs = SetToSeq({q \in Subs : parent[q] = p})]
    IN  [p \in 1..4 |-> Plan(p)]
LOCAL TreesStored == {parent \in [Subs -> 1..4] : P!Branch(Tree(parent, parent, FALSE), 1) = 1..4}
LOCAL Trees == {Tree(parent, shown, twice) : parent \in TreesStored, shown \in [Subs -> 0..4], twice \in BOOLEAN}

(* The homes of the handles make a tree. *)
LOCAL Sound(t) == P!Branch(P!Rehomed(t, [q \in Subs |-> P!HomeOf(t, 1, q)]), 1) = 1..4

(* Mending a plan loses no sub-plan, stores none twice, and leaves every   *)
(* row where it is, even if the handles go round in a circle.              *)
ASSUME MendingKeepsAll ==
    \A t \in Trees :
        LET m == P!ReparentSubPlans(t, 1)
        IN  /\ P!Branch(m, 1) = 1..4
            /\ \A q \in Subs : Cardinality({<<p, n>> \in (1..4) \X (1..3) : n \in DOMAIN m[p].subs /\ m[p].subs[n] = q}) = 1
            /\ \A p \in 1..4 : m[p].rows = t[p].rows

(* Unless they do, each sub-plan ends in the plan that shows it first, and *)
(* mending again changes nothing if no plan shows it a second time.        *)
ASSUME MendingSettles ==
    \A t \in {t \in Trees : Sound(t)} :
        LET m == P!ReparentSubPlans(t, 1)
        IN  /\ \A q \in Subs : P!Parent(m, q) = P!HomeOf(t, 1, q)
            /\ (\A q \in Subs : Len(P!FirstHolder(t, 1, q)) <= 1) => P!ReparentSubPlans(m, 1) = m

(* What the editor writes, each sub-plan in the plan that shows it, is     *)
(* read back as it was.                                                    *)
ASSUME MendingKeepsGood ==
    \A t \in {Tree(parent, parent, FALSE) : parent \in TreesStored} : P!ReparentSubPlans(t, 1) = t

-----------------------------------------------------------------------------
(* Files of two or three blocks.                                           *)

LOCAL Palette == <<"red", "green", "blue">>
LOCAL Items == {"gear", "wire"}
LOCAL Goal(i, n) == [item |-> i, rate |-> n]
LOCAL NoGoals == [p \in {1, 2} |-> P!NoLegacy]
LOCAL OldGoals ==
    1 :> [goals |-> <<Goal("gear", 1), Goal("wire", 0)>>, locks |-> {"wire"}]
    @@ 2 :> [goals |-> <<Goal("wire", 2), Goal("gear", 2)>>, locks |-> {}]
LOCAL Bare(id, old, conns) ==
    [id |-> id, root |-> 1, conns |-> conns, legacy |-> old,
     plans |-> 1 :> [P!SubPlan("root", <<P!Row(10 * id, "r"), P!Handle(10 * id + 1, 2)>>) EXCEPT !.subs = <<2>>]
               @@ 2 :> P!SubPlan("sub", <<>>)]
LOCAL Old(id, conns) == ("goals" :> <<Goal("wire", 1)>>) @@ ("firsts" :> {"wire"}) @@ Bare(id, NoGoals, conns)
LOCAL Oldest(id, conns) == Bare(id, OldGoals, conns)
LOCAL New(id, color, conns) ==
    ("products" :> <<[item |-> "gear", extra |-> 0]>>) @@ ("locks" :> {"gear"}) @@ ("color" :> color)
    @@ ("sourcing" :> ("wire" :> "byproducts-first" @@ "gear" :> "later mode")) @@ Bare(id, NoGoals, conns)
LOCAL Conn(i, from, pull) == [item |-> i, from |-> from, pull |-> pull]
LOCAL Conns ==
    {<<>>} \cup {<<Conn(i, from, pull)>> : i \in Items, from \in {1, 2, 3, 9}, pull \in BOOLEAN}
    \cup {<<Conn("gear", 2, FALSE), Conn("gear", 2, TRUE)>>, <<Conn("wire", 2, TRUE), Conn("gear", 3, TRUE)>>}
LOCAL Files ==
    {<<Old(1, c), Oldest(2, d), New(3, "green", e)>> :
        c \in Conns, d \in {<<>>, <<Conn("wire", 3, TRUE)>>, <<Conn("gear", 1, FALSE)>>},
        e \in {<<>>} \cup {<<Conn(i, from, TRUE)>> : i \in Items, from \in {1, 2}}}
LOCAL Read(raw) == P!ReadBlocks(Palette, raw)

(* Reading what was read changes nothing: no migration runs twice. *)
ASSUME ReadingSettles == \A raw \in Files : Read(Read(raw)) = Read(raw)

(* What was deleted after a plan was read does not come back when it is    *)
(* saved and read again: the goals and pulls of older versions are used    *)
(* up, and not read off the sub-plans again.                               *)
ASSUME DeletedStaysDeleted ==
    \A raw \in Files :
        LET read == Read(raw)
            cleared == [n \in DOMAIN read |-> [read[n] EXCEPT !.products = <<>>, !.locks = {}]]
        IN  Read(cleared) = cleared

(* A block that was pulled from makes the item afterwards, once, unless it *)
(* gets the item itself; and no product a block had is changed for it.     *)
ASSUME PullsAreRequests ==
    \A raw \in Files :
        LET read == Read(raw)
            Before(n) == P!MigrateProducts(raw[n])
        IN  /\ \A n \in DOMAIN raw, s \in DOMAIN raw, i \in Items :
                  (n # s /\ SelectSeq(raw[n].conns, LAMBDA c : c.from = s /\ c.item = i)
                                \in {<<Conn(i, s, TRUE)>>, <<Conn(i, s, TRUE), Conn(i, s, FALSE)>>}) =>
                      P!MakesProduct(read[s], i) \/ P!ReceivesFromOthers(read, read[s], i)
            /\ \A s \in DOMAIN raw, i \in Items :
                  P!ReceivesFromOthers(read, read[s], i) =>
                      P!MakesProduct(read[s], i) = \E k \in DOMAIN Before(s) : Before(s)[k].item = i
            /\ \A n \in DOMAIN raw :
                  /\ Before(n) = SubSeq(read[n].products, 1, Len(Before(n)))
                  /\ Cardinality({p.item : p \in ToSet(read[n].products)}) = Len(read[n].products)

(* Every block gets a colour: its own if it had one, and while the palette *)
(* lasts one that no other block has.                                      *)
ASSUME ColorsDiffer ==
    \A colors \in [1..4 -> {"none", "red", "blue", "grey"}] :
        LET raw == [n \in 1..4 |-> IF colors[n] = "none" THEN [id |-> n] ELSE [id |-> n, color |-> colors[n]]]
            done == P!AssignMissingBlockColors(Palette, raw)
            free == Cardinality(ToSet(Palette) \ P!Colors(raw))
            drawn == {n \in 1..4 : colors[n] = "none"}
        IN  /\ \A n \in 1..4 : IF n \in drawn THEN done[n].color \in ToSet(Palette) ELSE done[n] = raw[n]
            /\ Cardinality(drawn) <= free =>
                  \A m \in drawn, n \in 1..4 : m # n => done[m].color # done[n].color

(* An imported plan opens on a block it has, and it is refused when two of *)
(* its rows could not be told apart.                                       *)
ASSUME ImportChecks ==
    \A raw \in Files, active \in {1, 9}, same \in BOOLEAN :
        LET file == [blocks |-> IF same THEN [raw EXCEPT ![1].id = raw[2].id] ELSE raw, active |-> active]
            import == P!CheckPlanImport(Palette, file, {"r"}, {"gear"}, "vanilla")
        IN  IF same THEN import.type = "error"
            ELSE /\ import.active \in P!BlockIds(import.blocks)
                 /\ import.unknown = {"wire"} \cap UNION {{p.item : p \in ToSet(b.products)} : b \in ToSet(import.blocks)}
=============================================================================
