------------------------------ MODULE PlanTabs ------------------------------
(* The tabs of one browser over its saved plans: the operators of PlanStore *)
(* run by the player, by game data that finishes loading, and by storage    *)
(* events; tabs close, die while they migrate, and storage refuses writes.  *)
EXTENDS PlanStore

CONSTANTS
    Tabs,
    MaxEdits, MaxActions, MaxRefusals, MaxReloads   \* bounds

ASSUME PlanTabsAssumption ==
    /\ Tabs # {} /\ 0 \notin Tabs /\ MaxPlans > 1
    /\ MaxEdits \in Nat /\ MaxActions \in Nat
    /\ MaxRefusals \in Nat /\ MaxReloads \in Nat

VARIABLES
    index, docs, legacy,    \* the storage: lists, plans, plans of old versions
    copies,                 \* keys whose unreadable value has a `:corrupt` copy
    choice,                 \* the data set a new tab loads
    tabs,
    next,                   \* the next plan id drawn
    uncopied,               \* history: keys whose `:corrupt` copy was refused
    writer,                 \* history: the tab that wrote a plan's key last, or 0
    deleted, gone,          \* history: plans deleted; those storage has dropped
    unlisted,               \* history: plans some tab could not list in storage
    spent                   \* what is left of the bounds

storage == <<index, docs, legacy, copies>>
history == <<uncopied, writer, deleted, gone, unlisted>>
vars == <<storage, choice, tabs, next, history, spent>>

View(t, refuses) ==
    [index |-> index, docs |-> docs, legacy |-> legacy, copies |-> copies,
     next |-> next, uncopied |-> uncopied, writer |-> writer,
     deleted |-> deleted, gone |-> gone, unlisted |-> unlisted,
     tab |-> tabs[t], me |-> t, refuses |-> refuses]

(* A tab whose list changed in storage by another's hand is sent an event. *)
Heard(u, S) ==
    tabs[u].source = NoSource \/ S.index[tabs[u].source] = index[tabs[u].source]

Becomes(t, S) ==
    /\ index' = S.index /\ docs' = S.docs /\ legacy' = S.legacy /\ copies' = S.copies
    /\ next' = S.next /\ uncopied' = S.uncopied /\ writer' = S.writer
    /\ deleted' = S.deleted /\ gone' = S.gone /\ unlisted' = S.unlisted
    /\ tabs' = [u \in Tabs |-> IF u = t THEN S.tab
                               ELSE [tabs[u] EXCEPT !.told = @ /\ Heard(u, S)]]

(* The values an earlier version or a broken one left in storage. *)
Init ==
    /\ \E raw \in {Absent, Corrupt, Index(<<1, 2>>, 1)}, bad \in BOOLEAN, b \in Bundled :
         /\ index = [s \in Sources |-> IF s = b THEN raw ELSE Absent]
         /\ docs = [s \in Sources |-> [p \in Plans |->
                      IF s # b \/ raw = Absent \/ p > 2 THEN Absent
                      ELSE IF bad /\ p = 1 THEN Corrupt ELSE Content(p, 0)]]
    /\ legacy \in [Sources \cup {NoSource} -> {Absent, OldContent, Corrupt}]
    /\ Cardinality({s \in DOMAIN legacy : legacy[s] # Absent}
                   \cup {s \in Sources : index[s] = Corrupt \/ docs[s][1] = Corrupt}) <= 1
    /\ copies = {} /\ uncopied = {}
    /\ choice \in Sources
    /\ tabs = [t \in Tabs |-> NewTab(Status("loading", choice))]
    /\ next = 3
    /\ writer = [p \in Plans |-> 0] /\ deleted = {} /\ gone = {} /\ unlisted = {}
    /\ spent = [edits |-> 0, actions |-> 0, refusals |-> 0, reloads |-> 0]

-----------------------------------------------------------------------------
Spend(what, most) == spent[what] < most /\ spent' = [spent EXCEPT ![what] = @ + 1]
CanDraw == next < MaxPlans

(* Storage may be full: the writes of some kinds throw. *)
Runs(t, Op(_), what, most) ==
    \/ /\ Spend(what, most)
       /\ Becomes(t, Op(View(t, {})))
    \/ \E refuses \in (SUBSET {"index", "plan", "copy"}) \ {{}} :
         /\ spent.refusals < MaxRefusals
         /\ spent[what] < most
         /\ spent' = [spent EXCEPT ![what] = @ + 1, !.refusals = @ + 1]
         /\ Becomes(t, Op(View(t, refuses)))

(* The blocks can be edited only while the data on screen is loaded. *)
Edit(t) ==
    /\ IsLoaded(tabs[t])
    /\ Runs(t, LAMBDA S : EditBlocks(S, spent.edits + 1), "edits", MaxEdits)
    /\ UNCHANGED choice

Acts(t, Op(_)) ==
    /\ IsLoaded(tabs[t]) /\ CanDraw
    /\ Runs(t, Op, "actions", MaxActions)
    /\ UNCHANGED choice

Switch(t) == \E p \in Plans :
    /\ Contains(tabs[t].list, p)
    /\ Acts(t, LAMBDA S : SwitchPlan(S, p))
Create(t) == Acts(t, CreatePlan)
Duplicate(t) == Acts(t, DuplicatePlan)
Rename(t) == Acts(t, LAMBDA S : RenamePlan(S, tabs[t].active))
Delete(t) == Acts(t, LAMBDA S : DeletePlan(S, tabs[t].active))
Import(t) == Acts(t, LAMBDA S : ImportPlanAsNew(S, MaxEdits + 1))

(* selectServerDataset: the checked choice does nothing unless it failed. *)
PickBundled(t, s) ==
    /\ ~(tabs[t].status.kind # "error" /\ tabs[t].status.id = s)
    /\ Spend("actions", MaxActions)
    /\ LET R == RemoveCustomPlans(View(t, {}), NoSource)
       IN  Becomes(t, [R EXCEPT !.tab.status = Status("loading", s)])
    /\ choice' = s

(* handleUploadChange: the plans of other uploads stay until this one loads. *)
Upload(t, u) ==
    /\ Spend("actions", MaxActions)
    /\ tabs' = [tabs EXCEPT ![t].status = Status("loading", u)]
    /\ choice' = u
    /\ UNCHANGED <<storage, next, history>>

IsLoading(t) == tabs[t].status.kind = "loading"

(* The subscription to the game data: activate, and catch up when the data  *)
(* set was already active.                                                  *)
Load(S) ==
    LET s == S.tab.status.id
    IN  Sync(Activate([S EXCEPT !.tab.status = Status("loaded", s)], s))

DataLoaded(t) ==
    /\ IsLoading(t) /\ CanDraw
    /\ \E refuses \in SUBSET {"index", "plan", "copy"} :
         /\ refuses # {} => spent.refusals < MaxRefusals
         /\ Becomes(t, Load(View(t, refuses)))
         /\ spent' = IF refuses = {} THEN spent ELSE [spent EXCEPT !.refusals = @ + 1]
    /\ UNCHANGED choice

DataFails(t) ==
    /\ IsLoading(t)
    /\ tabs' = [tabs EXCEPT ![t].status = Status("error", @.id)]
    /\ UNCHANGED <<storage, choice, next, history, spent>>

(* The tab is closed and opened again, or another one opened in its place. *)
Reload(t) ==
    /\ Spend("reloads", MaxReloads)
    /\ tabs' = [tabs EXCEPT ![t] = NewTab(Status("loading", choice))]
    /\ UNCHANGED <<storage, choice, next, history>>

(* The tab dies between two writes of migrateLegacy. *)
DieMigrating(t) ==
    /\ IsLoading(t) /\ CanDraw
    /\ Spend("reloads", MaxReloads)
    /\ LET s == tabs[t].status.id
           P == Prepare(View(t, {}), s)
           list == StoredList(P, s)
           R == ReadIndex(P, s)
       IN  /\ s # tabs[t].source
           /\ R.legacy[LegacyKey(R, s, list)] # Absent
           /\ \E listed \in BOOLEAN :
                Becomes(t, [MigrateAndDie(R, s, list, listed) EXCEPT
                              !.tab = NewTab(Status("loading", choice))])
    /\ UNCHANGED choice

StorageEvent(t) ==
    /\ ~tabs[t].told /\ IsLoaded(tabs[t])
    /\ Becomes(t, Sync(View(t, {})))
    /\ UNCHANGED <<choice, spent>>

Next == \E t \in Tabs :
    \/ Edit(t)
    \/ Switch(t)
    \/ Create(t)
    \/ Duplicate(t)
    \/ Rename(t)
    \/ Delete(t)
    \/ Import(t)
    \/ \E s \in Bundled : PickBundled(t, s)
    \/ \E u \in Uploads : Upload(t, u)
    \/ DataLoaded(t)
    \/ DataFails(t)
    \/ Reload(t)
    \/ DieMigrating(t)
    \/ StorageEvent(t)

Spec == Init /\ [][Next]_vars

-----------------------------------------------------------------------------
(* A plan deleted in one tab, or dropped with its upload, never comes back: *)
(* a tab that was not told yet neither lists it again nor writes its key.   *)
(* Left out are plans that a tab held back because it could not list them.  *)
(* (syncPlanIndex before every write of saveAppState and of the actions)    *)
GoneIsGone ==
    \A s \in Sources, p \in gone \ unlisted :
        docs[s][p] = Absent /\ p \notin Listed(index[s])

(* A plan's key, and the screen of a tab on that plan, only ever hold what  *)
(* was made in that plan or migrated into it: the key that the autosave     *)
(* writes to and the plan on screen change in step.  (switchPlan,           *)
(* activateDataSet, the sync that moves a tab off a deleted plan)           *)
OwnContent ==
    /\ \A s \in Sources, p \in Plans :
         docs[s][p].kind = "plan" => docs[s][p].plan \in {p, 0}
    /\ \A t \in Tabs :
         tabs[t].source # NoSource => tabs[t].shown.plan \in {tabs[t].active, 0}

(* The tab that wrote a plan last, and is still on it, shows what is        *)
(* stored: no change of the screen misses the autosave.  A tab whose upload *)
(* was removed under it is left out, as are writes that storage refused.    *)
ScreenIsStored ==
    \A t \in Tabs :
        (IsLoaded(tabs[t]) /\ ~tabs[t].removed /\ writer[tabs[t].active] = t)
            => docs[tabs[t].source][tabs[t].active] = tabs[t].shown

(* A loaded tab that has handled its storage events lists what the shared   *)
(* index lists, in its order, and besides only plans whose index write was  *)
(* refused; the plan it shows is one of them.  A tab whose own last index   *)
(* write was refused (`unwritten`) is excused from the comparison until one *)
(* succeeds or it merges.                                                   *)
ListAgrees ==
    \A t \in Tabs :
        LET tab == tabs[t] IN
        tab.source # NoSource =>
            /\ Contains(tab.list, tab.active)
            /\ tab.pending \subseteq ToSet(tab.list)
            /\ (IsLoaded(tab) /\ tab.told /\ ~tab.unwritten /\ Readable(index[tab.source]))
                 => SelectSeq(tab.list, LAMBDA p : p \notin tab.pending)
                      = index[tab.source].plans

(* Merging the shared list moves a tab to another plan only when its own    *)
(* was deleted; a plan it could not list in storage is not taken for that.  *)
NoEviction ==
    [][\A t \in Tabs :
         StorageEvent(t) /\ tabs'[t].active # tabs[t].active
            => tabs[t].active \in deleted]_vars

(* A plan kept under a key of an older version leaves that key only once it *)
(* is a listed plan (or the `:corrupt` copy of one), or together with the   *)
(* upload it belonged to.  (migrateLegacy, with refused writes and crashes) *)
LegacyKept ==
    [][\A k \in DOMAIN legacy :
         legacy'[k] # legacy[k] =>
            \/ k \in Uploads /\ index'[k] = Absent
            \/ \E s \in Sources, p \in Plans :
                 /\ p \in Listed(index'[s])
                 /\ docs'[s][p] = legacy[k] \/ PlanKey(s, p) \in copies' \cup uncopied']_vars

(* What cannot be read is not overwritten before a copy of it was made, or  *)
(* at least refused.  (quarantine, for plans and for the index)             *)
UnreadableKept ==
    [][/\ \A s \in Sources, p \in Plans :
            docs[s][p] = Corrupt /\ docs'[s][p].kind = "plan"
                => PlanKey(s, p) \in copies' \cup uncopied'
       /\ \A s \in Sources :
            index[s] = Corrupt /\ Readable(index'[s])
                => IndexKey(s) \in copies' \cup uncopied']_vars

(* "Another tab removed this custom upload's index" is what the tab         *)
(* concludes when the index is gone, and it saves nothing from then on: a   *)
(* tab that is alone never gets there.                                      *)
OnlyOthersRemove == Cardinality(Tabs) = 1 => \A t \in Tabs : ~tabs[t].removed

=============================================================================
