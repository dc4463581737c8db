----------------------------- MODULE PlanStore -----------------------------
(* The saved plans (store/persistence.ts): every tab keeps a plan list and  *)
(* the plan on screen, and shares the browser's storage with the others.   *)
(* A handler runs to its end before another one touches the storage, so it *)
(* is an operator from a view, one tab and the storage, to a view; writes   *)
(* of the kinds in `refuses` throw while it runs.                           *)
EXTENDS Integers, SequencesExt

CONSTANTS
    Bundled,    \* data sets served with the planner
    Uploads,    \* data sets the player uploaded, by file name and mod set
    NoSource,
    MaxPlans    \* bound on the plan ids ever drawn

Sources == Bundled \cup Uploads

ASSUME PlanStoreAssumption ==
    /\ Bundled \cap Uploads = {} /\ NoSource \notin Sources
    /\ MaxPlans \in Nat \ {0}

Plans == 1 .. MaxPlans

(* What a plan key holds.  A plan's content is told apart by the plan it    *)
(* was made in, 0 for a value of an older version, and a count of edits.    *)
Absent == [kind |-> "absent"]
Corrupt == [kind |-> "corrupt"]
Content(plan, edit) == [kind |-> "plan", plan |-> plan, edit |-> edit]
Blank(plan) == Content(plan, 0)
OldContent == Content(0, 0)

(* An index is absent, corrupt, or a plan list and its active plan; a       *)
(* plan's name is left out, so renaming writes the list again.              *)
Index(plans, active) == [kind |-> "index", plans |-> plans, active |-> active]
Readable(raw) == raw.kind = "index"
Listed(raw) == IF Readable(raw) THEN ToSet(raw.plans) ELSE {}

Status(kind, id) == [kind |-> kind, id |-> id]

(* A tab before any data set has been activated in it. *)
NewTab(status) ==
    [source |-> NoSource, list |-> <<>>, active |-> 0, shown |-> Absent,
     pending |-> {}, synced |-> Absent, removed |-> FALSE, status |-> status,
     told |-> TRUE, unwritten |-> FALSE]

-----------------------------------------------------------------------------
(* Reading the shared list. *)

(* The data set of the tab's plan list is the one loaded. *)
IsLoaded(t) == t.source # NoSource /\ t.status = Status("loaded", t.source)

PositionOf(seq, e) == CHOOSE i \in DOMAIN seq : seq[i] = e

(* The stored list with the memory-only plans kept, each after the plan it  *)
(* followed in the tab's list.                                              *)
Place(plans, list, n) ==
    LET before == {i \in 1 .. n - 1 : Contains(plans, list[i])}
    IN  IF before = {} THEN Append(plans, list[n])
        ELSE InsertAt(plans, PositionOf(plans, list[Max(before)]) + 1, list[n])
MergeLists(stored, list, kept) ==
    LET placed[n \in 0 .. Len(list)] ==
            IF n = 0 THEN stored
            ELSE IF list[n] \in kept THEN Place(placed[n - 1], list, n) ELSE placed[n - 1]
    IN  placed[Len(list)]

(* The plan shown instead of one deleted elsewhere: the next surviving one, *)
(* else the previous one, else the first.                                   *)
Neighbour(list, active, plans) ==
    LET alive == {i \in DOMAIN list : Contains(plans, list[i])}
        after == {i \in alive : i > PositionOf(list, active)}
    IN  IF after # {} THEN list[Min(after)]
        ELSE IF alive # {} THEN list[Max(alive)] ELSE plans[1]

(* The active plan id in storage, 0 when there is no readable index. *)
StoredActive(S) ==
    IF IsLoaded(S.tab) /\ Readable(S.index[S.tab.source])
        THEN S.index[S.tab.source].active ELSE 0

-----------------------------------------------------------------------------
(* Writing. *)

PlanKey(s, p) == <<s, p>>
IndexKey(s) == <<s, 0>>

(* The raw value goes to the `:corrupt` key first; when that write is       *)
(* refused the original is left where it is.                                *)
QuarantinePlan(S, s, p) ==
    IF "copy" \in S.refuses
        THEN [S EXCEPT !.uncopied = @ \cup {PlanKey(s, p)}]
        ELSE [S EXCEPT !.copies = @ \cup {PlanKey(s, p)}, !.docs[s][p] = Absent]

QuarantineIndex(S, s) ==
    IF "copy" \in S.refuses
        THEN [S EXCEPT !.uncopied = @ \cup {IndexKey(s)}]
        ELSE [S EXCEPT !.copies = @ \cup {IndexKey(s)}, !.index[s] = Absent]

(* saveAppState past its guards: the screen goes to the active plan's key. *)
Stored(S) ==
    LET s == S.tab.source  p == S.tab.active IN
    IF S.tab.removed THEN S
    ELSE IF "plan" \in S.refuses THEN [S EXCEPT !.writer[p] = 0]
    ELSE [S EXCEPT !.docs[s][p] = S.tab.shown, !.writer[p] = S.me]

(* loadActivePlan up to the autosave its setAppState triggers: `raw` is the *)
(* stored value, or the old plan that could not be copied.                  *)
OpenedKeepingBad(S, raw) ==
    [S EXCEPT !.tab.shown = IF raw.kind = "plan" THEN raw ELSE Blank(S.tab.active)]

Opened(S, raw) ==
    LET s == S.tab.source  p == S.tab.active
        Q == IF raw = Corrupt THEN QuarantinePlan(S, s, p) ELSE S
    IN  [Q EXCEPT !.tab.shown = IF raw.kind = "plan" THEN raw ELSE Blank(p)]

ActiveDoc(S) == S.docs[S.tab.source][S.tab.active]

(* When its active plan was deleted elsewhere the next one is shown, and    *)
(* the deleted one not saved.                                               *)
Reopened(S) == Stored(Opened(S, ActiveDoc(S)))
Relisted(S, stored, plans, kept) ==
    LET t == S.tab
        Listing(active) == [S EXCEPT !.tab.list = plans, !.tab.active = active, !.tab.pending = kept,
                                     !.tab.synced = stored, !.tab.unwritten = FALSE]
    IN  IF Contains(plans, t.active) THEN Listing(t.active)
        ELSE Reopened(Listing(Neighbour(t.list, t.active, plans)))

(* A merge that takes a plan the stored list lacks for one deleted elsewhere. *)
MergedForgetting(S, stored) == Relisted(S, stored, stored.plans, {})

(* The tab's list after merging the stored one.                             *)
Merged(S, stored) ==
    LET kept == S.tab.pending \ ToSet(stored.plans)
    IN  Relisted(S, stored, MergeLists(stored.plans, S.tab.list, kept), kept)

Told(S) == [S EXCEPT !.tab.told = TRUE]

(* A sync that takes the stored list for unchanged by its active plan. *)
SyncByActive(S) ==
    LET t == S.tab  raw == IF t.source = NoSource THEN Absent ELSE S.index[t.source] IN
    IF ~IsLoaded(t) \/ ~Readable(raw) THEN S
    ELSE IF t.pending = {} /\ Readable(t.synced) /\ t.synced.active = raw.active THEN Told(S)
    ELSE Told(Merged(S, raw))

(* syncPlanIndex. *)
Sync(S) ==
    LET t == S.tab  raw == IF t.source = NoSource THEN Absent ELSE S.index[t.source] IN
    IF ~IsLoaded(t) THEN S
    ELSE IF raw = Absent
        THEN Told([S EXCEPT !.tab.removed =
                     @ \/ (t.source \in Uploads /\ ToSet(t.list) \ t.pending # {})])
    ELSE IF raw = Corrupt \/ (t.pending = {} /\ t.synced = raw) THEN Told(S)
    ELSE Told(Merged(S, raw))

(* Saving without looking at the shared list first. *)
SaveWithoutSync(S) ==
    IF S.tab.source = NoSource \/ S.tab.status.kind = "loading" THEN S ELSE Stored(S)

(* saveAppState: every change of the block store ends in one. *)
Save(S) ==
    IF S.tab.source = NoSource \/ S.tab.status.kind = "loading" THEN S ELSE Stored(Sync(S))

(* A change the autosave's subscription does not look at. *)
ShowUnsaved(S, content) == [S EXCEPT !.tab.shown = content]

(* setAppState, or any other change of the plan on screen. *)
Show(S, content) == Save([S EXCEPT !.tab.shown = content])
LoadActivePlan(S, raw) == Save(Opened(S, raw))

(* The plans that only this tab knows of, after a refused index write. *)
MarkUnwritten(S) ==
    LET unlisted == ToSet(S.tab.list) \ Listed(S.index[S.tab.source])
    IN  [S EXCEPT !.tab.pending = unlisted, !.tab.unwritten = TRUE,
                  !.unlisted = @ \cup unlisted]

(* persistIndex of this tab's list with `hint` as the stored active plan.   *)
(* The other tabs on this data set are sent a storage event.                *)
PersistIndex(S, hint) ==
    LET s == S.tab.source  written == Index(S.tab.list, hint) IN
    IF S.tab.removed \/ "index" \in S.refuses THEN MarkUnwritten(S)
    ELSE [S EXCEPT !.index[s] = written, !.tab.synced = written,
                   !.tab.pending = {}, !.tab.unwritten = FALSE]

(* commitIndex: the stored active plan is the last tab's that switched, and *)
(* stays unless this tab switches or drops it.                              *)
CommitIndex(S, list, active, changed) ==
    LET hint == IF ~changed /\ Contains(list, StoredActive(S)) THEN StoredActive(S) ELSE active
    IN  PersistIndex([S EXCEPT !.tab.list = list, !.tab.active = active], hint)

Fresh(S) == S.next
Drawn(S) == [S EXCEPT !.next = @ + 1]

-----------------------------------------------------------------------------
(* Activating a data set. *)

(* removeCustomPlans: every key of every upload but `keep`. *)
RemoveCustomPlans(S, keep) ==
    LET gone == Uploads \ {keep}
        listed == UNION {Listed(S.index[u]) : u \in gone}
    IN  [S EXCEPT
           !.index = [s \in Sources |-> IF s \in gone THEN Absent ELSE @[s]],
           !.docs = [s \in Sources |->
                       IF s \in gone THEN [p \in Plans |-> Absent] ELSE @[s]],
           !.legacy = [s \in DOMAIN @ |-> IF s \in gone THEN Absent ELSE @[s]],
           !.copies = {k \in @ : k[1] \notin gone},
           !.writer = [p \in Plans |-> IF \E u \in gone : S.docs[u][p] # Absent THEN 0 ELSE @[p]],
           !.deleted = @ \cup listed, !.gone = @ \cup listed]

(* recoverIndex: the plan keys found, in the order of their ids. *)
RecoverIndex(S, s) ==
    LET found[p \in 0 .. MaxPlans] ==
            IF p = 0 THEN <<>>
            ELSE IF S.docs[s][p] # Absent THEN Append(found[p - 1], p) ELSE found[p - 1]
    IN  found[MaxPlans]

(* readIndex, an unreadable index quarantined; the list is empty when there *)
(* is none.                                                                 *)
ReadIndex(S, s) == IF S.index[s] = Corrupt THEN QuarantineIndex(S, s) ELSE S
StoredList(S, s) ==
    IF Readable(S.index[s]) THEN S.index[s].plans
    ELSE IF S.index[s] = Corrupt THEN RecoverIndex(S, s)
    ELSE <<>>
FirstActive(S, s) ==
    IF Readable(S.index[s]) THEN S.index[s].active
    ELSE IF StoredList(S, s) = <<>> THEN 0 ELSE Head(StoredList(S, s))

(* The key of a plan stored before there were lists: the data set's own, or *)
(* with no list and no such key the one from before there were data sets.   *)
LegacyKey(S, s, list) ==
    IF S.legacy[s] = Absent /\ list = <<>> THEN NoSource ELSE s

(* adoptRaw and migrateLegacy: the raw value becomes a new active plan; its *)
(* old key is removed only after both writes.                               *)
MigrateEagerly(S, s, list) ==
    LET key == LegacyKey(S, s, list)  p == Fresh(S)  raw == S.legacy[key]
        index == Index(Append(list, p), p)
        N == [Drawn(S) EXCEPT !.legacy[key] = Absent]
    IN  IF {"plan", "index"} \cap S.refuses # {} THEN N
        ELSE [N EXCEPT !.docs[s][p] = raw, !.index[s] = index]

Migrate(S, s, list) ==
    LET key == LegacyKey(S, s, list)  p == Fresh(S)  raw == S.legacy[key]
        index == Index(Append(list, p), p)
    IN  IF {"plan", "index"} \cap S.refuses # {} THEN Drawn(S)
        ELSE [Drawn(S) EXCEPT !.docs[s][p] = raw, !.index[s] = index,
                              !.legacy[key] = Absent]

(* A tab that dies while it migrates leaves the new plan's key, and perhaps *)
(* the list, written, and the old key in place.                             *)
MigrateAndDie(S, s, list, listed) ==
    LET p == Fresh(S)  raw == S.legacy[LegacyKey(S, s, list)] IN
    [Drawn(S) EXCEPT !.docs[s][p] = raw,
                     !.index[s] = IF listed THEN Index(Append(list, p), p) ELSE @]

Prepare(S, s) == IF s \in Uploads THEN RemoveCustomPlans(S, s) ELSE S

(* activateDataSet: the list is in place, so that the autosave writes to    *)
(* the new plan's key, before the plan on screen is replaced.               *)
Activate(S, s) ==
    LET P == Prepare(S, s)
        list == StoredList(P, s)
        R == ReadIndex(P, s)
        raw == R.legacy[LegacyKey(R, s, list)]
        added == IF raw # Absent \/ list = <<>> THEN <<Fresh(R)>> ELSE <<>>
        active == IF added # <<>> THEN Fresh(R) ELSE FirstActive(P, s)
        N == CASE raw # Absent -> Migrate(R, s, list)
               [] raw = Absent /\ added # <<>> -> Drawn(R)
               [] OTHER -> R
        T == [NewTab(S.tab.status) EXCEPT !.source = s, !.list = list \o added,
                                          !.active = active, !.shown = S.tab.shown]
        A == [N EXCEPT !.tab = T]
        failed == raw # Absent /\ {"plan", "index"} \cap S.refuses # {}
    IN  IF s = S.tab.source THEN S
        ELSE IF failed THEN LoadActivePlan(MarkUnwritten(A), raw)
        ELSE LET I == PersistIndex(A, active) IN LoadActivePlan(I, ActiveDoc(I))

-----------------------------------------------------------------------------
(* The plan actions; the guard of each is that the listed data set is the   *)
(* one loaded.                                                              *)

(* The plan clicked on is shown before its key becomes the one written to. *)
SwitchingLate(M, p) ==
    IF p = M.tab.active \/ ~Contains(M.tab.list, p) THEN M
    ELSE CommitIndex(Show(Save(M), M.docs[M.tab.source][p]), M.tab.list, p, TRUE)
SwitchPlanLate(S, p) == SwitchingLate(Sync(S), p)

OpenActive(S) == LoadActivePlan(S, ActiveDoc(S))
Switching(S, M, p) ==
    IF p = M.tab.active
        THEN IF S.tab.active = p THEN M ELSE CommitIndex(M, M.tab.list, p, TRUE)
    ELSE IF ~Contains(M.tab.list, p) THEN M
    ELSE OpenActive(CommitIndex(Save(M), M.tab.list, p, TRUE))
SwitchPlan(S, p) == Switching(S, Sync(S), p)

(* A fresh plan, at its place in the list, becomes the active one.          *)
AddPlan(M, list, content) == Show(CommitIndex(Drawn(M), list, Fresh(M), TRUE), content)
AddLast(M, content) == AddPlan(M, Append(M.tab.list, Fresh(M)), content)
CreatePlan(S) == AddLast(Save(Sync(S)), Blank(Fresh(S)))

(* The copy gets fresh ids, so it is a content of the new plan. *)
Duplicating(S, M) ==
    IF M.tab.active # S.tab.active THEN M
    ELSE AddPlan(Save(M),
                 InsertAt(M.tab.list, PositionOf(M.tab.list, M.tab.active) + 1, Fresh(M)),
                 Content(Fresh(M), S.tab.shown.edit))
DuplicatePlan(S) == Duplicating(S, Sync(S))

Renaming(M, p) ==
    IF ~Contains(M.tab.list, p) THEN M ELSE CommitIndex(M, M.tab.list, M.tab.active, FALSE)
RenamePlan(S, p) == Renaming(Sync(S), p)

(* The key goes first; the only plan is replaced by a fresh one.  The plan  *)
(* is gone once storage has taken the list, too.                            *)
Dropping(M, p, list, at) ==
    LET active == IF p # M.tab.active THEN M.tab.active
                  ELSE list[IF at \in DOMAIN list THEN at ELSE Max({at - 1, 1})]
    IN  CommitIndex([M EXCEPT !.docs[M.tab.source][p] = Absent, !.writer[p] = 0,
                              !.deleted = @ \cup {p}], list, active, p = M.tab.active)
Dropped(C, p) == IF C.tab.unwritten THEN C ELSE [C EXCEPT !.gone = @ \cup {p}]
WithoutPlan(M, p, at) ==
    LET rest == RemoveAt(M.tab.list, at)
    IN  Dropped(IF rest = <<>> THEN Dropping(Drawn(M), p, <<Fresh(M)>>, at) ELSE Dropping(M, p, rest, at), p)
Deleting(M, p) ==
    IF ~Contains(M.tab.list, p) THEN M
    ELSE IF p = M.tab.active THEN OpenActive(WithoutPlan(M, p, PositionOf(M.tab.list, p)))
    ELSE WithoutPlan(M, p, PositionOf(M.tab.list, p))
DeletePlan(S, p) == Deleting(Sync(S), p)

ImportPlanAsNew(S, edit) == AddLast(Save(Sync(S)), Content(Fresh(S), edit))

(* A change of the plan on screen. *)
EditBlocks(S, edit) == Show(S, Content(S.tab.active, edit))

=============================================================================
